--------------------------- MODULE WorkspaceStore ---------------------------
(***************************************************************************)
(* The workspaces of server/workspace.rs: the transactions on the tables   *)
(* workspaces and workspace_sessions, run by handlers that hold the        *)
(* workspace_lifecycle mutex and decide by what they read before.          *)
(*                                                                         *)
(* A transaction is one step: SQLite runs those that write one after the   *)
(* other, and one whose reads are outdated when it writes fails.  Any may  *)
(* fail, and then nothing changes.  When the client goes away while        *)
(* a handler awaits its COMMIT, the mutex is free but the commit is on its *)
(* way: it keeps the write lock of the database until it lands.            *)
(*                                                                         *)
(* Names and times are left out.                                           *)
(***************************************************************************)
EXTENDS Integers, FiniteSets, Functions

CONSTANTS Sessions, Workspaces,
          NoSession, NoWorkspace, NoCommit, Free,
          MaxPosition     \* bound on the positions of members

ASSUME NoSessionAssumption == NoSession \notin Sessions
ASSUME NoWorkspaceAssumption == NoWorkspace \notin Workspaces
ASSUME BoundAssumption == MaxPosition \in Nat

VARIABLES
    db,         \* the tables: active session of each workspace, rows of members
    inflight,   \* what a COMMIT nobody waits for is going to make of db
    live,       \* the sessions that are eligible
    handler     \* the holder of the mutex, with what it knows

storeVars == <<db, inflight, live, handler>>

Positions == 0..MaxPosition

Rows == [session : Sessions, workspace : Workspaces, position : Positions]

Kinds == {"list", "create", "attach", "update"}

ASSUME FreeAssumption == Free \notin Kinds

-----------------------------------------------------------------------------
(* The constraints of the tables.                                          *)

OneRowPerSession(d) ==
    \A r, q \in d.rows : r.session = q.session => r = q

OneMemberPerPosition(d) ==
    \A r, q \in d.rows :
        r.workspace = q.workspace /\ r.position = q.position => r = q

RowsHaveWorkspace(d) == \A r \in d.rows : r.workspace \in DOMAIN d.active

ActiveIsMember(d) ==
    \A w \in DOMAIN d.active :
        d.active[w] # NoSession =>
            \E r \in d.rows : r.workspace = w /\ r.session = d.active[w]

Valid(d) ==
    /\ OneRowPerSession(d)
    /\ OneMemberPerPosition(d)
    /\ RowsHaveWorkspace(d)
    /\ ActiveIsMember(d)

-----------------------------------------------------------------------------
(* The statements.                                                         *)

Least(S) == CHOOSE n \in S : \A m \in S : n <= m

Members(d, w) == {r \in d.rows : r.workspace = w}

SessionAt(R, p) == (CHOOSE r \in R : r.position = p).session

\* The session of R with the lowest position.
Lowest(R) ==
    IF R = {} THEN NoSession ELSE SessionAt(R, Least({r.position : r \in R}))

NextPosition(d, w) ==
    Least({p \in 0..(MaxPosition + 1) : \A r \in Members(d, w) : r.position < p})

Row(s, w, p) == [session |-> s, workspace |-> w, position |-> p]

\* (Mutation: no other session becomes active.)
RepairCleared(d, S) ==
    LET rest == {r \in d.rows : r.session \notin S}
    IN  [active |-> [w \in DOMAIN d.active |->
                        IF d.active[w] \in S THEN NoSession ELSE d.active[w]],
         rows |-> rest]

\* repair_workspace of every workspace a session of S is taken from.
Repair(d, S) ==
    LET rest == {r \in d.rows : r.session \notin S}
        Left(w) == {r \in rest : r.workspace = w}
        affected == {r.workspace : r \in d.rows \ rest}
    IN  [active |-> [w \in DOMAIN d.active |->
                        IF /\ w \in affected
                           /\ d.active[w] # NoSession
                           /\ \A r \in Left(w) : r.session # d.active[w]
                        THEN Lowest(Left(w)) ELSE d.active[w]],
         rows |-> rest]

\* A workspace w with the members at the positions of list.
Insert(d, w, list) ==
    [active |-> [v \in DOMAIN d.active \cup {w} |->
                    IF v = w THEN (IF 0 \in DOMAIN list THEN list[0] ELSE NoSession)
                    ELSE d.active[v]],
     rows |-> d.rows \cup {Row(list[p], w, p) : p \in DOMAIN list}]

\* Each session of DOMAIN home gets the workspace home[s] for itself.
InsertSingletons(d, home) ==
    [active |-> [v \in DOMAIN d.active \cup Range(home) |->
                    IF v \in Range(home) THEN CHOOSE s \in DOMAIN home : home[s] = v
                    ELSE d.active[v]],
     rows |-> d.rows \cup {Row(s, home[s], 0) : s \in DOMAIN home}]

Owned(d) == {r.session : r \in d.rows}

\* Identifiers are random: none in use is drawn again.
NewIds == Workspaces \ (DOMAIN db.active \cup {handler.workspace})

\* What reconcile_transaction with the snapshot E, except for N, may make of
\* the tables.
Reconciled(E, N) ==
    {InsertSingletons(Repair(db, Owned(db) \ E), home) :
        home \in {f \in [(E \ Owned(db)) \ N -> NewIds] : IsInjective(f)}}

AttachMember(d, w, s) ==
    [active |-> [d.active EXCEPT ![w] = s],
     rows |-> d.rows \cup {Row(s, w, NextPosition(d, w))}]

Activate(d, w, s) == [active |-> [d.active EXCEPT ![w] = s], rows |-> d.rows]

\* (Mutation: always the first.)
FallbackFirst(R, p) == Lowest(R)

\* The member after the one at position p, else the first.
Fallback(R, p) ==
    LET after == {r \in R : r.position > p}
    IN  IF after # {} THEN Lowest(after) ELSE Lowest(R)

\* remove_member: if the active one goes, another takes its place.
RemoveMember(d, m) ==
    LET rest == d.rows \ {m}
        left == {r \in rest : r.workspace = m.workspace}
    IN  [active |-> [d.active EXCEPT ![m.workspace] =
                        IF @ = m.session THEN Fallback(left, m.position) ELSE @],
         rows |-> rest]

DeleteWorkspace(d, w) ==
    [active |-> [v \in DOMAIN d.active \ {w} |-> d.active[v]],
     rows |-> {r \in d.rows : r.workspace # w}]

-----------------------------------------------------------------------------
(* What the transactions of the handlers make of the tables.               *)

Creations ==
    {Insert(Repair(db, Range(list)), w, list) :
        w \in NewIds,
        list \in {f \in UNION {[0..(n - 1) -> handler.eligible] :
                                  n \in 0..Cardinality(handler.eligible)} : IsInjective(f)}}

Attachments ==
    LET s == handler.session
        w == handler.workspace
        D == Reconciled(handler.eligible, {s})
    IN  IF s \notin handler.eligible THEN D
        ELSE IF w = NoWorkspace
        THEN UNION {{InsertSingletons(d, [t \in {s} |-> v]) : v \in NewIds \ DOMAIN d.active} :
                       d \in D}
        ELSE {AttachMember(d, w, s) : d \in {e \in D : w \in DOMAIN e.active}}

Updates ==
    IF handler.workspace \in DOMAIN db.active
    THEN {Activate(db, handler.workspace, handler.session)} ELSE {}

Outcomes ==
    CASE handler.op = "list" -> Reconciled(handler.eligible, {})
      [] handler.op = "create" -> Creations
      [] handler.op = "attach" -> Attachments
      [] handler.op = "update" -> Updates
      [] OTHER -> {}

-----------------------------------------------------------------------------
(* How a transaction ends.                                                 *)

Unlocked ==
    [op |-> Free, eligible |-> {}, workspace |-> NoWorkspace, session |-> NoSession,
     disturbed |-> FALSE]

\* The bound on positions.
Fits(d) == \A r \in d.rows : r.position \in Positions

Committed(d) ==
    /\ inflight = NoCommit
    /\ Fits(d)
    /\ Valid(d)
    /\ db' = d
    /\ UNCHANGED inflight

\* The handler is dropped while its COMMIT is on its way.
Dropped(d) ==
    /\ inflight = NoCommit
    /\ Fits(d)
    /\ Valid(d)
    /\ inflight' = d
    /\ UNCHANGED db

-----------------------------------------------------------------------------
(* The handlers.                                                           *)

StoreInit ==
    /\ db = [active |-> [w \in {} |-> NoSession], rows |-> {}]
    /\ inflight = NoCommit
    /\ live = {}
    /\ handler = Unlocked

\* A handler takes the mutex and the snapshot of the eligible sessions.
Lock(op) ==
    /\ handler = Unlocked
    /\ handler' = [Unlocked EXCEPT !.op = op, !.eligible = live]
    /\ UNCHANGED <<db, inflight, live>>

\* A handler checks its workspace, if any, and starts a session, which may have
\* ended when it takes the snapshot.
LockNew(s, w) ==
    /\ handler = Unlocked
    /\ w \in DOMAIN db.active \cup {NoWorkspace}
    /\ s \notin live \cup Owned(db)
    /\ inflight # NoCommit => s \notin Owned(inflight)
    /\ live' \in {live, live \cup {s}}
    /\ handler' = [Unlocked EXCEPT !.op = "attach", !.eligible = live',
                                   !.workspace = w, !.session = s]
    /\ UNCHANGED <<db, inflight>>

\* (Mutation: member_belongs is not asked.)
LockUnchecked(w, s) ==
    /\ handler = Unlocked
    /\ w \in DOMAIN db.active
    /\ s # NoSession => s \in live
    /\ handler' = [Unlocked EXCEPT !.op = "update", !.workspace = w, !.session = s]
    /\ UNCHANGED <<db, inflight, live>>

\* The checks of update, outside of its transaction.
LockChecked(w, s) ==
    /\ handler = Unlocked
    /\ w \in DOMAIN db.active
    /\ s # NoSession => /\ s \in live
                        /\ \E r \in Members(db, w) : r.session = s
    /\ handler' = [Unlocked EXCEPT !.op = "update", !.workspace = w, !.session = s]
    /\ UNCHANGED <<db, inflight, live>>

\* The transaction of list, create, attach_session or update.
Transact ==
    /\ handler # Unlocked
    /\ \E d \in Outcomes : Committed(d) \/ Dropped(d)
    /\ handler' = Unlocked
    /\ UNCHANGED live

\* A transaction fails, its handler is dropped before the COMMIT, or it finds
\* that its workspace is gone.
GiveUp ==
    /\ handler # Unlocked
    /\ handler' = Unlocked
    /\ UNCHANGED <<db, inflight, live>>

\* remove_member, when a session is deleted or has ended: some handlers end it
\* before the transaction, some after it.
Leave(s) ==
    /\ handler = Unlocked
    /\ \E m \in db.rows :
          /\ m.session = s
          /\ \/ Committed(RemoveMember(db, m)) /\ live' = live \ {s}
             \/ Dropped(RemoveMember(db, m)) /\ live' \in {live, live \ {s}}
    /\ UNCHANGED handler

\* A deleted workspace takes its sessions along, unless its handler is dropped.
Remove(w) ==
    /\ handler = Unlocked
    /\ w \in DOMAIN db.active
    /\ \/ /\ Committed(DeleteWorkspace(db, w))
          /\ live' = live \ {r.session : r \in Members(db, w)}
       \/ Dropped(DeleteWorkspace(db, w)) /\ UNCHANGED live
    /\ UNCHANGED handler

\* The commit of a dropped handler succeeds or fails, perhaps after a handler
\* made its checks.
Land ==
    /\ inflight # NoCommit
    /\ db' \in {db, inflight}
    /\ inflight' = NoCommit
    /\ handler' = [handler EXCEPT !.disturbed = (handler.workspace # NoWorkspace)]
    /\ UNCHANGED live

\* A session ends by itself.
End(s) ==
    /\ s \in live
    /\ live' = live \ {s}
    /\ UNCHANGED <<db, inflight, handler>>

\* The server starts again, without sessions.
Restart ==
    /\ db' \in {db} \cup ({inflight} \ {NoCommit})
    /\ inflight' = NoCommit
    /\ live' = {}
    /\ handler' = Unlocked

StoreNext ==
    \/ \E op \in {"list", "create"} : Lock(op)
    \/ \E s \in Sessions, w \in Workspaces \cup {NoWorkspace} : LockNew(s, w)
    \/ \E w \in Workspaces, s \in Sessions \cup {NoSession} : LockChecked(w, s)
    \/ Transact
    \/ GiveUp
    \/ \E s \in Sessions : Leave(s) \/ End(s)
    \/ \E w \in Workspaces : Remove(w)
    \/ Land
    \/ Restart

StoreSpec == StoreInit /\ [][StoreNext]_storeVars

-----------------------------------------------------------------------------
(* Properties.                                                             *)

IsDB(d) ==
    \E W \in SUBSET Workspaces :
        d \in [active : [W -> Sessions \cup {NoSession}], rows : SUBSET Rows]

\* Type invariant: the tables, the commit on its way and the holder of the mutex.
StoreTypeOK ==
    /\ IsDB(db)
    /\ inflight # NoCommit => IsDB(inflight)
    /\ live \subseteq Sessions
    /\ handler \in [op : Kinds \cup {Free}, eligible : SUBSET Sessions,
                    workspace : Workspaces \cup {NoWorkspace},
                    session : Sessions \cup {NoSession}, disturbed : BOOLEAN]

\* Whatever happened since the snapshot, no transaction of list, create or
\* attach_session is refused by a constraint of the tables: the session that
\* attaches has no row, its position is free, a member of a new workspace leaves
\* the old one, and no workspace keeps an active session that left it.
HandlersKeepConstraints ==
    handler.op # "update" => \A d \in Outcomes : Valid(d)

\* No member that is removed, and no workspace that is deleted, makes the
\* tables break a constraint.
RemovalsKeepConstraints ==
    /\ \A m \in db.rows : Valid(RemoveMember(db, m))
    /\ \A w \in DOMAIN db.active : Valid(DeleteWorkspace(db, w))

\* Whatever runs under the mutex, no constraint of the tables is in its way: an
\* update, which trusts what it checked, is the subject of ChecksStayTrue.
TransactionsKeepConstraints == HandlersKeepConstraints /\ RemovalsKeepConstraints

\* What a handler checked before its transaction stays true, for the mutex keeps
\* others away: its workspace still exists, and the session an update activates
\* is still a member, unless the commit of a dropped handler landed in between.
ChecksStayTrue ==
    handler.workspace # NoWorkspace /\ ~handler.disturbed =>
        /\ handler.workspace \in DOMAIN db.active
        /\ \A d \in Outcomes : Valid(d)

\* So no constraint of the schema ever refuses what a handler promised its client
\* (workspace.rs, the deferred foreign key and the unique positions).
ConstraintsNeverRefuse == TransactionsKeepConstraints /\ ChecksStayTrue

=============================================================================
