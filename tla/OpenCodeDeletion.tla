-------------------------- MODULE OpenCodeDeletion --------------------------
(***************************************************************************)
(* Removing a conversation from OpenCode's database, whose schema is not   *)
(* the server's (history/opencode.rs, deletion_plan and                    *)
(* delete_generations_at).                                                 *)
(*                                                                         *)
(* A plan lists the rows that would go: the conversation with all that     *)
(* descend from it in either version's table, their events, and what the   *)
(* schema's foreign keys delete along.  It is made in one transaction and  *)
(* carried out in another, an exclusive one, which compares it with what   *)
(* it finds; OpenCode may write in between.                                *)
(***************************************************************************)
EXTENDS Naturals, FiniteSets

CONSTANTS
    Universe,       \* every row there may be: [table, key, of, up]
    Schemas,        \* sets of foreign keys: [child, by, parent, action]
    Root,           \* the id of the conversation that is removed
    EditLimit,      \* bound: writes of OpenCode between plan and deletion
    None

\* Rows with the same table and key are two contents of one row.  "of" is the
\* parent of a session and the session of an event, "up" the rows it refers to
\* by columns other than a session's parent_id.  "event" stands for the tables
\* event and event_sequence.
VARIABLES
    schema, rows, shared,   \* the database; the sessions that are shared
    plan,                   \* the plan, or None
    edits,                  \* writes since then
    outcome                 \* what became of the deletion

vars == <<schema, rows, shared, plan, edits, outcome>>

Sessions == {"session", "session_v2"}
Ids == {r.key : r \in {x \in Universe : x.table \in Sessions}}
Tables == {r.table : r \in Universe} \cup {f.child : f \in UNION Schemas} \cup {f.parent : f \in UNION Schemas}

\* A row's place: only one of the contents is there at a time.
Same(r, q) == r.table = q.table /\ r.key = q.key

\* supported_session_tree_foreign_key: a session refers to its parent.
IsTree(f) == f.child = f.parent /\ f.child \in Sessions /\ f.by = "parent_id"

Refers(r, f, q) ==
    /\ f.child = r.table /\ f.parent = q.table
    /\ IF IsTree(f) THEN r.of = q.key ELSE <<q.table, q.key>> \in r.up

ASSUME DeletionAssumption == IsFiniteSet(Universe) /\ None \notin Ids

Init ==
    /\ schema \in Schemas
    /\ rows \in {S \in SUBSET Universe : \A r, q \in S : Same(r, q) => r = q}
    /\ shared = {}
    /\ plan = None /\ edits = 0 /\ outcome = "none"

-----------------------------------------------------------------------------
(* The plan *)

\* The sessions that descend from the root, in the union of both tables.
Descendants(db) ==
    LET Children(S) == {r.key : r \in {x \in db : x.table \in Sessions /\ x.of \in S}}
    IN  {id \in Ids : \A S \in SUBSET Ids : Root \in S /\ Children(S) \subseteq S => id \in S}

Targets(db) == {r \in db : r.table \in Sessions /\ r.key \in Descendants(db)}
Events(db) == {r \in db : r.table = "event" /\ r.of \in {t.key : t \in Targets(db)}}

Cascades == {f \in schema : f.action = "CASCADE" /\ ~IsTree(f)}

\* The tables where rows go along with those of some tables.
ChildTables(S) == {f.child : f \in {x \in Cascades : x.parent \in S}}
Reached(S) == {t \in Tables : \A T \in SUBSET Tables : S \subseteq T /\ ChildTables(T) \subseteq T => t \in T}

\* (Mutation: references that are set to NULL are left alone.)
SupportedButNull(db) ==
    LET reached == Reached({t.table : t \in Targets(db)} \cup {"event"})
    IN  \A f \in schema : f.parent \in reached =>
            /\ f.action = "CASCADE" /\ ~IsTree(f) =>
                   f.child \notin Sessions /\ f.parent \notin Reached({f.child})

\* cascade_dependent_snapshots refuses what it cannot follow: a reference that
\* is set to NULL, a cycle, and a way back to the sessions.
Supported(db) ==
    LET reached == Reached({t.table : t \in Targets(db)} \cup {"event"})
    IN  \A f \in schema : f.parent \in reached =>
            /\ f.action # "SET NULL"
            /\ f.action = "CASCADE" /\ ~IsTree(f) =>
                   f.child \notin Sessions /\ f.parent \notin Reached({f.child})

\* The rows that refer to some rows, by certain foreign keys.
Referring(db, keys, S) ==
    {r \in db : \E f \in keys, q \in S : Refers(r, f, q)}

\* Some rows with all that refer to them, and to those, and so on.
With(db, keys, S) ==
    LET grown[i \in 0..Cardinality(db)] ==
            IF i = 0 THEN S ELSE grown[i - 1] \cup Referring(db, keys, grown[i - 1])
    IN  grown[Cardinality(db)]

\* An event of another session that goes along is no part of the plan: events
\* are listed by their session only.
Planned(db) ==
    LET gone == Targets(db) \cup Events(db)
    IN  [targets |-> Targets(db), events |-> Events(db),
         dependents |-> {r \in With(db, Cascades, gone) : r.table \notin Sessions \cup {"event"}}]

\* resumable_session_connection finds a conversation that is not part of another.
Found(db) == \E r \in db : r.table \in Sessions /\ r.key = Root /\ r.of = None

Plan ==
    /\ plan = None /\ Found(rows)
    /\ IF Supported(rows)
       THEN plan' = Planned(rows) /\ UNCHANGED outcome
       ELSE outcome' = "refused" /\ UNCHANGED plan
    /\ UNCHANGED <<schema, rows, shared, edits>>

-----------------------------------------------------------------------------
(* OpenCode *)

Edit(r) ==
    /\ plan # None /\ outcome = "none" /\ edits < EditLimit
    /\ rows' = IF r \in rows THEN rows \ {r} ELSE {q \in rows : ~Same(q, r)} \cup {r}
    /\ edits' = edits + 1
    /\ UNCHANGED <<schema, shared, plan, outcome>>

Share(id) ==
    /\ outcome = "none" /\ shared = {} /\ shared' = {id}
    /\ UNCHANGED <<schema, rows, plan, edits, outcome>>

-----------------------------------------------------------------------------
(* The deletion *)

\* child_first_generations: the two tables agree on parents, and every session
\* of the plan leads to the root, in so many steps.
Agrees(targets) == \A r, q \in targets : r.key = q.key => r.of = q.of

Keys(targets) == {r.key : r \in targets}

Depths(targets) ==
    {depth \in [Keys(targets) -> 0..Cardinality(Ids)] :
        \A r \in targets : IF r.key = Root THEN depth[r.key] = 0
                          ELSE r.of \in Keys(targets) /\ depth[r.key] = depth[r.of] + 1}

LeadsToRoot(targets) == Depths(targets) # {}

Deepest(targets, depth) == CHOOSE r \in targets : \A q \in targets : depth[q.key] <= depth[r.key]

\* What SQLite does when rows are deleted: some others go along, through the
\* sessions' own key too, references are set to NULL, or it is an error.
By(action) == {f \in schema : f.action = action}
Cleared(r, S) ==
    LET isNull(byTree) == {q \in S : \E f \in By("SET NULL") : Refers(r, f, q) /\ (IsTree(f) <=> byTree)}
    IN  [r EXCEPT !.of = IF isNull(TRUE) = {} THEN @ ELSE None,
                  !.up = @ \ {<<q.table, q.key>> : q \in isNull(FALSE)}]

Without(db, S) ==
    LET all == With(db, By("CASCADE"), S)
        null == Referring(db \ all, By("SET NULL"), all)
    IN  IF Referring(db \ all, By("NO ACTION"), all) # {} THEN [result |-> "failed", rows |-> db]
        ELSE [result |-> "deleted", rows |-> (db \ (all \cup null)) \cup {Cleared(r, all) : r \in null}]

\* One statement: the deepest session that is left, which must still be there.
DeleteSession(now, depth) ==
    LET r == Deepest(now.left, depth)
        after == Without(now.rows, {r})
    IN  IF now.result # "deleted" THEN now
        ELSE IF r \notin now.rows THEN [now EXCEPT !.result = "stale"]
        ELSE [result |-> after.result, rows |-> after.rows, left |-> now.left \ {r}]

Deleted(p) ==
    LET depth == CHOOSE d \in Depths(p.targets) : TRUE
        after[i \in 0..Cardinality(p.targets)] ==
            IF i = 0 THEN [result |-> "deleted", rows |-> rows, left |-> p.targets]
            ELSE DeleteSession(after[i - 1], depth)
        sessions == after[Cardinality(p.targets)]
    IN  IF sessions.result = "deleted" THEN Without(sessions.rows, p.events \cap sessions.rows)
        ELSE [result |-> sessions.result, rows |-> sessions.rows]

\* deletion_postconditions_hold.
NothingIsLeft(db, p) ==
    \A t \in p.targets, r \in db : r.table \in Sessions \cup {"event"} =>
        r.of # t.key /\ (r.table \in Sessions => r.key # t.key)

\* What the transaction ends with: the plan must still be what it would plan.
Result(p, after) ==
    IF p # Planned(rows) THEN "stale"
    ELSE IF shared \cap {t.key : t \in p.targets} # {} THEN "shared"
    ELSE IF ~Agrees(p.targets) \/ ~LeadsToRoot(p.targets) THEN "stale"
    ELSE IF after.result = "deleted" /\ ~NothingIsLeft(after.rows, p) THEN "stale"
    ELSE after.result

Commit ==
    /\ plan # None /\ outcome = "none"
    /\ LET after == Deleted(plan)
       IN  /\ outcome' = Result(plan, after)
           /\ rows' = IF outcome' = "deleted" THEN after.rows ELSE rows
    /\ UNCHANGED <<schema, shared, plan, edits>>

Next ==
    \/ Plan \/ Commit
    \/ \E r \in Universe : Edit(r)
    \/ \E id \in Ids : Share(id)

Spec == Init /\ [][Next]_vars

-----------------------------------------------------------------------------
PlannedRows == plan.targets \cup plan.events \cup plan.dependents

\* Events that a cascading foreign key ties to a row that goes.
TiedEvents(gone) == {r \in Referring(rows, Cascades, gone) : r.table = "event"}

\* A deletion takes all the rows of its plan, as they were planned, and changes
\* no other row; none goes along but events that are tied to a row that goes.
DeletesWhatWasPlanned ==
    [][outcome' = "deleted" /\ outcome = "none" =>
          LET gone == rows \ rows'
          IN  rows' \subseteq rows /\ PlannedRows \subseteq gone /\ gone \ PlannedRows \subseteq TiedEvents(gone)]_vars

\* It is refused for a reason: OpenCode wrote, the two tables contradict each
\* other, the conversation is shared, or a foreign key forbids it.
RefusalsHaveReasons ==
    [](/\ outcome = "stale" => edits > 0 \/ ~Agrees(plan.targets) \/ ~LeadsToRoot(plan.targets)
       /\ outcome = "failed" => \E f \in schema : f.action = "NO ACTION" /\ ~IsTree(f))

DeletionMeetsItsPlan == DeletesWhatWasPlanned /\ RefusalsHaveReasons
=============================================================================
