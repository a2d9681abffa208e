-------------------- MODULE WorkspacesAndLaunches_proofs --------------------
(***************************************************************************)
(* Proofs about the transactions on workspaces, for every finite set of    *)
(* sessions, every set of workspaces and every bound on positions, that    *)
(* they implement the operations on lists of WorkspaceLists, and about     *)
(* installing and launching agents, for every set of requests and every    *)
(* answer of the commands they run.                                        *)
(***************************************************************************)
EXTENDS MCWorkspaceStore, AgentLaunch, Sequences, FiniteSetTheorems, FunctionTheorems,
        WellFoundedInduction, TLAPS

\* Tables of the right form, whatever the positions.
WideRows == [session : Sessions, workspace : Workspaces, position : Int]

Shape(d) ==
    \E W \in SUBSET Workspaces :
        d \in [active : [W -> Sessions \cup {NoSession}], rows : SUBSET WideRows]

\* Tables of the right form that keep the constraints.
Good(d) == Shape(d) /\ Valid(d)

-----------------------------------------------------------------------------
(* The operators.                                                          *)

\* A non-empty set of naturals has a least element.
LEMMA LeastLemma ==
    ASSUME NEW S \in SUBSET Nat, S # {}
    PROVE  Least(S) \in S /\ \A m \in S : Least(S) <= m
<1> DEFINE R == OpToRel(<, Nat)
<1>1. \A m, n \in Nat : m < n => <<m, n>> \in R
  BY DEF OpToRel
<1>2. IsWellFoundedOn(R, Nat)
  BY NatLessThanWellFounded
<1> HIDE DEF R
<1>3. PICK n \in S : \A m \in S : ~(<<m, n>> \in R)
  BY <1>2, WFMin
<1>4. ASSUME NEW m \in S PROVE n <= m
  <2>1. m \in Nat /\ n \in Nat
    OBVIOUS
  <2>2. <<m, n>> \notin R
    BY <1>3
  <2>3. ~(m < n)
    BY <1>1, <2>1, <2>2, Zenon
  <2> QED
    BY <2>1, <2>3
<1> QED
  BY <1>4 DEF Least

\* Positions are naturals once they are stored.
LEMMA IsDBLemma ==
    ASSUME NEW d
    PROVE  IsDB(d) <=> Shape(d) /\ Fits(d)
<1>1. ASSUME IsDB(d) PROVE Shape(d) /\ Fits(d)
  <2>1. PICK W \in SUBSET Workspaces :
            d \in [active : [W -> Sessions \cup {NoSession}], rows : SUBSET Rows]
    BY <1>1 DEF IsDB
  <2>2. Rows \subseteq WideRows
    BY BoundAssumption DEF Rows, WideRows, Positions
  <2> QED
    BY <2>1, <2>2 DEF Shape, Fits, Rows
<1>2. ASSUME Shape(d), Fits(d) PROVE IsDB(d)
  <2>1. PICK W \in SUBSET Workspaces :
            d \in [active : [W -> Sessions \cup {NoSession}], rows : SUBSET WideRows]
    BY <1>2 DEF Shape
  <2>2. d.rows \subseteq Rows
    BY <1>2, <2>1 DEF Fits, Rows, WideRows
  <2> QED
    BY <2>1, <2>2 DEF IsDB
<1> QED
  BY <1>1, <1>2

\* A record of a table of members and a function of active sessions has the form.
LEMMA ShapeLemma ==
    ASSUME NEW a, NEW R \in SUBSET WideRows,
           DOMAIN a \subseteq Workspaces,
           a = [w \in DOMAIN a |-> a[w]],
           \A w \in DOMAIN a : a[w] \in Sessions \cup {NoSession}
    PROVE  Shape([active |-> a, rows |-> R])
  BY DEF Shape

LEMMA ShapeParts ==
    ASSUME NEW d, Shape(d)
    PROVE  /\ d = [active |-> d.active, rows |-> d.rows]
           /\ DOMAIN d.active \subseteq Workspaces
           /\ d.active = [w \in DOMAIN d.active |-> d.active[w]]
           /\ \A w \in DOMAIN d.active : d.active[w] \in Sessions \cup {NoSession}
           /\ d.rows \in SUBSET WideRows
  BY DEF Shape

\* The session with the lowest position is one of them.
LEMMA LowestLemma ==
    ASSUME NEW R \in SUBSET Rows
    PROVE  Lowest(R) # NoSession => \E r \in R : r.session = Lowest(R)
<1>1. CASE R = {}
  BY <1>1 DEF Lowest
<1>2. CASE R # {}
  <2>1. {r.position : r \in R} \in SUBSET Nat /\ {r.position : r \in R} # {}
    BY <1>2, BoundAssumption DEF Rows, Positions
  <2>2. Least({r.position : r \in R}) \in {r.position : r \in R}
    BY <2>1, LeastLemma
  <2>3. PICK r \in R : r.position = Least({q.position : q \in R})
    BY <2>2
  <2> QED
    BY <1>2, <2>3 DEF Lowest, SessionAt
<1> QED
  BY <1>1, <1>2

\* Taking members out leaves tables that keep the constraints.
LEMMA RepairLemma ==
    ASSUME NEW d, IsDB(d), Valid(d), NEW S
    PROVE  /\ IsDB(Repair(d, S)) /\ Valid(Repair(d, S))
           /\ DOMAIN Repair(d, S).active = DOMAIN d.active
           /\ Owned(Repair(d, S)) = Owned(d) \ S
<1> DEFINE rest == {r \in d.rows : r.session \notin S}
           Left(w) == {r \in rest : r.workspace = w}
           affected == {r.workspace : r \in d.rows \ rest}
           a == [w \in DOMAIN d.active |->
                        IF /\ w \in affected
                           /\ d.active[w] # NoSession
                           /\ \A r \in Left(w) : r.session # d.active[w]
                        THEN Lowest(Left(w)) ELSE d.active[w]]
<1>1. Repair(d, S) = [active |-> a, rows |-> rest]
  BY DEF Repair
<1>2. Shape(d) /\ Fits(d) /\ d.rows \subseteq Rows
  BY IsDBLemma DEF IsDB
<1>3. \A w \in DOMAIN d.active :
          a[w] # NoSession => \E r \in Left(w) : r.session = a[w]
  <2> SUFFICES ASSUME NEW w \in DOMAIN d.active, a[w] # NoSession
               PROVE  \E r \in Left(w) : r.session = a[w]
    OBVIOUS
  <2>1. CASE a[w] = Lowest(Left(w))
    <3>1. Left(w) \in SUBSET Rows
      BY <1>2
    <3> QED
      BY <2>1, <3>1, LowestLemma
  <2>2. CASE a[w] = d.active[w] /\ w \notin affected
    <3>1. PICK r \in d.rows : r.workspace = w /\ r.session = d.active[w]
      BY <2>2 DEF Valid, ActiveIsMember
    <3>2. r \in rest
      BY <3>1, <2>2
    <3> QED
      BY <3>1, <3>2, <2>2
  <2>3. CASE a[w] = d.active[w] /\ \E r \in Left(w) : r.session = d.active[w]
    BY <2>3
  <2> QED
    BY <2>1, <2>2, <2>3
<1>4. \A w \in DOMAIN a : a[w] \in Sessions \cup {NoSession}
  BY <1>2, <1>3 DEF Rows
<1>5. Shape([active |-> a, rows |-> rest])
  <2>1. rest \in SUBSET WideRows /\ DOMAIN a \subseteq Workspaces
    BY <1>2, ShapeParts
  <2>2. a = [w \in DOMAIN a |-> a[w]]
    OBVIOUS
  <2> HIDE DEF a, rest
  <2> QED
    BY <1>4, <2>1, <2>2, ShapeLemma
<1>6. Fits([active |-> a, rows |-> rest])
  BY <1>2 DEF Fits
<1>7. Valid([active |-> a, rows |-> rest])
  BY <1>3 DEF Valid, OneRowPerSession, OneMemberPerPosition, RowsHaveWorkspace, ActiveIsMember
<1>8. Owned([active |-> a, rows |-> rest]) = Owned(d) \ S
  BY DEF Owned
<1>9. DOMAIN [active |-> a, rows |-> rest].active = DOMAIN d.active
  OBVIOUS
<1> QED
  BY <1>1, <1>5, <1>6, <1>7, <1>8, <1>9, IsDBLemma

\* A new workspace with members that are in no other.
LEMMA InsertLemma ==
    ASSUME NEW d, Shape(d), Valid(d),
           NEW w \in Workspaces, w \notin DOMAIN d.active,
           NEW list, DOMAIN list \subseteq Int, Range(list) \subseteq Sessions,
           Range(list) \cap Owned(d) = {}, IsInjective(list)
    PROVE  Shape(Insert(d, w, list)) /\ Valid(Insert(d, w, list))
<1> DEFINE a == [v \in DOMAIN d.active \cup {w} |->
                    IF v = w THEN (IF 0 \in DOMAIN list THEN list[0] ELSE NoSession)
                    ELSE d.active[v]]
           R == d.rows \cup {Row(list[p], w, p) : p \in DOMAIN list}
<1>1. Insert(d, w, list) = [active |-> a, rows |-> R]
  BY DEF Insert
<1>2. R \in SUBSET WideRows
  <2>1. \A p \in DOMAIN list : Row(list[p], w, p) \in WideRows
    BY DEF WideRows, Row, Range
  <2> QED
    BY <2>1, ShapeParts
<1>3. DOMAIN a \subseteq Workspaces /\ a = [v \in DOMAIN a |-> a[v]]
  BY ShapeParts
<1>4. \A v \in DOMAIN a : a[v] \in Sessions \cup {NoSession}
  BY ShapeParts DEF Range
<1>5. Shape([active |-> a, rows |-> R])
  <2> HIDE DEF a, R
  <2> QED
    BY <1>2, <1>3, <1>4, ShapeLemma
<1>6. OneRowPerSession([active |-> a, rows |-> R])
  BY DEF OneRowPerSession, Valid, Row, Owned, IsInjective, Range
<1>7. OneMemberPerPosition([active |-> a, rows |-> R])
  BY DEF OneMemberPerPosition, RowsHaveWorkspace, Valid, Row
<1>8. RowsHaveWorkspace([active |-> a, rows |-> R])
  BY DEF RowsHaveWorkspace, Valid, Row
<1>9. ActiveIsMember([active |-> a, rows |-> R])
  <2>1. 0 \in DOMAIN list => Row(list[0], w, 0) \in R
    OBVIOUS
  <2>2. \A v \in DOMAIN d.active : a[v] = d.active[v]
    OBVIOUS
  <2>3. a[w] = IF 0 \in DOMAIN list THEN list[0] ELSE NoSession
    OBVIOUS
  <2>4. DOMAIN a = DOMAIN d.active \cup {w} /\ d.rows \subseteq R
    OBVIOUS
  <2> HIDE DEF a, R
  <2> QED
    BY <2>1, <2>2, <2>3, <2>4 DEF ActiveIsMember, Valid, Row
<1> QED
  BY <1>1, <1>5, <1>6, <1>7, <1>8, <1>9 DEF Valid

\* New workspaces with one member each, who is in no other.
LEMMA SingletonsLemma ==
    ASSUME NEW d, Shape(d), Valid(d),
           NEW home, DOMAIN home \subseteq Sessions, Range(home) \subseteq Workspaces,
           DOMAIN home \cap Owned(d) = {}, Range(home) \cap DOMAIN d.active = {},
           IsInjective(home)
    PROVE  /\ Shape(InsertSingletons(d, home)) /\ Valid(InsertSingletons(d, home))
           /\ Owned(InsertSingletons(d, home)) = Owned(d) \cup DOMAIN home
           /\ DOMAIN InsertSingletons(d, home).active = DOMAIN d.active \cup Range(home)
<1> DEFINE a == [v \in DOMAIN d.active \cup Range(home) |->
                    IF v \in Range(home) THEN CHOOSE s \in DOMAIN home : home[s] = v
                    ELSE d.active[v]]
           R == d.rows \cup {Row(s, home[s], 0) : s \in DOMAIN home}
<1>1. InsertSingletons(d, home) = [active |-> a, rows |-> R]
  BY DEF InsertSingletons
<1>2. R \in SUBSET WideRows
  <2>1. \A s \in DOMAIN home : Row(s, home[s], 0) \in WideRows
    BY DEF WideRows, Row, Range
  <2> QED
    BY <2>1, ShapeParts
<1>3. DOMAIN a = DOMAIN d.active \cup Range(home) /\ a = [v \in DOMAIN a |-> a[v]]
  OBVIOUS
<1>4. \A v \in Range(home) : a[v] \in DOMAIN home /\ home[a[v]] = v
  BY DEF Range
<1>5. \A v \in DOMAIN a : a[v] \in Sessions \cup {NoSession}
  BY <1>4, ShapeParts
<1>6. Shape([active |-> a, rows |-> R])
  <2>1. DOMAIN a \subseteq Workspaces
    BY <1>3, ShapeParts
  <2> HIDE DEF a, R
  <2> QED
    BY <2>1, <1>2, <1>3, <1>5, ShapeLemma
<1>7. OneRowPerSession([active |-> a, rows |-> R])
  BY DEF OneRowPerSession, Valid, Row, Owned
<1>8. OneMemberPerPosition([active |-> a, rows |-> R])
  BY DEF OneMemberPerPosition, RowsHaveWorkspace, Valid, Row, IsInjective, Range
<1>9. RowsHaveWorkspace([active |-> a, rows |-> R])
  BY DEF RowsHaveWorkspace, Valid, Row, Range
<1>10. ActiveIsMember([active |-> a, rows |-> R])
  <2>1. \A v \in Range(home) : Row(a[v], v, 0) \in R
    BY <1>4
  <2>2. \A v \in DOMAIN d.active \ Range(home) : a[v] = d.active[v]
    OBVIOUS
  <2>3. d.rows \subseteq R
    OBVIOUS
  <2> HIDE DEF a, R
  <2> SUFFICES ASSUME NEW v \in DOMAIN a, a[v] # NoSession
               PROVE  \E r \in R : r.workspace = v /\ r.session = a[v]
    BY DEF ActiveIsMember
  <2>4. CASE v \in Range(home)
    BY <2>1, <2>4 DEF Row
  <2>5. CASE v \in DOMAIN d.active \ Range(home)
    BY <2>2, <2>3, <2>5 DEF ActiveIsMember, Valid
  <2> QED
    BY <2>4, <2>5, <1>3
<1>11. Owned([active |-> a, rows |-> R]) = Owned(d) \cup DOMAIN home
  <2>1. \A s \in DOMAIN home : Row(s, home[s], 0) \in R
    OBVIOUS
  <2>2. \A r \in R : r.session \in Owned(d) \cup DOMAIN home
    BY DEF Owned, Row
  <2>3. d.rows \subseteq R
    OBVIOUS
  <2> HIDE DEF a, R
  <2>4. Owned([active |-> a, rows |-> R]) = {r.session : r \in R}
    BY DEF Owned
  <2>5. \A s \in DOMAIN home : s \in {r.session : r \in R}
    <3> TAKE s \in DOMAIN home
    <3>1. Row(s, home[s], 0).session = s
      BY DEF Row
    <3> QED
      BY <2>1, <3>1
  <2>6. Owned(d) \subseteq {r.session : r \in R}
    BY <2>3 DEF Owned
  <2> QED
    BY <2>2, <2>4, <2>5, <2>6
<1>12. DOMAIN [active |-> a, rows |-> R].active = DOMAIN d.active \cup Range(home)
  BY <1>3
<1> QED
  BY <1>1, <1>6, <1>7, <1>8, <1>9, <1>10, <1>11, <1>12 DEF Valid

\* A session without a row joins a workspace behind its members.
LEMMA AttachLemma ==
    ASSUME NEW d, Shape(d), Valid(d), Fits(d),
           NEW w \in DOMAIN d.active, NEW s \in Sessions, s \notin Owned(d)
    PROVE  Shape(AttachMember(d, w, s)) /\ Valid(AttachMember(d, w, s))
<1> DEFINE free == {p \in 0..(MaxPosition + 1) : \A r \in Members(d, w) : r.position < p}
           n == NextPosition(d, w)
           a == [d.active EXCEPT ![w] = s]
           R == d.rows \cup {Row(s, w, n)}
<1>1. n \in free
  <2>1. free \in SUBSET Nat /\ MaxPosition + 1 \in free
    BY BoundAssumption DEF Members, Fits, Positions
  <2> QED
    BY <2>1, LeastLemma DEF NextPosition
<1>2. AttachMember(d, w, s) = [active |-> a, rows |-> R]
  BY DEF AttachMember
<1>3. \A r \in d.rows : r.workspace = w => r.position # n
  <2>1. \A r \in Members(d, w) : r.position < n /\ r.position \in Int
    BY <1>1 DEF Members, Fits, Positions
  <2> QED
    BY <1>1, <2>1 DEF Members
<1>4. n \in Int
  BY <1>1, BoundAssumption
<1> HIDE DEF n
<1>5. R \in SUBSET WideRows
  <2>1. Row(s, w, n) \in WideRows
    BY <1>4, ShapeParts DEF WideRows, Row
  <2> QED
    BY <2>1, ShapeParts
<1>6. DOMAIN a = DOMAIN d.active /\ a = [v \in DOMAIN a |-> a[v]]
  BY ShapeParts
<1>7. \A v \in DOMAIN a : a[v] \in Sessions \cup {NoSession}
  BY ShapeParts
<1>8. Shape([active |-> a, rows |-> R])
  <2> HIDE DEF a, R
  <2> QED
    BY <1>5, <1>6, <1>7, ShapeLemma, ShapeParts
<1>9. OneRowPerSession([active |-> a, rows |-> R])
  BY DEF OneRowPerSession, Valid, Row, Owned
<1>10. OneMemberPerPosition([active |-> a, rows |-> R])
  BY <1>3 DEF OneMemberPerPosition, Valid, Row
<1>11. RowsHaveWorkspace([active |-> a, rows |-> R])
  BY <1>6 DEF RowsHaveWorkspace, Valid, Row
<1>12. ActiveIsMember([active |-> a, rows |-> R])
  <2>1. Row(s, w, n) \in R /\ d.rows \subseteq R
    OBVIOUS
  <2>2. \A v \in DOMAIN a : a[v] = IF v = w THEN s ELSE d.active[v]
    BY <1>6
  <2> HIDE DEF a, R
  <2> QED
    BY <2>1, <2>2, <1>6 DEF ActiveIsMember, Valid, Row
<1> QED
  BY <1>2, <1>8, <1>9, <1>10, <1>11, <1>12 DEF Valid

\* A member becomes active, or none.
LEMMA ActivateLemma ==
    ASSUME NEW d, Shape(d), Valid(d),
           NEW w \in DOMAIN d.active, NEW s \in Sessions \cup {NoSession}
    PROVE  /\ Shape(Activate(d, w, s))
           /\ (s # NoSession => \E r \in d.rows : r.workspace = w /\ r.session = s)
                 => Valid(Activate(d, w, s))
<1> DEFINE a == [d.active EXCEPT ![w] = s]
<1>1. Activate(d, w, s) = [active |-> a, rows |-> d.rows]
  BY ShapeParts DEF Activate
<1>2. DOMAIN a = DOMAIN d.active /\ a = [v \in DOMAIN a |-> a[v]]
  BY ShapeParts
<1>3. \A v \in DOMAIN a : a[v] \in Sessions \cup {NoSession}
  BY ShapeParts
<1>4. Shape([active |-> a, rows |-> d.rows])
  <2> HIDE DEF a
  <2> QED
    BY <1>2, <1>3, ShapeLemma, ShapeParts
<1>5. ASSUME s # NoSession => \E r \in d.rows : r.workspace = w /\ r.session = s
      PROVE  Valid([active |-> a, rows |-> d.rows])
  BY <1>2, <1>5 DEF Valid, OneRowPerSession, OneMemberPerPosition, RowsHaveWorkspace, ActiveIsMember
<1> QED
  BY <1>1, <1>4, <1>5

\* The session that follows a removed one is one of those left.
LEMMA FallbackLemma ==
    ASSUME NEW R \in SUBSET Rows, NEW p
    PROVE  Fallback(R, p) # NoSession => \E r \in R : r.session = Fallback(R, p)
  BY LowestLemma DEF Fallback

\* A member leaves its workspace.
LEMMA RemoveMemberLemma ==
    ASSUME NEW d, IsDB(d), Valid(d), NEW m \in d.rows
    PROVE  Shape(RemoveMember(d, m)) /\ Valid(RemoveMember(d, m))
<1> DEFINE rest == d.rows \ {m}
           left == {r \in rest : r.workspace = m.workspace}
           next == Fallback(left, m.position)
           a == [d.active EXCEPT ![m.workspace] = IF @ = m.session THEN next ELSE @]
<1>1. RemoveMember(d, m) = [active |-> a, rows |-> rest]
  BY DEF RemoveMember
<1>2. Shape(d) /\ d.rows \subseteq Rows
  BY IsDBLemma DEF IsDB
<1>3. next # NoSession => \E r \in left : r.session = next
  BY <1>2, FallbackLemma
<1> HIDE DEF next
<1>4. DOMAIN a = DOMAIN d.active /\ a = [v \in DOMAIN a |-> a[v]]
  BY <1>2, ShapeParts
<1>5. \A v \in DOMAIN a : a[v] \in Sessions \cup {NoSession}
  BY <1>2, <1>3, ShapeParts DEF Rows
<1>6. Shape([active |-> a, rows |-> rest])
  <2>1. rest \in SUBSET WideRows
    BY <1>2, ShapeParts
  <2> HIDE DEF a, rest
  <2> QED
    BY <2>1, <1>2, <1>4, <1>5, ShapeLemma, ShapeParts
<1>7. ActiveIsMember([active |-> a, rows |-> rest])
  <2> SUFFICES ASSUME NEW w \in DOMAIN d.active, a[w] # NoSession
               PROVE  \E r \in rest : r.workspace = w /\ r.session = a[w]
    BY <1>4 DEF ActiveIsMember
  <2>1. CASE w = m.workspace /\ d.active[w] = m.session
    BY <2>1, <1>2, <1>3, ShapeParts
  <2>2. CASE ~(w = m.workspace /\ d.active[w] = m.session)
    <3>1. a[w] = d.active[w]
      BY <2>2, <1>2, ShapeParts
    <3>2. PICK r \in d.rows : r.workspace = w /\ r.session = d.active[w]
      BY <3>1 DEF Valid, ActiveIsMember
    <3>3. r # m
      BY <2>2, <3>2
    <3> QED
      BY <3>1, <3>2, <3>3
  <2> QED
    BY <2>1, <2>2
<1>8. Valid([active |-> a, rows |-> rest])
  BY <1>4, <1>7 DEF Valid, OneRowPerSession, OneMemberPerPosition, RowsHaveWorkspace
<1> QED
  BY <1>1, <1>6, <1>8

\* A workspace goes, with its members.
LEMMA DeleteLemma ==
    ASSUME NEW d, Shape(d), Valid(d), NEW w
    PROVE  Shape(DeleteWorkspace(d, w)) /\ Valid(DeleteWorkspace(d, w))
<1> DEFINE a == [v \in DOMAIN d.active \ {w} |-> d.active[v]]
           R == {r \in d.rows : r.workspace # w}
<1>1. Shape([active |-> a, rows |-> R])
  <2>1. R \in SUBSET WideRows
    BY ShapeParts
  <2>2. DOMAIN a \subseteq Workspaces /\ a = [v \in DOMAIN a |-> a[v]]
    BY ShapeParts
  <2>3. \A v \in DOMAIN a : a[v] \in Sessions \cup {NoSession}
    BY ShapeParts
  <2> HIDE DEF a, R
  <2> QED
    BY <2>1, <2>2, <2>3, ShapeLemma
<1>2. Valid([active |-> a, rows |-> R])
  BY DEF Valid, OneRowPerSession, OneMemberPerPosition, RowsHaveWorkspace, ActiveIsMember
<1> QED
  BY <1>1, <1>2 DEF DeleteWorkspace

-----------------------------------------------------------------------------
(* The transactions.                                                       *)

\* What the holder of the mutex may rely on: the session that attaches has no
\* row, and what was checked is still true unless a commit landed.
HandlerKnows ==
    /\ handler.op \in {"list", "create"} => handler.workspace = NoWorkspace
    /\ handler.op = "attach" =>
          /\ handler.session \in Sessions \ Owned(db)
          /\ inflight # NoCommit => handler.session \notin Owned(inflight)
    /\ handler.workspace # NoWorkspace /\ ~handler.disturbed =>
          /\ handler.workspace \in DOMAIN db.active
          /\ handler.op = "update" /\ handler.session # NoSession =>
                \E r \in db.rows : r.workspace = handler.workspace
                                   /\ r.session = handler.session

IInv ==
    /\ StoreTypeOK
    /\ Valid(db)
    /\ inflight # NoCommit => Valid(inflight)
    /\ HandlerKnows

\* A reconciliation leaves the sessions of the snapshot with a row each.
LEMMA ReconciledLemma ==
    ASSUME IsDB(db), Valid(db), NEW E \in SUBSET Sessions, NEW N,
           NEW d \in Reconciled(E, N)
    PROVE  /\ IsDB(d) /\ Valid(d)
           /\ Owned(d) \subseteq E \ (N \ Owned(db))
<1> DEFINE base == Repair(db, Owned(db) \ E)
           unowned == (E \ Owned(db)) \ N
<1>1. PICK home \in [unowned -> NewIds] :
          IsInjective(home) /\ d = InsertSingletons(base, home)
  BY DEF Reconciled
<1>2. /\ IsDB(base) /\ Valid(base) /\ DOMAIN base.active = DOMAIN db.active
      /\ Owned(base) = Owned(db) \cap E
  BY RepairLemma
<1> HIDE DEF base
<1>3. DOMAIN home \subseteq Sessions /\ DOMAIN home \cap Owned(base) = {}
  BY <1>1, <1>2
<1>4. Range(home) \subseteq Workspaces /\ Range(home) \cap DOMAIN base.active = {}
  BY <1>1, <1>2 DEF Range, NewIds
<1>5. /\ Shape(d) /\ Valid(d)
      /\ Owned(d) = Owned(base) \cup unowned
  BY <1>1, <1>2, <1>3, <1>4, SingletonsLemma, IsDBLemma
<1>6. Fits(d)
  <2>1. d.rows = base.rows \cup {Row(s, home[s], 0) : s \in DOMAIN home}
    BY <1>1 DEF InsertSingletons
  <2>2. \A s \in DOMAIN home : Row(s, home[s], 0).position \in Positions
    BY BoundAssumption DEF Row, Positions
  <2>3. Fits(base)
    BY <1>2, IsDBLemma
  <2> QED
    BY <2>1, <2>2, <2>3 DEF Fits
<1> QED
  BY <1>2, <1>5, <1>6, IsDBLemma

\* What a transaction makes of the tables has the right form, and keeps the
\* constraints unless it is an update whose checks are outdated.
LEMMA OutcomesLemma ==
    ASSUME IInv, NEW d \in Outcomes
    PROVE  /\ Shape(d)
           /\ ~(handler.op = "update" /\ handler.disturbed) => Valid(d)
<1> USE DEF IInv
<1>1. CASE handler.op = "list"
  BY <1>1, ReconciledLemma, IsDBLemma DEF Outcomes, StoreTypeOK
<1>2. CASE handler.op = "create"
  <2>1. PICK w \in NewIds,
             list \in UNION {[0..(n - 1) -> handler.eligible] :
                                n \in 0..Cardinality(handler.eligible)} :
            IsInjective(list) /\ d = Insert(Repair(db, Range(list)), w, list)
    BY <1>2 DEF Outcomes, Creations
  <2>2. DOMAIN list \subseteq Int /\ Range(list) \subseteq Sessions
    BY DEF Range, StoreTypeOK
  <2> DEFINE base == Repair(db, Range(list))
  <2>3. /\ IsDB(base) /\ Valid(base) /\ DOMAIN base.active = DOMAIN db.active
        /\ Owned(base) = Owned(db) \ Range(list)
    BY RepairLemma DEF StoreTypeOK
  <2>4. w \in Workspaces /\ w \notin DOMAIN base.active
    BY <2>3 DEF NewIds
  <2> HIDE DEF base
  <2>5. Shape(base) /\ Range(list) \cap Owned(base) = {}
    BY <2>3, IsDBLemma
  <2> QED
    BY <2>1, <2>2, <2>3, <2>4, <2>5, InsertLemma DEF base
<1>3. CASE handler.op = "attach"
  <2> DEFINE s == handler.session
             w == handler.workspace
             D == Reconciled(handler.eligible, {s})
  <2>1. s \in Sessions /\ s \notin Owned(db)
    BY <1>3 DEF HandlerKnows
  <2>2. \A e \in D : IsDB(e) /\ Shape(e) /\ Fits(e) /\ Valid(e) /\ s \notin Owned(e)
    BY <2>1, ReconciledLemma, IsDBLemma DEF StoreTypeOK
  <2>3. d \in Attachments
    BY <1>3 DEF Outcomes
  <2>4. CASE s \notin handler.eligible
    BY <2>2, <2>3, <2>4 DEF Attachments
  <2>5. CASE s \in handler.eligible /\ w = NoWorkspace
    <3>1. PICK e \in D : d \in {InsertSingletons(e, [t \in {s} |-> v]) :
                                   v \in NewIds \ DOMAIN e.active}
      BY <2>3, <2>5 DEF Attachments
    <3>2. PICK v \in NewIds \ DOMAIN e.active : d = InsertSingletons(e, [t \in {s} |-> v])
      BY <3>1
    <3> DEFINE home == [t \in {s} |-> v]
    <3>3. /\ DOMAIN home = {s} /\ Range(home) = {v} /\ IsInjective(home)
          /\ v \in Workspaces /\ v \notin DOMAIN e.active
      BY DEF Range, IsInjective, NewIds
    <3> HIDE DEF home, D
    <3> QED
      BY <2>1, <2>2, <3>2, <3>3, SingletonsLemma DEF home
  <2>6. CASE s \in handler.eligible /\ w # NoWorkspace
    <3>1. PICK e \in D : w \in DOMAIN e.active /\ d = AttachMember(e, w, s)
      BY <2>3, <2>6 DEF Attachments
    <3> QED
      BY <2>1, <2>2, <3>1, AttachLemma
  <2> QED
    BY <2>4, <2>5, <2>6
<1>4. CASE handler.op = "update"
  <2>1. /\ handler.workspace \in DOMAIN db.active
        /\ d = Activate(db, handler.workspace, handler.session)
    BY <1>4 DEF Outcomes, Updates
  <2>2. handler.session \in Sessions \cup {NoSession} /\ Shape(db) /\ Valid(db)
    BY IsDBLemma DEF StoreTypeOK
  <2>3. handler.workspace # NoWorkspace
    BY <2>1, <2>2, NoWorkspaceAssumption, ShapeParts
  <2> QED
    BY <1>4, <2>1, <2>2, <2>3, ActivateLemma DEF HandlerKnows
<1>5. CASE handler.op \notin Kinds
  BY <1>5 DEF Outcomes, Kinds
<1> QED
  BY <1>1, <1>2, <1>3, <1>4, <1>5 DEF Kinds

-----------------------------------------------------------------------------
(* The invariant.                                                          *)

\* A free mutex knows nothing.
LEMMA UnlockedLemma ==
    /\ Unlocked.op \notin Kinds /\ Unlocked.workspace = NoWorkspace
    /\ Unlocked \in [op : Kinds \cup {Free}, eligible : SUBSET Sessions,
                     workspace : Workspaces \cup {NoWorkspace},
                     session : Sessions \cup {NoSession}, disturbed : BOOLEAN]
  BY FreeAssumption DEF Unlocked

LEMMA InitLemma == StoreInit => IInv
<1> SUFFICES ASSUME StoreInit PROVE IInv
  OBVIOUS
<1>1. IsDB(db)
  <2>1. db.active \in [{} -> Sessions \cup {NoSession}] /\ db.rows \in SUBSET Rows
    BY DEF StoreInit
  <2> QED
    BY <2>1 DEF IsDB, StoreInit
<1>2. Valid(db)
  BY DEF StoreInit, Valid, OneRowPerSession, OneMemberPerPosition, RowsHaveWorkspace, ActiveIsMember
<1>3. HandlerKnows
  BY UnlockedLemma DEF StoreInit, HandlerKnows, Kinds
<1> QED
  BY <1>1, <1>2, <1>3, UnlockedLemma DEF StoreInit, IInv, StoreTypeOK

\* A transaction that commits, or is going to, when no mutex is held after it.
LEMMA EndLemma ==
    ASSUME IInv, NEW d, Shape(d), Committed(d) \/ Dropped(d),
           handler' = Unlocked, live' \subseteq Sessions
    PROVE  IInv'
<1>1. Fits(d) => IsDB(d)
  BY IsDBLemma
<1>2. HandlerKnows'
  BY UnlockedLemma DEF HandlerKnows, Kinds
<1>3. CASE Committed(d)
  <2>1. IsDB(db') /\ Valid(db') /\ inflight' = inflight
    BY <1>1, <1>3 DEF Committed
  <2>2. IsDB(db)' /\ Valid(db)' /\ (inflight # NoCommit => IsDB(inflight))'
        /\ (inflight # NoCommit => Valid(inflight))'
    BY <1>3, <2>1 DEF Committed
  <2> QED
    BY <1>2, <2>2, UnlockedLemma DEF IInv, StoreTypeOK
<1>4. CASE Dropped(d)
  <2>1. IsDB(db)' /\ Valid(db)' /\ (inflight # NoCommit => IsDB(inflight))'
        /\ (inflight # NoCommit => Valid(inflight))'
    BY <1>1, <1>4 DEF Dropped, IInv, StoreTypeOK
  <2> QED
    BY <1>2, <2>1, UnlockedLemma DEF IInv, StoreTypeOK
<1> QED
  BY <1>3, <1>4

LEMMA StepLemma == IInv /\ [StoreNext]_storeVars => IInv'
<1> SUFFICES ASSUME IInv, [StoreNext]_storeVars PROVE IInv'
  OBVIOUS
<1> DEFINE HandlerType ==
             [op : Kinds \cup {Free}, eligible : SUBSET Sessions,
              workspace : Workspaces \cup {NoWorkspace},
              session : Sessions \cup {NoSession}, disturbed : BOOLEAN]
<1>1. ASSUME UNCHANGED <<db, inflight>>, handler' \in HandlerType, live' \subseteq Sessions,
             HandlerKnows'
      PROVE  IInv'
  BY <1>1 DEF IInv, StoreTypeOK
<1>2. ASSUME NEW op \in {"list", "create"}, Lock(op)
      PROVE  IInv'
  <2>1. handler' \in HandlerType /\ handler'.op = op /\ handler'.workspace = NoWorkspace
    BY <1>2 DEF Lock, Unlocked, IInv, StoreTypeOK, Kinds
  <2>2. HandlerKnows'
    BY <2>1 DEF HandlerKnows
  <2> QED
    BY <1>1, <1>2, <2>1, <2>2 DEF Lock, IInv, StoreTypeOK
<1>3. ASSUME NEW s \in Sessions, NEW w \in Workspaces \cup {NoWorkspace}, LockNew(s, w)
      PROVE  IInv'
  <2>1. live' \subseteq Sessions
    BY <1>3 DEF LockNew, IInv, StoreTypeOK
  <2>2. /\ handler' \in HandlerType /\ handler'.op = "attach"
        /\ handler'.workspace = w /\ handler'.session = s
    BY <1>3, <2>1 DEF LockNew, Unlocked, Kinds
  <2>3. /\ s \notin Owned(db') /\ (inflight' # NoCommit => s \notin Owned(inflight'))
        /\ w # NoWorkspace => w \in DOMAIN db'.active
    BY <1>3 DEF LockNew
  <2>4. HandlerKnows'
    BY <2>2, <2>3 DEF HandlerKnows
  <2> QED
    BY <1>1, <1>3, <2>1, <2>2, <2>4 DEF LockNew
<1>4. ASSUME NEW w \in Workspaces, NEW s \in Sessions \cup {NoSession}, LockChecked(w, s)
      PROVE  IInv'
  <2>1. /\ handler' \in HandlerType /\ handler'.op = "update"
        /\ handler'.workspace = w /\ handler'.session = s
    BY <1>4 DEF LockChecked, Unlocked, Kinds
  <2>2. /\ w \in DOMAIN db'.active
        /\ s # NoSession => \E r \in db'.rows : r.workspace = w /\ r.session = s
    BY <1>4 DEF LockChecked, Members
  <2>3. HandlerKnows'
    BY <2>1, <2>2 DEF HandlerKnows
  <2> QED
    BY <1>1, <1>4, <2>1, <2>3 DEF LockChecked, IInv, StoreTypeOK
<1>5. CASE Transact
  <2>1. PICK d \in Outcomes : Committed(d) \/ Dropped(d)
    BY <1>5 DEF Transact
  <2> QED
    BY <1>5, <2>1, OutcomesLemma, EndLemma DEF Transact, IInv, StoreTypeOK
<1>6. CASE GiveUp
  <2>1. HandlerKnows' /\ handler' \in HandlerType
    BY <1>6, UnlockedLemma DEF GiveUp, HandlerKnows, Kinds
  <2> QED
    BY <1>1, <1>6, <2>1 DEF GiveUp, IInv, StoreTypeOK
<1>7. ASSUME NEW s \in Sessions, Leave(s)
      PROVE  IInv'
  <2>1. PICK m \in db.rows : Committed(RemoveMember(db, m)) \/ Dropped(RemoveMember(db, m))
    BY <1>7 DEF Leave
  <2>2. Shape(RemoveMember(db, m))
    BY RemoveMemberLemma DEF IInv, StoreTypeOK
  <2>3. handler' = Unlocked /\ live' \subseteq Sessions
    BY <1>7 DEF Leave, IInv, StoreTypeOK
  <2> QED
    BY <2>1, <2>2, <2>3, EndLemma
<1>8. ASSUME NEW w \in Workspaces, Remove(w)
      PROVE  IInv'
  <2>1. Shape(DeleteWorkspace(db, w))
    BY DeleteLemma, IsDBLemma DEF IInv, StoreTypeOK
  <2>2. handler' = Unlocked /\ live' \subseteq Sessions
    BY <1>8 DEF Remove, IInv, StoreTypeOK
  <2>3. Committed(DeleteWorkspace(db, w)) \/ Dropped(DeleteWorkspace(db, w))
    BY <1>8 DEF Remove
  <2> QED
    BY <2>1, <2>2, <2>3, EndLemma
<1>9. CASE Land
  <2>1. IsDB(db') /\ Valid(db') /\ inflight' = NoCommit /\ live' \subseteq Sessions
    BY <1>9 DEF Land, IInv, StoreTypeOK
  <2>2. /\ handler' \in HandlerType
        /\ handler'.op = handler.op /\ handler'.workspace = handler.workspace
        /\ handler'.session = handler.session
        /\ handler.workspace # NoWorkspace => handler'.disturbed
    BY <1>9 DEF Land, IInv, StoreTypeOK
  <2>3. handler.op = "attach" => handler.session \in Sessions \ Owned(db')
    BY <1>9 DEF Land, IInv, HandlerKnows
  <2>4. HandlerKnows'
    BY <2>1, <2>2, <2>3 DEF HandlerKnows, IInv
  <2> QED
    BY <2>1, <2>2, <2>4 DEF IInv, StoreTypeOK
<1>10. ASSUME NEW s \in Sessions, End(s)
       PROVE  IInv'
  BY <1>10 DEF End, IInv, StoreTypeOK, HandlerKnows
<1>11. CASE Restart
  <2>1. IsDB(db') /\ Valid(db') /\ inflight' = NoCommit /\ live' \subseteq Sessions
    BY <1>11 DEF Restart, IInv, StoreTypeOK
  <2>2. HandlerKnows' /\ handler' \in HandlerType
    BY <1>11, UnlockedLemma DEF Restart, HandlerKnows, Kinds
  <2> QED
    BY <2>1, <2>2 DEF IInv, StoreTypeOK
<1>12. CASE UNCHANGED storeVars
  BY <1>12 DEF storeVars, IInv, StoreTypeOK, HandlerKnows
<1> QED
  BY <1>2, <1>3, <1>4, <1>5, <1>6, <1>7, <1>8, <1>9, <1>10, <1>11, <1>12 DEF StoreNext

THEOREM Inductive == StoreSpec => []IInv
  BY InitLemma, StepLemma, PTL DEF StoreSpec

\* The tables, the commit on its way and the holder of the mutex keep their types.
THEOREM TypeCorrect == StoreSpec => []StoreTypeOK
<1>1. IInv => StoreTypeOK
  BY DEF IInv
<1> QED
  BY <1>1, Inductive, PTL

\* No constraint of the tables ever refuses list, create or attach_session, nor
\* the removal of a member or of a workspace.
THEOREM TransactionsAreSafe == StoreSpec => []TransactionsKeepConstraints
<1>1. IInv => HandlersKeepConstraints
  BY OutcomesLemma DEF HandlersKeepConstraints
<1>2. IInv => RemovalsKeepConstraints
  BY RemoveMemberLemma, DeleteLemma, IsDBLemma DEF RemovalsKeepConstraints, IInv, StoreTypeOK
<1>3. IInv => TransactionsKeepConstraints
  BY <1>1, <1>2 DEF TransactionsKeepConstraints
<1> QED
  BY <1>3, Inductive, PTL

\* What was checked before a transaction is true in it, unless the commit of a
\* dropped handler landed in between.
THEOREM ChecksAreSafe == StoreSpec => []ChecksStayTrue
<1>1. IInv => ChecksStayTrue
  BY OutcomesLemma DEF ChecksStayTrue, IInv, HandlerKnows
<1> QED
  BY <1>1, Inductive, PTL


\* No constraint refuses what a handler does, but after the commit of a dropped
\* handler.
THEOREM ConstraintsAreSafe == StoreSpec => []ConstraintsNeverRefuse
<1>1. TransactionsKeepConstraints /\ ChecksStayTrue => ConstraintsNeverRefuse
  BY DEF ConstraintsNeverRefuse
<1> QED
  BY <1>1, TransactionsAreSafe, ChecksAreSafe, PTL

-----------------------------------------------------------------------------
(* The lists of WorkspaceLists                                             *)
(*                                                                         *)
(* A list by position is found by rank: the n-th member is the one with    *)
(* n - 1 others below it.  Each statement on the tables is then one change *)
(* of the lists, and so is each transaction.                               *)

\* e lists the elements of S, each once, by growing v.
Enumerates(e, n, S, v) ==
    /\ e \in [1..n -> S]
    /\ \A i, j \in 1..n : i < j => v[e[i]] < v[e[j]]
    /\ \A x \in S : \E i \in 1..n : e[i] = x

\* What comes before x.
Below(S, v, x) == {y \in S : v[y] < v[x]}

\* The k-th of a list of S has k - 1 before it, and nothing else has.
LEMMA RankLemma ==
    ASSUME NEW n \in Nat, NEW S, NEW v \in [S -> Int], NEW e, Enumerates(e, n, S, v)
    PROVE  /\ IsFiniteSet(S) /\ Cardinality(S) = n
           /\ \A k \in 1..n : \A x \in S : Cardinality(Below(S, v, x)) = k - 1 <=> x = e[k]
<1>1. \A i, j \in 1..n : v[e[i]] = v[e[j]] => i = j
  BY DEF Enumerates
<1>2. e \in Bijection(1..n, S)
  BY <1>1, Fun_IsBij DEF Enumerates
<1>3. IsFiniteSet(S) /\ Cardinality(S) = n
  <2>1. IsFiniteSet(1..n) /\ Cardinality(1..n) = n
    BY FS_Interval
  <2> QED
    BY <1>2, <2>1, FS_Bijection DEF ExistsBijection
<1>4. ASSUME NEW k \in 1..n PROVE Cardinality(Below(S, v, e[k])) = k - 1
  <2> DEFINE f == [i \in 1..(k - 1) |-> e[i]]
  <2>1. f \in [1..(k - 1) -> Below(S, v, e[k])]
    BY DEF Below, Enumerates
  <2>2. \A i, j \in 1..(k - 1) : f[i] = f[j] => i = j
    BY <1>1
  <2>3. ASSUME NEW x \in Below(S, v, e[k]) PROVE \E i \in 1..(k - 1) : f[i] = x
    <3>1. PICK i \in 1..n : e[i] = x
      BY DEF Below, Enumerates
    <3>2. ~(k < i) /\ i # k
      BY <3>1 DEF Below, Enumerates
    <3> QED
      BY <3>1, <3>2
  <2>4. f \in Bijection(1..(k - 1), Below(S, v, e[k]))
    <3> HIDE DEF f
    <3> QED
      BY <2>1, <2>2, <2>3, Fun_IsBij
  <2>5. IsFiniteSet(1..(k - 1)) /\ Cardinality(1..(k - 1)) = k - 1
    BY FS_Interval
  <2> HIDE DEF f
  <2> QED
    BY <2>4, <2>5, FS_Bijection DEF ExistsBijection
<1>5. ASSUME NEW k \in 1..n, NEW x \in S, Cardinality(Below(S, v, x)) = k - 1 PROVE x = e[k]
  <2>1. PICK i \in 1..n : e[i] = x
    BY DEF Enumerates
  <2>2. i - 1 = k - 1
    BY <1>4, <1>5, <2>1
  <2> QED
    BY <2>1, <2>2
<1> QED
  BY <1>3, <1>4, <1>5

\* A finite set can be listed by any numbering of its elements.
LEMMA EnumerationLemma ==
    ASSUME NEW S, IsFiniteSet(S), NEW v \in [S -> Int],
           \A x, y \in S : v[x] = v[y] => x = y
    PROVE  Cardinality(S) \in Nat /\ \E e : Enumerates(e, Cardinality(S), S, v)
<1> DEFINE n == Cardinality(S)
           r == [x \in S |-> Cardinality(Below(S, v, x)) + 1]
<1>1. n \in Nat /\ IsFiniteSet(1..n) /\ Cardinality(1..n) = n
  BY FS_CardinalityType, FS_Interval
<1>2. ASSUME NEW x \in S
      PROVE  Cardinality(Below(S, v, x)) \in 0..(n - 1) /\ IsFiniteSet(Below(S, v, x))
  <2>1. Below(S, v, x) \in SUBSET S /\ x \notin Below(S, v, x)
    BY DEF Below
  <2>2. IsFiniteSet(Below(S, v, x)) /\ Cardinality(Below(S, v, x)) <= n
        /\ Cardinality(Below(S, v, x)) # n
    BY <2>1, FS_Subset
  <2> QED
    BY <1>1, <2>2, FS_CardinalityType
<1>3. ASSUME NEW x \in S, NEW y \in S, v[x] < v[y] PROVE r[x] < r[y]
  <2>1. Below(S, v, x) \in SUBSET Below(S, v, y) /\ x \in Below(S, v, y) /\ x \notin Below(S, v, x)
    BY <1>3 DEF Below
  <2>2. /\ Cardinality(Below(S, v, x)) <= Cardinality(Below(S, v, y))
        /\ Cardinality(Below(S, v, x)) # Cardinality(Below(S, v, y))
    BY <1>2, <2>1, FS_Subset
  <2> QED
    BY <1>2, <2>2
<1>4. r \in [S -> 1..n]
  BY <1>1, <1>2
<1> HIDE DEF r, n
<1>5. r \in Injection(S, 1..n)
  <2>1. ASSUME NEW x \in S, NEW y \in S, r[x] = r[y] PROVE x = y
    <3>1. ~(v[x] < v[y]) /\ ~(v[y] < v[x])
      BY <1>3, <1>4, <2>1
    <3>2. v[x] = v[y]
      BY <3>1
    <3> QED
      BY <3>2
  <2> QED
    BY <1>4, <2>1, Fun_IsInj
<1>6. r \in Surjection(S, 1..n)
  BY <1>1, <1>5, FS_Injection DEF n
<1>7. \A k \in 1..n : \E x \in S : r[x] = k
  BY <1>6 DEF Surjection
<1> DEFINE e == [k \in 1..n |-> CHOOSE x \in S : r[x] = k]
<1>8. \A k \in 1..n : e[k] \in S /\ r[e[k]] = k
  BY <1>7
<1>9. e \in [1..n -> S]
  BY <1>8
<1> HIDE DEF e
<1>10. ASSUME NEW i \in 1..n, NEW j \in 1..n, i < j PROVE v[e[i]] < v[e[j]]
  <2>1. CASE v[e[j]] < v[e[i]]
    BY <1>3, <1>8, <1>10, <2>1
  <2>2. CASE v[e[j]] = v[e[i]]
    BY <1>8, <1>10, <2>2
  <2> QED
    BY <2>1, <2>2, <1>8
<1>11. ASSUME NEW x \in S PROVE \E i \in 1..n : e[i] = x
  <2>1. r[x] \in 1..n /\ r[e[r[x]]] = r[x]
    BY <1>4, <1>8
  <2>2. e[r[x]] = x
    BY <1>5, <1>8, <2>1 DEF Injection, IsInjective
  <2> QED
    BY <2>1, <2>2
<1> QED
  BY <1>1, <1>9, <1>10, <1>11 DEF Enumerates, n

\* The positions of members, of which no two share one.
Places(R) == [r \in R |-> r.position]

\* No two of the members share a position.
Spread(R) == R \in SUBSET Rows /\ \A r, q \in R : r.position = q.position => r = q

\* e lists the members in R by position.
Ordered(e, n, R) == n \in Nat /\ Enumerates(e, n, R, Places(R))

\* What a list of members by position is.
LEMMA OrderedParts ==
    ASSUME NEW R \in SUBSET Rows, NEW n, NEW e
    PROVE  Ordered(e, n, R) <=> /\ n \in Nat /\ e \in [1..n -> R]
                                /\ \A i, j \in 1..n : i < j => e[i].position < e[j].position
                                /\ \A r \in R : \E i \in 1..n : e[i] = r
<1>1. \A r \in R : Places(R)[r] = r.position
  BY DEF Places
<1> QED
  BY <1>1 DEF Ordered, Enumerates

\* The listing of members is what any list of them by position says.
LEMMA ListingLemma ==
    ASSUME NEW R \in SUBSET Rows, NEW n, NEW e, Ordered(e, n, R)
    PROVE  Listing(R) = [k \in 1..n |-> e[k].session]
<1>1. Places(R) \in [R -> Int] /\ \A r \in R : Places(R)[r] = r.position
  BY BoundAssumption DEF Places, Rows, Positions
<1>2. /\ Cardinality(R) = n
      /\ \A k \in 1..n : \A r \in R : Cardinality(Below(R, Places(R), r)) = k - 1 <=> r = e[k]
  BY <1>1, RankLemma DEF Ordered
<1>3. \A r \in R : Below(R, Places(R), r) = {q \in R : q.position < r.position}
  BY <1>1 DEF Below
<1>4. \A k \in 1..n : e[k] \in R
  BY DEF Ordered, Enumerates
<1> DEFINE nth(k) == CHOOSE r \in R : Cardinality({q \in R : q.position < r.position}) = k - 1
<1>5. \A k \in 1..n : nth(k) = e[k]
  BY <1>2, <1>3, <1>4
<1>6. Listing(R) = [k \in 1..n |-> nth(k).session]
  BY <1>2 DEF Listing
<1> HIDE DEF nth
<1> QED
  BY <1>5, <1>6

\* Members can be listed by position.
LEMMA OrderedExists ==
    ASSUME NEW R, Spread(R)
    PROVE  \E n, e : Ordered(e, n, R)
<1>1. Places(R) \in [R -> Int] /\ \A r \in R : Places(R)[r] = r.position
  BY BoundAssumption DEF Places, Rows, Positions, Spread
<1>2. IsFiniteSet(R)
  <2>1. Places(R) \in [R -> Positions]
    BY DEF Places, Rows, Spread
  <2>2. Places(R) \in Injection(R, Positions)
    BY <1>1, <2>1, Fun_IsInj DEF Spread
  <2>3. IsFiniteSet(Positions)
    BY FS_Interval, BoundAssumption DEF Positions
  <2> QED
    BY <2>2, <2>3, FS_Injection
<1>3. Cardinality(R) \in Nat /\ \E e : Enumerates(e, Cardinality(R), R, Places(R))
  BY <1>1, <1>2, EnumerationLemma DEF Spread
<1> QED
  BY <1>3 DEF Ordered

\* Numbers in order.
LEMMA CardinalityLemma ==
    ASSUME NEW S
    PROVE  Lists!Cardinality(S) = Cardinality(S)
  BY DEF Lists!Cardinality, Cardinality, Lists!IsFiniteSet, IsFiniteSet

\* Ascending lists the numbers of a finite set, each once and growing.
LEMMA AscendingLemma ==
    ASSUME NEW I, I \subseteq Int, IsFiniteSet(I)
    PROVE  \E m \in Nat :
              /\ Lists!Ascending(I) \in [1..m -> I]
              /\ \A i, j \in 1..m : i < j => Lists!Ascending(I)[i] < Lists!Ascending(I)[j]
              /\ \A k \in I : \E i \in 1..m : Lists!Ascending(I)[i] = k
<1> DEFINE v == [i \in I |-> i]
           m == Cardinality(I)
           nth(k) == CHOOSE i \in I : Lists!Cardinality({j \in I : j < i}) = k - 1
<1>1. v \in [I -> Int] /\ \A i \in I : v[i] = i
  OBVIOUS
<1>2. Lists!Ascending(I) = [k \in 1..m |-> nth(k)]
  <2>1. Lists!Ascending(I) = [k \in 1..Lists!Cardinality(I) |-> nth(k)]
    BY DEF Lists!Ascending
  <2> HIDE DEF nth
  <2> QED
    BY <2>1, CardinalityLemma
<1>3. \A i \in I : Lists!Cardinality({j \in I : j < i}) = Cardinality(Below(I, v, i))
  <2>1. \A i \in I : Below(I, v, i) = {j \in I : j < i}
    BY <1>1 DEF Below
  <2> QED
    BY <2>1, CardinalityLemma
<1> HIDE DEF v, m
<1>4. m \in Nat /\ \E a : Enumerates(a, m, I, v)
  BY <1>1, EnumerationLemma DEF m
<1>5. PICK a : Enumerates(a, m, I, v)
  BY <1>4
<1>6. \A k \in 1..m : \A i \in I : Cardinality(Below(I, v, i)) = k - 1 <=> i = a[k]
  <2>1. m \in Nat /\ v \in [I -> Int] /\ Enumerates(a, m, I, v)
    BY <1>1, <1>4, <1>5
  <2> QED
    BY ONLY <2>1, RankLemma
<1>7. a \in [1..m -> I]
  BY <1>5 DEF Enumerates
<1>8. \A k \in 1..m : nth(k) = a[k]
  BY <1>3, <1>6, <1>7
<1> HIDE DEF nth
<1>9. Lists!Ascending(I) = a
  BY <1>2, <1>7, <1>8
<1>10. \A i, j \in 1..m : i < j => a[i] < a[j]
  <2>1. \A i, j \in 1..m : i < j => v[a[i]] < v[a[j]]
    BY <1>5 DEF Enumerates
  <2> QED
    BY <1>1, <1>7, <2>1
<1>11. \A k \in I : \E i \in 1..m : a[i] = k
  BY <1>5 DEF Enumerates
<1> QED
  BY <1>4, <1>7, <1>9, <1>10, <1>11

\* A listing without some sessions lists the others.
LEMMA OthersLemma ==
    ASSUME NEW R, Spread(R), NEW S
    PROVE  /\ Spread({r \in R : r.session \notin S})
           /\ Listing({r \in R : r.session \notin S}) = Lists!Others(Listing(R), S)
<1> DEFINE rest == {r \in R : r.session \notin S}
<1>1. Spread(rest)
  BY DEF Spread
<1>2. PICK n, e : Ordered(e, n, R)
  BY OrderedExists
<1>3. /\ n \in Nat /\ e \in [1..n -> R]
      /\ \A i, j \in 1..n : i < j => e[i].position < e[j].position
      /\ \A r \in R : \E i \in 1..n : e[i] = r
  BY <1>2, OrderedParts DEF Spread
<1> DEFINE L == [k \in 1..n |-> e[k].session]
           I == {i \in 1..n : e[i].session \notin S}
<1>0. I \subseteq Int /\ IsFiniteSet(I)
  <2>1. IsFiniteSet(1..n)
    BY <1>3, FS_Interval
  <2>2. I \in SUBSET (1..n)
    OBVIOUS
  <2> QED
    BY <1>3, <2>1, <2>2, FS_Subset
<1>4. Listing(R) = L
  BY <1>2, ListingLemma DEF Spread
<1>5. PICK m \in Nat :
              /\ Lists!Ascending(I) \in [1..m -> I]
              /\ \A i, j \in 1..m : i < j => Lists!Ascending(I)[i] < Lists!Ascending(I)[j]
              /\ \A k \in I : \E i \in 1..m : Lists!Ascending(I)[i] = k
  BY <1>0, AscendingLemma
<1> DEFINE a == Lists!Ascending(I)
           f == [k \in 1..m |-> e[a[k]]]
<1>6. Ordered(f, m, rest)
  <2> HIDE DEF a
  <2>1. \A k \in 1..m : a[k] \in 1..n /\ e[a[k]] \in rest
    BY <1>3, <1>5 DEF a
  <2>2. \A i, j \in 1..m : i < j => e[a[i]].position < e[a[j]].position
    BY <1>3, <1>5, <2>1 DEF a
  <2>3. ASSUME NEW r \in rest PROVE \E k \in 1..m : f[k] = r
    <3>1. PICK i \in 1..n : e[i] = r
      BY <1>3
    <3>2. PICK k \in 1..m : a[k] = i
      BY <1>5, <3>1 DEF a
    <3> QED
      BY <3>1, <3>2
  <2>4. f \in [1..m -> rest] /\ \A i, j \in 1..m : i < j => f[i].position < f[j].position
    BY <2>1, <2>2
  <2> HIDE DEF f, rest
  <2> QED
    BY <1>1, <1>5, <2>3, <2>4, OrderedParts DEF Spread
<1>7. Listing(rest) = [k \in 1..m |-> f[k].session]
  <2>1. rest \in SUBSET Rows
    BY <1>1 DEF Spread
  <2> HIDE DEF rest, f
  <2> QED
    BY <2>1, <1>6, ListingLemma
<1>8. Lists!Others(L, S) = [k \in 1..m |-> L[a[k]]]
  <2>1. {i \in DOMAIN L : L[i] \notin S} = I
    OBVIOUS
  <2>2. DOMAIN a = 1..m
    BY <1>5
  <2>3. Lists!Others(L, S) = [k \in DOMAIN Lists!Ascending({i \in DOMAIN L : L[i] \notin S}) |->
                                L[Lists!Ascending({i \in DOMAIN L : L[i] \notin S})[k]]]
    BY ONLY DEF Lists!Others
  <2> HIDE DEF L, I
  <2> QED
    BY <2>1, <2>2, <2>3
<1>9. \A k \in 1..m : L[a[k]] = f[k].session
  BY <1>3, <1>5
<1> QED
  BY <1>1, <1>4, <1>7, <1>8, <1>9

\* The member with the lowest position is the one that the others follow.
LEMMA LowestIs ==
    ASSUME NEW R, Spread(R), NEW r \in R, \A q \in R : r.position <= q.position
    PROVE  Lowest(R) = r.session
<1> DEFINE P == {q.position : q \in R}
<1>1. \A q \in R : q.position \in Int
  BY BoundAssumption DEF Spread, Rows, Positions
<1>2. Least(P) = r.position
  <2>1. r.position \in P /\ \A p \in P : p \in Int /\ r.position <= p
    BY <1>1
  <2> HIDE DEF P
  <2>2. Least(P) \in P /\ \A p \in P : Least(P) <= p
    BY <2>1 DEF Least
  <2> QED
    BY <2>1, <2>2
<1>3. \A q \in R : q.position = Least(P) <=> q = r
  BY <1>2 DEF Spread
<1>4. SessionAt(R, Least(P)) = r.session
  BY <1>3 DEF SessionAt
<1> QED
  BY <1>4 DEF Lowest

\* The first of the list is the member with the lowest position.
LEMMA FirstLemma ==
    ASSUME NEW R, Spread(R)
    PROVE  Lists!First(Listing(R)) = Lowest(R)
<1>1. PICK n, e : Ordered(e, n, R)
  BY OrderedExists
<1>2. /\ n \in Nat /\ e \in [1..n -> R]
      /\ \A i, j \in 1..n : i < j => e[i].position < e[j].position
      /\ \A r \in R : \E i \in 1..n : e[i] = r
  BY <1>1, OrderedParts DEF Spread
<1>3. Listing(R) = [k \in 1..n |-> e[k].session]
  BY <1>1, ListingLemma DEF Spread
<1>4. \A r \in R : r.session \in Sessions /\ r.position \in Int
  BY BoundAssumption DEF Spread, Rows, Positions
<1>5. CASE n = 0
  <2>1. Listing(R) = <<>> /\ R = {}
    BY <1>2, <1>3, <1>5
  <2> QED
    BY <2>1 DEF Lists!First, Lowest
<1>6. CASE n # 0
  <2>1. e[1] \in R
    BY <1>2, <1>6
  <2>2. \A r \in R : e[1].position <= r.position
    <3> TAKE r \in R
    <3>1. PICK i \in 1..n : e[i] = r
      BY <1>2
    <3>2. CASE i = 1
      BY <1>4, <3>1, <3>2
    <3>3. CASE i # 1
      BY <1>2, <1>4, <1>6, <3>1, <3>3
    <3> QED
      BY <3>2, <3>3
  <2>3. Lowest(R) = e[1].session
    BY <2>1, <2>2, LowestIs
  <2> DEFINE L == [k \in 1..n |-> e[k].session]
  <2>4. L \in Seq(Sessions) /\ Len(L) = n /\ L[1] = e[1].session
    BY <1>2, <1>4, <1>6
  <2> HIDE DEF L
  <2>5. L # <<>> /\ Head(L) = L[1]
    BY <1>2, <1>6, <2>4
  <2> QED
    BY <1>3, <2>3, <2>4, <2>5 DEF Lists!First, L
<1> QED
  BY <1>5, <1>6

\* The listing has the sessions of the members, and no other.
LEMMA RangeLemma ==
    ASSUME NEW R, Spread(R)
    PROVE  /\ Listing(R) \in Seq(Sessions)
           /\ Lists!Range(Listing(R)) = {r.session : r \in R}
<1>1. PICK n, e : Ordered(e, n, R)
  BY OrderedExists
<1>2. /\ n \in Nat /\ e \in [1..n -> R]
      /\ \A r \in R : \E i \in 1..n : e[i] = r
  BY <1>1, OrderedParts DEF Spread
<1>3. Listing(R) = [k \in 1..n |-> e[k].session]
  BY <1>1, ListingLemma DEF Spread
<1>4. \A r \in R : r.session \in Sessions
  BY DEF Spread, Rows
<1> DEFINE L == [k \in 1..n |-> e[k].session]
<1>5. L \in Seq(Sessions)
  BY <1>2, <1>4
<1>6. Lists!Range(L) = {L[k] : k \in 1..n}
  BY DEF Lists!Range
<1>7. {L[k] : k \in 1..n} = {r.session : r \in R}
  BY <1>2
<1> QED
  BY <1>3, <1>5, <1>6, <1>7

\* A member behind the others is the last of the list.
LEMMA AppendLemma ==
    ASSUME NEW R, Spread(R), NEW r \in Rows, \A q \in R : q.position < r.position
    PROVE  /\ Spread(R \cup {r})
           /\ Listing(R \cup {r}) = Append(Listing(R), r.session)
<1>1. \A q \in R \cup {r} : q.session \in Sessions /\ q.position \in Int /\ q \in Rows
  BY BoundAssumption DEF Spread, Rows, Positions
<1>2. Spread(R \cup {r})
  BY <1>1 DEF Spread
<1>3. PICK n, e : Ordered(e, n, R)
  BY OrderedExists
<1>4. /\ n \in Nat /\ e \in [1..n -> R]
      /\ \A i, j \in 1..n : i < j => e[i].position < e[j].position
      /\ \A q \in R : \E i \in 1..n : e[i] = q
  BY <1>3, OrderedParts DEF Spread
<1>5. Listing(R) = [k \in 1..n |-> e[k].session]
  BY <1>3, ListingLemma DEF Spread
<1> DEFINE f == [k \in 1..(n + 1) |-> IF k = n + 1 THEN r ELSE e[k]]
           L == [k \in 1..n |-> e[k].session]
<1>6. Ordered(f, n + 1, R \cup {r})
  <2>1. n + 1 \in Nat /\ f \in [1..(n + 1) -> R \cup {r}]
    BY <1>4
  <2>2. \A i, j \in 1..(n + 1) : i < j => f[i].position < f[j].position
    BY <1>4
  <2>3. \A q \in R \cup {r} : \E i \in 1..(n + 1) : f[i] = q
    <3>1. f[n + 1] = r /\ n + 1 \in 1..(n + 1) /\ \A i \in 1..n : f[i] = e[i] /\ i \in 1..(n + 1)
      BY <1>4
    <3> HIDE DEF f
    <3> QED
      BY <1>4, <3>1
  <2> HIDE DEF f
  <2> QED
    BY <1>2, <2>1, <2>2, <2>3, OrderedParts DEF Spread
<1>7. Listing(R \cup {r}) = [k \in 1..(n + 1) |-> f[k].session]
  <2>1. R \cup {r} \in SUBSET Rows
    BY <1>1
  <2> HIDE DEF f
  <2> QED
    BY ONLY <2>1, <1>6, ListingLemma
<1>8. L \in Seq(Sessions) /\ Len(L) = n
  BY <1>1, <1>4
<1>9. Append(L, r.session) = [k \in 1..(n + 1) |-> IF k = n + 1 THEN r.session ELSE L[k]]
  <2> HIDE DEF L
  <2>1. /\ Append(L, r.session) \in Seq(Sessions) /\ Len(Append(L, r.session)) = n + 1
        /\ \A k \in 1..(n + 1) : Append(L, r.session)[k] = IF k = n + 1 THEN r.session ELSE L[k]
    BY <1>1, <1>4, <1>8
  <2>2. Append(L, r.session) = [k \in 1..(n + 1) |-> Append(L, r.session)[k]]
    BY <2>1
  <2> QED
    BY <2>1, <2>2
<1>10. \A k \in 1..(n + 1) : f[k].session = IF k = n + 1 THEN r.session ELSE L[k]
  BY <1>4
<1>11. Listing(R) = L
  BY <1>5
<1> HIDE DEF f, L
<1>12. Listing(R \cup {r}) = Append(L, r.session)
  BY <1>7, <1>9, <1>10
<1> QED
  BY <1>2, <1>11, <1>12

\* New members at the positions of a list are that list.
LEMMA NumberedLemma ==
    ASSUME NEW n \in Nat, NEW list \in [0..(n - 1) -> Sessions], NEW w,
           {Row(list[p], w, p) : p \in DOMAIN list} \subseteq Rows
    PROVE  Listing({Row(list[p], w, p) : p \in DOMAIN list}) = [k \in 1..n |-> list[k - 1]]
<1> DEFINE R == {Row(list[p], w, p) : p \in DOMAIN list}
           e == [k \in 1..n |-> Row(list[k - 1], w, k - 1)]
<1>1. \A p \in 0..(n - 1) : Row(list[p], w, p) \in R
                            /\ Row(list[p], w, p).position = p /\ Row(list[p], w, p).session = list[p]
  BY DEF Row
<1>2. \A r \in R : \E p \in 0..(n - 1) : r = Row(list[p], w, p)
  OBVIOUS
<1> HIDE DEF R
<1>3. \A k \in 1..n : e[k] \in R /\ e[k].position = k - 1 /\ e[k].session = list[k - 1]
  BY <1>1
<1>4. \A r \in R : \E i \in 1..n : e[i] = r
  <2> TAKE r \in R
  <2>1. PICK p \in 0..(n - 1) : r = Row(list[p], w, p)
    BY <1>2
  <2>2. p + 1 \in 1..n /\ (p + 1) - 1 = p
    OBVIOUS
  <2>3. e[p + 1] = r
    BY <2>1, <2>2
  <2> QED
    BY <2>2, <2>3
<1>5. e \in [1..n -> R]
  BY <1>3
<1> HIDE DEF e
<1>6. R \in SUBSET Rows
  BY DEF R
<1>7. \A i, j \in 1..n : i < j => e[i].position < e[j].position
  BY <1>3
<1>8. Ordered(e, n, R)
  BY <1>4, <1>5, <1>6, <1>7, OrderedParts
<1>9. Listing(R) = [k \in 1..n |-> e[k].session]
  BY <1>6, <1>8, ListingLemma
<1> QED
  BY <1>3, <1>9 DEF R

\* The member that follows one that leaves is the next of the list.
LEMMA AfterLemma ==
    ASSUME NEW R, Spread(R), NEW m \in R, \A r \in R : r.session = m.session => r = m
    PROVE  /\ {r \in R : r.session \notin {m.session}} = R \ {m}
           /\ Lists!After(Listing(R), m.session) = Fallback(R \ {m}, m.position)
<1> DEFINE rest == R \ {m}
           after == {r \in rest : r.position > m.position}
<1>1. {r \in R : r.session \notin {m.session}} = rest
  OBVIOUS
<1>2. Spread(rest) /\ Spread(after)
  BY DEF Spread
<1>3. PICK n, e : Ordered(e, n, R)
  BY OrderedExists
<1>4. /\ n \in Nat /\ e \in [1..n -> R]
      /\ \A i, j \in 1..n : i < j => e[i].position < e[j].position
      /\ \A q \in R : \E i \in 1..n : e[i] = q
  BY <1>3, OrderedParts DEF Spread
<1>5. \A r \in R : r.session \in Sessions /\ r.position \in Int
  BY BoundAssumption DEF Spread, Rows, Positions
<1> DEFINE L == [k \in 1..n |-> e[k].session]
<1>6. Listing(R) = L
  BY <1>3, ListingLemma DEF Spread
<1>7. PICK k \in 1..n : e[k] = m
  BY <1>4
<1>8. L \in Seq(Sessions) /\ Len(L) = n /\ \A i \in 1..n : L[i] = e[i].session
  BY <1>4, <1>5
<1>9. \A i \in 1..n : L[i] = m.session <=> i = k
  <2> TAKE i \in 1..n
  <2>1. ASSUME L[i] = m.session PROVE i = k
    <3>1. e[i] = e[k]
      BY <1>4, <1>7, <1>8, <2>1
    <3>2. ~(i < k) /\ ~(k < i)
      BY <1>4, <1>5, <3>1
    <3> QED
      BY <3>2
  <2> QED
    BY <1>7, <1>8, <2>1
<1> HIDE DEF L
<1>10. Lists!Last(L) = L[n]
  BY <1>8 DEF Lists!Last
<1>11. CASE k = n
  <2>1. Lists!Last(L) = m.session
    BY <1>4, <1>9, <1>10, <1>11
  <2>2. Lists!After(L, m.session) = Lowest(rest)
    BY <1>1, <1>2, <1>6, <2>1, OthersLemma, FirstLemma DEF Lists!After
  <2>3. after = {}
    BY <1>4, <1>5, <1>7, <1>11
  <2> QED
    BY <1>1, <1>6, <2>2, <2>3 DEF Fallback
<1>12. CASE k # n
  <2>1. Lists!Last(L) # m.session /\ k + 1 \in 1..n /\ n \in 1..n
    BY <1>4, <1>9, <1>10, <1>12
  <2>2. (CHOOSE i \in 1..Len(L) : L[i] = m.session) = k
    BY <1>8, <1>9
  <2>3. Lists!After(L, m.session) = L[1 + k]
    BY <2>1, <2>2 DEF Lists!After
  <2>4. e[k + 1] \in after
    BY <1>4, <1>5, <1>7, <2>1
  <2>5. \A r \in after : e[k + 1].position <= r.position
    <3> TAKE r \in after
    <3>1. PICK i \in 1..n : e[i] = r
      BY <1>4
    <3>2. k < i
      <4>1. ~(i < k) /\ i # k
        BY <1>4, <1>5, <1>7, <3>1
      <4> QED
        BY <4>1
    <3>3. CASE i = k + 1
      BY <1>5, <3>1, <3>3
    <3>4. CASE i # k + 1
      BY <1>4, <1>5, <2>1, <3>1, <3>2, <3>4
    <3> QED
      BY <3>3, <3>4
  <2>6. Lowest(after) = e[k + 1].session
    <3> HIDE DEF after
    <3> QED
      BY <1>2, <2>4, <2>5, LowestIs
  <2>7. Fallback(rest, m.position) = Lowest(after)
    BY <2>4 DEF Fallback
  <2>8. L[1 + k] = e[k + 1].session
    BY <1>8, <2>1
  <2> QED
    BY <1>1, <1>6, <2>3, <2>6, <2>7, <2>8
<1> QED
  BY <1>11, <1>12

-----------------------------------------------------------------------------
(* What the statements make of the lists.                                  *)

\* What the lists say of one workspace.
Entry(d, w) == [members |-> Listing(Members(d, w)), active |-> d.active[w]]

\* The two parts of an entry.
LEMMA EntryParts ==
    ASSUME NEW d, NEW w
    PROVE  Entry(d, w).members = Listing(Members(d, w)) /\ Entry(d, w).active = d.active[w]
  BY DEF Entry

\* The lists of a database, workspace by workspace.
LEMMA BookParts ==
    ASSUME NEW d
    PROVE  /\ DOMAIN Book(d) = DOMAIN d.active
           /\ \A w \in DOMAIN d.active : Book(d)[w] = Entry(d, w)
  BY DEF Book, Entry

\* Lists with the same entries are the same lists.
LEMMA BookIs ==
    ASSUME NEW d, NEW b, b = [w \in DOMAIN d.active |-> b[w]],
           \A w \in DOMAIN d.active : b[w] = Entry(d, w)
    PROVE  Book(d) = b
  BY DEF Book, Entry

\* The members of one workspace have positions of their own.
LEMMA MembersLemma ==
    ASSUME NEW d, IsDB(d), Valid(d), NEW w
    PROVE  Spread(Members(d, w))
  BY DEF Spread, Members, Valid, OneMemberPerPosition, IsDB

\* The listed sessions are those with a row.
LEMMA ListedLemma ==
    ASSUME IsDB(db), Valid(db)
    PROVE  Lists!Listed = Owned(db)
<1>1. Lists!Listed = UNION {Lists!Range(book[w].members) : w \in DOMAIN book}
  BY DEF Lists!Listed
<1>2. DOMAIN book = DOMAIN db.active
  BY BookParts DEF book
<1>3. \A w \in DOMAIN db.active :
          Lists!Range(book[w].members) = {r.session : r \in Members(db, w)}
  <2> TAKE w \in DOMAIN db.active
  <2>1. book[w].members = Listing(Members(db, w))
    BY BookParts, EntryParts DEF book
  <2>2. Spread(Members(db, w))
    BY MembersLemma
  <2> QED
    BY <2>1, <2>2, RangeLemma
<1>4. \A r \in db.rows : r.workspace \in DOMAIN db.active
  BY DEF Valid, RowsHaveWorkspace
<1>5. ASSUME NEW s \in Lists!Listed PROVE s \in Owned(db)
  <2>1. PICK w \in DOMAIN db.active : s \in Lists!Range(book[w].members)
    BY <1>1, <1>2, <1>5
  <2>2. PICK r \in Members(db, w) : s = r.session
    BY <1>3, <2>1
  <2> QED
    BY <2>2 DEF Owned, Members
<1>6. ASSUME NEW s \in Owned(db) PROVE s \in Lists!Listed
  <2>1. PICK r \in db.rows : s = r.session
    BY <1>6 DEF Owned
  <2>2. r \in Members(db, r.workspace) /\ r.workspace \in DOMAIN book
    BY <1>2, <1>4 DEF Members
  <2>3. s \in Lists!Range(book[r.workspace].members)
    BY <1>2, <1>3, <2>1, <2>2
  <2> QED
    BY <1>1, <2>2, <2>3
<1> QED
  BY <1>5, <1>6

\* Taking sessions out of their workspaces, and closing those left empty.
LEMMA RepairBook ==
    ASSUME IsDB(db), Valid(db), NEW S \in SUBSET Sessions
    PROVE  Book(Repair(db, S)) = Lists!TakenOut(S)
<1> DEFINE d == Repair(db, S)
           b == Lists!TakenOut(S)
<1>1. DOMAIN d.active = DOMAIN db.active
  BY RepairLemma
<1>2. DOMAIN book = DOMAIN db.active /\ \A w \in DOMAIN db.active : book[w] = Entry(db, w)
  BY BookParts DEF book
<1>3. /\ b = [w \in DOMAIN db.active |-> b[w]]
      /\ \A w \in DOMAIN db.active :
            b[w] = [members |-> Lists!Others(book[w].members, S),
                    active |-> IF book[w].active \in S
                               THEN Lists!First(Lists!Others(book[w].members, S))
                               ELSE book[w].active]
  BY <1>2 DEF Lists!TakenOut
<1>4. ASSUME NEW w \in DOMAIN db.active PROVE b[w] = Entry(d, w)
  <2> DEFINE M == Members(db, w)
             left == {r \in M : r.session \notin S}
  <2>1. Spread(M) /\ Spread(left) /\ Listing(left) = Lists!Others(Listing(M), S)
    BY MembersLemma, OthersLemma
  <2>2. Members(d, w) = left
    BY DEF Repair, Members
  <2>3. Lists!First(Listing(left)) = Lowest(left)
    BY <2>1, FirstLemma
  <2>4. d.active[w] = IF db.active[w] \in S THEN Lowest(left) ELSE db.active[w]
    <3> DEFINE rest == {r \in db.rows : r.session \notin S}
               Left(v) == {r \in rest : r.workspace = v}
               affected == {r.workspace : r \in db.rows \ rest}
    <3>1. d.active[w] = IF /\ w \in affected
                           /\ db.active[w] # NoSession
                           /\ \A r \in Left(w) : r.session # db.active[w]
                        THEN Lowest(Left(w)) ELSE db.active[w]
      BY DEF Repair
    <3>2. Left(w) = left
      BY DEF Members
    <3>3. db.active[w] # NoSession =>
              \E r \in db.rows : r.workspace = w /\ r.session = db.active[w]
      BY DEF Valid, ActiveIsMember
    <3>4. CASE db.active[w] \in S
      <4>1. db.active[w] # NoSession
        BY <3>4, NoSessionAssumption
      <4>2. PICK r \in db.rows : r.workspace = w /\ r.session = db.active[w]
        BY <3>3, <4>1
      <4>3. w \in affected
        BY <3>4, <4>2
      <4>4. \A q \in Left(w) : q.session # db.active[w]
        BY <3>4
      <4> QED
        BY <3>1, <3>2, <3>4, <4>1, <4>3, <4>4
    <3>5. CASE db.active[w] \notin S /\ db.active[w] # NoSession
      <4>1. PICK r \in db.rows : r.workspace = w /\ r.session = db.active[w]
        BY <3>3, <3>5
      <4>2. r \in Left(w)
        BY <3>5, <4>1
      <4> QED
        BY <3>1, <3>5, <4>1, <4>2
    <3>6. CASE db.active[w] = NoSession
      BY <3>1, <3>6, NoSessionAssumption
    <3> QED
      BY <3>4, <3>5, <3>6
  <2>5. book[w].members = Listing(M) /\ book[w].active = db.active[w]
    BY <1>2, EntryParts
  <2> HIDE DEF left, M
  <2> QED
    BY <1>3, <2>1, <2>2, <2>3, <2>4, <2>5 DEF Entry
<1> HIDE DEF b, d
<1> QED
  BY <1>1, <1>3, <1>4, BookIs DEF b, d

\* The listing of a single member.
LEMMA SingletonListing ==
    ASSUME NEW r \in Rows
    PROVE  /\ Listing({r}) = <<r.session>>
           /\ Lists!Opened(<<r.session>>) = [members |-> <<r.session>>, active |-> r.session]
<1> DEFINE e == [k \in 1..1 |-> r]
<1>1. Ordered(e, 1, {r})
  <2>1. /\ e \in [1..1 -> {r}]
        /\ \A i, j \in 1..1 : i < j => e[i].position < e[j].position
        /\ \A q \in {r} : \E i \in 1..1 : e[i] = q
    OBVIOUS
  <2> HIDE DEF e
  <2> QED
    BY <2>1, OrderedParts
<1>2. Listing({r}) = [k \in 1..1 |-> e[k].session]
  <2> HIDE DEF e
  <2> QED
    BY <1>1, ListingLemma
<1>3. [k \in 1..1 |-> e[k].session] = <<r.session>>
  OBVIOUS
<1>4. <<r.session>> # <<>> /\ Head(<<r.session>>) = r.session
  OBVIOUS
<1> QED
  BY <1>2, <1>3, <1>4 DEF Lists!Opened, Lists!First

\* A workspace of its own for every session in home.
LEMMA SingletonsBook ==
    ASSUME NEW d, IsDB(d), Valid(d),
           NEW home, DOMAIN home \subseteq Sessions, Range(home) \subseteq Workspaces,
           Range(home) \cap DOMAIN d.active = {}, IsInjective(home)
    PROVE  Book(InsertSingletons(d, home)) =
             Lists!Beside([w \in Lists!Range(home) |->
                              Lists!Opened(<<CHOOSE s \in DOMAIN home : home[s] = w>>)],
                          Book(d))
<1> DEFINE e == InsertSingletons(d, home)
           f == [w \in Lists!Range(home) |->
                     Lists!Opened(<<CHOOSE s \in DOMAIN home : home[s] = w>>)]
           b == Lists!Beside(f, Book(d))
<1>1. /\ DOMAIN e.active = DOMAIN d.active \cup Range(home)
      /\ \A w \in Range(home) : e.active[w] = CHOOSE s \in DOMAIN home : home[s] = w
      /\ \A w \in DOMAIN d.active : e.active[w] = d.active[w]
      /\ e.rows = d.rows \cup {Row(s, home[s], 0) : s \in DOMAIN home}
  BY DEF InsertSingletons
<1>2. Lists!Range(home) = Range(home)
  BY DEF Lists!Range, Range
<1>3. DOMAIN f = Range(home) /\ DOMAIN Book(d) = DOMAIN d.active
  BY <1>2, BookParts
<1>4. /\ b = [w \in DOMAIN e.active |-> b[w]]
      /\ \A w \in DOMAIN f : b[w] = f[w]
      /\ \A w \in DOMAIN Book(d) \ DOMAIN f : b[w] = Book(d)[w]
  <2>1. DOMAIN f \cup DOMAIN Book(d) = DOMAIN e.active
    BY <1>1, <1>3
  <2> HIDE DEF f, e
  <2>2. /\ Lists!Beside(f, Book(d)) = [w \in DOMAIN f \cup DOMAIN Book(d) |->
                                          Lists!Beside(f, Book(d))[w]]
        /\ \A w \in DOMAIN f : Lists!Beside(f, Book(d))[w] = f[w]
        /\ \A w \in DOMAIN Book(d) \ DOMAIN f : Lists!Beside(f, Book(d))[w] = Book(d)[w]
    BY ONLY DEF Lists!Beside
  <2> QED
    BY <2>1, <2>2
<1>5. ASSUME NEW w \in Range(home) PROVE b[w] = Entry(e, w)
  <2> DEFINE s == CHOOSE t \in DOMAIN home : home[t] = w
  <2>1. s \in DOMAIN home /\ home[s] = w
    BY <1>5 DEF Range
  <2>2. \A t \in DOMAIN home : home[t] = w => t = s
    BY <2>1 DEF IsInjective
  <2>3. f[w] = Lists!Opened(<<s>>)
    BY <1>2
  <2>4. e.active[w] = s
    BY <1>1
  <2> HIDE DEF s, e
  <2>5. Row(s, w, 0) \in Rows /\ Row(s, w, 0).session = s
    BY <2>1, BoundAssumption DEF Row, Rows, Positions
  <2>6. \A r \in d.rows : r.workspace # w
    BY <1>5 DEF Valid, RowsHaveWorkspace
  <2>7. Members(e, w) = {Row(s, w, 0)}
    <3>1. \A r \in e.rows : r.workspace = w => r = Row(s, w, 0)
      BY <1>1, <2>2, <2>6 DEF Row
    <3>2. Row(s, w, 0) \in e.rows /\ Row(s, w, 0).workspace = w
      BY <1>1, <2>1 DEF Row
    <3> QED
      BY <3>1, <3>2 DEF Members
  <2>8. Lists!Opened(<<s>>) = Entry(e, w)
    BY <2>4, <2>5, <2>7, SingletonListing DEF Entry
  <2>9. b[w] = f[w]
    BY ONLY <1>3, <1>4, <1>5
  <2> QED
    BY <2>3, <2>8, <2>9
<1>6. ASSUME NEW w \in DOMAIN d.active PROVE b[w] = Entry(e, w)
  <2>1. w \notin Range(home)
    BY <1>6
  <2>2. Members(e, w) = Members(d, w)
    <3>1. \A s \in DOMAIN home : Row(s, home[s], 0).workspace # w
      BY <2>1 DEF Row, Range
    <3> QED
      BY <1>1, <3>1 DEF Members
  <2>3. b[w] = Book(d)[w]
    BY ONLY <1>3, <1>4, <1>6, <2>1
  <2>4. Book(d)[w] = Entry(d, w)
    BY <1>6, BookParts
  <2> QED
    BY <1>1, <2>2, <2>3, <2>4 DEF Entry
<1> HIDE DEF b, e, f
<1>7. \A w \in DOMAIN e.active : b[w] = Entry(e, w)
  BY <1>1, <1>5, <1>6
<1>8. Book(e) = b
  BY <1>4, <1>7, BookIs
<1> QED
  BY <1>8 DEF b, e, f

\* A workspace for a list of sessions.
LEMMA GroupBook ==
    ASSUME NEW d, IsDB(d), Valid(d), NEW w \in Workspaces \ DOMAIN d.active,
           NEW n \in Nat, NEW list \in [0..(n - 1) -> Sessions], Fits(Insert(d, w, list))
    PROVE  Book(Insert(d, w, list)) =
             Lists!Beside([v \in {w} |-> Lists!Opened([k \in 1..n |-> list[k - 1]])], Book(d))
<1> DEFINE e == Insert(d, w, list)
           L == [k \in 1..n |-> list[k - 1]]
           f == [v \in {w} |-> Lists!Opened(L)]
           b == Lists!Beside(f, Book(d))
           new == {Row(list[p], w, p) : p \in DOMAIN list}
<1>1. /\ DOMAIN e.active = DOMAIN d.active \cup {w}
      /\ e.active[w] = IF 0 \in DOMAIN list THEN list[0] ELSE NoSession
      /\ \A v \in DOMAIN d.active : e.active[v] = d.active[v]
      /\ e.rows = d.rows \cup new
  BY DEF Insert
<1>2. DOMAIN f = {w} /\ DOMAIN Book(d) = DOMAIN d.active /\ f[w] = Lists!Opened(L)
  BY BookParts
<1>3. /\ b = [v \in DOMAIN e.active |-> b[v]]
      /\ \A v \in DOMAIN f : b[v] = f[v]
      /\ \A v \in DOMAIN Book(d) \ DOMAIN f : b[v] = Book(d)[v]
  <2>1. DOMAIN f \cup DOMAIN Book(d) = DOMAIN e.active
    BY <1>1, <1>2
  <2> HIDE DEF f, e
  <2>2. /\ Lists!Beside(f, Book(d)) = [v \in DOMAIN f \cup DOMAIN Book(d) |->
                                          Lists!Beside(f, Book(d))[v]]
        /\ \A v \in DOMAIN f : Lists!Beside(f, Book(d))[v] = f[v]
        /\ \A v \in DOMAIN Book(d) \ DOMAIN f : Lists!Beside(f, Book(d))[v] = Book(d)[v]
    BY ONLY DEF Lists!Beside
  <2> QED
    BY <2>1, <2>2
<1>4. Members(e, w) = new
  <2>1. \A r \in d.rows : r.workspace # w
    BY DEF Valid, RowsHaveWorkspace
  <2>2. \A p \in DOMAIN list : Row(list[p], w, p).workspace = w
    BY DEF Row
  <2> QED
    BY <1>1, <2>1, <2>2 DEF Members
<1>5. new \subseteq Rows
  <2>1. \A p \in DOMAIN list : Row(list[p], w, p) \in Rows
    <3> TAKE p \in DOMAIN list
    <3>1. Row(list[p], w, p) \in e.rows /\ Row(list[p], w, p).position = p
      BY <1>1 DEF Row
    <3>2. p \in Positions
      BY <3>1 DEF Fits
    <3> QED
      BY <3>2 DEF Row, Rows
  <2> QED
    BY <2>1
<1>6. Listing(new) = L
  BY <1>5, NumberedLemma
<1>7. Lists!First(L) = IF 0 \in DOMAIN list THEN list[0] ELSE NoSession
  <2>1. CASE n = 0
    <3>1. L = <<>> /\ 0 \notin DOMAIN list
      BY <2>1
    <3> QED
      BY <3>1 DEF Lists!First
  <2>2. CASE n # 0
    <3>1. L \in Seq(Sessions) /\ Len(L) = n /\ L[1] = list[0] /\ 0 \in DOMAIN list
      BY <2>2
    <3> HIDE DEF L
    <3>2. L # <<>> /\ Head(L) = L[1]
      BY <2>2, <3>1
    <3> QED
      BY <3>1, <3>2 DEF Lists!First
  <2> QED
    BY <2>1, <2>2
<1>8. b[w] = Entry(e, w)
  <2> HIDE DEF e, L, new, f, b
  <2>1. f[w] = [members |-> L, active |-> Lists!First(L)]
    BY <1>2 DEF Lists!Opened
  <2>2. b[w] = f[w]
    BY <1>2, <1>3
  <2> QED
    BY <1>1, <1>4, <1>6, <1>7, <2>1, <2>2 DEF Entry
<1>9. ASSUME NEW v \in DOMAIN d.active PROVE b[v] = Entry(e, v)
  <2>1. v # w
    OBVIOUS
  <2>2. Members(e, v) = Members(d, v)
    <3>1. \A p \in DOMAIN list : Row(list[p], w, p).workspace # v
      BY <2>1 DEF Row
    <3> QED
      BY <1>1, <3>1 DEF Members
  <2>3. b[v] = Book(d)[v]
    BY ONLY <1>2, <1>3, <1>9, <2>1
  <2>4. Book(d)[v] = Entry(d, v)
    BY <1>9, BookParts
  <2> QED
    BY <1>1, <2>2, <2>3, <2>4 DEF Entry
<1> HIDE DEF b, e, f, L
<1>10. \A v \in DOMAIN e.active : b[v] = Entry(e, v)
  BY <1>1, <1>8, <1>9
<1>11. Book(e) = b
  BY <1>3, <1>10, BookIs
<1> QED
  BY <1>11 DEF b, e, f, L

\* Where only the entry of w differs.
LEMMA BookExcept ==
    ASSUME NEW d, NEW e, NEW w \in DOMAIN d.active,
           DOMAIN e.active = DOMAIN d.active,
           \A v \in DOMAIN d.active \ {w} : Members(e, v) = Members(d, v) /\ e.active[v] = d.active[v]
    PROVE  Book(e) = [Book(d) EXCEPT ![w] = Entry(e, w)]
<1> DEFINE b == [Book(d) EXCEPT ![w] = Entry(e, w)]
<1>1. Book(d) = [v \in DOMAIN d.active |-> Entry(d, v)]
  BY DEF Book, Entry
<1>2. \A v \in DOMAIN d.active \ {w} : Entry(e, v) = Entry(d, v)
  BY DEF Entry
<1>3. b = [v \in DOMAIN d.active |-> IF v = w THEN Entry(e, w) ELSE Entry(d, v)]
  BY <1>1
<1> HIDE DEF b
<1>4. b = [v \in DOMAIN e.active |-> b[v]] /\ \A v \in DOMAIN e.active : b[v] = Entry(e, v)
  BY <1>2, <1>3
<1>5. Book(e) = b
  BY <1>4, BookIs
<1> QED
  BY <1>5 DEF b

\* A session behind the members of a workspace.
LEMMA AttachBook ==
    ASSUME NEW d, IsDB(d), Valid(d), NEW w \in DOMAIN d.active, NEW s \in Sessions,
           Fits(AttachMember(d, w, s))
    PROVE  Book(AttachMember(d, w, s)) =
             [Book(d) EXCEPT ![w] = [members |-> Append(@.members, s), active |-> s]]
<1> DEFINE e == AttachMember(d, w, s)
           p == NextPosition(d, w)
           r == Row(s, w, p)
           free == {k \in 0..(MaxPosition + 1) : \A q \in Members(d, w) : q.position < k}
<1>1. Shape(d) /\ Fits(d)
  BY IsDBLemma
<1>2. /\ e.active = [d.active EXCEPT ![w] = s] /\ e.rows = d.rows \cup {r}
  BY DEF AttachMember
<1>3. /\ DOMAIN e.active = DOMAIN d.active /\ e.active[w] = s
      /\ \A v \in DOMAIN d.active \ {w} : e.active[v] = d.active[v]
  BY <1>1, <1>2, ShapeParts
<1>4. p \in free
  <2>1. free \in SUBSET Nat /\ MaxPosition + 1 \in free
    BY <1>1, BoundAssumption DEF Members, Fits, Positions
  <2> QED
    BY <2>1, LeastLemma DEF NextPosition
<1>5. r.session = s /\ r.workspace = w /\ r.position = p
  BY DEF Row
<1>6. p \in Positions
  BY <1>2, <1>5 DEF Fits
<1>7. r \in Rows /\ \A q \in Members(d, w) : q.position < r.position
  <2>1. w \in Workspaces
    BY <1>1, ShapeParts
  <2> QED
    BY <1>4, <1>5, <1>6, <2>1 DEF Row, Rows
<1> HIDE DEF r, p, free
<1>8. Members(e, w) = Members(d, w) \cup {r}
  BY <1>2, <1>5 DEF Members
<1>9. \A v \in DOMAIN d.active \ {w} : Members(e, v) = Members(d, v)
  BY <1>2, <1>5 DEF Members
<1>10. Listing(Members(e, w)) = Append(Listing(Members(d, w)), s)
  BY <1>5, <1>7, <1>8, MembersLemma, AppendLemma
<1>11. Book(d)[w].members = Listing(Members(d, w))
  BY BookParts, EntryParts
<1> HIDE DEF e
<1>12. Entry(e, w) = [members |-> Append(Book(d)[w].members, s), active |-> s]
  BY <1>3, <1>10, <1>11 DEF Entry
<1>13. Book(e) = [Book(d) EXCEPT ![w] = Entry(e, w)]
  BY <1>3, <1>9, BookExcept
<1> QED
  BY <1>12, <1>13 DEF e

\* Another active session in a workspace.
LEMMA ActivateBook ==
    ASSUME NEW d, IsDB(d), NEW w \in DOMAIN d.active, NEW s
    PROVE  Book(Activate(d, w, s)) = [Book(d) EXCEPT ![w].active = s]
<1> DEFINE e == Activate(d, w, s)
<1>1. Shape(d)
  BY IsDBLemma
<1>2. e.active = [d.active EXCEPT ![w] = s] /\ e.rows = d.rows
  BY DEF Activate
<1>3. /\ DOMAIN e.active = DOMAIN d.active /\ e.active[w] = s
      /\ \A v \in DOMAIN d.active \ {w} : e.active[v] = d.active[v]
  BY <1>1, <1>2, ShapeParts
<1>4. \A v : Members(e, v) = Members(d, v)
  BY <1>2 DEF Members
<1> HIDE DEF e
<1>5. Entry(e, w) = [Entry(d, w) EXCEPT !.active = s]
  BY <1>3, <1>4 DEF Entry
<1>6. Book(d)[w] = Entry(d, w)
  BY BookParts
<1>7. Book(e) = [Book(d) EXCEPT ![w] = Entry(e, w)]
  <2>1. \A v \in DOMAIN d.active \ {w} : Members(e, v) = Members(d, v) /\ e.active[v] = d.active[v]
    BY <1>3, <1>4
  <2> QED
    BY ONLY <1>3, <2>1, BookExcept, w \in DOMAIN d.active
<1> QED
  BY <1>5, <1>6, <1>7 DEF e

\* Removing a member: its place goes to the next one.
LEMMA RemoveBook ==
    ASSUME NEW d, IsDB(d), Valid(d), NEW m \in d.rows
    PROVE  Book(RemoveMember(d, m)) =
             [Book(d) EXCEPT ![m.workspace] =
                 [members |-> Lists!Others(@.members, {m.session}),
                  active |-> IF @.active = m.session THEN Lists!After(@.members, m.session)
                             ELSE @.active]]
<1> DEFINE e == RemoveMember(d, m)
           w == m.workspace
           M == Members(d, w)
<1>1. Shape(d) /\ w \in DOMAIN d.active
  BY IsDBLemma DEF Valid, RowsHaveWorkspace
<1>2. /\ e.rows = d.rows \ {m}
      /\ e.active = [d.active EXCEPT ![w] = IF @ = m.session
                        THEN Fallback({r \in d.rows \ {m} : r.workspace = w}, m.position) ELSE @]
  BY DEF RemoveMember
<1>3. {r \in d.rows \ {m} : r.workspace = w} = M \ {m}
  BY DEF Members
<1>4. /\ DOMAIN e.active = DOMAIN d.active
      /\ e.active[w] = IF d.active[w] = m.session THEN Fallback(M \ {m}, m.position)
                       ELSE d.active[w]
      /\ \A v \in DOMAIN d.active \ {w} : e.active[v] = d.active[v]
  BY <1>1, <1>2, <1>3, ShapeParts
<1>5. Members(e, w) = M \ {m}
  BY <1>2 DEF Members
<1>6. \A v \in DOMAIN d.active \ {w} : Members(e, v) = Members(d, v)
  BY <1>2 DEF Members
<1>7. Spread(M) /\ m \in M /\ \A r \in M : r.session = m.session => r = m
  BY MembersLemma DEF Members, Valid, OneRowPerSession
<1> HIDE DEF e, M
<1>8. /\ {r \in M : r.session \notin {m.session}} = M \ {m}
      /\ Lists!After(Listing(M), m.session) = Fallback(M \ {m}, m.position)
  BY <1>7, AfterLemma
<1>9. Listing(M \ {m}) = Lists!Others(Listing(M), {m.session})
  BY <1>7, <1>8, OthersLemma
<1>10. Book(d)[w].members = Listing(M) /\ Book(d)[w].active = d.active[w]
  BY <1>1, BookParts, EntryParts DEF M
<1> HIDE DEF w
<1>11. Entry(e, w) =
         [members |-> Lists!Others(Book(d)[w].members, {m.session}),
          active |-> IF Book(d)[w].active = m.session THEN Lists!After(Book(d)[w].members, m.session)
                     ELSE Book(d)[w].active]
  BY <1>4, <1>5, <1>8, <1>9, <1>10 DEF Entry
<1>12. Book(e) = [Book(d) EXCEPT ![w] = Entry(e, w)]
  <2>1. \A v \in DOMAIN d.active \ {w} : Members(e, v) = Members(d, v) /\ e.active[v] = d.active[v]
    BY <1>4, <1>6
  <2>2. w \in DOMAIN d.active /\ DOMAIN e.active = DOMAIN d.active
    BY <1>1, <1>4
  <2> QED
    BY ONLY <2>1, <2>2, BookExcept
<1> QED
  BY <1>11, <1>12 DEF e, w

\* Removing a workspace.
LEMMA DeleteBook ==
    ASSUME NEW d, NEW w
    PROVE  Book(DeleteWorkspace(d, w)) = [v \in DOMAIN Book(d) \ {w} |-> Book(d)[v]]
<1> DEFINE e == DeleteWorkspace(d, w)
           b == [v \in DOMAIN Book(d) \ {w} |-> Book(d)[v]]
<1>1. DOMAIN e.active = DOMAIN d.active \ {w} /\ \A v \in DOMAIN e.active : e.active[v] = d.active[v]
  BY DEF DeleteWorkspace
<1>2. \A v \in DOMAIN e.active : Members(e, v) = Members(d, v)
  BY <1>1 DEF DeleteWorkspace, Members
<1>3. DOMAIN Book(d) = DOMAIN d.active /\ \A v \in DOMAIN d.active : Book(d)[v] = Entry(d, v)
  BY BookParts
<1>4. b = [v \in DOMAIN e.active |-> b[v]]
  BY <1>1, <1>3
<1>5. \A v \in DOMAIN e.active : b[v] = Entry(e, v)
  <2> HIDE DEF e
  <2>1. \A v \in DOMAIN e.active : Entry(e, v) = Entry(d, v)
    BY <1>1, <1>2 DEF Entry
  <2> QED
    BY <1>1, <1>3, <2>1
<1> HIDE DEF b, e
<1>6. Book(e) = b
  BY <1>4, <1>5, BookIs
<1> QED
  BY <1>6 DEF b, e

-----------------------------------------------------------------------------
(* What the transactions make of the lists.                                *)

\* The lists an operation on the present ones may lead to.
ByReconcile(b) == \E E \in SUBSET Sessions : b \in Lists!Reconciliations(E, {})

\* ... a session joins a workspace,
ByJoin(b) ==
    \E E \in SUBSET Sessions : \E s \in E \ Lists!Listed, w \in DOMAIN book :
       \E c \in Lists!Reconciliations(E, {s}) :
          b = [c EXCEPT ![w] = [members |-> Append(@.members, s), active |-> s]]

\* ... sessions are grouped in a new one,
ByGroup(b) ==
    \E n \in 0..Cardinality(Sessions) : \E list \in [1..n -> Sessions], w \in Lists!NewIds :
       /\ Lists!IsInjective(list)
       /\ b = Lists!Beside([v \in {w} |-> Lists!Opened(list)],
                           Lists!TakenOut(Lists!Range(list)))

\* ... a session leaves,
ByLeave(b) ==
    \E s \in Sessions, w \in DOMAIN book :
       /\ s \in Lists!Range(book[w].members)
       /\ b = [book EXCEPT ![w] =
                  [members |-> Lists!Others(@.members, {s}),
                   active |-> IF @.active = s THEN Lists!After(@.members, s) ELSE @.active]]

\* ... another session becomes active,
ByChoose(b) ==
    \E w \in DOMAIN book, s \in Sessions \cup {NoSession} :
       /\ s \in Lists!Range(book[w].members) \cup {NoSession}
       /\ b = [book EXCEPT ![w].active = s]

\* ... or a workspace goes.
ByDissolve(b) == \E w \in DOMAIN book : b = [v \in DOMAIN book \ {w} |-> book[v]]

\* b is what one operation makes of the lists as they are.
Reachable(b) ==
    ByReconcile(b) \/ ByJoin(b) \/ ByGroup(b) \/ ByLeave(b) \/ ByChoose(b) \/ ByDissolve(b)

\* Such a change is a step of WorkspaceLists.
LEMMA ReachableLemma ==
    Reachable(book') => [Lists!Next]_book
<1> SUFFICES ASSUME Reachable(book'), book' # book PROVE Lists!Next
  OBVIOUS
<1>1. CASE ByReconcile(book')
  BY <1>1 DEF ByReconcile, Lists!Next, Lists!Reconcile
<1>2. CASE ByJoin(book')
  <2>0. PICK E \in SUBSET Sessions : \E s \in E \ Lists!Listed, w \in DOMAIN book :
              \E c \in Lists!Reconciliations(E, {s}) :
                 book' = [c EXCEPT ![w] = [members |-> Append(@.members, s), active |-> s]]
    BY <1>2 DEF ByJoin
  <2>1. PICK s \in E \ Lists!Listed, w \in DOMAIN book :
              \E c \in Lists!Reconciliations(E, {s}) :
                 book' = [c EXCEPT ![w] = [members |-> Append(@.members, s), active |-> s]]
    BY <2>0
  <2>2. Lists!Join(E, s, w)
    BY <2>1 DEF Lists!Join
  <2> QED
    BY <2>2 DEF Lists!Next
<1>3. CASE ByGroup(book')
  <2>0. PICK n \in 0..Cardinality(Sessions) :
              \E list \in [1..n -> Sessions], w \in Lists!NewIds :
                 /\ Lists!IsInjective(list)
                 /\ book' = Lists!Beside([v \in {w} |-> Lists!Opened(list)],
                                         Lists!TakenOut(Lists!Range(list)))
    BY <1>3 DEF ByGroup
  <2>1. PICK list \in [1..n -> Sessions], w \in Lists!NewIds :
                 /\ Lists!IsInjective(list)
                 /\ book' = Lists!Beside([v \in {w} |-> Lists!Opened(list)],
                                         Lists!TakenOut(Lists!Range(list)))
    BY <2>0
  <2>2. Lists!Group(list)
    BY <2>1 DEF Lists!Group
  <2>3. n \in 0..Lists!Cardinality(Sessions)
    BY CardinalityLemma
  <2> QED
    BY <2>2, <2>3 DEF Lists!Next
<1>4. CASE ByLeave(book')
  <2>1. \E s \in Sessions : Lists!Leave(s)
    BY <1>4 DEF ByLeave, Lists!Leave
  <2> QED
    BY <2>1 DEF Lists!Next
<1>5. CASE ByChoose(book')
  <2>1. \E w \in DOMAIN book : \E s \in Sessions \cup {NoSession} : Lists!Choose(w, s)
    BY <1>5 DEF ByChoose, Lists!Choose
  <2> QED
    BY <2>1 DEF Lists!Next
<1>6. CASE ByDissolve(book')
  <2>1. \E w \in DOMAIN book : Lists!Dissolve(w)
    BY <1>6 DEF ByDissolve, Lists!Dissolve
  <2> QED
    BY <2>1 DEF Lists!Next
<1> QED
  BY <1>1, <1>2, <1>3, <1>4, <1>5, <1>6 DEF Reachable

\* Reconciling the tables reconciles the lists.
LEMMA ReconciledBook ==
    ASSUME IsDB(db), Valid(db), NEW E \in SUBSET Sessions, NEW N, NEW d \in Reconciled(E, N)
    PROVE  /\ Book(d) \in Lists!Reconciliations(E, N)
           /\ handler.workspace \in DOMAIN d.active => handler.workspace \in DOMAIN db.active
<1> DEFINE S == Owned(db) \ E
           base == Repair(db, S)
           unowned == (E \ Owned(db)) \ N
<1>1. PICK home \in [unowned -> NewIds] :
          IsInjective(home) /\ d = InsertSingletons(base, home)
  BY DEF Reconciled
<1>2. S \in SUBSET Sessions
  BY DEF Owned, IsDB, Rows
<1>3. IsDB(base) /\ Valid(base) /\ DOMAIN base.active = DOMAIN db.active
  BY RepairLemma
<1>4. Book(base) = Lists!TakenOut(S)
  BY <1>2, RepairBook
<1>5. Lists!Listed = Owned(db) /\ DOMAIN book = DOMAIN db.active
  BY ListedLemma, BookParts DEF book
<1> HIDE DEF base
<1>6. /\ DOMAIN home \subseteq Sessions /\ Range(home) \subseteq Workspaces
      /\ Range(home) \cap DOMAIN base.active = {} /\ handler.workspace \notin Range(home)
  BY <1>1, <1>3 DEF Range, NewIds
<1>7. Book(d) = Lists!Beside([w \in Lists!Range(home) |->
                                 Lists!Opened(<<CHOOSE s \in DOMAIN home : home[s] = w>>)],
                             Book(base))
  BY <1>1, <1>3, <1>6, SingletonsBook
<1>8. home \in Lists!Injection((E \ Lists!Listed) \ N, Lists!NewIds)
  <2>1. NewIds \subseteq Lists!NewIds
    BY <1>5 DEF NewIds, Lists!NewIds
  <2>2. home \in [(E \ Lists!Listed) \ N -> Lists!NewIds]
    BY <1>5, <2>1
  <2>3. Lists!IsInjective(home)
    BY <1>1 DEF IsInjective, Lists!IsInjective
  <2> QED
    BY <2>2, <2>3 DEF Lists!Injection
<1>9. Book(d) \in Lists!Reconciliations(E, N)
  <2> DEFINE opened(h) ==
               Lists!Beside([w \in Lists!Range(h) |->
                                Lists!Opened(<<CHOOSE s \in DOMAIN h : h[s] = w>>)],
                            Lists!TakenOut(Lists!Listed \ E))
  <2>1. Lists!Reconciliations(E, N) =
            {opened(h) : h \in Lists!Injection((E \ Lists!Listed) \ N, Lists!NewIds)}
    BY DEF Lists!Reconciliations
  <2>2. Book(d) = opened(home)
    BY <1>4, <1>5, <1>7
  <2> HIDE DEF opened
  <2> QED
    BY <1>8, <2>1, <2>2
<1>10. DOMAIN d.active = DOMAIN base.active \cup Range(home)
  BY <1>1 DEF InsertSingletons
<1> QED
  BY <1>3, <1>6, <1>9, <1>10

\* One more workspace for one session is one more home.
LEMMA OneMoreHome ==
    ASSUME NEW E \in SUBSET Sessions, NEW s \in E \ Owned(db),
           NEW e \in Reconciled(E, {s}), NEW v \in NewIds \ DOMAIN e.active
    PROVE  InsertSingletons(e, [t \in {s} |-> v]) \in Reconciled(E, {})
<1> DEFINE base == Repair(db, Owned(db) \ E)
           unowned == (E \ Owned(db)) \ {s}
<1>1. PICK home \in [unowned -> NewIds] :
          IsInjective(home) /\ e = InsertSingletons(base, home)
  BY DEF Reconciled
<1> DEFINE f == [t \in {s} |-> v]
           home2 == [t \in (E \ Owned(db)) \ {} |-> IF t = s THEN v ELSE home[t]]
           d == InsertSingletons(e, f)
           d2 == InsertSingletons(base, home2)
<1> HIDE DEF base
<1>2. /\ e.active = [w \in DOMAIN base.active \cup Range(home) |->
                    IF w \in Range(home) THEN CHOOSE t \in DOMAIN home : home[t] = w
                    ELSE base.active[w]]
      /\ e.rows = base.rows \cup {Row(t, home[t], 0) : t \in DOMAIN home}
  BY <1>1 DEF InsertSingletons
<1>3. v \notin Range(home) /\ v \notin DOMAIN base.active
  BY <1>2
<1>4. \A t \in DOMAIN home : home[t] \in Range(home)
  BY DEF Range
<1>5. /\ DOMAIN home2 = DOMAIN home \cup {s} /\ s \notin DOMAIN home /\ home2[s] = v
      /\ \A t \in DOMAIN home : home2[t] = home[t]
  OBVIOUS
<1>6. home2 \in [(E \ Owned(db)) \ {} -> NewIds]
  OBVIOUS
<1> HIDE DEF home2
<1>7. IsInjective(home2)
  BY <1>1, <1>3, <1>4, <1>5 DEF IsInjective
<1>8. Range(home2) = Range(home) \cup {v}
  BY <1>5 DEF Range
<1>9. DOMAIN f = {s} /\ f[s] = v /\ Range(f) = {v}
  BY DEF Range
<1> HIDE DEF f
<1>10. d.rows = d2.rows
  <2>1. d.rows = e.rows \cup {Row(t, f[t], 0) : t \in DOMAIN f}
    BY DEF InsertSingletons
  <2>2. d2.rows = base.rows \cup {Row(t, home2[t], 0) : t \in DOMAIN home2}
    BY DEF InsertSingletons
  <2>3. {Row(t, f[t], 0) : t \in DOMAIN f} = {Row(s, v, 0)}
    BY <1>9
  <2>4. {Row(t, home2[t], 0) : t \in DOMAIN home2} =
            {Row(t, home[t], 0) : t \in DOMAIN home} \cup {Row(s, v, 0)}
    BY <1>5
  <2> QED
    BY <1>2, <2>1, <2>2, <2>3, <2>4
<1>11. d.active = d2.active
  <2>1. d.active = [w \in DOMAIN e.active \cup Range(f) |->
                    IF w \in Range(f) THEN CHOOSE t \in DOMAIN f : f[t] = w
                    ELSE e.active[w]]
    BY DEF InsertSingletons
  <2>2. d2.active = [w \in DOMAIN base.active \cup Range(home2) |->
                    IF w \in Range(home2) THEN CHOOSE t \in DOMAIN home2 : home2[t] = w
                    ELSE base.active[w]]
    BY DEF InsertSingletons
  <2>3. DOMAIN d.active = DOMAIN d2.active
    BY <1>2, <1>8, <1>9, <2>1, <2>2
  <2>4. d.active[v] = s /\ d2.active[v] = s
    <3>1. (CHOOSE t \in DOMAIN f : f[t] = v) = s
      BY <1>9
    <3>2. \A t \in DOMAIN home2 : home2[t] = v <=> t = s
      BY <1>3, <1>4, <1>5
    <3>3. (CHOOSE t \in DOMAIN home2 : home2[t] = v) = s
      BY <1>5, <3>2
    <3> QED
      BY <1>8, <1>9, <2>1, <2>2, <3>1, <3>3
  <2>5. ASSUME NEW w \in Range(home) PROVE d.active[w] = d2.active[w]
    <3>1. w # v /\ w \in DOMAIN e.active
      BY <1>2, <1>3
    <3>2. d.active[w] = CHOOSE t \in DOMAIN home : home[t] = w
      BY <1>2, <1>9, <2>1, <3>1
    <3>3. d2.active[w] = CHOOSE t \in DOMAIN home2 : home2[t] = w
      BY <1>8, <2>2
    <3>4. PICK t \in DOMAIN home : home[t] = w
      BY DEF Range
    <3>5. \A q \in DOMAIN home2 : home2[q] = w <=> q = t
      BY <1>1, <1>5, <3>1, <3>4 DEF IsInjective
    <3>6. (CHOOSE q \in DOMAIN home2 : home2[q] = w) = t
      BY <1>5, <3>5
    <3>7. (CHOOSE q \in DOMAIN home : home[q] = w) = t
      BY <1>5, <3>4, <3>5
    <3> QED
      BY <3>2, <3>3, <3>6, <3>7
  <2>6. ASSUME NEW w \in DOMAIN base.active, w \notin Range(home) PROVE d.active[w] = d2.active[w]
    BY <1>2, <1>3, <1>8, <1>9, <2>1, <2>2, <2>6
  <2>7. \A w \in DOMAIN d.active : d.active[w] = d2.active[w]
    BY <1>2, <1>9, <2>1, <2>4, <2>5, <2>6
  <2>8. d.active = [w \in DOMAIN d.active |-> d.active[w]] /\ d2.active = [w \in DOMAIN d2.active |-> d2.active[w]]
    BY <2>1, <2>2
  <2> QED
    BY <2>3, <2>7, <2>8
<1>12. d = [active |-> d.active, rows |-> d.rows] /\ d2 = [active |-> d2.active, rows |-> d2.rows]
  BY DEF InsertSingletons
<1> HIDE DEF d, d2
<1>13. d = d2
  BY <1>10, <1>11, <1>12
<1> QED
  BY <1>6, <1>7, <1>13 DEF d, d2, base, Reconciled, f

\* What a transaction makes of the tables is what an operation makes of the lists.
LEMMA OutcomesReachable ==
    ASSUME IInv, NEW d \in Outcomes, Fits(d), Valid(d)
    PROVE  Reachable(Book(d))
<1>1. IsDB(db) /\ Valid(db) /\ handler.eligible \in SUBSET Sessions
  BY DEF IInv, StoreTypeOK
<1>2. Lists!Listed = Owned(db) /\ DOMAIN book = DOMAIN db.active
  BY <1>1, ListedLemma, BookParts DEF book
<1>3. CASE handler.op = "list"
  <2>1. d \in Reconciled(handler.eligible, {})
    BY <1>3 DEF Outcomes
  <2>2. Book(d) \in Lists!Reconciliations(handler.eligible, {})
    BY <1>1, <2>1, ReconciledBook
  <2> QED
    BY <1>1, <2>2 DEF Reachable, ByReconcile
<1>4. CASE handler.op = "create"
  <2>1. PICK w \in NewIds,
             list \in UNION {[0..(n - 1) -> handler.eligible] :
                                n \in 0..Cardinality(handler.eligible)} :
            IsInjective(list) /\ d = Insert(Repair(db, Range(list)), w, list)
    BY <1>4 DEF Outcomes, Creations
  <2>2. PICK n \in 0..Cardinality(handler.eligible) : list \in [0..(n - 1) -> handler.eligible]
    BY <2>1
  <2> DEFINE base == Repair(db, Range(list))
             L == [k \in 1..n |-> list[k - 1]]
  <2>3. n \in 0..Cardinality(Sessions)
    <3>1. /\ Cardinality(handler.eligible) <= Cardinality(Sessions)
          /\ Cardinality(Sessions) \in Nat /\ Cardinality(handler.eligible) \in Nat
      BY <1>1, FiniteAssumption, FS_Subset, FS_CardinalityType
    <3> QED
      BY <3>1
  <2>4. L \in [1..n -> Sessions] /\ list \in [0..(n - 1) -> Sessions]
    BY <1>1, <2>2, <2>3
  <2>5. \A k \in 1..n : k - 1 \in DOMAIN list /\ L[k] = list[k - 1]
    BY <2>2, <2>3
  <2>6. Lists!IsInjective(L)
    <3>1. \A j, k \in 1..n : L[j] = L[k] => j = k
      <4> TAKE j, k \in 1..n
      <4> HAVE L[j] = L[k]
      <4>1. j - 1 = k - 1
        BY <2>1, <2>5 DEF IsInjective
      <4> QED
        BY <4>1
    <3> QED
      BY <3>1 DEF Lists!IsInjective
  <2>7. Lists!Range(L) = Range(list) /\ Range(list) \in SUBSET Sessions
    <3>1. \A p \in DOMAIN list : p + 1 \in 1..n /\ L[p + 1] = list[p]
      BY <2>2, <2>3
    <3>2. Lists!Range(L) = {L[k] : k \in 1..n} /\ Range(list) = {list[p] : p \in DOMAIN list}
      BY DEF Lists!Range, Range
    <3> HIDE DEF L
    <3> QED
      BY <2>4, <2>5, <3>1, <3>2
  <2>8. /\ IsDB(base) /\ Valid(base) /\ DOMAIN base.active = DOMAIN db.active
        /\ Book(base) = Lists!TakenOut(Range(list))
    BY <1>1, <2>7, RepairLemma, RepairBook
  <2>9. w \in Workspaces \ DOMAIN base.active /\ w \in Lists!NewIds
    BY <1>2, <2>8 DEF NewIds, Lists!NewIds
  <2> HIDE DEF base
  <2>10. Book(d) = Lists!Beside([v \in {w} |-> Lists!Opened(L)], Book(base))
    <3>1. n \in Nat /\ Fits(Insert(base, w, list))
      BY <2>1, <2>3 DEF base
    <3>2. d = Insert(base, w, list)
      BY <2>1 DEF base
    <3> QED
      BY <2>4, <2>8, <2>9, <3>1, <3>2, GroupBook
  <2> HIDE DEF L
  <2>11. /\ Lists!IsInjective(L)
         /\ Book(d) = Lists!Beside([v \in {w} |-> Lists!Opened(L)],
                                   Lists!TakenOut(Lists!Range(L)))
    BY <2>6, <2>7, <2>8, <2>10
  <2> QED
    BY <2>3, <2>4, <2>9, <2>11 DEF Reachable, ByGroup
<1>5. CASE handler.op = "attach"
  <2> DEFINE s == handler.session
             w == handler.workspace
             E == handler.eligible
             D == Reconciled(E, {s})
  <2>1. s \in Sessions /\ s \notin Owned(db)
    BY <1>5 DEF IInv, HandlerKnows
  <2>2. d \in Attachments
    BY <1>5 DEF Outcomes
  <2>3. CASE s \notin E
    <3>1. D = Reconciled(E, {})
      <4>1. (E \ Owned(db)) \ {s} = (E \ Owned(db)) \ {}
        BY <2>3
      <4> QED
        BY <4>1 DEF Reconciled
    <3>2. d \in Reconciled(E, {})
      BY <2>2, <2>3, <3>1 DEF Attachments
    <3>3. Book(d) \in Lists!Reconciliations(E, {})
      BY <1>1, <3>2, ReconciledBook
    <3> QED
      BY <1>1, <3>3 DEF Reachable, ByReconcile
  <2>4. CASE s \in E /\ w = NoWorkspace
    <3>1. PICK e \in D : d \in {InsertSingletons(e, [t \in {s} |-> v]) :
                                   v \in NewIds \ DOMAIN e.active}
      BY <2>2, <2>4 DEF Attachments
    <3>2. PICK v \in NewIds \ DOMAIN e.active : d = InsertSingletons(e, [t \in {s} |-> v])
      BY <3>1
    <3>3. s \in E \ Owned(db)
      BY <2>1, <2>4
    <3> HIDE DEF s, E
    <3>4. d \in Reconciled(E, {})
      BY <1>1, <3>1, <3>2, <3>3, OneMoreHome DEF E
    <3>5. Book(d) \in Lists!Reconciliations(E, {})
      BY <1>1, <3>4, ReconciledBook DEF E
    <3> QED
      BY <1>1, <3>5 DEF Reachable, ByReconcile, E
  <2>5. CASE s \in E /\ w # NoWorkspace
    <3>1. PICK e \in D : w \in DOMAIN e.active /\ d = AttachMember(e, w, s)
      BY <2>2, <2>5 DEF Attachments
    <3>2. IsDB(e) /\ Valid(e)
      BY <1>1, <3>1, ReconciledLemma
    <3>3. Book(e) \in Lists!Reconciliations(E, {s}) /\ w \in DOMAIN book
      BY <1>1, <1>2, <3>1, ReconciledBook
    <3>4. Book(d) = [Book(e) EXCEPT ![w] = [members |-> Append(@.members, s), active |-> s]]
      <4>1. Fits(AttachMember(e, w, s)) /\ w \in DOMAIN e.active
        BY <3>1
      <4> HIDE DEF s, w, D
      <4> QED
        BY <2>1, <3>1, <3>2, <4>1, AttachBook
    <3>5. s \in E \ Lists!Listed
      BY <1>2, <2>1, <2>5
    <3> HIDE DEF s, w, E, D
    <3>6. E \in SUBSET Sessions
      BY <1>1 DEF E
    <3> QED
      BY <3>3, <3>4, <3>5, <3>6 DEF Reachable, ByJoin
  <2> QED
    BY <2>3, <2>4, <2>5
<1>6. CASE handler.op = "update"
  <2> DEFINE w == handler.workspace
             s == handler.session
  <2>1. w \in DOMAIN db.active /\ d = Activate(db, w, s)
    BY <1>6 DEF Outcomes, Updates
  <2>2. s \in Sessions \cup {NoSession}
    BY DEF IInv, StoreTypeOK
  <2>3. Book(d) = [book EXCEPT ![w].active = s]
    BY <1>1, <2>1, ActivateBook DEF book
  <2>4. s \in Lists!Range(book[w].members) \cup {NoSession}
    <3> SUFFICES ASSUME s # NoSession PROVE s \in Lists!Range(book[w].members)
      OBVIOUS
    <3>1. Lists!Range(book[w].members) = {r.session : r \in Members(db, w)}
      <4>1. book[w].members = Listing(Members(db, w))
        BY <2>1, BookParts, EntryParts DEF book
      <4>2. Spread(Members(db, w))
        BY <1>1, MembersLemma
      <4> QED
        BY <4>1, <4>2, RangeLemma
    <3>2. d.active = [db.active EXCEPT ![w] = s] /\ d.rows = db.rows
      BY <2>1 DEF Activate
    <3>3. w \in DOMAIN d.active /\ d.active[w] = s
      BY <2>1, <3>2
    <3>4. PICK r \in db.rows : r.workspace = w /\ r.session = s
      BY <3>2, <3>3 DEF Valid, ActiveIsMember
    <3>5. r \in Members(db, w)
      BY <3>4 DEF Members
    <3> QED
      BY <3>1, <3>4, <3>5
  <2> HIDE DEF w, s
  <2> QED
    BY <1>2, <2>1, <2>2, <2>3, <2>4 DEF Reachable, ByChoose
<1>7. CASE handler.op \notin Kinds
  BY <1>7 DEF Outcomes, Kinds
<1> QED
  BY <1>3, <1>4, <1>5, <1>6, <1>7 DEF Kinds

\* Deleting a session, seen on the lists.
LEMMA RemovalBook ==
    ASSUME IInv, NEW m \in db.rows
    PROVE  /\ m.workspace \in DOMAIN book /\ m.session \in Sessions
           /\ m.session \in Lists!Range(book[m.workspace].members)
           /\ Book(RemoveMember(db, m)) =
                [book EXCEPT ![m.workspace] =
                    [members |-> Lists!Others(@.members, {m.session}),
                     active |-> IF @.active = m.session THEN Lists!After(@.members, m.session)
                                ELSE @.active]]
<1>1. IsDB(db) /\ Valid(db)
  BY DEF IInv, StoreTypeOK
<1>2. m.workspace \in DOMAIN db.active /\ DOMAIN book = DOMAIN db.active /\ m.session \in Sessions
  BY <1>1, BookParts DEF book, Valid, RowsHaveWorkspace, IsDB, Rows
<1>3. Lists!Range(book[m.workspace].members) = {r.session : r \in Members(db, m.workspace)}
  <2>1. book[m.workspace].members = Listing(Members(db, m.workspace))
    BY <1>2, BookParts, EntryParts DEF book
  <2>2. Spread(Members(db, m.workspace))
    BY <1>1, MembersLemma
  <2> QED
    BY <2>1, <2>2, RangeLemma
<1>4. m \in Members(db, m.workspace)
  BY DEF Members
<1>5. m.session \in Lists!Range(book[m.workspace].members)
  BY <1>3, <1>4
<1>6. Book(RemoveMember(db, m)) =
                [book EXCEPT ![m.workspace] =
                    [members |-> Lists!Others(@.members, {m.session}),
                     active |-> IF @.active = m.session THEN Lists!After(@.members, m.session)
                                ELSE @.active]]
  BY <1>1, RemoveBook DEF book
<1> QED
  BY <1>2, <1>5, <1>6

\* Deleting a session or a workspace is an operation on the lists.
LEMMA RemovalsReachable ==
    ASSUME IInv
    PROVE  /\ \A m \in db.rows : Reachable(Book(RemoveMember(db, m)))
           /\ \A w \in DOMAIN db.active : Reachable(Book(DeleteWorkspace(db, w)))
<1>1. ASSUME NEW m \in db.rows PROVE Reachable(Book(RemoveMember(db, m)))
  <2> DEFINE w == m.workspace
             s == m.session
             b == Book(RemoveMember(db, m))
  <2>1. /\ w \in DOMAIN book /\ s \in Sessions /\ s \in Lists!Range(book[w].members)
        /\ b = [book EXCEPT ![w] =
                    [members |-> Lists!Others(@.members, {s}),
                     active |-> IF @.active = s THEN Lists!After(@.members, s) ELSE @.active]]
    BY RemovalBook
  <2> HIDE DEF w, s, b
  <2>2. Reachable(b)
    BY <2>1 DEF Reachable, ByLeave
  <2> QED
    BY <2>2 DEF b
<1>2. ASSUME NEW w \in DOMAIN db.active PROVE Reachable(Book(DeleteWorkspace(db, w)))
  <2>1. w \in DOMAIN book
    BY BookParts DEF book
  <2>2. Book(DeleteWorkspace(db, w)) = [v \in DOMAIN book \ {w} |-> book[v]]
    BY DeleteBook DEF book
  <2> QED
    BY <2>1, <2>2 DEF Reachable, ByDissolve
<1> QED
  BY <1>1, <1>2

-----------------------------------------------------------------------------
(* The refinement.                                                         *)

\* A commit on its way is an operation on the lists as they are: until it lands
\* it keeps the write lock of the database.
ListInv == IInv /\ (inflight # NoCommit => Reachable(Book(inflight)))

\* Empty tables are empty lists.
LEMMA ListInitial == StoreInit => ListInv /\ Lists!Init
<1> SUFFICES ASSUME StoreInit PROVE ListInv /\ Lists!Init
  OBVIOUS
<1>1. IInv /\ inflight = NoCommit
  BY InitLemma DEF StoreInit
<1>2. book = [w \in {} |-> {}]
  BY DEF StoreInit, book, Book
<1> QED
  BY <1>1, <1>2 DEF ListInv, Lists!Init

\* A transaction ends now or later.
LEMMA EndReachable ==
    ASSUME ListInv, NEW d, Reachable(Book(d)), Committed(d) \/ Dropped(d)
    PROVE  Reachable(book') \/ UNCHANGED book
<1>1. CASE Committed(d)
  BY <1>1 DEF Committed, book
<1>2. CASE Dropped(d)
  BY <1>2 DEF Dropped, book
<1> QED
  BY <1>1, <1>2

\* Every step is an operation on the lists, or shows nothing.
LEMMA ListStep == ListInv /\ [StoreNext]_storeVars => [Lists!Next]_book
<1> SUFFICES ASSUME ListInv, [StoreNext]_storeVars PROVE Reachable(book') \/ UNCHANGED book
  BY ReachableLemma
<1>1. ASSUME UNCHANGED db PROVE UNCHANGED book
  BY <1>1 DEF book
<1>2. CASE Transact
  <2>1. PICK d \in Outcomes : Committed(d) \/ Dropped(d)
    BY <1>2 DEF Transact
  <2>2. Fits(d) /\ Valid(d)
    BY <2>1 DEF Committed, Dropped
  <2> QED
    BY <2>1, <2>2, OutcomesReachable, EndReachable DEF ListInv
<1>3. ASSUME NEW s \in Sessions, Leave(s) PROVE Reachable(book') \/ UNCHANGED book
  <2>1. PICK m \in db.rows : Committed(RemoveMember(db, m)) \/ Dropped(RemoveMember(db, m))
    BY <1>3 DEF Leave
  <2> QED
    BY <2>1, RemovalsReachable, EndReachable DEF ListInv
<1>4. ASSUME NEW w \in Workspaces, Remove(w) PROVE Reachable(book') \/ UNCHANGED book
  <2>1. w \in DOMAIN db.active
        /\ (Committed(DeleteWorkspace(db, w)) \/ Dropped(DeleteWorkspace(db, w)))
    BY <1>4 DEF Remove
  <2> QED
    BY <2>1, RemovalsReachable, EndReachable DEF ListInv
<1>5. CASE Land \/ Restart
  <2>1. db' = db \/ (inflight # NoCommit /\ db' = inflight)
    BY <1>5 DEF Land, Restart
  <2>2. CASE inflight # NoCommit /\ db' = inflight
    BY <2>2 DEF ListInv, book
  <2> QED
    BY <1>1, <2>1, <2>2
<1>6. ASSUME NEW op, Lock(op) PROVE UNCHANGED db
  BY <1>6 DEF Lock
<1>7. ASSUME NEW s, NEW w, LockNew(s, w) \/ LockChecked(w, s) \/ End(s) PROVE UNCHANGED db
  BY <1>7 DEF LockNew, LockChecked, End
<1>8. CASE GiveUp \/ UNCHANGED storeVars
  BY <1>1, <1>8 DEF GiveUp, storeVars
<1> QED
  BY <1>1, <1>2, <1>3, <1>4, <1>5, <1>6, <1>7, <1>8 DEF StoreNext

\* What is reachable depends on the tables only.
LEMMA SameLists ==
    ASSUME UNCHANGED db, NEW b
    PROVE  Reachable(b)' <=> Reachable(b)
<1>1. UNCHANGED book
  BY DEF book
<1>2. UNCHANGED <<Lists!Listed, Lists!NewIds>>
  BY <1>1 DEF Lists!Listed, Lists!NewIds
<1>3. \A S : UNCHANGED Lists!TakenOut(S)
  BY <1>1 DEF Lists!TakenOut
<1>4. \A E, N : UNCHANGED Lists!Reconciliations(E, N)
  BY <1>1, <1>2 DEF Lists!Reconciliations, Lists!TakenOut
<1>5. ByReconcile(b)' <=> ByReconcile(b)
  BY <1>4 DEF ByReconcile
<1>6. ByJoin(b)' <=> ByJoin(b)
  BY <1>1, <1>2, <1>4 DEF ByJoin
<1>7. ByGroup(b)' <=> ByGroup(b)
  BY <1>2, <1>3 DEF ByGroup
<1>8. ByLeave(b)' <=> ByLeave(b)
  BY <1>1 DEF ByLeave
<1>9. ByChoose(b)' <=> ByChoose(b)
  BY <1>1 DEF ByChoose
<1>10. ByDissolve(b)' <=> ByDissolve(b)
  BY <1>1 DEF ByDissolve
<1> QED
  BY <1>5, <1>6, <1>7, <1>8, <1>9, <1>10 DEF Reachable

\* While a commit is on its way nothing else is written, so that it stays an
\* operation on the lists.
LEMMA ListInvStep == ListInv /\ [StoreNext]_storeVars => ListInv'
<1> SUFFICES ASSUME ListInv, [StoreNext]_storeVars PROVE ListInv'
  OBVIOUS
<1>1. IInv'
  BY StepLemma DEF ListInv
<1>2. ASSUME UNCHANGED <<db, inflight>> PROVE ListInv'
  <2>1. (inflight # NoCommit => Reachable(Book(inflight)))'
    BY <1>2, SameLists DEF ListInv
  <2> QED
    BY <1>1, <2>1 DEF ListInv
<1>3. ASSUME inflight' = NoCommit PROVE ListInv'
  BY <1>1, <1>3 DEF ListInv
<1>4. ASSUME NEW d, Committed(d) \/ Dropped(d), Reachable(Book(d)) PROVE ListInv'
  <2>1. CASE Committed(d)
    BY <1>3, <2>1 DEF Committed
  <2>2. CASE Dropped(d)
    <3>1. UNCHANGED db /\ inflight' = d
      BY <2>2 DEF Dropped
    <3>2. Reachable(Book(inflight))'
      BY <1>4, <3>1, SameLists
    <3> QED
      BY <1>1, <3>2 DEF ListInv
  <2> QED
    BY <1>4, <2>1, <2>2
<1>5. CASE Transact
  <2>1. PICK d \in Outcomes : Committed(d) \/ Dropped(d)
    BY <1>5 DEF Transact
  <2>2. Fits(d) /\ Valid(d)
    BY <2>1 DEF Committed, Dropped
  <2> QED
    BY <1>4, <2>1, <2>2, OutcomesReachable DEF ListInv
<1>6. ASSUME NEW s \in Sessions, Leave(s) PROVE ListInv'
  <2>1. PICK m \in db.rows : Committed(RemoveMember(db, m)) \/ Dropped(RemoveMember(db, m))
    BY <1>6 DEF Leave
  <2> QED
    BY <1>4, <2>1, RemovalsReachable DEF ListInv
<1>7. ASSUME NEW w \in Workspaces, Remove(w) PROVE ListInv'
  <2>1. w \in DOMAIN db.active
        /\ (Committed(DeleteWorkspace(db, w)) \/ Dropped(DeleteWorkspace(db, w)))
    BY <1>7 DEF Remove
  <2> QED
    BY <1>4, <2>1, RemovalsReachable DEF ListInv
<1>8. CASE Land \/ Restart
  BY <1>3, <1>8 DEF Land, Restart
<1>9. ASSUME NEW op, Lock(op) PROVE UNCHANGED <<db, inflight>>
  BY <1>9 DEF Lock
<1>10. ASSUME NEW s, NEW w, LockNew(s, w) \/ LockChecked(w, s) \/ End(s)
       PROVE  UNCHANGED <<db, inflight>>
  BY <1>10 DEF LockNew, LockChecked, End
<1>11. CASE GiveUp \/ UNCHANGED storeVars
  BY <1>2, <1>11 DEF GiveUp, storeVars
<1> QED
  BY <1>2, <1>5, <1>6, <1>7, <1>8, <1>9, <1>10, <1>11 DEF StoreNext

\* The tables implement the lists of WorkspaceLists.
THEOREM ListsAreImplemented == StoreSpec => ImplementsLists
<1>1. StoreInit => Lists!Init
  BY ListInitial
<1>2. StoreInit => ListInv
  BY ListInitial
<1> QED
  BY <1>1, <1>2, ListStep, ListInvStep, PTL DEF StoreSpec, ImplementsLists, Lists!Spec

\* When a session is deleted, the next one of its workspace becomes active.
THEOREM RemovalsActivateNext == StoreSpec => RemovalActivatesNext
<1>1. IInv /\ [StoreNext]_storeVars => \A s \in Sessions : Leave(s) => [Lists!Leave(s)]_book
  <2> SUFFICES ASSUME IInv, NEW s \in Sessions, Leave(s), book' # book PROVE Lists!Leave(s)
    OBVIOUS
  <2>1. PICK m \in db.rows : /\ m.session = s
                             /\ Committed(RemoveMember(db, m)) \/ Dropped(RemoveMember(db, m))
    BY DEF Leave
  <2>2. ~Dropped(RemoveMember(db, m))
    BY DEF Dropped, book
  <2>3. book' = Book(RemoveMember(db, m))
    BY <2>1, <2>2 DEF Committed, book
  <2> DEFINE w == m.workspace
  <2>4. /\ w \in DOMAIN book /\ s \in Lists!Range(book[w].members)
        /\ book' = [book EXCEPT ![w] =
                    [members |-> Lists!Others(@.members, {s}),
                     active |-> IF @.active = s THEN Lists!After(@.members, s) ELSE @.active]]
    BY <2>1, <2>3, RemovalBook
  <2> HIDE DEF w
  <2> QED
    BY <2>4 DEF Lists!Leave
<1>2. IInv /\ [StoreNext]_storeVars
        => [\A s \in Sessions : Leave(s) => [Lists!Leave(s)]_book]_storeVars
  BY <1>1
<1> QED
  BY <1>2, Inductive, PTL DEF StoreSpec, RemovalActivatesNext

-----------------------------------------------------------------------------
(* Installing an agent                                                     *)
(*                                                                         *)
(* What is past the lock of install is one request: what it validated is   *)
(* still in its staging directory when it is moved, what it moved aside is *)
(* the only thing its roll back can bring back, and OpenCode's database is *)
(* bound by nobody else while it holds the lock of the history.            *)

\* One request at a time is past the lock of install.
Publishing == {"publish", "swap", "sweep", "rebind", "lineage"}

InstallationFits(r) ==
    /\ at[r] \in {"new", "verify", "tools"} => leader[r] = "none" /\ Own(r) \cap dirs = {}
    /\ helper[r] => leader[r] # "none"
    /\ leader[r] = "runs" => Runs(r) \/ at[r] = "cleanup" \/ crashed
    /\ at[r] \in {"history"} \cup Publishing => leader[r] = "reaped" /\ ~helper[r]
    /\ at[r] \in {"history", "publish", "swap"} => content[r] = New
    /\ at[r] \notin {"swap", "sweep", "rebind", "lineage", "done"} => saved[r] = None
    /\ saved[r] # Broken
    /\ at[r] = "swap" => managed[agent[r]] = None
    /\ at[r] \in {"sweep", "rebind", "lineage"} => managed[agent[r]] = New
    /\ at[r] \in Publishing /\ agent[r] = OpenCode => history = r
    /\ at[r] \in {"rebind", "lineage"} => agent[r] = OpenCode
    /\ at[r] = "lineage" => binding = New
    /\ answer[r] # None => at[r] = "done"
    /\ answer[r] = "timeout" => leader[r] = "none"
    /\ at[r] = "done" /\ ~crashed /\ Own(r) \cap dirs # {} =>
          answer[r] \in {"failed", "dropped"} /\ leader[r] \in {"failed", "reaped"}

InstallInv ==
    /\ TypeOK
    /\ \A a \in Agents : managed[a] # Broken
    /\ \A r \in Requests : InstallationFits(r)
    /\ \A q, r \in Requests : Active(q) /\ Active(r) => q = r

Prepared == {"history"} \cup Publishing

LEMMA VersionsLemma ==
    /\ New \in Versions /\ Old # New /\ New # None /\ New # Broken /\ Old # None /\ Old # Broken
    /\ Broken # None /\ None \notin Versions /\ Broken \notin Versions /\ None \notin Answers
BY InstallAssumption DEF InstallConstants, Versions

\* A request that is at work keeps the others from all that is shared.
LEMMA OneRequest ==
    ASSUME InstallInv, NEW r \in Requests, TypeOK', crashed' = crashed,
           \A a \in Agents : managed'[a] # Broken,
           \A q \in Requests \ {r} :
              /\ at'[q] = at[q] /\ agent'[q] = agent[q] /\ content'[q] = content[q]
              /\ saved'[q] = saved[q] /\ answer'[q] = answer[q]
              /\ leader'[q] = leader[q] /\ helper'[q] = helper[q]
              /\ Own(q) \cap dirs' \subseteq dirs,
           \/ Active(r)
           \/ /\ UNCHANGED <<managed, history, binding>>
              /\ Active(r)' => \A q \in Requests : ~Active(q),
           InstallationFits(r)'
    PROVE  InstallInv'
<1>1. ASSUME NEW q \in Requests \ {r} PROVE InstallationFits(q)' /\ (Active(q)' => Active(q))
  <2>1. InstallationFits(q) /\ at[q] \in Stages \cup {"new", "done"}
    BY DEF InstallInv, TypeOK
  <2>2. Active(q)' <=> Active(q)
    BY DEF Active
  <2>3. CASE UNCHANGED <<managed, history, binding>>
    BY <2>1, <2>2, <2>3 DEF InstallationFits, Runs
  <2>4. CASE Active(r)
    <3>1. at[q] \in {"new", "done"}
      BY <2>1, <2>4 DEF InstallInv, Active
    <3> QED
      BY <2>1, <2>2, <3>1 DEF InstallationFits, Runs, Publishing
  <2> QED
    BY <2>2, <2>3, <2>4
<1>2. \A p, q \in Requests : Active(p)' /\ Active(q)' => p = q
  BY <1>1 DEF InstallInv
<1> QED
  BY <1>1, <1>2 DEF InstallInv

\* What is left of a request that ended.
LEMMA EndsLemma ==
    ASSUME TypeOK, NEW r \in Requests, NEW result \in {"ok", "created", "failed", "timeout", "dropped"},
           Ends(r, result), helper' \in [Requests -> BOOLEAN]
    PROVE  /\ at' \in [Requests -> Stages \cup {"new", "done"}] /\ at'[r] = "done"
           /\ answer' \in [Requests -> Answers \cup {None}]
           /\ answer'[r] = result
           /\ content' \in [Requests -> {New, Broken, None}]
           /\ history' \in Requests \cup Others \cup {None} /\ agent' = agent
           /\ dirs' \subseteq dirs /\ (~helper'[r] => Own(r) \cap dirs' = {})
           /\ \A q \in Requests \ {r} : /\ at'[q] = at[q] /\ answer'[q] = answer[q] /\ content'[q] = content[q]
                                        /\ Own(q) \cap dirs' \subseteq dirs
<1>1. dirs' \subseteq dirs /\ (~helper'[r] => Own(r) \cap dirs' = {})
  BY DEF Ends
<1> QED
  BY <1>1 DEF Released, Ends, Go, TypeOK, Answers

\* A command that is dropped leaves at most a descendant, whose leader ended.
LEMMA DropCommandLemma ==
    ASSUME TypeOK, NEW r \in Requests, DropCommand(r), helper[r] => leader[r] # "none"
    PROVE  /\ leader' \in [Requests -> {"none", "runs", "failed", "reaped"}] /\ helper' \in [Requests -> BOOLEAN]
           /\ leader'[r] # "runs" /\ (helper'[r] => leader'[r] \in {"failed", "reaped"})
           /\ \A q \in Requests \ {r} : leader'[q] = leader[q] /\ helper'[q] = helper[q]
<1>1. CASE leader[r] = "runs"
  BY <1>1 DEF DropCommand, TypeOK
<1>2. CASE leader[r] # "runs"
  BY <1>2 DEF DropCommand, TypeOK, processVars
<1> QED
  BY <1>1, <1>2

\* A request that ends before it published anything.
LEMMA EndsEarly ==
    ASSUME InstallInv, NEW r \in Requests, NEW result \in {"ok", "failed", "timeout", "dropped"},
           Active(r), at[r] \notin {"swap", "sweep"}, Ends(r, result),
           leader' \in [Requests -> {"none", "runs", "failed", "reaped"}], helper' \in [Requests -> BOOLEAN],
           \A q \in Requests \ {r} : leader'[q] = leader[q] /\ helper'[q] = helper[q],
           leader'[r] # "runs",
           helper'[r] => leader'[r] \in {"failed", "reaped"} /\ result \in {"failed", "dropped"},
           result = "timeout" => leader'[r] = "none",
           UNCHANGED <<managed, path, saved, binding, crashed>>
    PROVE  InstallInv'
<1>1. TypeOK /\ InstallationFits(r)
  BY DEF InstallInv
<1>2. /\ at' \in [Requests -> Stages \cup {"new", "done"}] /\ at'[r] = "done"
      /\ answer' \in [Requests -> Answers \cup {None}]
      /\ answer'[r] = result
      /\ content' \in [Requests -> {New, Broken, None}]
      /\ history' \in Requests \cup Others \cup {None} /\ agent' = agent
      /\ dirs' \subseteq dirs /\ (~helper'[r] => Own(r) \cap dirs' = {})
      /\ \A q \in Requests \ {r} : /\ at'[q] = at[q] /\ answer'[q] = answer[q] /\ content'[q] = content[q]
                                   /\ Own(q) \cap dirs' \subseteq dirs
  BY <1>1, EndsLemma
<1>3. TypeOK'
  BY <1>1, <1>2 DEF TypeOK
<1>4. InstallationFits(r)'
  BY <1>1, <1>2 DEF InstallationFits, Publishing, Runs
<1> QED
  BY <1>1, <1>2, <1>3, <1>4, OneRequest DEF InstallInv

-----------------------------------------------------------------------------

LEMMA RefusedStep ==
    ASSUME InstallInv, NEW r \in Requests, Unsupported(r) \/ Busy(r)
    PROVE  InstallInv'
<1>1. TypeOK /\ InstallationFits(r)
  BY DEF InstallInv
<1>2. /\ at[r] = "new" /\ Go(r, "done")
      /\ \E result \in {"busy", "unsupported"} : answer' = [answer EXCEPT ![r] = result]
      /\ UNCHANGED <<fileVars, agent, processVars, serverVars>>
  BY DEF Unsupported, Busy
<1>3. TypeOK' /\ at'[r] = "done" /\ answer'[r] \in {"busy", "unsupported"}
      /\ \A q \in Requests \ {r} : at'[q] = at[q] /\ answer'[q] = answer[q]
  BY <1>1, <1>2 DEF TypeOK, Go, fileVars, processVars, serverVars, Answers
<1>4. InstallationFits(r)'
  BY <1>1, <1>2, <1>3 DEF InstallationFits, Publishing, Runs, fileVars, processVars, serverVars
<1> QED
  BY <1>2, <1>3, <1>4, OneRequest DEF InstallInv, fileVars, processVars, serverVars, Active, Stages

LEMMA InstallStepBegins ==
    ASSUME InstallInv, NEW r \in Requests, Install(r)
    PROVE  InstallInv'
<1>1. TypeOK /\ InstallationFits(r)
  BY DEF InstallInv
<1>2. /\ at[r] = "new" /\ Go(r, "verify") /\ \A q \in Requests : ~Active(q)
      /\ UNCHANGED <<fileVars, agent, answer, processVars, serverVars>>
  BY DEF Install
<1>3. TypeOK' /\ at'[r] = "verify" /\ \A q \in Requests \ {r} : at'[q] = at[q]
  BY <1>1, <1>2 DEF TypeOK, Go, Stages, fileVars, processVars, serverVars
<1>4. InstallationFits(r)'
  BY <1>1, <1>2, <1>3 DEF InstallationFits, Publishing, Runs, fileVars, processVars, serverVars
<1> QED
  BY <1>2, <1>3, <1>4, OneRequest DEF InstallInv, fileVars, processVars, serverVars

LEMMA VerifyStep ==
    ASSUME InstallInv, NEW r \in Requests, Verify(r)
    PROVE  InstallInv'
<1>1. TypeOK /\ InstallationFits(r)
  BY DEF InstallInv
<1>2. /\ at[r] = "verify" /\ UNCHANGED <<leader, helper, managed, path, saved, binding, crashed>>
      /\ \/ Ends(r, "ok")
         \/ Go(r, "tools") /\ UNCHANGED <<dirs, content, agent, answer, history>>
  BY DEF Verify, processVars
<1>3. Active(r) /\ leader[r] = "none" /\ ~helper[r]
  BY <1>1, <1>2 DEF Active, Stages, InstallationFits, TypeOK
<1>4. CASE Ends(r, "ok")
  BY <1>1, <1>2, <1>3, <1>4, EndsEarly DEF TypeOK
<1>5. CASE Go(r, "tools") /\ UNCHANGED <<dirs, content, agent, answer, history>>
  <2>1. TypeOK' /\ at'[r] = "tools" /\ \A q \in Requests \ {r} : at'[q] = at[q]
    BY <1>1, <1>2, <1>5 DEF TypeOK, Go, Stages
  <2>2. InstallationFits(r)'
    BY <1>1, <1>2, <1>5, <2>1 DEF InstallationFits, Publishing, Runs
  <2> QED
    BY <1>2, <1>3, <1>5, <2>1, <2>2, OneRequest DEF InstallInv
<1> QED
  BY <1>2, <1>4, <1>5

LEMMA PrepareStep ==
    ASSUME InstallInv, NEW r \in Requests, Prepare(r)
    PROVE  InstallInv'
<1>1. TypeOK /\ InstallationFits(r)
  BY DEF InstallInv
<1>2. /\ at[r] = "tools" /\ Go(r, "npm") /\ dirs' = dirs \cup Own(r) /\ leader' = [leader EXCEPT ![r] = "runs"]
      /\ UNCHANGED <<managed, path, content, saved, agent, answer, helper, history, binding, crashed>>
  BY DEF Prepare, serverVars
<1>3. Active(r) /\ Own(r) \subseteq {"staging", "work", "backup"} \X Requests
      /\ \A q \in Requests \ {r} : Own(q) \cap Own(r) = {}
  BY <1>2 DEF Active, Stages, Own
<1>4. TypeOK' /\ at'[r] = "npm" /\ leader'[r] = "runs" /\ \A q \in Requests \ {r} : at'[q] = at[q] /\ leader'[q] = leader[q]
  BY <1>1, <1>2, <1>3 DEF TypeOK, Go, Stages
<1>5. InstallationFits(r)'
  BY <1>1, <1>2, <1>4, VersionsLemma DEF InstallationFits, Publishing, Runs, Answers
<1> QED
  BY <1>2, <1>3, <1>4, <1>5, OneRequest DEF InstallInv

LEMMA UnpreparedStep ==
    ASSUME InstallInv, NEW r \in Requests, Unprepared(r)
    PROVE  InstallInv'
<1>1. TypeOK /\ InstallationFits(r)
  BY DEF InstallInv
<1>2. /\ at[r] = "tools" /\ UNCHANGED <<leader, helper, managed, path, saved, binding, crashed>> /\ Ends(r, "failed")
  BY DEF Unprepared, processVars
<1>3. Active(r) /\ leader[r] = "none" /\ ~helper[r]
  BY <1>1, <1>2 DEF Active, Stages, InstallationFits, TypeOK
<1> QED
  BY <1>1, <1>2, <1>3, EndsEarly DEF TypeOK

\* The processes of a command go on by themselves.
LEMMA ProcessStep ==
    ASSUME InstallInv, NEW r \in Requests, Fork(r) \/ HelperEnds(r) \/ LeaderEnds(r)
    PROVE  InstallInv'
<1>1. TypeOK /\ InstallationFits(r)
  BY DEF InstallInv
<1>2. /\ UNCHANGED <<fileVars, requestVars, serverVars>>
      /\ \/ Runs(r) /\ leader[r] = "runs" /\ helper' = [helper EXCEPT ![r] = TRUE] /\ UNCHANGED leader
         \/ helper' = [helper EXCEPT ![r] = FALSE] /\ UNCHANGED leader
         \/ /\ leader[r] = "runs" /\ at[r] # "cleanup"
            /\ \E status \in {"failed", "reaped"} : leader' = [leader EXCEPT ![r] = status]
            /\ UNCHANGED helper
  BY DEF Fork, HelperEnds, LeaderEnds
<1>3. TypeOK' /\ \A q \in Requests \ {r} : leader'[q] = leader[q] /\ helper'[q] = helper[q]
  BY <1>1, <1>2 DEF TypeOK, fileVars, requestVars, serverVars
<1>4. InstallationFits(r)'
  BY <1>1, <1>2 DEF InstallationFits, Publishing, Runs, fileVars, requestVars, serverVars, TypeOK
<1> QED
  BY <1>2, <1>3, <1>4, OneRequest DEF InstallInv, fileVars, requestVars, serverVars, Active

LEMMA CommandFailsStep ==
    ASSUME InstallInv, NEW r \in Requests, CommandFails(r)
    PROVE  InstallInv'
<1>1. TypeOK /\ InstallationFits(r)
  BY DEF InstallInv
<1>2. /\ Runs(r) /\ leader[r] = "failed" /\ ~helper[r] /\ Ends(r, "failed")
      /\ UNCHANGED <<leader, helper, managed, path, saved, binding, crashed>>
  BY DEF CommandFails, Complete, processVars
<1>3. Active(r) /\ at[r] \notin {"swap", "sweep"}
  BY <1>2 DEF Active, Stages, Runs
<1> QED
  BY <1>1, <1>2, <1>3, EndsEarly DEF TypeOK

LEMMA CommandSucceedsStep ==
    ASSUME InstallInv, NEW r \in Requests, CommandSucceeds(r)
    PROVE  InstallInv'
<1>1. TypeOK /\ InstallationFits(r)
  BY DEF InstallInv
<1>2. PICK stage \in {"script", "validate"}, left \in {New, Broken} :
         /\ at[r] \in {"npm", "script"} /\ Go(r, stage) /\ leader' = [leader EXCEPT ![r] = "runs"]
         /\ content' = [content EXCEPT ![r] = left]
         /\ UNCHANGED <<managed, path, dirs, saved, agent, answer, helper, history, binding, crashed>>
  BY DEF CommandSucceeds, serverVars
<1>3. Active(r)
  BY <1>2 DEF Active, Stages
<1>4. TypeOK' /\ at'[r] = stage /\ leader'[r] = "runs"
      /\ \A q \in Requests \ {r} : at'[q] = at[q] /\ leader'[q] = leader[q] /\ content'[q] = content[q]
  BY <1>1, <1>2 DEF TypeOK, Go, Stages, Answers
<1>5. InstallationFits(r)'
  BY <1>1, <1>2, <1>4, VersionsLemma DEF InstallationFits, Publishing, Runs, Answers
<1> QED
  BY <1>2, <1>3, <1>4, <1>5, OneRequest DEF InstallInv

LEMMA ValidateStep ==
    ASSUME InstallInv, NEW r \in Requests, Validate(r)
    PROVE  InstallInv'
<1>1. TypeOK /\ InstallationFits(r)
  BY DEF InstallInv
<1>2. /\ at[r] = "validate" /\ leader[r] = "reaped" /\ ~helper[r]
      /\ UNCHANGED <<leader, helper, managed, path, saved, binding, crashed>>
      /\ \/ /\ content[r] = New
            /\ Go(r, IF agent[r] = OpenCode THEN "history" ELSE "publish")
            /\ UNCHANGED <<dirs, content, agent, answer, history>>
         \/ Ends(r, "failed")
  BY DEF Validate, Complete, IsValid, processVars
<1>3. Active(r)
  BY <1>2 DEF Active, Stages
<1>4. CASE Ends(r, "failed")
  BY <1>1, <1>2, <1>3, <1>4, EndsEarly DEF TypeOK
<1>5. CASE /\ content[r] = New
           /\ Go(r, IF agent[r] = OpenCode THEN "history" ELSE "publish")
           /\ UNCHANGED <<dirs, content, agent, answer, history>>
  <2>1. TypeOK' /\ at'[r] = (IF agent[r] = OpenCode THEN "history" ELSE "publish")
        /\ \A q \in Requests \ {r} : at'[q] = at[q]
    BY <1>1, <1>2, <1>5 DEF TypeOK, Go, Stages
  <2>2. InstallationFits(r)'
    BY <1>1, <1>2, <1>5, <2>1 DEF InstallationFits, Publishing, Runs
  <2> QED
    BY <1>2, <1>3, <1>5, <2>1, <2>2, OneRequest DEF InstallInv
<1> QED
  BY <1>2, <1>4, <1>5

LEMMA TimesOutStep ==
    ASSUME InstallInv, NEW r \in Requests, TimesOut(r)
    PROVE  InstallInv'
<1>1. TypeOK /\ InstallationFits(r)
  BY DEF InstallInv
<1>2. /\ Runs(r) /\ Go(r, "cleanup") /\ helper' \in {helper, [helper EXCEPT ![r] = FALSE]}
      /\ UNCHANGED <<fileVars, agent, answer, leader, serverVars>>
  BY DEF TimesOut
<1>3. Active(r)
  BY <1>2 DEF Active, Stages, Runs
<1>4. TypeOK' /\ at'[r] = "cleanup" /\ (helper'[r] => helper[r])
      /\ \A q \in Requests \ {r} : at'[q] = at[q] /\ helper'[q] = helper[q]
  BY <1>1, <1>2 DEF TypeOK, Go, Stages, fileVars, serverVars
<1>5. InstallationFits(r)'
  BY <1>1, <1>2, <1>4 DEF InstallationFits, Publishing, Runs, fileVars, serverVars
<1> QED
  BY <1>2, <1>3, <1>4, <1>5, OneRequest DEF InstallInv, fileVars, serverVars

LEMMA KillStep ==
    ASSUME InstallInv, NEW r \in Requests, Kill(r)
    PROVE  InstallInv'
<1>1. TypeOK /\ InstallationFits(r)
  BY DEF InstallInv
<1>2. /\ at[r] = "cleanup" /\ leader' = [leader EXCEPT ![r] = "none"] /\ helper' = [helper EXCEPT ![r] = FALSE]
      /\ Ends(r, "timeout") /\ UNCHANGED <<managed, path, saved, binding, crashed>>
  BY DEF Kill
<1>3. /\ Active(r) /\ leader'[r] = "none" /\ ~helper'[r]
      /\ leader' \in [Requests -> {"none", "runs", "failed", "reaped"}] /\ helper' \in [Requests -> BOOLEAN]
      /\ \A q \in Requests \ {r} : leader'[q] = leader[q] /\ helper'[q] = helper[q]
  BY <1>1, <1>2 DEF Active, Stages, TypeOK
<1> QED
  BY <1>2, <1>3, EndsEarly

LEMMA GivenUpStep ==
    ASSUME InstallInv, NEW r \in Requests, Interrupt(r) \/ Drop(r)
    PROVE  InstallInv'
<1>1. TypeOK /\ InstallationFits(r)
  BY DEF InstallInv
<1>2. /\ at[r] \in {"verify", "tools", "npm", "script", "validate", "cleanup", "history", "rebind", "lineage"}
      /\ DropCommand(r) /\ UNCHANGED <<managed, path, saved, binding, crashed>>
      /\ Ends(r, "failed") \/ Ends(r, "dropped")
  BY DEF Interrupt, Drop, Runs
<1>3. Active(r) /\ at[r] \notin {"swap", "sweep"}
  BY <1>2 DEF Active, Stages
<1>4. /\ leader' \in [Requests -> {"none", "runs", "failed", "reaped"}] /\ helper' \in [Requests -> BOOLEAN]
      /\ leader'[r] # "runs" /\ (helper'[r] => leader'[r] \in {"failed", "reaped"})
      /\ \A q \in Requests \ {r} : leader'[q] = leader[q] /\ helper'[q] = helper[q]
  BY <1>1, <1>2, DropCommandLemma DEF InstallationFits
<1> QED
  BY <1>2, <1>3, <1>4, EndsEarly

LEMMA LockHistoryForStep ==
    ASSUME InstallInv, NEW r \in Requests, LockHistoryFor(r)
    PROVE  InstallInv'
<1>1. TypeOK /\ InstallationFits(r)
  BY DEF InstallInv
<1>2. /\ at[r] = "history" /\ Go(r, "publish") /\ history' = r
      /\ UNCHANGED <<fileVars, agent, answer, processVars, binding, crashed>>
  BY DEF LockHistoryFor
<1>3. Active(r)
  BY <1>2 DEF Active, Stages
<1>4. TypeOK' /\ at'[r] = "publish" /\ \A q \in Requests \ {r} : at'[q] = at[q]
  BY <1>1, <1>2 DEF TypeOK, Go, Stages, fileVars, processVars
<1>5. InstallationFits(r)'
  BY <1>1, <1>2, <1>4 DEF InstallationFits, Publishing, Runs, fileVars, processVars
<1> QED
  BY <1>2, <1>3, <1>4, <1>5, OneRequest DEF InstallInv, fileVars, processVars

LEMMA MoveAsideStep ==
    ASSUME InstallInv, NEW r \in Requests, MoveAside(r)
    PROVE  InstallInv'
<1>1. TypeOK /\ InstallationFits(r) /\ agent[r] \in Agents
  BY DEF InstallInv, TypeOK
<1>2. /\ at[r] = "publish" /\ Go(r, "swap")
      /\ saved' = [saved EXCEPT ![r] = managed[agent[r]]]
      /\ managed' = [managed EXCEPT ![agent[r]] = None]
      /\ dirs' = IF managed[agent[r]] = None THEN dirs ELSE dirs \cup {<<"backup", r>>}
      /\ UNCHANGED <<path, content, agent, answer, leader, helper, history, binding, crashed>>
  BY DEF MoveAside, processVars, serverVars
<1>3. Active(r) /\ \A q \in Requests : Own(q) \cap dirs' \subseteq dirs
  BY <1>2 DEF Active, Stages, Own
<1>4. /\ at' = [at EXCEPT ![r] = "swap"] /\ at'[r] = "swap" /\ saved'[r] = managed[agent[r]] /\ managed'[agent[r]] = None
      /\ \A q \in Requests \ {r} : at'[q] = at[q] /\ saved'[q] = saved[q]
      /\ \A a \in Agents : managed'[a] \in {managed[a], None}
  BY <1>1, <1>2 DEF TypeOK, Go
<1>5. dirs' \subseteq {"staging", "work", "backup"} \X Requests
  BY <1>1, <1>2 DEF TypeOK
<1>6. TypeOK'
  BY <1>1, <1>2, <1>4, <1>5 DEF TypeOK, Stages
<1>7. (\A a \in Agents : managed'[a] # Broken) /\ saved'[r] # Broken
  BY <1>1, <1>4, VersionsLemma DEF InstallInv
<1>8. InstallationFits(r)'
  BY <1>1, <1>2, <1>4, <1>7 DEF InstallationFits, Publishing, Runs
<1> QED
  BY <1>2, <1>3, <1>4, <1>6, <1>7, <1>8, OneRequest

LEMMA UnpublishedStep ==
    ASSUME InstallInv, NEW r \in Requests, Unpublished(r)
    PROVE  InstallInv'
<1>1. TypeOK /\ InstallationFits(r)
  BY DEF InstallInv
<1>2. /\ at[r] = "publish" /\ Ends(r, "failed")
      /\ UNCHANGED <<leader, helper, managed, path, saved, binding, crashed>>
  BY DEF Unpublished, processVars
<1>3. Active(r) /\ leader[r] = "reaped"
  BY <1>1, <1>2 DEF Active, Stages, InstallationFits, Publishing
<1> QED
  BY <1>1, <1>2, <1>3, EndsEarly DEF TypeOK

LEMMA SwapStep ==
    ASSUME InstallInv, NEW r \in Requests, Swap(r)
    PROVE  InstallInv'
<1>1. TypeOK /\ InstallationFits(r) /\ agent[r] \in Agents
  BY DEF InstallInv, TypeOK
<1>2. /\ at[r] = "swap" /\ Go(r, "sweep")
      /\ managed' = [managed EXCEPT ![agent[r]] = content[r]]
      /\ content' = [content EXCEPT ![r] = None]
      /\ dirs' = dirs \ {<<"staging", r>>}
      /\ UNCHANGED <<path, saved, agent, answer, leader, helper, history, binding, crashed>>
  BY DEF Swap, processVars, serverVars
<1>3. Active(r) /\ content[r] = New
  BY <1>1, <1>2 DEF Active, Stages, InstallationFits
<1>4. /\ at'[r] = "sweep" /\ managed'[agent[r]] = New
      /\ \A q \in Requests \ {r} : at'[q] = at[q] /\ content'[q] = content[q]
      /\ \A a \in Agents : managed'[a] \in {managed[a], New}
  BY <1>1, <1>2, <1>3 DEF TypeOK, Go
<1>5. TypeOK'
  BY <1>1, <1>2, <1>3, VersionsLemma DEF TypeOK, Go, Stages
<1>6. \A a \in Agents : managed'[a] # Broken
  BY <1>4, VersionsLemma DEF InstallInv
<1>7. InstallationFits(r)'
  BY <1>1, <1>2, <1>4, VersionsLemma DEF InstallationFits, Publishing, Runs, Answers
<1> QED
  BY <1>2, <1>3, <1>4, <1>5, <1>6, <1>7, OneRequest

LEMMA SwapFailsStep ==
    ASSUME InstallInv, NEW r \in Requests, SwapFails(r)
    PROVE  InstallInv'
<1>1. TypeOK /\ InstallationFits(r) /\ agent[r] \in Agents
  BY DEF InstallInv, TypeOK
<1>2. /\ at[r] = "swap" /\ Go(r, "done") /\ answer' = [answer EXCEPT ![r] = "failed"]
      /\ \/ managed' = [managed EXCEPT ![agent[r]] = saved[r]] /\ saved' = [saved EXCEPT ![r] = None]
         \/ UNCHANGED <<managed, saved>>
      /\ history' = IF history = r THEN None ELSE history
      /\ dirs' = (dirs \ Own(r)) \ (IF saved' = saved THEN {} ELSE {<<"backup", r>>})
      /\ content' = [content EXCEPT ![r] = None]
      /\ UNCHANGED <<path, agent, leader, helper, binding, crashed>>
  BY DEF Released, SwapFails, RolledBack, processVars
<1>3. Active(r) /\ Own(r) \cap dirs' = {} /\ dirs' \subseteq dirs
  BY <1>2 DEF Active, Stages
<1>4. /\ at'[r] = "done" /\ answer'[r] = "failed" /\ saved'[r] \in {saved[r], None}
      /\ \A q \in Requests \ {r} : /\ at'[q] = at[q] /\ content'[q] = content[q]
                                   /\ answer'[q] = answer[q] /\ saved'[q] = saved[q]
      /\ \A a \in Agents : managed'[a] \in {managed[a], saved[r]}
  BY <1>1, <1>2 DEF TypeOK, Go
<1>5. TypeOK'
  <2>1. managed' \in [Agents -> Versions \cup {Broken, None}] /\ saved' \in [Requests -> Versions \cup {Broken, None}]
    BY <1>1, <1>2 DEF TypeOK
  <2> QED
    BY <1>1, <1>2, <1>3, <2>1 DEF TypeOK, Go, Answers
<1>6. \A a \in Agents : managed'[a] # Broken
  BY <1>1, <1>4 DEF InstallInv, InstallationFits
<1>7. InstallationFits(r)'
  BY <1>1, <1>2, <1>3, <1>4, VersionsLemma DEF InstallationFits, Publishing, Runs
<1> QED
  BY <1>2, <1>3, <1>4, <1>5, <1>6, <1>7, OneRequest

LEMMA SweepStep ==
    ASSUME InstallInv, NEW r \in Requests, Sweep(r)
    PROVE  InstallInv'
<1>1. TypeOK /\ InstallationFits(r) /\ agent[r] \in Agents
  BY DEF InstallInv, TypeOK
<1>2. /\ at[r] = "sweep" /\ (saved' = [saved EXCEPT ![r] = None] \/ UNCHANGED saved)
      /\ UNCHANGED <<leader, helper, managed, path, content, binding, crashed, agent, history>>
      /\ dirs' \subseteq dirs
      /\ \/ agent[r] = OpenCode /\ Go(r, "rebind") /\ UNCHANGED answer
         \/ /\ Go(r, "done") /\ answer' = [answer EXCEPT ![r] = "created"]
            /\ Own(r) \cap dirs' = {}
  BY DEF Sweep, processVars
<1>3. Active(r)
  BY <1>2 DEF Active, Stages
<1>4. /\ saved'[r] \in {saved[r], None}
      /\ \A q \in Requests \ {r} : at'[q] = at[q] /\ answer'[q] = answer[q] /\ saved'[q] = saved[q]
  BY <1>1, <1>2 DEF TypeOK, Go
<1>5. TypeOK'
  BY <1>1, <1>2 DEF TypeOK, Go, Stages, Answers
<1>6. InstallationFits(r)'
  BY <1>1, <1>2, <1>4, VersionsLemma DEF InstallationFits, Publishing, Runs, Go, TypeOK
<1> QED
  BY <1>2, <1>3, <1>4, <1>5, <1>6, OneRequest DEF InstallInv

LEMMA RebindStep ==
    ASSUME InstallInv, NEW r \in Requests, Rebind(r)
    PROVE  InstallInv'
<1>1. TypeOK /\ InstallationFits(r)
  BY DEF InstallInv
<1>2. /\ at[r] = "rebind" /\ Go(r, "lineage") /\ binding' = New
      /\ UNCHANGED <<fileVars, agent, answer, processVars, history, crashed>>
  BY DEF Rebind
<1>3. Active(r)
  BY <1>2 DEF Active, Stages
<1>4. TypeOK' /\ at'[r] = "lineage" /\ \A q \in Requests \ {r} : at'[q] = at[q]
  BY <1>1, <1>2, VersionsLemma DEF TypeOK, Go, Stages, fileVars, processVars
<1>5. InstallationFits(r)'
  BY <1>1, <1>2, <1>4 DEF InstallationFits, Publishing, Runs, fileVars, processVars
<1> QED
  BY <1>2, <1>3, <1>4, <1>5, OneRequest DEF InstallInv, fileVars, processVars

LEMMA LineageStep ==
    ASSUME InstallInv, NEW r \in Requests, Lineage(r)
    PROVE  InstallInv'
<1>1. TypeOK /\ InstallationFits(r)
  BY DEF InstallInv
<1>2. /\ at[r] = "lineage" /\ Ends(r, "created")
      /\ UNCHANGED <<leader, helper, managed, path, saved, binding, crashed>>
  BY DEF Lineage, processVars
<1>3. Active(r) /\ leader[r] = "reaped" /\ ~helper[r]
  BY <1>1, <1>2 DEF Active, Stages, InstallationFits, Publishing
<1>4. /\ at' \in [Requests -> Stages \cup {"new", "done"}] /\ at'[r] = "done"
      /\ answer' \in [Requests -> Answers \cup {None}]
      /\ answer'[r] = "created"
      /\ content' \in [Requests -> {New, Broken, None}]
      /\ history' \in Requests \cup Others \cup {None} /\ agent' = agent
      /\ dirs' \subseteq dirs /\ (~helper'[r] => Own(r) \cap dirs' = {})
      /\ \A q \in Requests \ {r} : /\ at'[q] = at[q] /\ answer'[q] = answer[q] /\ content'[q] = content[q]
                                   /\ Own(q) \cap dirs' \subseteq dirs
  BY <1>1, <1>2, EndsLemma DEF TypeOK
<1>5. TypeOK'
  BY <1>1, <1>2, <1>4 DEF TypeOK
<1>6. InstallationFits(r)'
  BY <1>1, <1>2, <1>3, <1>4 DEF InstallationFits, Publishing, Runs
<1> QED
  BY <1>2, <1>3, <1>4, <1>5, <1>6, OneRequest DEF InstallInv

\* The server ends, and with it what requests know.
LEMMA CrashStep ==
    ASSUME InstallInv, Crash
    PROVE  InstallInv'
<1>1. TypeOK
  BY DEF InstallInv
<1>2. /\ crashed' = TRUE /\ history' = None /\ binding' = Bound
      /\ at' = [r \in Requests |-> IF Active(r) THEN "done" ELSE at[r]]
      /\ answer' = [r \in Requests |-> IF Active(r) THEN "dropped" ELSE answer[r]]
      /\ UNCHANGED <<fileVars, agent, processVars>>
  BY DEF Crash
<1>3. Bound \in Versions
  BY DEF Bound, Versions
<1>4. TypeOK' /\ \A r \in Requests : at'[r] \in {"new", "done"} /\ ~Active(r)'
  BY <1>1, <1>2, <1>3 DEF TypeOK, Active, Stages, fileVars, processVars, Answers
<1>5. ASSUME NEW r \in Requests PROVE InstallationFits(r)'
  <2>1. InstallationFits(r) /\ at[r] \in Stages \cup {"new", "done"}
    BY <1>1 DEF InstallInv, TypeOK
  <2>2. at'[r] = "new" => at[r] = "new" /\ answer'[r] = answer[r]
    BY <1>2 DEF Active, Stages
  <2>3. answer'[r] = "timeout" => answer[r] = "timeout"
    BY <1>2
  <2> QED
    BY <1>2, <1>4, <2>1, <2>2, <2>3 DEF InstallationFits, Publishing, fileVars, processVars
<1> QED
  BY <1>2, <1>4, <1>5 DEF InstallInv, fileVars

\* Whoever else has the lock of the history, no installation needs it then.
LEMMA OthersStep ==
    ASSUME InstallInv, history \notin Requests, history' \in Others \cup {None}, binding' \in Versions,
           path' \in [Agents -> Versions \cup {None}],
           UNCHANGED <<managed, dirs, content, saved, requestVars, processVars, crashed>>
    PROVE  InstallInv'
<1>1. TypeOK'
  BY DEF InstallInv, TypeOK, requestVars, processVars
<1>2. ASSUME NEW r \in Requests PROVE InstallationFits(r)'
  <2>1. InstallationFits(r) /\ history # r
    BY DEF InstallInv
  <2> QED
    BY <2>1 DEF InstallationFits, Publishing, Runs, requestVars, processVars
<1> QED
  BY <1>1, <1>2 DEF InstallInv, Active, requestVars

-----------------------------------------------------------------------------

LEMMA InstallInitial == Init => InstallInv
<1> SUFFICES ASSUME Init PROVE InstallInv
  OBVIOUS
<1>1. TypeOK
  <2>1. Bound \in Versions
    BY DEF Bound, Versions
  <2>2. agent \in [Requests -> Agents]
    BY InstallAssumption DEF Init, InstallConstants, Agents
  <2>3. managed \in [Agents -> Versions \cup {Broken, None}] /\ path \in [Agents -> Versions \cup {None}]
    BY DEF Init, Versions
  <2> QED
    BY <2>1, <2>2, <2>3 DEF Init, TypeOK
<1>2. \A a \in Agents : managed[a] # Broken
  BY VersionsLemma DEF Init
<1>3. \A r \in Requests : ~Active(r) /\ at[r] = "new"
  BY DEF Init, Active, Stages
<1>4. \A r \in Requests : InstallationFits(r)
  BY <1>3, VersionsLemma DEF Init, InstallationFits, Publishing, Runs
<1> QED
  BY <1>1, <1>2, <1>3, <1>4 DEF InstallInv

LEMMA RequestStep ==
    ASSUME InstallInv, NEW r \in Requests,
           Install(r) \/ Busy(r) \/ Unsupported(r) \/ Step(r) \/ Interrupt(r) \/ Drop(r) \/ Fork(r) \/ HelperEnds(r) \/ LeaderEnds(r)
    PROVE  InstallInv'
BY RefusedStep, InstallStepBegins, VerifyStep, PrepareStep, UnpreparedStep, ProcessStep, CommandFailsStep,
   CommandSucceedsStep, ValidateStep, TimesOutStep, KillStep, GivenUpStep, LockHistoryForStep, MoveAsideStep,
   UnpublishedStep, SwapStep, SwapFailsStep, SweepStep, RebindStep, LineageStep DEF Step

LEMMA InstallationStep == InstallInv /\ [Next]_vars => InstallInv'
<1> SUFFICES ASSUME InstallInv, [Next]_vars PROVE InstallInv'
  OBVIOUS
<1>1. CASE UNCHANGED vars
  BY <1>1 DEF vars, fileVars, requestVars, processVars, serverVars, InstallInv, TypeOK, InstallationFits, Active, Runs
<1>2. CASE InstallNext
  BY <1>2, RequestStep, CrashStep DEF InstallNext
<1>3. ASSUME NEW o \in Others, OtherLocks(o) \/ OtherUnlocks(o) PROVE InstallInv'
  <2>1. /\ history \notin Requests /\ history' \in Others \cup {None} /\ binding' \in Versions
        /\ UNCHANGED <<fileVars, requestVars, processVars, crashed>>
    BY <1>3, InstallAssumption DEF OtherLocks, OtherUnlocks, InstallConstants, InstallInv, TypeOK
  <2> QED
    BY <2>1, OthersStep DEF fileVars, InstallInv, TypeOK
<1> QED
  BY <1>1, <1>2, <1>3 DEF Next

\* The invariant of installations, for any requests and whoever else takes the
\* lock of the history.
THEOREM InstallationInductive == Spec => []InstallInv
BY InstallInitial, InstallationStep, PTL DEF Spec

\* What is moved aside is not lost: of an agent that has a version under the data
\* directory there is one after every step, in place or in a backup.
LEMMA NothingIsLost ==
    ASSUME InstallInv, InstallInv', [Next]_vars, NEW a \in Agents
    PROVE  /\ Copies(a) # {} => Copies(a)' # {}
           /\ managed[a] # None /\ managed'[a] = None => saved' # saved
<1> DEFINE lost == Copies(a) # {} /\ Copies(a)' = {}
<1>1. ASSUME UNCHANGED <<managed, saved, agent>> PROVE ~lost
  BY <1>1 DEF Copies
<1>2. ASSUME NEW r \in Requests, MoveAside(r)
      PROVE  ~lost /\ (managed[a] # None /\ managed'[a] = None => saved' # saved)
  <2>1. /\ at[r] = "publish" /\ saved[r] = None /\ agent[r] \in Agents
        /\ saved \in [Requests -> Versions \cup {Broken, None}] /\ managed \in [Agents -> Versions \cup {Broken, None}]
    BY <1>2 DEF MoveAside, InstallInv, InstallationFits, TypeOK
  <2>2. /\ saved' = [saved EXCEPT ![r] = managed[agent[r]]]
        /\ managed' = [managed EXCEPT ![agent[r]] = None] /\ agent' = agent
    BY <1>2 DEF MoveAside
  <2>3. CASE agent[r] # a
    <3>1. managed'[a] = managed[a] /\ \A q \in Requests : agent[q] = a => saved'[q] = saved[q]
      BY <2>1, <2>2, <2>3
    <3> QED
      BY <2>2, <3>1 DEF Copies
  <2>4. CASE agent[r] = a
    <3>1. managed'[a] = None /\ saved'[r] = managed[a] /\ \A q \in Requests \ {r} : saved'[q] = saved[q]
      BY <2>1, <2>2, <2>4
    <3>2. Copies(a) \subseteq Copies(a)'
      BY <2>1, <2>2, <2>4, <3>1 DEF Copies
    <3> QED
      BY <2>1, <3>1, <3>2
  <2> QED
    BY <2>3, <2>4
<1>3. ASSUME NEW r \in Requests, Swap(r) \/ Sweep(r)
      PROVE  ~lost /\ (managed[a] # None => managed'[a] # None)
  <2>1. agent[r] \in Agents /\ managed \in [Agents -> Versions \cup {Broken, None}]
        /\ saved \in [Requests -> Versions \cup {Broken, None}] /\ agent' = agent
    BY <1>3 DEF Swap, Sweep, InstallInv, TypeOK
  <2>2. managed'[agent[r]] = New /\ (a # agent[r] => managed'[a] = managed[a])
    BY <1>3, <2>1 DEF Swap, Sweep, InstallInv, InstallationFits
  <2>3. \A q \in Requests \ {r} : saved'[q] = saved[q]
    BY <1>3, <2>1 DEF Swap, Sweep
  <2>4. CASE a = agent[r]
    BY <2>2, <2>4, VersionsLemma DEF Copies
  <2>5. CASE a # agent[r]
    BY <2>1, <2>2, <2>3, <2>5 DEF Copies
  <2> QED
    BY <2>2, <2>4, <2>5, VersionsLemma
<1>4. ASSUME NEW r \in Requests, SwapFails(r)
      PROVE  ~lost /\ (managed[a] # None => managed'[a] # None)
  <2>1. /\ agent[r] \in Agents /\ managed \in [Agents -> Versions \cup {Broken, None}]
        /\ saved \in [Requests -> Versions \cup {Broken, None}] /\ agent' = agent
        /\ managed[agent[r]] = None
    BY <1>4 DEF SwapFails, InstallInv, TypeOK, InstallationFits
  <2>2. CASE UNCHANGED <<managed, saved>>
    BY <1>1, <2>1, <2>2
  <2>3. CASE RolledBack(r)
    <3>1. /\ managed'[agent[r]] = saved[r] /\ (a # agent[r] => managed'[a] = managed[a])
          /\ \A q \in Requests \ {r} : saved'[q] = saved[q]
      BY <2>1, <2>3 DEF RolledBack
    <3>2. Copies(a) \subseteq Copies(a)'
      BY <2>1, <3>1 DEF Copies
    <3> QED
      BY <2>1, <3>1, <3>2
  <2> QED
    BY <1>4, <2>2, <2>3 DEF SwapFails
<1>5. CASE UNCHANGED <<managed, saved, agent>>
  BY <1>1, <1>5
<1>6. (\E r \in Requests : MoveAside(r) \/ Swap(r) \/ Sweep(r) \/ SwapFails(r)) \/ UNCHANGED <<managed, saved, agent>>
  <2>1. CASE UNCHANGED vars
    BY <2>1 DEF vars, fileVars, requestVars
  <2>2. CASE Crash \/ \E o \in Others : OtherLocks(o) \/ OtherUnlocks(o)
    BY <2>2 DEF Crash, OtherLocks, OtherUnlocks, fileVars, requestVars
  <2>3. ASSUME NEW r \in Requests,
               Install(r) \/ Busy(r) \/ Unsupported(r) \/ Fork(r) \/ HelperEnds(r) \/ LeaderEnds(r) \/ TimesOut(r)
                 \/ LockHistoryFor(r) \/ Rebind(r) \/ Prepare(r) \/ CommandSucceeds(r)
        PROVE  UNCHANGED <<managed, saved, agent>>
    BY <2>3 DEF Install, Busy, Unsupported, Fork, HelperEnds, LeaderEnds, TimesOut, LockHistoryFor, Rebind, Prepare,
                CommandSucceeds, fileVars, requestVars
  <2>4. ASSUME NEW r \in Requests,
               Verify(r) \/ Unprepared(r) \/ CommandFails(r) \/ Validate(r) \/ Kill(r) \/ Interrupt(r) \/ Drop(r)
                 \/ Unpublished(r) \/ Lineage(r)
        PROVE  UNCHANGED <<managed, saved, agent>>
    BY <2>4 DEF Verify, Unprepared, CommandFails, Validate, Kill, Interrupt, Drop, Unpublished, Lineage, Ends
  <2> QED
    BY <2>1, <2>2, <2>3, <2>4 DEF Next, InstallNext, Step
<1> QED
  BY <1>2, <1>3, <1>4, <1>5, <1>6, <1>1

\* "created" is answered when the version is in its place and its database bound.
LEMMA CreatedIsTrue ==
    ASSUME InstallInv, [Next]_vars, NEW r \in Requests, answer'[r] = "created", answer[r] = None
    PROVE  managed'[agent[r]] = New /\ (agent[r] = OpenCode => binding' = New)
<1>1. answer \in [Requests -> Answers \cup {None}]
  BY DEF InstallInv, TypeOK
<1>2. None # "created"
  BY VersionsLemma DEF Answers
<1>3. ~UNCHANGED answer
  BY <1>2
<1>4. ASSUME NEW q \in Requests, NEW result \in Answers \ {"created"}, answer' = [answer EXCEPT ![q] = result] PROVE FALSE
  BY <1>1, <1>2, <1>4
<1>5. ASSUME NEW q \in Requests, NEW result \in Answers \ {"created"}, Ends(q, result) PROVE FALSE
  BY <1>4, <1>5 DEF Ends
<1>6. ~UNCHANGED vars /\ ~Crash /\ ~\E o \in Others : OtherLocks(o) \/ OtherUnlocks(o)
  BY <1>2, <1>3 DEF vars, requestVars, Crash, OtherLocks, OtherUnlocks
<1>7. ASSUME NEW q \in Requests,
             Install(q) \/ Fork(q) \/ HelperEnds(q) \/ LeaderEnds(q) \/ TimesOut(q) \/ LockHistoryFor(q)
               \/ Rebind(q) \/ Prepare(q) \/ CommandSucceeds(q) \/ MoveAside(q) \/ Swap(q)
      PROVE  FALSE
  BY <1>3, <1>7 DEF Install, Fork, HelperEnds, LeaderEnds, TimesOut, LockHistoryFor, Rebind, Prepare, CommandSucceeds,
                    MoveAside, Swap, requestVars
<1>8. ASSUME NEW q \in Requests,
             Busy(q) \/ Unsupported(q) \/ SwapFails(q)
      PROVE  FALSE
  BY <1>4, <1>8 DEF Busy, Unsupported, SwapFails, Answers
<1>9. ASSUME NEW q \in Requests,
             Verify(q) \/ Unprepared(q) \/ CommandFails(q) \/ Validate(q) \/ Kill(q) \/ Interrupt(q) \/ Drop(q)
               \/ Unpublished(q)
      PROVE  FALSE
  BY <1>3, <1>5, <1>9 DEF Verify, Unprepared, CommandFails, Validate, Kill, Interrupt, Drop, Unpublished, Answers
<1>10. \E q \in Requests : Sweep(q) \/ Lineage(q)
  BY <1>6, <1>7, <1>8, <1>9 DEF Next, InstallNext, Step
<1>11. PICK q \in Requests : Sweep(q) \/ Lineage(q)
  BY <1>10
<1>12. q = r
  BY <1>1, <1>2, <1>11 DEF Sweep, Lineage, Ends
<1>13. InstallationFits(r)
  BY DEF InstallInv
<1>14. CASE Sweep(r)
  BY <1>3, <1>13, <1>14 DEF Sweep, InstallationFits
<1>15. CASE Lineage(r)
  BY <1>13, <1>15 DEF Lineage, InstallationFits
<1> QED
  BY <1>11, <1>12, <1>14, <1>15

\* An installation publishes what was validated and nothing else, a roll back
\* brings back what was moved aside, a request leaves no directory and a timeout
\* no process, and "created" is true (install.rs install_managed and publish,
\* process.rs command_output), for any requests, however their commands fail or
\* hang and wherever they are dropped.
THEOREM InstallAllOrNothing == Spec => InstallIsAllOrNothing
<1> DEFINE clean(r) == at[r] = "done" =>
             \/ crashed
             \/ Own(r) \cap dirs # {} => answer[r] \in {"failed", "dropped"} /\ leader[r] \in {"failed", "reaped"}
           quiet(r) == answer[r] = "timeout" => ~helper[r] /\ leader[r] # "runs"
           kept(a) == /\ Copies(a) # {} => Copies(a)' # {}
                      /\ managed[a] # None /\ managed'[a] = None => saved' # saved
           honest(r) == answer'[r] = "created" /\ answer[r] = None =>
             managed'[agent[r]] = New /\ (agent[r] = OpenCode => binding' = New)
<1>1. InstallInv => /\ TypeOK
                    /\ \A a \in Agents : managed[a] # Broken
                    /\ \A r \in Requests : clean(r)
                    /\ \A r \in Requests : quiet(r)
  BY DEF InstallInv, InstallationFits
<1>2. InstallInv /\ InstallInv' /\ [Next]_vars => [\A a \in Agents : kept(a)]_vars
  BY NothingIsLost
<1>3. InstallInv /\ [Next]_vars => [\A r \in Requests : honest(r)]_vars
  BY CreatedIsTrue
<1> QED
  BY <1>1, <1>2, <1>3, InstallationInductive, PTL DEF Spec, InstallIsAllOrNothing

-----------------------------------------------------------------------------
(* Launching an agent                                                      *)
(*                                                                         *)
(* From its preparation on a launch holds the lock of the history, so that *)
(* no installation binds another database, and what it found is what is in *)
(* its place unless a change of it was noted.                              *)

Executables == [place : {"managed", "path", None}, version : Versions \cup {None}]
AgentSessions == [alive : BOOLEAN, names : SUBSET FileNames, arguments : Versions \cup {None},
             database : Versions \cup {None}, runs : Versions \cup {None}]

LaunchStages == {"new", "verify", "workspace", "history", "prepare", "spawn", "write", "start", "attach", "done"}

LaunchType ==
    /\ step \in [Creates -> LaunchStages] /\ kind \in [Creates -> Agents]
    /\ replaced \in [Creates -> BOOLEAN] /\ prepared \in [Creates -> Versions \cup {None}]
    /\ reply \in [Creates -> {None, "unavailable", "failed", "created", "dropped"}]
    /\ found \in [Creates -> Executables]
    /\ files \in [Creates -> (SUBSET FileNames) \cup {None}]
    /\ session \in [Creates -> AgentSessions]

Preparing == {"prepare", "spawn", "write", "start"}

LaunchIsPrepared(c) ==
    /\ step[c] \in {"workspace", "history", "attach"} \cup Preparing =>
          found[c].place \in {"managed", "path"} /\ found[c].version \in Versions
    /\ step[c] \in Preparing => history = c /\ (kind[c] = OpenCode => binding = found[c].version)
    /\ step[c] \in {"spawn", "write", "start"} => prepared[c] = binding
    /\ step[c] \in {"write", "start"} => files[c] # None
    /\ step[c] = "start" => session[c].names \subseteq files[c]
    /\ found[c].place # None /\ ~replaced[c] => At(kind[c], found[c].place) = found[c].version
    /\ step[c] \notin {"attach", "done"} => ~session[c].alive /\ session[c].runs = None
    /\ session[c].alive =>
          /\ found[c].place \in {"managed", "path"}
          /\ session[c].arguments = found[c].version
          /\ session[c].database = prepared[c]
          /\ kind[c] = OpenCode => session[c].database = session[c].arguments
          /\ session[c].runs \in {None, session[c].arguments} \/ replaced[c]
          /\ files[c] # None /\ session[c].names \subseteq files[c]
    /\ files[c] # None => session[c].alive \/ step[c] \in {"write", "start"} \/ crashed

LaunchInv ==
    /\ InstallInv /\ LaunchType
    /\ \A c \in Creates : LaunchIsPrepared(c)

LEMMA CreatesLemma == Creates \cap Requests = {} /\ None \notin Creates /\ Creates \subseteq Others
BY InstallAssumption, LaunchAssumption DEF InstallConstants, LaunchConstants

LEMMA FilesAreNotNone == None \notin {"managed", "path"} /\ \A written \in SUBSET FileNames : written # None
BY LaunchAssumption DEF LaunchConstants

\* A launch keeps what installations rely on.
LEMMA LaunchKeepsInstallations ==
    ASSUME InstallInv, NEW c \in Creates,
           UNCHANGED <<fileVars, requestVars, processVars, crashed>>,
           \/ history \in {None, c} /\ history' \in {None, c} /\ binding' \in Versions
           \/ UNCHANGED <<history, binding>>
    PROVE  InstallInv'
<1>1. CASE UNCHANGED <<history, binding>>
  BY <1>1 DEF fileVars, requestVars, processVars, InstallInv, TypeOK, InstallationFits, Active, Runs
<1>2. CASE history \in {None, c} /\ history' \in {None, c} /\ binding' \in Versions
  <2>1. history \notin Requests /\ history' \in Others \cup {None}
    BY <1>2, CreatesLemma, InstallAssumption DEF InstallConstants
  <2> QED
    BY <1>2, <2>1, OthersStep DEF fileVars, InstallInv, TypeOK
<1> QED
  BY <1>1, <1>2

\* A step of one launch.
LEMMA OneLaunch ==
    ASSUME LaunchInv, NEW c \in Creates, LaunchType', LaunchIsPrepared(c)',
           UNCHANGED <<fileVars, requestVars, processVars, crashed, kind, replaced>>,
           \/ history \in {None, c} /\ history' \in {None, c} /\ binding' \in Versions
           \/ UNCHANGED <<history, binding>>,
           \A d \in Creates \ {c} :
              /\ step'[d] = step[d] /\ found'[d] = found[d] /\ prepared'[d] = prepared[d]
              /\ files'[d] = files[d] /\ session'[d] = session[d]
    PROVE  LaunchInv'
<1>1. InstallInv'
  BY LaunchKeepsInstallations DEF LaunchInv
<1>2. ASSUME NEW d \in Creates \ {c} PROVE LaunchIsPrepared(d)'
  <2>1. LaunchIsPrepared(d)
    BY DEF LaunchInv
  <2>2. history = d => UNCHANGED <<history, binding>>
    BY CreatesLemma
  <2> QED
    BY <2>1, <2>2 DEF LaunchIsPrepared, At, fileVars, Preparing
<1> QED
  BY <1>1, <1>2 DEF LaunchInv

LEMMA ReplyLemma ==
    ASSUME LaunchType, NEW c \in Creates, NEW result \in {"unavailable", "failed", "created", "dropped"}, Reply(c, result)
    PROVE  /\ step' \in [Creates -> LaunchStages] /\ step'[c] = "done"
           /\ reply' \in [Creates -> {None, "unavailable", "failed", "created", "dropped"}]
           /\ \A d \in Creates \ {c} : step'[d] = step[d]
           /\ (history = c /\ history' = None) \/ UNCHANGED history
BY DEF Released, Reply, Enter, LaunchType, LaunchStages

LEMMA EnterLemma ==
    ASSUME LaunchType, NEW c \in Creates, NEW stage \in LaunchStages, Enter(c, stage)
    PROVE  /\ step' \in [Creates -> LaunchStages] /\ step'[c] = stage
           /\ \A d \in Creates \ {c} : step'[d] = step[d]
BY DEF Enter, LaunchType

\* A launch that ends without a session, or with the one it has.
LEMMA ReplyStep ==
    ASSUME LaunchInv, NEW c \in Creates, NEW result \in {"unavailable", "failed", "created", "dropped"}, Reply(c, result),
           step[c] \notin {"write", "start"},
           UNCHANGED <<fileVars, requestVars, processVars, binding, crashed, kind, found, replaced, prepared, files, session>>
    PROVE  LaunchInv'
<1>1. LaunchType /\ LaunchIsPrepared(c) /\ binding \in Versions
  BY DEF LaunchInv, InstallInv, TypeOK
<1>2. /\ step' \in [Creates -> LaunchStages] /\ step'[c] = "done"
      /\ reply' \in [Creates -> {None, "unavailable", "failed", "created", "dropped"}]
      /\ \A d \in Creates \ {c} : step'[d] = step[d]
      /\ (history = c /\ history' = None) \/ UNCHANGED history
  BY <1>1, ReplyLemma
<1>3. LaunchType'
  BY <1>1, <1>2 DEF LaunchType
<1>4. LaunchIsPrepared(c)'
  BY <1>1, <1>2 DEF LaunchIsPrepared, Preparing, At, fileVars
<1> QED
  BY <1>1, <1>2, <1>3, <1>4, OneLaunch

LEMMA CreateStep ==
    ASSUME LaunchInv, NEW c \in Creates, Create(c)
    PROVE  LaunchInv'
<1>1. LaunchType /\ LaunchIsPrepared(c)
  BY DEF LaunchInv
<1>2. /\ step[c] = "new" /\ Enter(c, "verify")
      /\ UNCHANGED <<fileVars, requestVars, processVars, history, binding, crashed, kind, found, replaced, prepared, files, session, reply>>
  BY DEF Create, vars, serverVars
<1>3. /\ step' \in [Creates -> LaunchStages] /\ step'[c] = "verify"
      /\ \A d \in Creates \ {c} : step'[d] = step[d]
  BY <1>1, <1>2, EnterLemma DEF LaunchStages
<1>4. LaunchType'
  BY <1>1, <1>2, <1>3 DEF LaunchType
<1>5. LaunchIsPrepared(c)'
  BY <1>1, <1>2, <1>3 DEF LaunchIsPrepared, Preparing, At, fileVars
<1> QED
  BY <1>2, <1>3, <1>4, <1>5, OneLaunch

\* What is chosen answered.
LEMMA ChosenLemma ==
    ASSUME NEW a, NEW answers \in SUBSET {"managed", "path"}
    PROVE  Chosen(a, answers) \in answers \cup {None}
BY DEF Chosen

LEMMA VerifyExecutableStep ==
    ASSUME LaunchInv, NEW c \in Creates, VerifyExecutable(c)
    PROVE  LaunchInv'
<1>1. LaunchType /\ LaunchIsPrepared(c)
  BY DEF LaunchInv
<1>2. PICK answers \in SUBSET {p \in {"managed", "path"} : At(kind[c], p) \in Versions} :
         IF Chosen(kind[c], answers) = None
         THEN Reply(c, "unavailable") /\ UNCHANGED found
         ELSE /\ Enter(c, "workspace")
              /\ found' = [found EXCEPT ![c] = [place |-> Chosen(kind[c], answers),
                                                version |-> At(kind[c], Chosen(kind[c], answers))]]
              /\ UNCHANGED <<reply, history>>
  BY DEF VerifyExecutable
<1>3. /\ step[c] = "verify"
      /\ UNCHANGED <<fileVars, requestVars, processVars, binding, crashed, kind, replaced, prepared, files, session>>
  BY DEF VerifyExecutable
<1>4. CASE Chosen(kind[c], answers) = None
  BY <1>2, <1>3, <1>4, ReplyStep
<1>5. CASE Chosen(kind[c], answers) # None
  <2>1. Chosen(kind[c], answers) \in {"managed", "path"} /\ At(kind[c], Chosen(kind[c], answers)) \in Versions
    BY <1>2, <1>5, ChosenLemma
  <2>2. PICK place \in {"managed", "path"}, version \in Versions :
           /\ place = Chosen(kind[c], answers) /\ version = At(kind[c], place)
    BY <2>1
  <2>3. /\ Enter(c, "workspace") /\ UNCHANGED <<reply, history>>
        /\ found' = [found EXCEPT ![c] = [place |-> place, version |-> version]]
    BY <1>2, <1>5, <2>2
  <2>4. /\ step' \in [Creates -> LaunchStages] /\ step'[c] = "workspace"
        /\ \A d \in Creates \ {c} : step'[d] = step[d]
    BY <1>1, <2>3, EnterLemma DEF LaunchStages
  <2>5. [place |-> place, version |-> version] \in Executables
    BY DEF Executables
  <2>6. /\ found' \in [Creates -> Executables] /\ found'[c].place = place /\ found'[c].version = version
        /\ \A d \in Creates \ {c} : found'[d] = found[d]
    BY <1>1, <2>3, <2>5 DEF LaunchType
  <2>7. LaunchType'
    BY <1>1, <1>3, <2>3, <2>4, <2>6 DEF LaunchType
  <2>8. At(kind[c], place) = At(kind[c], found[c].place)'
    BY <1>3, <2>6 DEF At, fileVars
  <2>9. LaunchIsPrepared(c)'
    BY <1>1, <1>3, <2>2, <2>4, <2>6, <2>8 DEF LaunchIsPrepared, Preparing
  <2> QED
    BY <1>3, <2>3, <2>4, <2>6, <2>7, <2>9, OneLaunch
<1> QED
  BY <1>4, <1>5

LEMMA ResolveStep ==
    ASSUME LaunchInv, NEW c \in Creates, Resolve(c)
    PROVE  LaunchInv'
<1>1. LaunchType /\ LaunchIsPrepared(c)
  BY DEF LaunchInv
<1>2. /\ step[c] = "workspace"
      /\ UNCHANGED <<fileVars, requestVars, processVars, binding, crashed, kind, found, replaced, prepared, files, session>>
      /\ \/ Enter(c, "history") /\ UNCHANGED <<reply, history>>
         \/ Reply(c, "failed")
  BY DEF Resolve
<1>3. CASE Enter(c, "history") /\ UNCHANGED <<reply, history>>
  <2>1. /\ step' \in [Creates -> LaunchStages] /\ step'[c] = "history"
        /\ \A d \in Creates \ {c} : step'[d] = step[d]
    BY <1>1, <1>3, EnterLemma DEF LaunchStages
  <2>2. LaunchType'
    BY <1>1, <1>2, <1>3, <2>1 DEF LaunchType
  <2>3. LaunchIsPrepared(c)'
    BY <1>1, <1>2, <1>3, <2>1 DEF LaunchIsPrepared, Preparing, At, fileVars
  <2> QED
    BY <1>2, <1>3, <2>1, <2>2, <2>3, OneLaunch
<1> QED
  BY <1>2, <1>3, ReplyStep

\* From here on the database stays bound to the version that was found.
LEMMA LockHistoryStep ==
    ASSUME LaunchInv, NEW c \in Creates, LockHistory(c)
    PROVE  LaunchInv'
<1>1. LaunchType /\ LaunchIsPrepared(c) /\ binding \in Versions
  BY DEF LaunchInv, InstallInv, TypeOK
<1>2. /\ step[c] = "history" /\ history = None /\ Enter(c, "prepare") /\ history' = c /\ binding' = BindTo(c)
      /\ UNCHANGED <<fileVars, requestVars, processVars, crashed, kind, found, replaced, prepared, files, session, reply>>
  BY DEF LockHistory
<1>3. /\ step' \in [Creates -> LaunchStages] /\ step'[c] = "prepare"
      /\ \A d \in Creates \ {c} : step'[d] = step[d]
  BY <1>1, <1>2, EnterLemma DEF LaunchStages
<1>4. binding' \in Versions /\ (kind[c] = OpenCode => binding' = found[c].version)
  BY <1>1, <1>2 DEF BindTo, LaunchIsPrepared
<1>5. LaunchType'
  BY <1>1, <1>2, <1>3 DEF LaunchType
<1>6. LaunchIsPrepared(c)'
  BY <1>1, <1>2, <1>3, <1>4 DEF LaunchIsPrepared, Preparing, At, fileVars
<1> QED
  BY <1>2, <1>3, <1>4, <1>5, <1>6, OneLaunch

LEMMA PrepareConversationStep ==
    ASSUME LaunchInv, NEW c \in Creates, PrepareConversation(c)
    PROVE  LaunchInv'
<1>1. LaunchType /\ LaunchIsPrepared(c) /\ binding \in Versions
  BY DEF LaunchInv, InstallInv, TypeOK
<1>2. /\ step[c] = "prepare"
      /\ UNCHANGED <<fileVars, requestVars, processVars, binding, crashed, kind, found, replaced, files, session>>
      /\ \/ Enter(c, "spawn") /\ prepared' = [prepared EXCEPT ![c] = binding] /\ UNCHANGED <<reply, history>>
         \/ Reply(c, "failed") /\ UNCHANGED prepared
  BY DEF PrepareConversation
<1>3. CASE Enter(c, "spawn") /\ prepared' = [prepared EXCEPT ![c] = binding] /\ UNCHANGED <<reply, history>>
  <2>1. /\ step' \in [Creates -> LaunchStages] /\ step'[c] = "spawn"
        /\ \A d \in Creates \ {c} : step'[d] = step[d]
    BY <1>1, <1>3, EnterLemma DEF LaunchStages
  <2>2. prepared'[c] = binding /\ \A d \in Creates \ {c} : prepared'[d] = prepared[d]
    BY <1>1, <1>3 DEF LaunchType
  <2>3. LaunchType'
    BY <1>1, <1>2, <1>3, <2>1 DEF LaunchType
  <2>4. LaunchIsPrepared(c)'
    BY <1>1, <1>2, <1>3, <2>1, <2>2 DEF LaunchIsPrepared, Preparing, At, fileVars
  <2> QED
    BY <1>2, <1>3, <2>1, <2>2, <2>3, <2>4, OneLaunch
<1> QED
  BY <1>2, <1>3, ReplyStep

LEMMA MakeRunDirectoryStep ==
    ASSUME LaunchInv, NEW c \in Creates, MakeRunDirectory(c)
    PROVE  LaunchInv'
<1>1. LaunchType /\ LaunchIsPrepared(c)
  BY DEF LaunchInv
<1>2. /\ step[c] = "spawn"
      /\ UNCHANGED <<fileVars, requestVars, processVars, binding, crashed, kind, found, replaced, prepared, session>>
      /\ \/ Enter(c, "write") /\ files' = [files EXCEPT ![c] = {}] /\ UNCHANGED <<reply, history>>
         \/ Reply(c, "failed") /\ UNCHANGED files
  BY DEF MakeRunDirectory
<1>3. CASE Enter(c, "write") /\ files' = [files EXCEPT ![c] = {}] /\ UNCHANGED <<reply, history>>
  <2>1. /\ step' \in [Creates -> LaunchStages] /\ step'[c] = "write"
        /\ \A d \in Creates \ {c} : step'[d] = step[d]
    BY <1>1, <1>3, EnterLemma DEF LaunchStages
  <2>2. files'[c] = {} /\ files'[c] # None /\ \A d \in Creates \ {c} : files'[d] = files[d]
    BY <1>1, <1>3, FilesAreNotNone DEF LaunchType
  <2>3. LaunchType'
    BY <1>1, <1>2, <1>3, <2>1 DEF LaunchType
  <2>4. LaunchIsPrepared(c)'
    BY <1>1, <1>2, <1>3, <2>1, <2>2 DEF LaunchIsPrepared, Preparing, At, fileVars
  <2> QED
    BY <1>2, <1>3, <2>1, <2>2, <2>3, <2>4, OneLaunch
<1> QED
  BY <1>2, <1>3, ReplyStep

\* What a command names is written, whichever of the other files could be.
LEMMA FilesLemma ==
    ASSUME NEW a \in Agents, NEW version, NEW skills \in BOOLEAN
    PROVE  Files(a, version, skills).must \subseteq FileNames /\ Files(a, version, skills).may \subseteq FileNames
<1>1. OpenCode \notin {Codex, Pi, TraeCli} /\ Codex \notin {Pi, TraeCli} /\ Pi # TraeCli
  BY InstallAssumption DEF InstallConstants
<1>2. CASE a = Codex
  BY <1>1, <1>2 DEF Files, CodexFiles, FileNames
<1>3. CASE a = OpenCode
  BY <1>1, <1>3 DEF Files, OpenCodeFiles, FileNames
<1>4. CASE a = TraeCli
  BY <1>1, <1>4 DEF Files, TraeFiles, FileNames
<1>5. CASE a = Pi
  BY <1>1, <1>5 DEF Files, PiFiles, FileNames
<1> QED
  BY <1>2, <1>3, <1>4, <1>5 DEF Agents

LEMMA WriteFilesStep ==
    ASSUME LaunchInv, NEW c \in Creates, WriteFiles(c)
    PROVE  LaunchInv'
<1>1. LaunchType /\ LaunchIsPrepared(c)
  BY DEF LaunchInv
<1>2. /\ step[c] = "write" /\ Enter(c, "start")
      /\ UNCHANGED <<fileVars, requestVars, processVars, history, binding, crashed, kind, found, replaced, prepared, reply>>
  BY DEF WriteFiles, vars, serverVars
<1>3. PICK skills \in BOOLEAN :
         LET parts == Files(kind[c], found[c].version, skills) IN
          \E written \in {parts.must \cup some : some \in SUBSET parts.may} :
             /\ files' = [files EXCEPT ![c] = written]
             /\ session' = [session EXCEPT ![c].names = Named(kind[c], parts, written)]
  BY DEF WriteFiles
<1> DEFINE parts == Files(kind[c], found[c].version, skills)
<1>4. parts.must \subseteq FileNames /\ parts.may \subseteq FileNames
  BY <1>1, FilesLemma DEF LaunchType
<1>5. PICK some \in SUBSET parts.may :
             /\ files' = [files EXCEPT ![c] = parts.must \cup some]
             /\ session' = [session EXCEPT ![c].names = Named(kind[c], parts, parts.must \cup some)]
  BY <1>3
<1>6. \E written \in SUBSET FileNames, names \in SUBSET FileNames :
         /\ names \subseteq written
         /\ files' = [files EXCEPT ![c] = written] /\ session' = [session EXCEPT ![c].names = names]
  <2>1. parts.must \cup some \in SUBSET FileNames
    BY <1>4, <1>5
  <2>2. Named(kind[c], parts, parts.must \cup some) \in {parts.must, parts.must \cup some}
    BY DEF Named
  <2> HIDE DEF parts
  <2> QED
    BY <1>5, <2>1, <2>2
<1> HIDE DEF parts
<1>7. PICK written \in SUBSET FileNames, names \in SUBSET FileNames :
         /\ names \subseteq written
         /\ files' = [files EXCEPT ![c] = written] /\ session' = [session EXCEPT ![c].names = names]
  BY <1>6
<1>8. /\ step' \in [Creates -> LaunchStages] /\ step'[c] = "start"
      /\ \A d \in Creates \ {c} : step'[d] = step[d]
  BY <1>1, <1>2, EnterLemma DEF LaunchStages
<1>9. /\ files'[c] = written /\ files'[c] # None /\ \A d \in Creates \ {c} : files'[d] = files[d]
      /\ files' \in [Creates -> (SUBSET FileNames) \cup {None}]
  BY <1>1, <1>7, FilesAreNotNone DEF LaunchType
<1>10. /\ session' \in [Creates -> AgentSessions] /\ session'[c].names = names
       /\ session'[c].alive = session[c].alive /\ session'[c].runs = session[c].runs
       /\ \A d \in Creates \ {c} : session'[d] = session[d]
  <2>1. session[c] \in AgentSessions /\ session' = [session EXCEPT ![c] = [session[c] EXCEPT !.names = names]]
    BY <1>1, <1>7 DEF LaunchType
  <2>2. /\ [session[c] EXCEPT !.names = names] \in AgentSessions
        /\ [session[c] EXCEPT !.names = names].names = names
        /\ [session[c] EXCEPT !.names = names].alive = session[c].alive
        /\ [session[c] EXCEPT !.names = names].runs = session[c].runs
    BY <2>1 DEF AgentSessions
  <2> QED
    BY <1>1, <2>1, <2>2 DEF LaunchType
<1>11. LaunchType'
  BY <1>1, <1>2, <1>8, <1>9, <1>10 DEF LaunchType
<1>12. LaunchIsPrepared(c)'
  BY <1>1, <1>2, <1>7, <1>8, <1>9, <1>10 DEF LaunchIsPrepared, Preparing, At, fileVars
<1> QED
  BY <1>2, <1>8, <1>9, <1>10, <1>11, <1>12, OneLaunch

LEMMA StartSessionStep ==
    ASSUME LaunchInv, NEW c \in Creates, StartSession(c)
    PROVE  LaunchInv'
<1>1. LaunchType /\ LaunchIsPrepared(c) /\ binding \in Versions
  BY DEF LaunchInv, InstallInv, TypeOK
<1>2. /\ step[c] = "start" /\ Enter(c, "attach")
      /\ session' = [session EXCEPT ![c].alive = TRUE, ![c].arguments = found[c].version, ![c].database = binding]
      /\ UNCHANGED <<fileVars, requestVars, processVars, history, binding, crashed, kind, found, replaced, prepared, files, reply>>
  BY DEF StartSession, vars, serverVars
<1> DEFINE new == [session[c] EXCEPT !.alive = TRUE, !.arguments = found[c].version, !.database = binding]
<1>3. found[c].place \in {"managed", "path"} /\ found[c].version \in Versions /\ prepared[c] = binding
  BY <1>1, <1>2 DEF LaunchIsPrepared, Preparing
<1>4. session[c] \in AgentSessions /\ session' = [session EXCEPT ![c] = new]
  <2>1. session[c] \in AgentSessions
    BY <1>1 DEF LaunchType
  <2>2. session' = [session EXCEPT ![c] = new]
    BY ONLY <1>2
  <2> QED
    BY <2>1, <2>2
<1>5. /\ new \in AgentSessions /\ new.alive /\ new.arguments = found[c].version /\ new.database = binding
      /\ new.runs = session[c].runs /\ new.names = session[c].names
  BY <1>1, <1>3, <1>4 DEF AgentSessions
<1> HIDE DEF new
<1>6. /\ session' \in [Creates -> AgentSessions] /\ session'[c] = new
      /\ \A d \in Creates \ {c} : session'[d] = session[d]
  BY <1>1, <1>4, <1>5 DEF LaunchType
<1>7. /\ step' \in [Creates -> LaunchStages] /\ step'[c] = "attach"
      /\ \A d \in Creates \ {c} : step'[d] = step[d]
  BY <1>1, <1>2, EnterLemma DEF LaunchStages
<1>8. LaunchType'
  BY <1>1, <1>2, <1>6, <1>7 DEF LaunchType
<1>9. LaunchIsPrepared(c)'
  BY <1>1, <1>2, <1>3, <1>5, <1>6, <1>7 DEF LaunchIsPrepared, Preparing, At, fileVars
<1> QED
  BY <1>2, <1>6, <1>7, <1>8, <1>9, OneLaunch

LEMMA SpawnFailsStep ==
    ASSUME LaunchInv, NEW c \in Creates, SpawnFails(c)
    PROVE  LaunchInv'
<1>1. LaunchType /\ LaunchIsPrepared(c) /\ binding \in Versions
  BY DEF LaunchInv, InstallInv, TypeOK
<1>2. /\ Reply(c, "failed") /\ files' = [files EXCEPT ![c] = None]
      /\ session' = [session EXCEPT ![c] = Unstarted]
      /\ UNCHANGED <<fileVars, requestVars, processVars, binding, crashed, kind, found, replaced, prepared>>
  BY DEF SpawnFails, Guarded
<1>3. /\ step' \in [Creates -> LaunchStages] /\ step'[c] = "done"
      /\ reply' \in [Creates -> {None, "unavailable", "failed", "created", "dropped"}]
      /\ \A d \in Creates \ {c} : step'[d] = step[d]
      /\ (history = c /\ history' = None) \/ UNCHANGED history
  BY <1>1, <1>2, ReplyLemma
<1>4. Unstarted \in AgentSessions /\ ~Unstarted.alive
  BY DEF Unstarted, AgentSessions
<1>5. /\ session' \in [Creates -> AgentSessions] /\ ~session'[c].alive /\ files'[c] = None
      /\ files' \in [Creates -> (SUBSET FileNames) \cup {None}]
      /\ \A d \in Creates \ {c} : session'[d] = session[d] /\ files'[d] = files[d]
  BY <1>1, <1>2, <1>4 DEF LaunchType
<1>6. LaunchType'
  BY <1>1, <1>2, <1>3, <1>5 DEF LaunchType
<1>7. LaunchIsPrepared(c)'
  BY <1>1, <1>2, <1>3, <1>5 DEF LaunchIsPrepared, Preparing, At, fileVars
<1> QED
  BY <1>1, <1>2, <1>3, <1>5, <1>6, <1>7, OneLaunch

LEMMA AttachStep ==
    ASSUME LaunchInv, NEW c \in Creates, Attach(c) \/ DropCreate(c)
    PROVE  LaunchInv'
<1>1. /\ step[c] \notin {"write", "start"}
      /\ UNCHANGED <<fileVars, requestVars, processVars, binding, crashed, kind, found, replaced, prepared, files, session>>
      /\ Reply(c, "created") \/ Reply(c, "failed") \/ Reply(c, "dropped")
  BY DEF Attach, DropCreate
<1> QED
  BY <1>1, ReplyStep

\* The executable is the one that was found, or its change was noted.
LEMMA ExecuteStep ==
    ASSUME LaunchInv, NEW c \in Creates, Execute(c)
    PROVE  LaunchInv'
<1>1. LaunchType /\ LaunchIsPrepared(c)
  BY DEF LaunchInv
<1>2. /\ session[c].alive /\ At(kind[c], found[c].place) \in Versions
      /\ session' = [session EXCEPT ![c].runs = At(kind[c], found[c].place)]
      /\ UNCHANGED <<fileVars, requestVars, processVars, history, binding, crashed, step, kind, found, replaced, prepared, files, reply>>
  BY DEF Execute, vars, serverVars
<1>3. PICK version \in Versions : version = At(kind[c], found[c].place) /\ session' = [session EXCEPT ![c].runs = version]
  BY <1>2
<1>4. version = session[c].arguments \/ replaced[c]
  <2>1. found[c].place # None /\ session[c].arguments = found[c].version
    BY <1>1, <1>2, FilesAreNotNone DEF LaunchIsPrepared
  <2>2. ~replaced[c] => At(kind[c], found[c].place) = found[c].version
    BY <1>1, <2>1 DEF LaunchIsPrepared
  <2> QED
    BY <1>3, <2>1, <2>2
<1> DEFINE new == [session[c] EXCEPT !.runs = version]
<1>5. session[c] \in AgentSessions /\ session' = [session EXCEPT ![c] = new]
  BY <1>1, <1>3 DEF LaunchType
<1>6. /\ new \in AgentSessions /\ new.alive = session[c].alive /\ new.arguments = session[c].arguments
      /\ new.database = session[c].database /\ new.runs = version /\ new.names = session[c].names
  BY <1>5 DEF AgentSessions
<1> HIDE DEF new
<1>7. /\ session' \in [Creates -> AgentSessions] /\ session'[c] = new
      /\ \A d \in Creates \ {c} : session'[d] = session[d]
  BY <1>1, <1>5, <1>6 DEF LaunchType
<1>8. LaunchType'
  BY <1>1, <1>2, <1>7 DEF LaunchType
<1>9. LaunchIsPrepared(c)'
  BY <1>1, <1>2, <1>4, <1>6, <1>7 DEF LaunchIsPrepared, Preparing, At, fileVars
<1> QED
  BY <1>2, <1>7, <1>8, <1>9, OneLaunch

LEMMA SessionEndsStep ==
    ASSUME LaunchInv, NEW c \in Creates, SessionEnds(c)
    PROVE  LaunchInv'
<1>1. LaunchType /\ LaunchIsPrepared(c)
  BY DEF LaunchInv
<1>2. /\ session[c].alive /\ files' = [files EXCEPT ![c] = None]
      /\ session' = [session EXCEPT ![c].alive = FALSE]
      /\ UNCHANGED <<fileVars, requestVars, processVars, history, binding, crashed, step, kind, found, replaced, prepared, reply>>
  BY DEF SessionEnds, Guarded, vars, serverVars
<1> DEFINE new == [session[c] EXCEPT !.alive = FALSE]
<1>3. session[c] \in AgentSessions /\ session' = [session EXCEPT ![c] = new]
  <2>1. session[c] \in AgentSessions
    BY <1>1 DEF LaunchType
  <2>2. session' = [session EXCEPT ![c] = new]
    BY ONLY <1>2
  <2> QED
    BY <2>1, <2>2
<1>4. new \in AgentSessions /\ ~new.alive
  BY <1>3 DEF AgentSessions
<1> HIDE DEF new
<1>5. /\ session' \in [Creates -> AgentSessions] /\ session'[c] = new /\ files'[c] = None
      /\ files' \in [Creates -> (SUBSET FileNames) \cup {None}]
      /\ \A d \in Creates \ {c} : session'[d] = session[d] /\ files'[d] = files[d]
  BY <1>1, <1>2, <1>3, <1>4 DEF LaunchType
<1>6. LaunchType'
  BY <1>1, <1>2, <1>5 DEF LaunchType
<1>7. step[c] \in {"attach", "done"}
  BY <1>1, <1>2 DEF LaunchIsPrepared
<1>8. LaunchIsPrepared(c)'
  BY <1>1, <1>2, <1>4, <1>5, <1>7 DEF LaunchIsPrepared, Preparing, At, fileVars
<1> QED
  BY <1>2, <1>5, <1>6, <1>8, OneLaunch

\* What an installation may do to a launch: nothing while it holds the lock.
LEMMA InstallStepLemma ==
    ASSUME InstallInv, NEW r \in Requests, InstallStep(r)
    PROVE  /\ InstallInv' /\ UNCHANGED <<path, crashed>>
           /\ history \in Requests \cup {None} \/ UNCHANGED <<history, binding>>
<1>1. InstallInv'
  BY RequestStep DEF InstallStep, Step
<1>2. TypeOK /\ InstallationFits(r)
  BY DEF InstallInv
<1>3. ASSUME NEW result, Ends(r, result) PROVE history = r \/ UNCHANGED history
  BY <1>3 DEF Released, Ends
<1>4. CASE Install(r) \/ Prepare(r) \/ LeaderEnds(r) \/ CommandSucceeds(r) \/ MoveAside(r) \/ Swap(r)
  BY <1>1, <1>4 DEF Install, Prepare, LeaderEnds, CommandSucceeds, MoveAside, Swap, fileVars, serverVars
<1>5. CASE Verify(r) \/ Validate(r) \/ Lineage(r) \/ (at[r] \in {"rebind", "lineage"} /\ Drop(r))
  BY <1>1, <1>3, <1>5 DEF Verify, Validate, Lineage, Drop
<1>6. CASE LockHistoryFor(r) \/ SwapFails(r) \/ Sweep(r)
  BY <1>1, <1>6 DEF LockHistoryFor, Released, SwapFails, Sweep, fileVars
<1>7. CASE Rebind(r)
  <2>1. history = r
    BY <1>2, <1>7 DEF Rebind, InstallationFits, Publishing
  <2> QED
    BY <1>1, <1>7, <2>1 DEF Rebind, fileVars
<1> QED
  BY <1>4, <1>5, <1>6, <1>7 DEF InstallStep

\* What an installation or a user replaces is noted.
LEMMA ReplacedLemma ==
    ASSUME LaunchType, NoteReplaced, UNCHANGED <<kind, found>>
    PROVE  /\ replaced' \in [Creates -> BOOLEAN]
           /\ \A c \in Creates : replaced[c] => replaced'[c]
           /\ \A c \in Creates : ~replaced'[c] /\ found[c].place # None => At(kind[c], found[c].place)' = At(kind[c], found[c].place)
<1>1. PICK stale \in SUBSET Creates :
         /\ \A c \in Creates : c \in stale <=> Changes(c)
         /\ replaced' = [c \in Creates |-> replaced[c] \/ c \in stale]
  BY DEF NoteReplaced
<1>2. replaced' \in [Creates -> BOOLEAN] /\ \A c \in Creates : replaced[c] => replaced'[c]
  BY <1>1
<1>3. ASSUME NEW c \in Creates, ~replaced'[c], found[c].place # None
      PROVE  At(kind[c], found[c].place)' = At(kind[c], found[c].place)
  <2>1. ~Changes(c)
    BY <1>1, <1>3
  <2>2. found[c].place \in {"managed", "path"} /\ kind'[c] = kind[c] /\ found'[c].place = found[c].place
    BY <1>3 DEF LaunchType, Executables
  <2>3. CASE found[c].place = "managed"
    BY <2>1, <2>2, <2>3 DEF Changes, At
  <2>4. CASE found[c].place = "path"
    BY <2>1, <2>2, <2>4 DEF Changes, At
  <2> QED
    BY <2>2, <2>3, <2>4
<1> QED
  BY <1>2, <1>3

\* A step beside the launches.
LEMMA BesideLaunches ==
    ASSUME LaunchInv, InstallInv', NoteReplaced, UNCHANGED <<step, kind, found, prepared, files, session, reply, crashed>>,
           history \in Requests \cup {None} \/ UNCHANGED <<history, binding>>
    PROVE  LaunchInv'
<1>1. LaunchType
  BY DEF LaunchInv
<1>2. /\ replaced' \in [Creates -> BOOLEAN]
      /\ \A c \in Creates : replaced[c] => replaced'[c]
      /\ \A c \in Creates : ~replaced'[c] /\ found[c].place # None => At(kind[c], found[c].place)' = At(kind[c], found[c].place)
  BY <1>1, ReplacedLemma
<1>3. LaunchType'
  BY <1>1, <1>2 DEF LaunchType
<1>4. ASSUME NEW c \in Creates PROVE LaunchIsPrepared(c)'
  <2>1. LaunchIsPrepared(c)
    BY DEF LaunchInv
  <2>2. history = c => UNCHANGED <<history, binding>>
    BY CreatesLemma
  <2>3. found[c].place # None /\ ~replaced'[c] => At(kind[c], found[c].place)' = found[c].version
    BY <1>1, <1>2, <2>1 DEF LaunchIsPrepared, LaunchType
  <2>4. step[c] \in {"spawn", "write", "start"} => history = c
    BY <2>1 DEF LaunchIsPrepared, Preparing
  <2> QED
    BY <1>2, <2>1, <2>2, <2>3, <2>4 DEF LaunchIsPrepared, Preparing
<1> QED
  BY <1>3, <1>4 DEF LaunchInv

LEMMA InstallingStep ==
    ASSUME LaunchInv, Installing
    PROVE  LaunchInv'
<1>1. PICK r \in Requests : InstallStep(r)
  BY DEF Installing
<1>2. InstallInv
  BY DEF LaunchInv
<1> QED
  BY <1>1, <1>2, InstallStepLemma, BesideLaunches DEF Installing

LEMMA ChangePathStep ==
    ASSUME LaunchInv, NEW a \in Agents, ChangePath(a)
    PROVE  LaunchInv'
<1>1. /\ path' \in {[path EXCEPT ![a] = v] : v \in (Versions \cup {None}) \ {path[a]}}
      /\ UNCHANGED <<managed, dirs, content, saved, requestVars, processVars, history, binding, crashed>>
      /\ NoteReplaced /\ UNCHANGED <<step, kind, found, prepared, files, session, reply>>
  BY DEF ChangePath, serverVars
<1>2. InstallInv /\ path' \in [Agents -> Versions \cup {None}]
  BY <1>1 DEF LaunchInv, InstallInv, TypeOK
<1>3. InstallInv'
  BY <1>1, <1>2 DEF requestVars, processVars, InstallInv, TypeOK, InstallationFits, Active, Runs
<1> QED
  BY <1>1, <1>3, BesideLaunches

LEMMA CrashAllStep ==
    ASSUME LaunchInv, CrashAll
    PROVE  LaunchInv'
<1>1. /\ Crash /\ crashed' = TRUE /\ UNCHANGED fileVars
      /\ step' = [c \in Creates |-> IF step[c] = "new" THEN "new" ELSE "done"]
      /\ session' = [c \in Creates |-> Unstarted]
      /\ UNCHANGED <<kind, found, replaced, prepared, files, reply>>
  BY DEF CrashAll, Crash
<1>2. InstallInv' /\ LaunchType
  BY <1>1, CrashStep DEF LaunchInv
<1>3. Unstarted \in AgentSessions /\ ~Unstarted.alive /\ Unstarted.runs = None
  BY DEF Unstarted, AgentSessions
<1>4. LaunchType'
  BY <1>1, <1>2, <1>3 DEF LaunchType, LaunchStages
<1>5. ASSUME NEW c \in Creates PROVE LaunchIsPrepared(c)'
  <2>1. LaunchIsPrepared(c) /\ step'[c] \in {"new", "done"} /\ session'[c] = Unstarted
    BY <1>1 DEF LaunchInv
  <2> QED
    BY <1>1, <1>3, <2>1 DEF LaunchIsPrepared, Preparing, At, fileVars
<1> QED
  BY <1>2, <1>4, <1>5 DEF LaunchInv

LEMMA LaunchInitial == LaunchInit => LaunchInv
<1> SUFFICES ASSUME LaunchInit PROVE LaunchInv
  OBVIOUS
<1>1. InstallInv
  BY InstallInitial DEF LaunchInit
<1>2. Unstarted \in AgentSessions /\ ~Unstarted.alive /\ Unstarted.runs = None
  BY DEF Unstarted, AgentSessions
<1>3. LaunchType
  BY <1>2 DEF LaunchInit, LaunchType, LaunchStages, Executables
<1>4. \A c \in Creates : LaunchIsPrepared(c)
  BY <1>2 DEF LaunchInit, LaunchIsPrepared, Preparing
<1> QED
  BY <1>1, <1>3, <1>4 DEF LaunchInv

LEMMA LaunchStepLemma == LaunchInv /\ [LaunchNext]_allVars => LaunchInv'
<1> SUFFICES ASSUME LaunchInv, [LaunchNext]_allVars PROVE LaunchInv'
  OBVIOUS
<1>1. CASE UNCHANGED allVars
  <2>1. UNCHANGED vars /\ UNCHANGED launchVars
    BY <1>1 DEF allVars
  <2>2. InstallInv'
    BY <2>1, InstallationStep DEF LaunchInv
  <2>3. LaunchType' /\ \A c \in Creates : LaunchIsPrepared(c)'
    BY <2>1 DEF LaunchInv, LaunchType, LaunchIsPrepared, At, launchVars, vars, fileVars, serverVars
  <2> QED
    BY <2>2, <2>3 DEF LaunchInv
<1>2. ASSUME NEW c \in Creates, Create(c) \/ LaunchStep(c) \/ Execute(c) \/ SessionEnds(c) \/ DropCreate(c) PROVE LaunchInv'
  BY <1>2, CreateStep, VerifyExecutableStep, ResolveStep, LockHistoryStep, PrepareConversationStep, MakeRunDirectoryStep,
     WriteFilesStep, StartSessionStep, SpawnFailsStep, AttachStep, ExecuteStep, SessionEndsStep DEF LaunchStep
<1>3. ASSUME NEW c \in Creates, ChangePath(kind[c]) PROVE LaunchInv'
  <2>1. kind[c] \in Agents
    BY DEF LaunchInv, LaunchType
  <2> QED
    BY <1>3, <2>1, ChangePathStep
<1> QED
  BY <1>1, <1>2, <1>3, InstallingStep, CrashAllStep DEF LaunchNext

\* The invariant of launches, beside any installation and whatever users do to
\* the command lines on their PATH.
THEOREM LaunchInductive == LaunchSpec => []LaunchInv
BY LaunchInitial, LaunchStepLemma, PTL DEF LaunchSpec

\* A launched agent has the database and the arguments of the version that was
\* found and runs it, unless the executable was replaced since; what its command
\* names is written, and a run directory belongs to an agent that runs or is being
\* started (agent/api.rs create, agent/launch/mod.rs), for any launches beside any
\* installations.
THEOREM LaunchesFit == LaunchSpec => LaunchFits
<1> DEFINE fits(c) == session[c].alive =>
             /\ session[c].database = prepared[c]
             /\ kind[c] = OpenCode => session[c].database = session[c].arguments
             /\ session[c].runs \in {None, session[c].arguments} \/ replaced[c]
             /\ files[c] # None /\ session[c].names \subseteq files[c]
           owned(c) == files[c] # None => session[c].alive \/ step[c] \in {"write", "start"} \/ crashed
<1>1. LaunchInv => LaunchTypeOK
  <2> SUFFICES ASSUME LaunchInv PROVE LaunchTypeOK
    OBVIOUS
  <2>1. LaunchType
    BY DEF LaunchInv
  <2>2. \A c \in Creates : found[c] \in Executables /\ session[c] \in AgentSessions
    BY <2>1 DEF LaunchType
  <2>3. \A c \in Creates : DOMAIN session[c] = DOMAIN Unstarted
    BY <2>2 DEF AgentSessions, Unstarted
  <2>4. \A c \in Creates : found[c].place \in {"managed", "path", None} /\ found[c].version \in Versions \cup {None}
    BY <2>2 DEF Executables
  <2> QED
    BY <2>1, <2>3, <2>4 DEF LaunchTypeOK, LaunchType, LaunchStages
<1>2. LaunchInv => \A c \in Creates : fits(c)
  BY DEF LaunchInv, LaunchIsPrepared
<1>3. LaunchInv => \A c \in Creates : owned(c)
  BY DEF LaunchInv, LaunchIsPrepared
<1> QED
  BY <1>1, <1>2, <1>3, LaunchInductive, PTL DEF LaunchFits
=============================================================================
