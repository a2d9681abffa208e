--------------------------- MODULE OpenCodeLineage ---------------------------
(***************************************************************************)
(* The table and the triggers that the server adds to OpenCode's database, *)
(* to tell a conversation of the old version that is still to be shown     *)
(* from the remains of one that was removed (history/opencode.rs).         *)
(*                                                                         *)
(* The triggers run in whatever program writes to the database, until a    *)
(* migration of OpenCode builds a table anew and loses them with the old   *)
(* one; the server then reconciles its table with the rows that are left,  *)
(* also a table which an earlier version of the server has made.           *)
(***************************************************************************)
EXTENDS Naturals

CONSTANTS Ids, Times, None

VARIABLES
    v1, v2,     \* the tables session and session_v2
    lineage,    \* _devhatch_session_lineage: per conversation a row, or None
    triggers,   \* the tables whose three triggers are there
    past        \* history: the rows that session_v2 has had

vars == <<v1, v2, lineage, triggers, past>>

Tables == {"v1", "v2"}
Rows == {r \in [created : Times, updated : Times] : r.created <= r.updated}

\* What a row of the table may hold.
LineageRows == [c1 : Times \cup {None}, u1 : Times \cup {None}, c2 : Times \cup {None},
                u2 : Times \cup {None}, p1 : BOOLEAN, p2 : BOOLEAN, deleted : BOOLEAN]

-----------------------------------------------------------------------------
(* The triggers; the ids of rows do not change.  NULL equals nothing *)

OfV1(row) == [c1 |-> row.created, u1 |-> row.updated, c2 |-> None, u2 |-> None,
              p1 |-> TRUE, p2 |-> FALSE, deleted |-> FALSE]
OfV2(row) == [c1 |-> None, u1 |-> None, c2 |-> row.created, u2 |-> row.updated,
              p1 |-> FALSE, p2 |-> TRUE, deleted |-> FALSE]

Swept(l) == IF l # None /\ ~l.p1 /\ ~l.p2 /\ ~l.deleted THEN None ELSE l

\* (Mutation: the old version's progress does not bring a conversation back.)
V1WrittenKeeps(l, row) ==
    IF l = None THEN OfV1(row)
    ELSE [l EXCEPT !.c1 = row.created, !.u1 = row.updated, !.p1 = TRUE,
                   !.deleted = l.deleted /\ l.c1 = row.created]

V1Written(l, row) ==
    IF l = None THEN OfV1(row)
    ELSE [l EXCEPT !.c1 = row.created, !.u1 = row.updated, !.p1 = TRUE,
                   !.deleted = l.deleted /\ l.c1 = row.created /\ row.updated <= l.u2]

V1Removed(l) == IF l = None THEN None ELSE Swept([l EXCEPT !.p1 = FALSE])

V2Written(l, row) ==
    IF l = None THEN OfV2(row)
    ELSE [l EXCEPT !.c2 = row.created, !.u2 = row.updated, !.p2 = TRUE, !.deleted = FALSE]

V2Removed(l, old) ==
    IF l = None THEN None
    ELSE Swept([l EXCEPT !.c2 = old.created, !.u2 = old.updated, !.p2 = FALSE,
                         !.deleted = l.p1 /\ l.c1 = old.created /\ l.u1 <= old.updated])

\* An update is a removal of the old row and an insertion of the new one.
V2Updated(l, old, row) == V2Written(V2Removed(l, old), row)

-----------------------------------------------------------------------------
(* The statements of reconcile_lineage_at, for one conversation *)

WithV1(l, row) == IF row = None THEN l ELSE V1Written(l, row)
WithV2(l, row) == IF row = None THEN l ELSE V2Written(l, row)

WithoutV1(l, row) ==
    IF l # None /\ l.p1 /\ ~(row # None /\ row.created = l.c1)
    THEN [l EXCEPT !.p1 = FALSE] ELSE l

WithoutV2(l, row) ==
    IF l # None /\ l.p2 /\ ~(row # None /\ row.created = l.c2)
    THEN [l EXCEPT !.p2 = FALSE,
                   !.deleted = l.p1 /\ l.c1 = l.c2 /\ l.u1 <= l.u2]
    ELSE l

Reconciled(id) ==
    Swept(WithoutV2(WithoutV1(WithV2(WithV1(lineage[id], v1[id]), v2[id]), v1[id]), v2[id]))

-----------------------------------------------------------------------------
\* The table of the server's previous version does not know c2.
Previous(id) ==
    LET old == v1[id] new == v2[id] IN
    IF old = None /\ new = None THEN {None}
    ELSE LET kept == [c1 |-> IF old = None THEN None ELSE old.created,
                      u1 |-> IF old = None THEN None ELSE old.updated,
                      c2 |-> None, u2 |-> IF new = None THEN None ELSE new.updated,
                      p1 |-> old # None, p2 |-> new # None, deleted |-> FALSE]
         IN  {kept} \cup IF new # None THEN {}
                         ELSE {[kept EXCEPT !.u2 = r.updated, !.deleted = TRUE] :
                               r \in {x \in past[id] : x.created = old.created /\ old.updated <= x.updated}}

Init ==
    /\ v1 \in [Ids -> Rows \cup {None}] /\ v2 \in [Ids -> Rows \cup {None}]
    /\ past \in [Ids -> {S \in SUBSET Rows : \A a, b \in S : a = b}]
    /\ \A id \in Ids : v2[id] # None => past[id] = {v2[id]}
    /\ \/ lineage = [id \in Ids |-> None]
       \/ lineage \in {l \in [Ids -> UNION {Previous(id) : id \in Ids}] : \A id \in Ids : l[id] \in Previous(id)}
    /\ triggers = {}

\* OpenCode inserts a row, or updates it.
WriteV1(id, row) ==
    /\ v1' = [v1 EXCEPT ![id] = row]
    /\ lineage' = IF "v1" \in triggers THEN [lineage EXCEPT ![id] = V1Written(@, row)] ELSE lineage
    /\ UNCHANGED <<v2, triggers, past>>

RemoveV1(id) ==
    /\ v1[id] # None /\ v1' = [v1 EXCEPT ![id] = None]
    /\ lineage' = IF "v1" \in triggers THEN [lineage EXCEPT ![id] = V1Removed(@)] ELSE lineage
    /\ UNCHANGED <<v2, triggers, past>>

WriteV2(id, row) ==
    /\ v2' = [v2 EXCEPT ![id] = row] /\ past' = [past EXCEPT ![id] = @ \cup {row}]
    /\ lineage' = IF "v2" \notin triggers THEN lineage
                  ELSE [lineage EXCEPT ![id] = IF v2[id] = None THEN V2Written(@, row)
                                               ELSE V2Updated(@, v2[id], row)]
    /\ UNCHANGED <<v1, triggers>>

RemoveV2(id) ==
    /\ v2[id] # None /\ v2' = [v2 EXCEPT ![id] = None]
    /\ lineage' = IF "v2" \in triggers THEN [lineage EXCEPT ![id] = V2Removed(@, v2[id])] ELSE lineage
    /\ UNCHANGED <<v1, triggers, past>>

\* A migration builds one of the tables anew; the other's triggers still run.
Migrate(table) == table \in triggers /\ triggers' = triggers \ {table} /\ UNCHANGED <<v1, v2, lineage, past>>

\* lineage_schema_ready: the table and its triggers are what they should be.
Ready == triggers = Tables

\* Before a list, a start and a deletion; it may fail, and changes nothing then.
Reconcile ==
    /\ ~Ready /\ triggers' = Tables
    /\ lineage' = [id \in Ids |-> Reconciled(id)]
    /\ UNCHANGED <<v1, v2, past>>

-----------------------------------------------------------------------------
\* history_rows: a tombstone hides the row of session that it is for.
Hidden(id) ==
    LET l == lineage[id] IN
    v1[id] # None /\ l # None /\ l.p1 /\ ~l.p2 /\ l.deleted /\ l.c1 = v1[id].created

\* Of two rows the newer is shown, and session_v2's when they are as old.
Shown(id) ==
    IF v1[id] # None /\ ~Hidden(id) /\ (v2[id] = None \/ v1[id].updated > v2[id].updated)
    THEN v1[id] ELSE v2[id]

\* delete_generations_at removes the row of either table and then the lineage.
Delete(id) ==
    /\ Ready /\ Shown(id) # None
    /\ v1' = [v1 EXCEPT ![id] = None] /\ v2' = [v2 EXCEPT ![id] = None]
    /\ lineage' = [lineage EXCEPT ![id] = None]
    /\ UNCHANGED <<triggers, past>>

Next ==
    \/ \E id \in Ids : RemoveV1(id) \/ RemoveV2(id) \/ Delete(id)
    \/ \E id \in Ids, row \in Rows : WriteV1(id, row) \/ WriteV2(id, row)
    \/ \E table \in Tables : Migrate(table)
    \/ Reconcile

Spec == Init /\ [][Next]_vars

-----------------------------------------------------------------------------
Tombstone(l) ==
    IF l # None /\ l.deleted THEN [created |-> l.c1, updated |-> l.u2] ELSE None

Legacy == INSTANCE LegacyConversations WITH
    gone <- [id \in Ids |-> Tombstone(lineage[id])], watched <- Ready

\* The table implements what the user expects of the two versions' histories.
ImplementsLegacyConversations == Legacy!Spec

\* While all the triggers are there, a row that is hidden is the remains of a copy
\* that was removed, and the removal of a copy hides the row that it had.
HiddenIsRemoved ==
    \A id \in Ids :
        Hidden(id) => v2[id] = None /\ \E copy \in past[id] : Legacy!IsCopy(v1[id], copy)

RemovedIsHidden ==
    [][\A id \in Ids : Ready /\ v2[id] # None /\ v2'[id] = None =>
            \/ Shown(id)' = None
            \/ Shown(id)' = v1[id] /\ ~Legacy!IsCopy(v1[id], v2[id])]_vars

LineageIsKept ==
    ImplementsLegacyConversations /\ [](Ready => HiddenIsRemoved) /\ RemovedIsHidden
=============================================================================
