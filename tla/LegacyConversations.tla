------------------------- MODULE LegacyConversations -------------------------
(***************************************************************************)
(* What the user of two versions of OpenCode expects of their history.     *)
(*                                                                         *)
(* The new version copies a conversation of the old one and goes on with   *)
(* the copy; both keep writing to tables of their own.  When the copy is   *)
(* removed, what the old version still has of it is gone with it, unless   *)
(* the old version continued the conversation since.                       *)
(***************************************************************************)
EXTENDS Naturals

CONSTANTS Ids, Times, None

VARIABLES
    v1, v2,     \* per conversation, the row of each version, or None
    gone,       \* the copy that was removed last, and takes the old row along
    past,       \* every copy there has been
    watched     \* is every change noticed when it happens?

vars == <<v1, v2, gone, past, watched>>

Rows == {r \in [created : Times, updated : Times] : r.created <= r.updated}
IsCopy(row, of) == row.created = of.created /\ row.updated <= of.updated
Covers(copy, row) == row # None /\ IsCopy(row, copy)

\* A removed copy is forgotten when the old row is another one or continued.
Sound(g) ==
    \A id \in Ids : g[id] # None =>
        g[id] \in past[id] /\ v2[id] = None /\ (v1[id] # None => IsCopy(v1[id], g[id]))

Init ==
    /\ v1 \in [Ids -> Rows \cup {None}] /\ v2 \in [Ids -> Rows \cup {None}]
    /\ past \in [Ids -> SUBSET Rows]
    /\ \A id \in Ids : v2[id] # None => v2[id] \in past[id]
    /\ gone \in [Ids -> Rows \cup {None}] /\ Sound(gone)
    /\ watched = FALSE

\* What becomes of a copy that was removed.
Gone(id, copy) == gone' = [gone EXCEPT ![id] = copy]
Unnoticed == ~watched /\ UNCHANGED gone

WriteOld(id, row) ==
    /\ v1' = [v1 EXCEPT ![id] = row]
    /\ \/ Gone(id, IF gone[id] # None /\ IsCopy(row, gone[id]) THEN gone[id] ELSE None)
       \/ Unnoticed
    /\ UNCHANGED <<v2, past, watched>>

RemoveOld(id) ==
    /\ v1[id] # None /\ v1' = [v1 EXCEPT ![id] = None]
    /\ UNCHANGED <<v2, gone, past, watched>>

WriteNew(id, row) ==
    /\ v2' = [v2 EXCEPT ![id] = row] /\ past' = [past EXCEPT ![id] = @ \cup {row}]
    /\ Gone(id, None) \/ Unnoticed
    /\ UNCHANGED <<v1, watched>>

\* Whether the old row goes along is known only while all changes are noticed.
RemoveNew(id) ==
    /\ v2[id] # None /\ v2' = [v2 EXCEPT ![id] = None]
    /\ \/ \E covered \in {Covers(v2[id], v1[id])} \cup (IF watched THEN {} ELSE BOOLEAN) :
             Gone(id, IF covered THEN v2[id] ELSE None)
       \/ Unnoticed
    /\ UNCHANGED <<v1, past, watched>>

\* The server removes a conversation from both.
Remove(id) ==
    /\ watched
    /\ v1' = [v1 EXCEPT ![id] = None] /\ v2' = [v2 EXCEPT ![id] = None]
    /\ gone' = [gone EXCEPT ![id] = None]
    /\ UNCHANGED <<past, watched>>

Lose == watched' = FALSE /\ UNCHANGED <<v1, v2, gone, past>>

\* Looking again finds only copies that there were, and that are removed.
Look ==
    /\ watched' = TRUE
    /\ gone' \in [Ids -> Rows \cup {None}] /\ Sound(gone')
    /\ UNCHANGED <<v1, v2, past>>

Next ==
    \/ \E id \in Ids : RemoveOld(id) \/ RemoveNew(id) \/ Remove(id)
    \/ \E id \in Ids, row \in Rows : WriteOld(id, row) \/ WriteNew(id, row)
    \/ Lose \/ Look

Spec == Init /\ [][Next]_vars
=============================================================================
