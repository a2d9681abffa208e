----------------------------- MODULE MCHistory -----------------------------
(***************************************************************************)
(* The history for TLC: HistoryClaims, and OpenCode's pool and lineage     *)
(* table, which share no state with it.  `part` says which of them takes   *)
(* steps; the others rest where they began.                                *)
(***************************************************************************)
EXTENDS HistoryClaims, TLC

CONSTANTS
    Whole, Part, Other, Here, There,                \* HistoryClaims
    Paths, Inodes, DatabaseLimit, GenerationLimit,  \* OpenCodePool
    Ids, Times                                      \* OpenCodeLineage

VARIABLES
    part,
    file, holds, born, path, generation, pool, task, changed,
    v1, v2, lineage, triggers, past

(* A conversation, perhaps with a part in another directory, and one beside *)
(* it.                                                                      *)

ParentOf == [c \in Conversations |-> IF c = Part THEN Whole ELSE None]
PlaceOf == [c \in Conversations |-> IF c = Part THEN There ELSE Here]

Pool == INSTANCE OpenCodePool
Lineage == INSTANCE OpenCodeLineage

\* None is no handle of the pool.
ASSUME PoolAssumption == None \notin [path : Paths, inode : Inodes, generation : Nat]

\* None is no time, no row of a conversation and none of the lineage table.
ASSUME LineageAssumption ==
    None \notin Times \cup Lineage!Rows \cup Lineage!LineageRows

poolVars == <<file, holds, born, path, generation, pool, task, changed>>
lineageVars == <<v1, v2, lineage, triggers, past>>
allVars == <<part, vars, poolVars, lineageVars>>

\* What rests begins in one way only.
HistoryInit ==
    /\ part \in {"claims", "pool", "lineage"}
    /\ IF part = "claims" THEN TRUE
       ELSE backend = "pi" /\ conversation = [c \in Conversations |-> "unborn"]
    /\ ClaimsInit
    /\ IF part = "pool" THEN TRUE ELSE file = [p \in Paths |-> None] /\ path = CHOOSE p \in Paths : TRUE
    /\ Pool!Init
    /\ IF part = "lineage" THEN TRUE
       ELSE v1 = [id \in Ids |-> None] /\ v2 = v1 /\ lineage = v1 /\ past = [id \in Ids |-> {}]
    /\ Lineage!Init

HistoryNext ==
    \/ part = "claims" /\ Next /\ UNCHANGED <<part, poolVars, lineageVars>>
    \/ part = "pool" /\ Pool!Next /\ UNCHANGED <<part, vars, lineageVars>>
    \/ part = "lineage" /\ Lineage!Next /\ UNCHANGED <<part, vars, poolVars>>

HistorySpec == HistoryInit /\ [][HistoryNext]_allVars

ClaimsSymmetry == Permutations(Agents) \cup Permutations(Removals)

-----------------------------------------------------------------------------
\* Answers come from the database at the path, and a deletion changes the one
\* that was planned (OpenCodePool).
HistoryIsOfTheFile == Pool!HistoryIsOfTheFile

\* The lineage table implements LegacyConversations, and hides what was removed
\* (OpenCodeLineage).
LineageIsKept == Lineage!LineageIsKept
=============================================================================
