--------------------------- MODULE History_proofs ---------------------------
(***************************************************************************)
(* Proofs about the history: the ownership of conversations, OpenCode's    *)
(* database file, and its lineage table.                                   *)
(*                                                                         *)
(* Ownership rests on who holds the reconciliation lock (LockHeld): while  *)
(* a removal has its plan, and while a conversation is being resumed, no   *)
(* claim can be added (Unclaimed), and claims stay apart.  The markers of  *)
(* removals never overlap (KeysAreApart), so that one's end leaves the     *)
(* others' alone.  PoolInv and LineageInv are introduced in their parts.   *)
(***************************************************************************)
EXTENDS MCHistory, TLAPS

Holding == {"begun", "planned", "committed"}

LockHeld ==
    /\ create.stage # "idle" <=> holder = Creator
    /\ \A r \in Removals : removal[r].stage \in Holding <=> holder = r
    /\ \A a \in Agents : holder = a => report[a] # None

KeysAreApart ==
    /\ \A r \in Removals :
        /\ removal[r].stage \in {"idle", "orphaned"} => removal[r].keys = {}
        /\ removal[r].stage \in {"planned", "committed", "unlocked"} =>
               removal[r].targets \subseteq removal[r].keys
        /\ removal[r].stage = "begun" => removal[r].targets = {}
        /\ removal[r].stage = "orphaned" => backend = "pi"
    /\ \A r, q \in Removals : r # q => removal[r].keys \cap removal[q].keys = {}

Unclaimed ==
    /\ \A r \in Removals, a \in Agents :
           removal[r].stage = "planned" /\ Live(a) => agent[a].claim \notin removal[r].targets
    /\ \A a \in Agents :
           create.stage = "preparing" /\ create.resume # None /\ Live(a) =>
               agent[a].claim # create.resume

Undisclosed ==
    /\ \A a \in Agents :
           Live(a) /\ agent[a].uses # None => DirectoryOf[agent[a].uses] = agent[a].cwd
    /\ \A r \in Removals, a \in Agents, c \in Conversations :
           backend = "opencode" /\ removal[r].stage = "planned" /\ c \in removal[r].targets
           /\ Live(a) /\ agent[a].claim = None => DirectoryOf[c] # agent[a].cwd

LEMMA ActiveLemma ==
    \A c : c \in ActiveIds <=> c # None /\ \E a \in Agents : Live(a) /\ agent[a].claim = c
BY DEF ActiveIds

LEMMA UnidentifiedLemma ==
    \A d : d \in UnidentifiedCwds <=> \E a \in Agents : Live(a) /\ agent[a].claim = None /\ agent[a].cwd = d
BY DEF UnidentifiedCwds

LEMMA TargetsLemma ==
    ASSUME NEW id \in Conversations PROVE Targets(id) \subseteq Conversations
BY DEF Targets, Subtree, Stored

-----------------------------------------------------------------------------

LEMMA TypeStep ==
    ASSUME TypeOK, LockHeld, [Next]_vars
    PROVE  TypeOK'
<1> USE ClaimsAssumption DEF TypeOK, MaybeConversation, Stages, RemovalStages, Live
<1>1. ASSUME NEW c \in MaybeConversation, CreateBegin(c) PROVE TypeOK'
  BY <1>1 DEF CreateBegin
<1>2. ASSUME NEW a \in Agents, CreateResumed(a) PROVE TypeOK'
  BY <1>2 DEF CreateResumed, Spawn, MayResume
<1>3. ASSUME NEW a \in Agents, NEW d \in Directories, CreateNew(a, d) PROVE TypeOK'
  <2>1. PICK c \in MaybeConversation : Spawn(a, c, d)
    BY <1>3 DEF CreateNew
  <2>2. QED
    BY <2>1 DEF Spawn
<1>4. ASSUME CreateEnd PROVE TypeOK'
  BY <1>4 DEF CreateEnd, IdleCreate
<1>5. ASSUME NEW a \in Agents, NEW c \in Conversations, Use(a, c) PROVE TypeOK'
  <2>1. /\ agent' \in [Agents -> [stage : Stages, claim : MaybeConversation,
                                  cwd : Directories \cup {None}, uses : MaybeConversation]]
        /\ \A b \in Agents : agent'[b].cwd = None <=> agent'[b].stage = "absent"
    BY <1>5 DEF Use
  <2>2. conversation' \in [Conversations -> {"unborn", "stored", "deleted"}]
    BY <1>5 DEF Use
  <2>3. QED
    BY <1>5, <2>1, <2>2 DEF Use
<1>6. ASSUME NEW a \in Agents, NEW c \in Conversations, Branch(a, c) PROVE TypeOK'
  BY <1>6 DEF Branch, Fresh
<1>7. ASSUME NEW a \in Agents, Remove(a) PROVE TypeOK'
  <2>1. agent' = [agent EXCEPT ![a].stage = "terminating"] /\ agent[a].stage \in {"listed", "terminating"}
    BY <1>7 DEF Remove
  <2> DEFINE ended == [stage |-> "terminating", claim |-> agent[a].claim, cwd |-> agent[a].cwd, uses |-> agent[a].uses]
  <2>2. [agent[a] EXCEPT !.stage = "terminating"] = ended
    OBVIOUS
  <2>3. agent' = [agent EXCEPT ![a] = ended]
    BY <2>1, <2>2
  <2>4. agent' \in [Agents -> [stage : Stages, claim : MaybeConversation,
                              cwd : Directories \cup {None}, uses : MaybeConversation]]
    BY <2>3
  <2>5. \A b \in Agents : /\ agent'[b].cwd = agent[b].cwd
                         /\ agent'[b].stage = IF b = a THEN "terminating" ELSE agent[b].stage
    BY <2>3
  <2>6. \A b \in Agents : agent'[b].cwd = None <=> agent'[b].stage = "absent"
    BY <2>1, <2>5
  <2>7. QED
    BY <1>7, <2>4, <2>6 DEF Remove
<1>8. ASSUME NEW a \in Agents, Exit(a) PROVE TypeOK'
  <2>1. agent' = [agent EXCEPT ![a].stage = "gone"] /\ agent[a].stage \in {"listed", "terminating"}
    BY <1>8 DEF Exit
  <2> DEFINE ended == [stage |-> "gone", claim |-> agent[a].claim, cwd |-> agent[a].cwd, uses |-> agent[a].uses]
  <2>2. [agent[a] EXCEPT !.stage = "gone"] = ended
    OBVIOUS
  <2>3. agent' = [agent EXCEPT ![a] = ended]
    BY <2>1, <2>2
  <2>4. agent' \in [Agents -> [stage : Stages, claim : MaybeConversation,
                              cwd : Directories \cup {None}, uses : MaybeConversation]]
    BY <2>3
  <2>5. \A b \in Agents : /\ agent'[b].cwd = agent[b].cwd
                         /\ agent'[b].stage = IF b = a THEN "gone" ELSE agent[b].stage
    BY <2>3
  <2>6. \A b \in Agents : agent'[b].cwd = None <=> agent'[b].stage = "absent"
    BY <2>1, <2>5
  <2>7. QED
    BY <1>8, <2>4, <2>6 DEF Exit
<1>9. ASSUME NEW a \in Agents, ReportBegin(a) PROVE TypeOK'
  <2> DEFINE told == [stage |-> agent[a].stage, claim |-> report[a], cwd |-> agent[a].cwd, uses |-> agent[a].uses]
  <2>1. agent' = agent \/ agent' = [agent EXCEPT ![a] = told]
    BY <1>9 DEF ReportBegin
  <2>2. /\ report' \in [Agents -> MaybeConversation]
        /\ holder' \in {Nobody, Creator} \cup Agents \cup Removals
        /\ UNCHANGED <<backend, conversation, create, removal, deletions>>
    BY <1>9 DEF ReportBegin
  <2>3. /\ agent' \in [Agents -> [stage : Stages, claim : MaybeConversation,
                                  cwd : Directories \cup {None}, uses : MaybeConversation]]
        /\ \A b \in Agents : agent'[b].cwd = agent[b].cwd /\ agent'[b].stage = agent[b].stage
    <3>1. told \in [stage : Stages, claim : MaybeConversation, cwd : Directories \cup {None}, uses : MaybeConversation]
      OBVIOUS
    <3>2. told.cwd = agent[a].cwd /\ told.stage = agent[a].stage
      OBVIOUS
    <3> HIDE DEF told
    <3>3. QED
      BY <2>1, <3>1, <3>2
  <2>4. QED
    BY <2>2, <2>3
<1>10. ASSUME NEW a \in Agents, Accept(a) PROVE TypeOK'
  BY <1>10 DEF Accept, ClaimAvailable, LockHeld
<1>11. ASSUME NEW a \in Agents, Refuse(a) PROVE TypeOK'
  BY <1>11 DEF Refuse
<1>12. ASSUME NEW a \in Agents, AbortReports(a) PROVE TypeOK'
  BY <1>12 DEF AbortReports
<1>13. ASSUME NEW r \in Removals, NEW c \in Conversations, RemoveBegin(r, c) PROVE TypeOK'
  BY <1>13 DEF RemoveBegin
<1>14. ASSUME NEW r \in Removals, RemovePlan(r) PROVE TypeOK'
  <2> DEFINE targets == Targets(removal[r].id)
  <2>1. removal[r].id \in Conversations
    BY <1>14 DEF RemovePlan, CanPlan, Stored
  <2>2. targets \subseteq Conversations
    BY <2>1, TargetsLemma
  <2>3. /\ removal' = [removal EXCEPT ![r] = [stage |-> "planned", id |-> removal[r].id, targets |-> targets,
                                              keys |-> removal[r].keys \cup targets]]
        /\ deletions' = deletions \cup targets
        /\ UNCHANGED <<backend, agent, report, conversation, create>>
        /\ holder' \in {holder, Nobody}
    BY <1>14 DEF RemovePlan, Extended
  <2> HIDE DEF targets
  <2>4. QED
    BY <2>2, <2>3
<1>15. ASSUME NEW r \in Removals, RemoveInUse(r) PROVE TypeOK'
  <2> DEFINE targets == Targets(removal[r].id)
  <2>1. removal[r].id \in Conversations
    BY <1>15 DEF RemoveInUse, CanPlan, Stored
  <2>2. targets \subseteq Conversations
    BY <2>1, TargetsLemma
  <2>3. /\ removal' = [removal EXCEPT ![r] = [stage |-> "unlocked", id |-> removal[r].id, targets |-> targets,
                                              keys |-> removal[r].keys \cup targets]]
        /\ deletions' = deletions \cup targets
        /\ UNCHANGED <<backend, agent, report, conversation, create>>
        /\ holder' \in {holder, Nobody}
    BY <1>15 DEF RemoveInUse, Extended
  <2> HIDE DEF targets
  <2>4. QED
    BY <2>2, <2>3
<1>16. ASSUME NEW r \in Removals, RemoveCommit(r) PROVE TypeOK'
  BY <1>16 DEF RemoveCommit, IdleRemoval
<1>17. ASSUME NEW r \in Removals, RemoveEnd(r) PROVE TypeOK'
  <2>1. \/ removal' = [removal EXCEPT ![r] = [stage |-> "unlocked", id |-> removal[r].id,
                                                targets |-> removal[r].targets, keys |-> removal[r].keys]]
        \/ removal' = [removal EXCEPT ![r] = IdleRemoval]
    BY <1>17 DEF RemoveEnd
  <2>2. QED
    BY <1>17, <2>1 DEF RemoveEnd, IdleRemoval
<1>18. ASSUME NEW r \in Removals, DropMarkers(r) PROVE TypeOK'
  BY <1>18 DEF DropMarkers, IdleRemoval
<1>19. ASSUME NEW r \in Removals, Abandon(r) PROVE TypeOK'
  BY <1>19 DEF Abandon
<1>20. ASSUME NEW r \in Removals, OrphanFails(r) PROVE TypeOK'
  BY <1>20 DEF OrphanFails, IdleRemoval
<1>21. CASE UNCHANGED vars
  BY <1>21 DEF vars
<1>22. QED
  BY <1>1, <1>2, <1>3, <1>4, <1>5, <1>6, <1>7, <1>8, <1>9, <1>10, <1>11, <1>12, <1>13, <1>14, <1>15, <1>16, <1>17, <1>18, <1>19, <1>20, <1>21 DEF Next

LEMMA LockStep ==
    ASSUME TypeOK, LockHeld, [Next]_vars
    PROVE  LockHeld'
<1> USE ClaimsAssumption DEF TypeOK, MaybeConversation, LockHeld, Holding, Creator, Nobody
<1>1. ASSUME NEW c \in MaybeConversation, CreateBegin(c) PROVE LockHeld'
  BY <1>1 DEF CreateBegin
<1>2. ASSUME NEW a \in Agents, CreateResumed(a) PROVE LockHeld'
  BY <1>2 DEF CreateResumed, Spawn, MayResume
<1>3. ASSUME NEW a \in Agents, NEW d \in Directories, CreateNew(a, d) PROVE LockHeld'
  BY <1>3 DEF CreateNew, Spawn, Fresh
<1>4. ASSUME CreateEnd PROVE LockHeld'
  BY <1>4 DEF CreateEnd, IdleCreate
<1>5. ASSUME NEW a \in Agents, NEW c \in Conversations, Use(a, c) PROVE LockHeld'
  BY <1>5 DEF Use, Fresh
<1>6. ASSUME NEW a \in Agents, NEW c \in Conversations, Branch(a, c) PROVE LockHeld'
  BY <1>6 DEF Branch, Fresh
<1>7. ASSUME NEW a \in Agents, Remove(a) PROVE LockHeld'
  BY <1>7 DEF Remove
<1>8. ASSUME NEW a \in Agents, Exit(a) PROVE LockHeld'
  BY <1>8 DEF Exit
<1>9. ASSUME NEW a \in Agents, ReportBegin(a) PROVE LockHeld'
  BY <1>9 DEF ReportBegin, ClaimAvailable
<1>10. ASSUME NEW a \in Agents, Accept(a) PROVE LockHeld'
  BY <1>10 DEF Accept, ClaimAvailable
<1>11. ASSUME NEW a \in Agents, Refuse(a) PROVE LockHeld'
  BY <1>11 DEF Refuse
<1>12. ASSUME NEW a \in Agents, AbortReports(a) PROVE LockHeld'
  BY <1>12 DEF AbortReports
<1>13. ASSUME NEW r \in Removals, NEW c \in Conversations, RemoveBegin(r, c) PROVE LockHeld'
  BY <1>13 DEF RemoveBegin
<1>14. ASSUME NEW r \in Removals, RemovePlan(r) PROVE LockHeld'
  BY <1>14 DEF RemovePlan, CanPlan, MayExtend, NotInUse, Extended
<1>15. ASSUME NEW r \in Removals, RemoveInUse(r) PROVE LockHeld'
  BY <1>15 DEF RemoveInUse, CanPlan, MayExtend, Extended
<1>16. ASSUME NEW r \in Removals, RemoveCommit(r) PROVE LockHeld'
  BY <1>16 DEF RemoveCommit, IdleRemoval
<1>17. ASSUME NEW r \in Removals, RemoveEnd(r) PROVE LockHeld'
  BY <1>17 DEF RemoveEnd, IdleRemoval
<1>18. ASSUME NEW r \in Removals, DropMarkers(r) PROVE LockHeld'
  BY <1>18 DEF DropMarkers, IdleRemoval
<1>19. ASSUME NEW r \in Removals, Abandon(r) PROVE LockHeld'
  BY <1>19 DEF Abandon
<1>20. ASSUME NEW r \in Removals, OrphanFails(r) PROVE LockHeld'
  BY <1>20 DEF OrphanFails, IdleRemoval
<1>21. CASE UNCHANGED vars
  BY <1>21 DEF vars
<1>22. QED
  BY <1>1, <1>2, <1>3, <1>4, <1>5, <1>6, <1>7, <1>8, <1>9, <1>10, <1>11, <1>12, <1>13, <1>14, <1>15, <1>16, <1>17, <1>18, <1>19, <1>20, <1>21 DEF Next

LEMMA KeysStep ==
    ASSUME TypeOK, LockHeld, KeysAreApart, MarkersHaveRemovals, [Next]_vars
    PROVE  KeysAreApart' /\ MarkersHaveRemovals'
<1> USE ClaimsAssumption DEF TypeOK, KeysAreApart, MarkersHaveRemovals, RemovalStages
<1>1. ASSUME NEW c \in MaybeConversation, CreateBegin(c) PROVE KeysAreApart' /\ MarkersHaveRemovals'
  BY <1>1 DEF CreateBegin
<1>2. ASSUME NEW a \in Agents, CreateResumed(a) PROVE KeysAreApart' /\ MarkersHaveRemovals'
  BY <1>2 DEF CreateResumed, Spawn, MayResume
<1>3. ASSUME NEW a \in Agents, NEW d \in Directories, CreateNew(a, d) PROVE KeysAreApart' /\ MarkersHaveRemovals'
  BY <1>3 DEF CreateNew, Spawn, Fresh
<1>4. ASSUME CreateEnd PROVE KeysAreApart' /\ MarkersHaveRemovals'
  BY <1>4 DEF CreateEnd, IdleCreate
<1>5. ASSUME NEW a \in Agents, NEW c \in Conversations, Use(a, c) PROVE KeysAreApart' /\ MarkersHaveRemovals'
  BY <1>5 DEF Use, Fresh
<1>6. ASSUME NEW a \in Agents, NEW c \in Conversations, Branch(a, c) PROVE KeysAreApart' /\ MarkersHaveRemovals'
  BY <1>6 DEF Branch, Fresh
<1>7. ASSUME NEW a \in Agents, Remove(a) PROVE KeysAreApart' /\ MarkersHaveRemovals'
  BY <1>7 DEF Remove
<1>8. ASSUME NEW a \in Agents, Exit(a) PROVE KeysAreApart' /\ MarkersHaveRemovals'
  BY <1>8 DEF Exit
<1>9. ASSUME NEW a \in Agents, ReportBegin(a) PROVE KeysAreApart' /\ MarkersHaveRemovals'
  BY <1>9 DEF ReportBegin, ClaimAvailable
<1>10. ASSUME NEW a \in Agents, Accept(a) PROVE KeysAreApart' /\ MarkersHaveRemovals'
  BY <1>10 DEF Accept, ClaimAvailable
<1>11. ASSUME NEW a \in Agents, Refuse(a) PROVE KeysAreApart' /\ MarkersHaveRemovals'
  BY <1>11 DEF Refuse
<1>12. ASSUME NEW a \in Agents, AbortReports(a) PROVE KeysAreApart' /\ MarkersHaveRemovals'
  BY <1>12 DEF AbortReports
<1>13. ASSUME NEW r \in Removals, NEW c \in Conversations, RemoveBegin(r, c) PROVE KeysAreApart' /\ MarkersHaveRemovals'
  BY <1>13 DEF RemoveBegin
<1>14. ASSUME NEW r \in Removals, RemovePlan(r) PROVE KeysAreApart' /\ MarkersHaveRemovals'
  BY <1>14, TargetsLemma DEF RemovePlan, CanPlan, MayExtend, NotInUse, Extended
<1>15. ASSUME NEW r \in Removals, RemoveInUse(r) PROVE KeysAreApart' /\ MarkersHaveRemovals'
  BY <1>15, TargetsLemma DEF RemoveInUse, CanPlan, MayExtend, Extended
<1>16. ASSUME NEW r \in Removals, RemoveCommit(r) PROVE KeysAreApart' /\ MarkersHaveRemovals'
  BY <1>16 DEF RemoveCommit, IdleRemoval
<1>17. ASSUME NEW r \in Removals, RemoveEnd(r) PROVE KeysAreApart' /\ MarkersHaveRemovals'
  <2>1. CASE backend = "opencode"
    <3>1. removal' = [removal EXCEPT ![r] = [stage |-> "unlocked", id |-> removal[r].id,
                                             targets |-> removal[r].targets, keys |-> removal[r].keys]]
      BY <1>17, <2>1 DEF RemoveEnd
    <3>2. QED
      BY <1>17, <2>1, <3>1 DEF RemoveEnd
  <2>2. CASE backend # "opencode"
    <3>1. /\ removal' = [removal EXCEPT ![r] = IdleRemoval]
          /\ deletions' = deletions \ removal[r].keys
      BY <1>17, <2>2 DEF RemoveEnd
    <3>2. \A q \in Removals : removal'[q] = IF q = r THEN IdleRemoval ELSE removal[q]
      BY <3>1
    <3>3. removal'[r].stage = "idle" /\ removal'[r].keys = {}
      BY <3>2 DEF IdleRemoval
    <3>4. UNCHANGED backend /\ \A q \in Removals : q # r => removal'[q] = removal[q]
      BY <1>17, <3>2 DEF RemoveEnd
    <3>5. \A q \in Removals :
            /\ removal'[q].stage \in {"idle", "orphaned"} => removal'[q].keys = {}
            /\ removal'[q].stage \in {"planned", "committed", "unlocked"} =>
                   removal'[q].targets \subseteq removal'[q].keys
            /\ removal'[q].stage = "begun" => removal'[q].targets = {}
            /\ removal'[q].stage = "orphaned" => backend' = "pi"
      <4> SUFFICES ASSUME NEW q \in Removals
                   PROVE  /\ removal'[q].stage \in {"idle", "orphaned"} => removal'[q].keys = {}
                          /\ removal'[q].stage \in {"planned", "committed", "unlocked"} =>
                                 removal'[q].targets \subseteq removal'[q].keys
                          /\ removal'[q].stage = "begun" => removal'[q].targets = {}
                          /\ removal'[q].stage = "orphaned" => backend' = "pi"
        OBVIOUS
      <4>1. CASE q = r
        BY <3>3, <4>1
      <4>2. CASE q # r
        BY <3>4, <4>2
      <4>3. QED
        BY <4>1, <4>2
    <3>6. \A p, q \in Removals : p # q => removal'[p].keys \cap removal'[q].keys = {}
      BY <3>3, <3>4
    <3>7. MarkersHaveRemovals'
      BY <3>1, <3>2 DEF IdleRemoval
    <3>8. QED
      BY <3>5, <3>6, <3>7
  <2>3. QED
    BY <2>1, <2>2
<1>18. ASSUME NEW r \in Removals, DropMarkers(r) PROVE KeysAreApart' /\ MarkersHaveRemovals'
  BY <1>18 DEF DropMarkers, IdleRemoval
<1>19. ASSUME NEW r \in Removals, Abandon(r) PROVE KeysAreApart' /\ MarkersHaveRemovals'
  BY <1>19 DEF Abandon
<1>20. ASSUME NEW r \in Removals, OrphanFails(r) PROVE KeysAreApart' /\ MarkersHaveRemovals'
  BY <1>20 DEF OrphanFails, IdleRemoval
<1>21. CASE UNCHANGED vars
  BY <1>21 DEF vars
<1>22. QED
  BY <1>1, <1>2, <1>3, <1>4, <1>5, <1>6, <1>7, <1>8, <1>9, <1>10, <1>11, <1>12, <1>13, <1>14, <1>15, <1>16, <1>17, <1>18, <1>19, <1>20, <1>21 DEF Next

LEMMA ClaimStep ==
    ASSUME TypeOK, LockHeld, Unclaimed, NoSharedConversation, [Next]_vars
    PROVE  Unclaimed' /\ NoSharedConversation'
<1> USE ClaimsAssumption DEF TypeOK, MaybeConversation, LockHeld, Holding, Creator, Nobody, Unclaimed, NoSharedConversation, Live, Stages
<1>1. ASSUME NEW c \in MaybeConversation, CreateBegin(c) PROVE Unclaimed' /\ NoSharedConversation'
  BY <1>1, ActiveLemma DEF CreateBegin
<1>2. ASSUME NEW a \in Agents, CreateResumed(a) PROVE Unclaimed' /\ NoSharedConversation'
  BY <1>2 DEF CreateResumed, Spawn, MayResume
<1>3. ASSUME NEW a \in Agents, NEW d \in Directories, CreateNew(a, d) PROVE Unclaimed' /\ NoSharedConversation'
  <2> DEFINE spawned(c) == [stage |-> "listed", claim |-> c, cwd |-> d, uses |-> c]
  <2>1. /\ create.stage = "preparing" /\ create' = [create EXCEPT !.stage = "spawned"]
        /\ agent[a].stage = "absent" /\ UNCHANGED <<holder, removal>>
    BY <1>3 DEF CreateNew, Spawn
  <2>2. \A r \in Removals : removal[r].stage # "planned"
    BY <2>1
  <2>3. PICK c \in MaybeConversation :
            /\ agent' = [agent EXCEPT ![a] = spawned(c)]
            /\ c = None \/ \A b \in Agents : agent[b].claim # c
    BY <1>3 DEF CreateNew, Spawn, Fresh
  <2>4. create'.stage = "spawned"
    BY <2>1
  <2>5. NoSharedConversation'
    BY <2>3
  <2>6. QED
    BY <2>1, <2>2, <2>4, <2>5
<1>4. ASSUME CreateEnd PROVE Unclaimed' /\ NoSharedConversation'
  BY <1>4 DEF CreateEnd, IdleCreate
<1>5. ASSUME NEW a \in Agents, NEW c \in Conversations, Use(a, c) PROVE Unclaimed' /\ NoSharedConversation'
  BY <1>5 DEF Use, Fresh
<1>6. ASSUME NEW a \in Agents, NEW c \in Conversations, Branch(a, c) PROVE Unclaimed' /\ NoSharedConversation'
  BY <1>6 DEF Branch, Fresh
<1>7. ASSUME NEW a \in Agents, Remove(a) PROVE Unclaimed' /\ NoSharedConversation'
  BY <1>7 DEF Remove
<1>8. ASSUME NEW a \in Agents, Exit(a) PROVE Unclaimed' /\ NoSharedConversation'
  BY <1>8 DEF Exit
<1>9. ASSUME NEW a \in Agents, ReportBegin(a) PROVE Unclaimed' /\ NoSharedConversation'
  BY <1>9, ActiveLemma DEF ReportBegin, ClaimAvailable
<1>10. ASSUME NEW a \in Agents, Accept(a) PROVE Unclaimed' /\ NoSharedConversation'
  BY <1>10, ActiveLemma DEF Accept, ClaimAvailable
<1>11. ASSUME NEW a \in Agents, Refuse(a) PROVE Unclaimed' /\ NoSharedConversation'
  BY <1>11 DEF Refuse
<1>12. ASSUME NEW a \in Agents, AbortReports(a) PROVE Unclaimed' /\ NoSharedConversation'
  BY <1>12 DEF AbortReports
<1>13. ASSUME NEW r \in Removals, NEW c \in Conversations, RemoveBegin(r, c) PROVE Unclaimed' /\ NoSharedConversation'
  BY <1>13 DEF RemoveBegin
<1>14. ASSUME NEW r \in Removals, RemovePlan(r) PROVE Unclaimed' /\ NoSharedConversation'
  <2> DEFINE targets == Targets(removal[r].id)
  <2>1. removal[r].id \in Conversations
    BY <1>14 DEF RemovePlan, CanPlan, Stored
  <2>2. targets \subseteq Conversations
    BY <2>1, TargetsLemma
  <2>3. NotInUse(r, targets)
    BY <1>14 DEF RemovePlan
  <2>4. /\ removal' = [removal EXCEPT ![r] = [stage |-> "planned", id |-> removal[r].id, targets |-> targets,
                                              keys |-> removal[r].keys \cup targets]]
        /\ UNCHANGED <<backend, agent, create>>
    BY <1>14 DEF RemovePlan, Extended
  <2> HIDE DEF targets
  <2>5. \A b \in Agents : Live(b) => agent[b].claim \notin targets
    BY <2>2, <2>3, ActiveLemma DEF NotInUse
  <2>6. QED
    BY <2>2, <2>4, <2>5
<1>15. ASSUME NEW r \in Removals, RemoveInUse(r) PROVE Unclaimed' /\ NoSharedConversation'
  BY <1>15, TargetsLemma DEF RemoveInUse, CanPlan, MayExtend, Extended
<1>16. ASSUME NEW r \in Removals, RemoveCommit(r) PROVE Unclaimed' /\ NoSharedConversation'
  BY <1>16 DEF RemoveCommit, IdleRemoval
<1>17. ASSUME NEW r \in Removals, RemoveEnd(r) PROVE Unclaimed' /\ NoSharedConversation'
  BY <1>17 DEF RemoveEnd, IdleRemoval
<1>18. ASSUME NEW r \in Removals, DropMarkers(r) PROVE Unclaimed' /\ NoSharedConversation'
  BY <1>18 DEF DropMarkers, IdleRemoval
<1>19. ASSUME NEW r \in Removals, Abandon(r) PROVE Unclaimed' /\ NoSharedConversation'
  BY <1>19 DEF Abandon
<1>20. ASSUME NEW r \in Removals, OrphanFails(r) PROVE Unclaimed' /\ NoSharedConversation'
  BY <1>20 DEF OrphanFails, IdleRemoval
<1>21. CASE UNCHANGED vars
  BY <1>21 DEF vars
<1>22. QED
  BY <1>1, <1>2, <1>3, <1>4, <1>5, <1>6, <1>7, <1>8, <1>9, <1>10, <1>11, <1>12, <1>13, <1>14, <1>15, <1>16, <1>17, <1>18, <1>19, <1>20, <1>21 DEF Next

LEMMA UndisclosedStep ==
    ASSUME TypeOK, LockHeld, Undisclosed, [Next]_vars
    PROVE  Undisclosed'
<1> USE ClaimsAssumption DEF TypeOK, MaybeConversation, LockHeld, Holding, Creator, Nobody, Undisclosed, Live, Stages
<1>1. ASSUME NEW c \in MaybeConversation, CreateBegin(c) PROVE Undisclosed'
  BY <1>1 DEF CreateBegin
<1>2. ASSUME NEW a \in Agents, CreateResumed(a) PROVE Undisclosed'
  BY <1>2 DEF CreateResumed, Spawn, MayResume
<1>3. ASSUME NEW a \in Agents, NEW d \in Directories, CreateNew(a, d) PROVE Undisclosed'
  <2> DEFINE spawned(c) == [stage |-> "listed", claim |-> c, cwd |-> d, uses |-> c]
  <2>1. create.stage = "preparing" /\ UNCHANGED removal
    BY <1>3 DEF CreateNew, Spawn
  <2>2. \A r \in Removals : removal[r].stage # "planned"
    BY <2>1
  <2>3. PICK c \in MaybeConversation :
            /\ agent' = [agent EXCEPT ![a] = spawned(c)]
            /\ c = None \/ DirectoryOf[c] = d
    BY <1>3 DEF CreateNew, Spawn
  <2>4. \A b \in Agents : agent'[b] = IF b = a THEN spawned(c) ELSE agent[b]
    BY <2>3
  <2>5. \A b \in Agents :
            Live(b)' /\ agent'[b].uses # None => DirectoryOf[agent'[b].uses] = agent'[b].cwd
    BY <2>3, <2>4
  <2>6. QED
    BY <2>1, <2>2, <2>5
<1>4. ASSUME CreateEnd PROVE Undisclosed'
  BY <1>4 DEF CreateEnd, IdleCreate
<1>5. ASSUME NEW a \in Agents, NEW c \in Conversations, Use(a, c) PROVE Undisclosed'
  BY <1>5 DEF Use, Fresh
<1>6. ASSUME NEW a \in Agents, NEW c \in Conversations, Branch(a, c) PROVE Undisclosed'
  BY <1>6 DEF Branch, Fresh
<1>7. ASSUME NEW a \in Agents, Remove(a) PROVE Undisclosed'
  BY <1>7 DEF Remove
<1>8. ASSUME NEW a \in Agents, Exit(a) PROVE Undisclosed'
  BY <1>8 DEF Exit
<1>9. ASSUME NEW a \in Agents, ReportBegin(a) PROVE Undisclosed'
  <2>1. \/ agent' = agent
        \/ /\ report[a] # None
           /\ agent' = [agent EXCEPT ![a] =
                      [stage |-> agent[a].stage, claim |-> report[a], cwd |-> agent[a].cwd, uses |-> agent[a].uses]]
    BY <1>9 DEF ReportBegin
  <2>2. UNCHANGED <<backend, removal>>
    BY <1>9 DEF ReportBegin
  <2>3. \A b \in Agents :
            /\ Live(b)' <=> Live(b)
            /\ agent'[b].uses = agent[b].uses /\ agent'[b].cwd = agent[b].cwd
            /\ agent'[b].claim = None => agent[b].claim = None
    BY <2>1
  <2>4. QED
    BY <2>2, <2>3
<1>10. ASSUME NEW a \in Agents, Accept(a) PROVE Undisclosed'
  BY <1>10 DEF Accept, ClaimAvailable
<1>11. ASSUME NEW a \in Agents, Refuse(a) PROVE Undisclosed'
  BY <1>11 DEF Refuse
<1>12. ASSUME NEW a \in Agents, AbortReports(a) PROVE Undisclosed'
  BY <1>12 DEF AbortReports
<1>13. ASSUME NEW r \in Removals, NEW c \in Conversations, RemoveBegin(r, c) PROVE Undisclosed'
  BY <1>13 DEF RemoveBegin
<1>14. ASSUME NEW r \in Removals, RemovePlan(r) PROVE Undisclosed'
  <2> DEFINE targets == Targets(removal[r].id)
  <2>1. removal[r].id \in Conversations
    BY <1>14 DEF RemovePlan, CanPlan, Stored
  <2>2. targets \subseteq Conversations
    BY <2>1, TargetsLemma
  <2>3. NotInUse(r, targets)
    BY <1>14 DEF RemovePlan
  <2>4. /\ removal' = [removal EXCEPT ![r] = [stage |-> "planned", id |-> removal[r].id, targets |-> targets,
                                              keys |-> removal[r].keys \cup targets]]
        /\ UNCHANGED <<backend, agent, create>>
    BY <1>14 DEF RemovePlan, Extended
  <2> HIDE DEF targets
  <2>5. backend = "opencode" => \A b \in Agents, c \in targets : Live(b) /\ agent[b].claim = None => DirectoryOf[c] # agent[b].cwd
    <3> SUFFICES ASSUME backend = "opencode", NEW b \in Agents, NEW c \in targets, Live(b), agent[b].claim = None
                 PROVE  DirectoryOf[c] # agent[b].cwd
      OBVIOUS
    <3>1. agent[b].cwd \in UnidentifiedCwds
      BY UnidentifiedLemma
    <3>2. DirectoryOf[c] \notin UnidentifiedCwds
      BY <2>3 DEF NotInUse
    <3>3. QED
      BY <3>1, <3>2
  <2>6. QED
    BY <2>2, <2>4, <2>5
<1>15. ASSUME NEW r \in Removals, RemoveInUse(r) PROVE Undisclosed'
  BY <1>15, TargetsLemma DEF RemoveInUse, CanPlan, MayExtend, Extended
<1>16. ASSUME NEW r \in Removals, RemoveCommit(r) PROVE Undisclosed'
  BY <1>16 DEF RemoveCommit, IdleRemoval
<1>17. ASSUME NEW r \in Removals, RemoveEnd(r) PROVE Undisclosed'
  BY <1>17 DEF RemoveEnd, IdleRemoval
<1>18. ASSUME NEW r \in Removals, DropMarkers(r) PROVE Undisclosed'
  BY <1>18 DEF DropMarkers, IdleRemoval
<1>19. ASSUME NEW r \in Removals, Abandon(r) PROVE Undisclosed'
  BY <1>19 DEF Abandon
<1>20. ASSUME NEW r \in Removals, OrphanFails(r) PROVE Undisclosed'
  BY <1>20 DEF OrphanFails, IdleRemoval
<1>21. CASE UNCHANGED vars
  BY <1>21 DEF vars
<1>22. QED
  BY <1>1, <1>2, <1>3, <1>4, <1>5, <1>6, <1>7, <1>8, <1>9, <1>10, <1>11, <1>12, <1>13, <1>14, <1>15, <1>16, <1>17, <1>18, <1>19, <1>20, <1>21 DEF Next

-----------------------------------------------------------------------------

Inv ==
    /\ TypeOK /\ LockHeld /\ KeysAreApart /\ MarkersHaveRemovals
    /\ Unclaimed /\ NoSharedConversation /\ Undisclosed

LEMMA InitInv == ClaimsInit => Inv
<1> SUFFICES ASSUME ClaimsInit PROVE Inv
  OBVIOUS
<1> USE ClaimsAssumption DEF ClaimsInit, IdleCreate, IdleRemoval, MaybeConversation
<1>1. TypeOK
  BY DEF TypeOK, Stages, RemovalStages
<1>2. LockHeld /\ KeysAreApart /\ MarkersHaveRemovals
  BY DEF LockHeld, Holding, Creator, Nobody, KeysAreApart, MarkersHaveRemovals
<1>3. Unclaimed /\ NoSharedConversation /\ Undisclosed
  BY DEF Unclaimed, NoSharedConversation, Undisclosed, Live
<1>4. QED
  BY <1>1, <1>2, <1>3 DEF Inv

LEMMA StepInv == Inv /\ [Next]_vars => Inv'
BY TypeStep, LockStep, KeysStep, ClaimStep, UndisclosedStep DEF Inv

\* In the history only a step of the claims changes them.
LEMMA ClaimsGoOn == [HistoryNext]_allVars => [Next]_vars
BY DEF HistoryNext, allVars

THEOREM Invariance == HistorySpec => []Inv
<1>1. HistoryInit => Inv
  BY InitInv DEF HistoryInit
<1>2. Inv /\ [HistoryNext]_allVars => Inv'
  BY StepInv, ClaimsGoOn
<1>3. QED
  BY <1>1, <1>2, PTL DEF HistorySpec

\* Agents, conversations, removals and the lock keep their types.
THEOREM TypeCorrect == HistorySpec => []TypeOK
<1>1. Inv => TypeOK
  BY DEF Inv
<1>2. QED
  BY <1>1, Invariance, PTL

\* Two agents never own the same conversation: no claim is added without the
\* lock, and each asks all agents first.
THEOREM ClaimsAreUnshared == HistorySpec => []NoSharedConversation
<1>1. Inv => NoSharedConversation
  BY DEF Inv
<1>2. QED
  BY <1>1, Invariance, PTL

\* The targets of a removal stay marked until it is done, for markers of
\* removals do not overlap, and no marker outlives its removal.
THEOREM MarkersOfRemovals == HistorySpec => []MarkersAreKept
<1>1. Inv => TargetsAreMarked
  BY DEF Inv, TypeOK, KeysAreApart, MarkersHaveRemovals, TargetsAreMarked
<1>2. Inv => MarkersAreKept
  BY <1>1 DEF Inv, MarkersAreKept
<1>3. QED
  BY <1>2, Invariance, PTL

\* Only the commit of a removal takes conversations away, and only its targets.
LEMMA OnlyCommitDeletes ==
    ASSUME TypeOK, [Next]_vars, NEW c \in Conversations, Deleted(c)
    PROVE  \E r \in Removals : RemoveCommit(r) /\ c \in removal[r].targets
<1> USE DEF TypeOK, Deleted
<1>1. ASSUME NEW k \in MaybeConversation, CreateBegin(k) PROVE FALSE
  BY <1>1 DEF CreateBegin
<1>2. ASSUME NEW a \in Agents, CreateResumed(a) PROVE FALSE
  BY <1>2 DEF CreateResumed, Spawn
<1>3. ASSUME NEW a \in Agents, NEW d \in Directories, CreateNew(a, d) PROVE FALSE
  BY <1>3 DEF CreateNew, Spawn
<1>4. ASSUME CreateEnd PROVE FALSE
  BY <1>4 DEF CreateEnd
<1>5. ASSUME NEW a \in Agents, NEW k \in Conversations, Use(a, k) PROVE FALSE
  BY <1>5 DEF Use
<1>6. ASSUME NEW a \in Agents, NEW k \in Conversations, Branch(a, k) PROVE FALSE
  BY <1>6 DEF Branch
<1>7. ASSUME NEW a \in Agents, Remove(a) PROVE FALSE
  BY <1>7 DEF Remove
<1>8. ASSUME NEW a \in Agents, Exit(a) PROVE FALSE
  BY <1>8 DEF Exit
<1>9. ASSUME NEW a \in Agents, ReportBegin(a) PROVE FALSE
  BY <1>9 DEF ReportBegin
<1>10. ASSUME NEW a \in Agents, Accept(a) PROVE FALSE
  BY <1>10 DEF Accept
<1>11. ASSUME NEW a \in Agents, Refuse(a) PROVE FALSE
  BY <1>11 DEF Refuse
<1>12. ASSUME NEW a \in Agents, AbortReports(a) PROVE FALSE
  BY <1>12 DEF AbortReports
<1>13. ASSUME NEW q \in Removals, NEW k \in Conversations, RemoveBegin(q, k) PROVE FALSE
  BY <1>13 DEF RemoveBegin
<1>14. ASSUME NEW q \in Removals, RemovePlan(q) PROVE FALSE
  BY <1>14 DEF RemovePlan, Extended
<1>15. ASSUME NEW q \in Removals, RemoveInUse(q) PROVE FALSE
  BY <1>15 DEF RemoveInUse, Extended
<1>16. ASSUME NEW q \in Removals, RemoveCommit(q) PROVE c \in removal[q].targets
  BY <1>16 DEF RemoveCommit
<1>17. ASSUME NEW q \in Removals, RemoveEnd(q) PROVE FALSE
  BY <1>17 DEF RemoveEnd
<1>18. ASSUME NEW q \in Removals, DropMarkers(q) PROVE FALSE
  BY <1>18 DEF DropMarkers
<1>19. ASSUME NEW q \in Removals, Abandon(q) PROVE FALSE
  BY <1>19 DEF Abandon
<1>20. ASSUME NEW q \in Removals, OrphanFails(q) PROVE FALSE
  BY <1>20 DEF OrphanFails
<1>21. CASE UNCHANGED vars
  BY <1>21 DEF vars
<1>22. QED
  BY <1>1, <1>2, <1>3, <1>4, <1>5, <1>6, <1>7, <1>8, <1>9, <1>10, <1>11, <1>12, <1>13, <1>14, <1>15, <1>16, <1>17, <1>18, <1>19, <1>20, <1>21 DEF Next

\* A removal takes no conversation from an agent that owns it: claims cannot be
\* added while it has its plan.  An abandoned removal of Pi is the exception.
THEOREM OwnersKeepConversations == HistorySpec => OwnedConversationsSurvive
<1>1. ASSUME Inv, [Next]_vars, NEW c \in Conversations,
             Deleted(c), ~(backend = "pi" /\ Orphaned(c))
      PROVE  c \notin ActiveIds
  <2>1. PICK r \in Removals : RemoveCommit(r) /\ c \in removal[r].targets
    BY <1>1, OnlyCommitDeletes DEF Inv
  <2>2. removal[r].stage = "planned"
    BY <1>1, <2>1 DEF RemoveCommit, Orphaned, Inv, KeysAreApart
  <2>3. QED
    BY <1>1, <2>1, <2>2, ActiveLemma DEF Inv, Unclaimed
<1>2. Inv /\ [Next]_vars =>
          [\A c \in Conversations :
              Deleted(c) /\ ~(backend = "pi" /\ Orphaned(c)) => c \notin ActiveIds]_vars
  BY <1>1
<1>3. QED
  BY <1>2, ClaimsGoOn, Invariance, PTL DEF HistorySpec, OwnedConversationsSurvive

\* Nor from an agent of OpenCode without an identity, which may own anything in
\* its directory.
THEOREM UnidentifiedKeepConversations == HistorySpec => UnidentifiedConversationsSurvive
<1>1. ASSUME Inv, [Next]_vars, backend = "opencode", NEW c \in Conversations, NEW a \in Agents,
             Deleted(c), Live(a), agent[a].claim = None
      PROVE  agent[a].uses # c
  <2>1. PICK r \in Removals : RemoveCommit(r) /\ c \in removal[r].targets
    BY <1>1, OnlyCommitDeletes DEF Inv
  <2>2. removal[r].stage = "planned"
    BY <1>1, <2>1 DEF RemoveCommit, Inv, KeysAreApart
  <2>3. QED
    BY <1>1, <2>1, <2>2, ClaimsAssumption DEF Inv, Undisclosed
<1>2. Inv /\ [Next]_vars =>
          [backend = "opencode" => \A c \in Conversations, a \in Agents :
              Deleted(c) /\ Live(a) /\ agent[a].claim = None => agent[a].uses # c]_vars
  BY <1>1
<1>3. QED
  BY <1>2, Invariance, ClaimsGoOn, PTL DEF HistorySpec, UnidentifiedConversationsSurvive

-----------------------------------------------------------------------------
(* OpenCode's database file (OpenCodePool)                                 *)
(*                                                                         *)
(* The inode of a handle is not used again while a task has it, so what    *)
(* was read from it is still there where it is compared with the path.  A  *)
(* second attempt at a list finds no pool and makes one of its own.        *)

Handles == [path : Paths, inode : Inodes, generation : Nat]
PoolStages == {"idle", "bind", "unbind", "get", "opened", "connected", "reconcile", "query", "test",
               "answered", "stale", "planned", "exclusive", "deleted"}
PoolTasks == [kind : {None, "list", "prepare", "delete", "init"}, at : PoolStages, tries : {0, 1},
              handle : Handles \cup {None}, read : Nat]

\* From here to there a task has a handle, which is the pool, and what it read.
HasHandle == task.at \in {"opened", "connected", "reconcile", "query", "test", "answered", "planned", "exclusive"}
HasPool == task.at \in {"reconcile", "query", "test"}
HasRead == task.at \in {"test", "answered", "planned", "exclusive"}

SecondAttempt == task.kind = "list" /\ task.tries = 1

PoolInv ==
    /\ file \in [Paths -> Inodes \cup {None}] /\ holds \in [Inodes -> Nat] /\ born \in Nat
    /\ path \in Paths /\ generation \in Nat /\ pool \in Handles \cup {None}
    /\ task \in PoolTasks
    /\ HasHandle => task.handle # None
    /\ HasPool => pool = task.handle
    /\ HasRead => task.read = holds[task.handle.inode]
    /\ SecondAttempt /\ task.at = "get" => pool = None
    /\ SecondAttempt /\ task.at \in {"opened", "connected", "reconcile", "query", "test"} =>
          /\ task.handle.path = path /\ (~changed => file[path] = task.handle.inode)
          /\ task.at # "opened" => task.handle.generation = generation
    /\ SecondAttempt => task.at \notin {"bind", "unbind"}
    /\ task.kind = "list" /\ task.at = "stale" => changed

-----------------------------------------------------------------------------
(* The lineage of conversations (OpenCodeLineage)                          *)
(*                                                                         *)
(* What a row of the lineage table says was true once (`WasTrue`), and     *)
(* while all the triggers are there it is true (`IsTrue`).                 *)

WasTrue(l, copies) ==
    l # None =>
        /\ l.deleted => ~l.p2 /\ Lineage!Tombstone(l) \in copies
        /\ l.p2 /\ l.c2 # None => [created |-> l.c2, updated |-> l.u2] \in copies

IsTrue(l, old, new) ==
    /\ old # None => l # None /\ l.p1 /\ l.c1 = old.created /\ l.u1 = old.updated
    /\ new # None => l # None /\ l.p2 /\ l.c2 = new.created /\ l.u2 = new.updated
    /\ l # None => /\ l.p1 => old # None
                   /\ l.p2 => new # None
                   /\ l.p1 \/ l.p2 \/ l.deleted
                   /\ l.deleted /\ l.p1 => Lineage!Legacy!IsCopy(old, Lineage!Tombstone(l))

LineageInv ==
    /\ v1 \in [Ids -> Lineage!Rows \cup {None}] /\ v2 \in [Ids -> Lineage!Rows \cup {None}]
    /\ past \in [Ids -> SUBSET Lineage!Rows]
    /\ lineage \in [Ids -> Lineage!LineageRows \cup {None}] /\ triggers \in SUBSET Lineage!Tables
    /\ \A id \in Ids : v2[id] # None => v2[id] \in past[id]
    /\ \A id \in Ids : WasTrue(lineage[id], past[id])
    /\ Lineage!Ready => \A id \in Ids : IsTrue(lineage[id], v1[id], v2[id])

LEMMA GotoLemma ==
    ASSUME task \in PoolTasks, NEW at \in PoolStages, Pool!Goto(at)
    PROVE  /\ task' \in PoolTasks /\ task'.at = at /\ task'.kind = task.kind /\ task'.tries = task.tries
           /\ task'.handle = task.handle /\ task'.read = task.read
BY DEF Pool!Goto, PoolTasks

LEMMA HaveLemma ==
    ASSUME task \in PoolTasks, NEW at \in PoolStages, NEW h \in Handles, Pool!Have(h, at)
    PROVE  /\ task' \in PoolTasks /\ task'.at = at /\ task'.kind = task.kind /\ task'.tries = task.tries
           /\ task'.handle = h /\ h # None
BY PoolAssumption DEF Pool!Have, PoolTasks, Handles

LEMMA NobodyLemma ==
    Pool!Nobody \in PoolTasks /\ Pool!Nobody.at = "idle" /\ Pool!Nobody.tries = 0
BY DEF Pool!Nobody, PoolTasks, PoolStages

\* Where nothing is known of a task, nothing is asked.
LEMMA PoolRest ==
    ASSUME PoolInv, UNCHANGED <<file, holds, born>>, path' \in Paths, generation' \in Nat,
           pool' \in Handles \cup {None}, task' \in PoolTasks,
           task'.at \in {"idle", "bind", "unbind", "deleted"}, ~SecondAttempt'
    PROVE  PoolInv'
BY DEF PoolInv, HasHandle, HasPool, HasRead

LEMMA PoolInitial == HistoryInit => PoolInv
<1> SUFFICES ASSUME HistoryInit
             PROVE  PoolInv
  OBVIOUS
<1>1. Pool!Init
  BY DEF HistoryInit
<1>2. /\ file \in [Paths -> Inodes \cup {None}] /\ path \in Paths /\ generation = 0 /\ pool = None
      /\ born = 1 /\ task = Pool!Nobody
  BY <1>1 DEF Pool!Init
<1>3. holds \in [Inodes -> Nat]
  BY <1>1 DEF Pool!Init
<1>4. ~SecondAttempt /\ ~HasHandle /\ ~HasPool /\ ~HasRead
  BY <1>2, NobodyLemma DEF SecondAttempt, HasHandle, HasPool, HasRead
<1> QED
  BY <1>2, <1>3, <1>4, NobodyLemma DEF PoolInv

\* The inode of what was read is in use, so no other database comes to it.
LEMMA FileStep ==
    ASSUME PoolInv, (\E p \in Paths, i \in Inodes : Pool!Replace(p, i)) \/ (\E p \in Paths : Pool!Unlink(p))
    PROVE  PoolInv'
<1>1. UNCHANGED <<path, generation, pool, task>> /\ changed'
  BY DEF Pool!Replace, Pool!Unlink
<1>2. CASE \E p \in Paths, i \in Inodes : Pool!Replace(p, i)
  <2>1. PICK p \in Paths, i \in Inodes : Pool!Replace(p, i)
    BY <1>2
  <2>2. /\ file' \in [Paths -> Inodes \cup {None}] /\ holds' \in [Inodes -> Nat] /\ born' \in Nat
        /\ \A j \in Inodes : j # i => holds'[j] = holds[j]
    BY <2>1 DEF PoolInv, Pool!Replace
  <2>3. task.handle # None => task.handle.inode # i
    BY <2>1 DEF Pool!Replace, Pool!Anchored
  <2>4. HasRead => HasHandle /\ task.handle \in Handles
    BY DEF PoolInv, HasRead, HasHandle, PoolTasks
  <2>5. HasRead => task.read = holds'[task.handle.inode]
    BY <2>2, <2>3, <2>4 DEF PoolInv, Handles
  <2> QED
    BY <1>1, <2>2, <2>5 DEF PoolInv, HasHandle, HasPool, HasRead, SecondAttempt
<1>3. CASE \E p \in Paths : Pool!Unlink(p)
  <2>1. file' \in [Paths -> Inodes \cup {None}] /\ UNCHANGED <<holds, born>>
    BY <1>3 DEF PoolInv, Pool!Unlink
  <2> QED
    BY <1>1, <2>1 DEF PoolInv, HasHandle, HasPool, HasRead, SecondAttempt
<1> QED
  BY <1>2, <1>3

LEMMA BindStep ==
    ASSUME PoolInv,
           (\E kind \in {"list", "prepare", "delete", "init"} : Pool!Begin(kind))
           \/ (\E p \in Paths : Pool!Rebind(p)) \/ Pool!TakePool
    PROVE  PoolInv'
<1>1. UNCHANGED <<file, holds, born>> /\ task \in PoolTasks
  BY DEF Pool!Begin, Pool!Rebind, Pool!TakePool, Pool!Files, PoolInv
<1>2. ASSUME NEW kind \in {"list", "prepare", "delete", "init"}, Pool!Begin(kind)
      PROVE  PoolInv'
  <2>1. task' \in PoolTasks /\ task'.at = "bind" /\ task'.tries = 0
    BY <1>2 DEF Pool!Begin, Pool!Nobody, PoolTasks, PoolStages
  <2> QED
    BY <1>1, <1>2, <2>1, PoolRest DEF Pool!Begin, PoolInv, SecondAttempt
<1>3. ASSUME NEW p \in Paths, Pool!Rebind(p)
      PROVE  PoolInv'
  <2>1. ~SecondAttempt
    BY <1>3 DEF Pool!Rebind, PoolInv
  <2>2. CASE Pool!Goto("get") /\ UNCHANGED <<path, generation>>
    <3>1. /\ task' \in PoolTasks /\ task'.at = "get" /\ ~SecondAttempt' /\ UNCHANGED pool
      BY <1>1, <1>3, <2>1, <2>2, GotoLemma DEF SecondAttempt, Pool!Rebind, PoolStages
    <3> QED
      BY <1>1, <2>2, <3>1 DEF PoolInv, HasHandle, HasPool, HasRead
  <2>3. CASE Pool!Goto("unbind") /\ path' = p /\ generation' = generation + 1
    <3>1. /\ task' \in PoolTasks /\ task'.at = "unbind" /\ ~SecondAttempt' /\ UNCHANGED pool
      BY <1>1, <1>3, <2>1, <2>3, GotoLemma DEF SecondAttempt, Pool!Rebind, PoolStages
    <3> QED
      BY <1>1, <2>3, <3>1, PoolRest DEF PoolInv
  <2> QED
    BY <1>3, <2>2, <2>3 DEF Pool!Rebind
<1>4. CASE Pool!TakePool
  <2>1. ~SecondAttempt /\ Pool!Goto("get") /\ pool' = None /\ UNCHANGED <<path, generation>>
    BY <1>4 DEF Pool!TakePool, Pool!Move, PoolInv
  <2>2. task' \in PoolTasks /\ task'.at = "get" /\ ~SecondAttempt'
    BY <1>1, <2>1, GotoLemma DEF SecondAttempt, PoolStages
  <2> QED
    BY <1>1, <2>1, <2>2 DEF PoolInv, HasHandle, HasPool, HasRead
<1> QED
  BY <1>2, <1>3, <1>4

LEMMA GetStep ==
    ASSUME PoolInv, Pool!GetPool \/ Pool!Anchor \/ Pool!Connect \/ Pool!StorePool \/ Pool!GetFails
    PROVE  PoolInv'
<1>1. /\ UNCHANGED <<file, holds, born, path, changed>> /\ task \in PoolTasks
      /\ file \in [Paths -> Inodes \cup {None}] /\ path \in Paths /\ generation \in Nat
      /\ pool \in Handles \cup {None}
  BY DEF Pool!GetPool, Pool!Anchor, Pool!Connect, Pool!StorePool, Pool!GetFails, Pool!Files, PoolInv
<1>2. CASE Pool!GetPool
  <2>1. pool \in Handles /\ pool # None /\ ~SecondAttempt /\ UNCHANGED <<generation, pool>>
    BY <1>1, <1>2 DEF Pool!GetPool, PoolInv
  <2>2. task' \in PoolTasks /\ task'.at = "reconcile" /\ task'.handle = pool /\ ~SecondAttempt'
    BY <1>1, <1>2, <2>1, HaveLemma DEF Pool!GetPool, SecondAttempt, PoolStages
  <2> QED
    BY <1>1, <2>1, <2>2 DEF PoolInv, HasHandle, HasPool, HasRead
<1>3. CASE Pool!Anchor
  <2> DEFINE h == [path |-> path, inode |-> file[path], generation |-> 0]
  <2>1. h \in Handles /\ h.path = path /\ h.inode = file[path] /\ UNCHANGED <<generation, pool>>
    BY <1>1, <1>3 DEF Pool!Anchor, Handles
  <2>2. Pool!Have(h, "opened")
    BY <1>3 DEF Pool!Anchor
  <2> HIDE DEF h
  <2>3. task' \in PoolTasks /\ task'.at = "opened" /\ task'.handle = h /\ h # None
    BY <1>1, <2>1, <2>2, HaveLemma DEF PoolStages
  <2> QED
    BY <1>1, <2>1, <2>3 DEF PoolInv, HasHandle, HasPool, HasRead, SecondAttempt
<1>4. CASE Pool!Connect
  <2> DEFINE h == [task.handle EXCEPT !.generation = generation']
  <2>1. /\ task.at = "opened" /\ task.handle \in Handles /\ UNCHANGED pool /\ generation' = generation + 1
        /\ Pool!Have(h, "connected")
    BY <1>1, <1>4 DEF Pool!Connect, PoolInv, HasHandle, PoolTasks
  <2>2. /\ h \in Handles /\ h.path = task.handle.path /\ h.inode = task.handle.inode
        /\ h.generation = generation'
    BY <1>1, <2>1 DEF Handles
  <2> HIDE DEF h
  <2>3. /\ task' \in PoolTasks /\ task'.at = "connected" /\ task'.handle = h /\ h # None
        /\ SecondAttempt' = SecondAttempt
    BY <1>1, <2>1, <2>2, HaveLemma DEF PoolStages, SecondAttempt
  <2>4. SecondAttempt => task.handle.path = path /\ (~changed => file[path] = task.handle.inode)
    BY <2>1 DEF PoolInv
  <2>5. SecondAttempt' => h.path = path /\ (~changed => file[path] = h.inode) /\ h.generation = generation'
    BY <2>2, <2>3, <2>4
  <2>6. generation' \in Nat
    BY <1>1, <2>1
  <2> QED
    BY <1>1, <2>1, <2>3, <2>5, <2>6 DEF PoolInv, HasHandle, HasPool, HasRead
<1>5. CASE Pool!StorePool
  <2>1. /\ task.at = "connected" /\ Pool!Goto("reconcile") /\ pool' = task.handle /\ UNCHANGED generation
        /\ task.handle \in Handles /\ task.handle # None
    BY <1>1, <1>5 DEF Pool!StorePool, Pool!Move, PoolInv, HasHandle, PoolTasks
  <2>2. /\ task' \in PoolTasks /\ task'.at = "reconcile" /\ task'.handle = task.handle
        /\ task'.kind = task.kind /\ task'.tries = task.tries
    BY <1>1, <2>1, GotoLemma DEF PoolStages
  <2> QED
    BY <1>1, <2>1, <2>2 DEF PoolInv, HasHandle, HasPool, HasRead, SecondAttempt
<1>6. CASE Pool!GetFails
  BY <1>1, <1>6, PoolRest, NobodyLemma DEF Pool!GetFails, SecondAttempt
<1> QED
  BY <1>2, <1>3, <1>4, <1>5, <1>6

\* A pool is taken away, and the next generation begins.
LEMMA InvalidateLemma ==
    ASSUME PoolInv, Pool!Invalidate \/ UNCHANGED <<pool, generation>>
    PROVE  pool' \in {pool, None} /\ generation' \in Nat
BY DEF PoolInv, Pool!Invalidate

\* A handle that is current is of the file at the path.
LEMMA CurrentLemma ==
    ASSUME PoolInv, HasHandle, Pool!IsCurrent(task.handle)
    PROVE  task.handle.path = path /\ file[path] = task.handle.inode
BY DEF Pool!IsCurrent, Pool!FileIsCurrent

\* The first attempt at a list takes its pool away before the second one, and
\* that one is given up only when a file changed.
LEMMA StaleStep ==
    ASSUME PoolInv, UNCHANGED <<file, holds, born, path>>, HasPool, ~Pool!IsCurrent(task.handle), Pool!Stale
    PROVE  PoolInv'
<1>1. /\ task \in PoolTasks /\ task.handle # None /\ task.handle \in Handles /\ pool = task.handle
      /\ pool' \in {pool, None} /\ generation' \in Nat
  BY InvalidateLemma DEF PoolInv, HasPool, HasHandle, PoolTasks, Pool!Stale
<1>2. CASE task.kind = "list" /\ task.tries = 0
  <2>1. /\ task' = [Pool!Nobody EXCEPT !.kind = "list", !.tries = 1, !.at = "get"]
        /\ Pool!Invalidate
    BY <1>2 DEF Pool!Stale
  <2>2. pool' = None
    BY <1>1, <2>1 DEF Pool!Invalidate
  <2>3. task' \in PoolTasks /\ task'.at = "get"
    BY <2>1 DEF Pool!Nobody, PoolTasks, PoolStages
  <2> QED
    BY <1>1, <2>2, <2>3 DEF PoolInv, HasHandle, HasPool, HasRead, SecondAttempt
<1>3. CASE ~(task.kind = "list" /\ task.tries = 0)
  <2>1. Pool!Goto("stale") /\ changed' = changed
    BY <1>3 DEF Pool!Stale, Pool!Goto
  <2>2. /\ task' \in PoolTasks /\ task'.at = "stale" /\ task'.kind = task.kind /\ task'.tries = task.tries
    BY <1>1, <2>1, GotoLemma DEF PoolStages
  <2>3. task.kind = "list" => SecondAttempt
    BY <1>1, <1>3 DEF SecondAttempt, PoolTasks
  <2>4. SecondAttempt => changed
    BY <1>1 DEF PoolInv, HasPool, Pool!IsCurrent, Pool!FileIsCurrent
  <2> QED
    BY <1>1, <2>1, <2>2, <2>3, <2>4 DEF PoolInv, HasHandle, HasPool, HasRead, SecondAttempt
<1> QED
  BY <1>2, <1>3

\* A task goes on with the handle it has.
LEMMA GoesStep ==
    ASSUME PoolInv, UNCHANGED <<file, holds, born, path, generation, pool, changed>>, NEW at \in PoolStages,
           Pool!Goto(at),
           \/ HasPool /\ ~HasRead /\ at = "query"
           \/ HasRead /\ at \in {"answered", "planned", "exclusive", "deleted"}
    PROVE  PoolInv'
<1>1. /\ task' \in PoolTasks /\ task'.at = at /\ task'.kind = task.kind /\ task'.tries = task.tries
      /\ task'.handle = task.handle /\ task'.read = task.read
  BY GotoLemma DEF PoolInv
<1> QED
  BY <1>1 DEF PoolInv, HasHandle, HasPool, HasRead, SecondAttempt

LEMMA ReadStep ==
    ASSUME PoolInv,
           Pool!Reconcile \/ Pool!Initialized \/ Pool!ReconcileFails \/ Pool!Query \/ Pool!QueryFails \/ Pool!Test
    PROVE  PoolInv'
<1>1. /\ UNCHANGED <<file, holds, born, path>> /\ task \in PoolTasks
  BY DEF Pool!Reconcile, Pool!Initialized, Pool!ReconcileFails, Pool!Query, Pool!QueryFails, Pool!Test,
     Pool!Files, PoolInv
<1>2. CASE Pool!Reconcile
  <2>1. HasPool /\ ~HasRead
    BY <1>2 DEF Pool!Reconcile, HasPool, HasRead
  <2>2. CASE Pool!Goto("query") /\ UNCHANGED <<generation, pool, changed>>
    BY <1>1, <2>1, <2>2, GoesStep DEF PoolStages
  <2>3. CASE ~Pool!IsCurrent(task.handle) /\ Pool!Stale
    BY <1>1, <2>1, <2>3, StaleStep
  <2> QED
    BY <1>2, <2>2, <2>3 DEF Pool!Reconcile
<1>3. CASE Pool!Initialized \/ Pool!ReconcileFails \/ Pool!QueryFails
  <2>1. task' = Pool!Nobody /\ (Pool!Invalidate \/ UNCHANGED <<pool, generation>>)
    BY <1>3 DEF Pool!Initialized, Pool!ReconcileFails, Pool!QueryFails
  <2> QED
    BY <1>1, <2>1, NobodyLemma, InvalidateLemma, PoolRest DEF SecondAttempt, PoolInv
<1>4. CASE Pool!Query
  <2>1. /\ task.at = "query" /\ task.handle \in Handles /\ task.handle # None
        /\ task' = [task EXCEPT !.read = holds[task.handle.inode], !.at = "test"]
        /\ UNCHANGED <<generation, pool, changed>>
    BY <1>1, <1>4 DEF Pool!Query, PoolInv, HasHandle, PoolTasks
  <2>2. holds[task.handle.inode] \in Nat
    BY <2>1 DEF PoolInv, Handles
  <2>3. /\ task' \in PoolTasks /\ task'.at = "test" /\ task'.kind = task.kind /\ task'.tries = task.tries
        /\ task'.handle = task.handle /\ task'.read = holds[task.handle.inode]
    BY <1>1, <2>1, <2>2 DEF PoolTasks, PoolStages
  <2> QED
    BY <1>1, <2>1, <2>3 DEF PoolInv, HasHandle, HasPool, HasRead, SecondAttempt
<1>5. CASE Pool!Test
  <2>1. HasPool /\ HasRead
    BY <1>5 DEF Pool!Test, HasPool, HasRead
  <2>2. CASE Pool!Goto(IF task.kind = "delete" THEN "planned" ELSE "answered")
             /\ UNCHANGED <<generation, pool, changed>>
    BY <1>1, <2>1, <2>2, GoesStep DEF PoolStages
  <2>3. CASE ~Pool!IsCurrent(task.handle) /\ Pool!Stale
    BY <1>1, <2>1, <2>3, StaleStep
  <2> QED
    BY <1>5, <2>2, <2>3 DEF Pool!Test
<1> QED
  BY <1>2, <1>3, <1>4, <1>5

LEMMA DeletionStep ==
    ASSUME PoolInv, Pool!OpenForDeletion \/ Pool!Commit \/ Pool!End \/ Pool!Drop
    PROVE  PoolInv'
<1>1. /\ UNCHANGED <<file, holds, born, path, changed>> /\ task \in PoolTasks
  BY DEF Pool!OpenForDeletion, Pool!Commit, Pool!End, Pool!Drop, Pool!Files, PoolInv
<1>2. CASE (Pool!OpenForDeletion \/ Pool!Commit) /\ task' # Pool!Nobody
  <2>1. /\ UNCHANGED <<generation, pool>> /\ HasRead
        /\ Pool!Goto("exclusive") \/ Pool!Goto("deleted")
    BY <1>2 DEF Pool!OpenForDeletion, Pool!Commit, HasRead
  <2> QED
    BY <1>1, <2>1, GoesStep DEF PoolStages
<1>3. CASE task' = Pool!Nobody
  <2>1. Pool!Invalidate \/ UNCHANGED <<pool, generation>>
    BY <1>3 DEF Pool!OpenForDeletion, Pool!Commit, Pool!End, Pool!Drop
  <2> QED
    BY <1>1, <1>3, <2>1, NobodyLemma, InvalidateLemma, PoolRest DEF SecondAttempt, PoolInv
<1> QED
  BY <1>2, <1>3 DEF Pool!End, Pool!Drop

LEMMA PoolStep == PoolInv /\ [HistoryNext]_allVars => PoolInv'
<1> SUFFICES ASSUME PoolInv, [HistoryNext]_allVars
             PROVE  PoolInv'
  OBVIOUS
<1>1. CASE Pool!Next
  BY <1>1, FileStep, BindStep, GetStep, ReadStep, DeletionStep DEF Pool!Next
<1>2. CASE UNCHANGED poolVars
  <2>1. UNCHANGED <<file, holds, born, path, generation, pool, task, changed>>
    BY <1>2 DEF poolVars
  <2> QED
    BY <2>1 DEF PoolInv, HasHandle, HasPool, HasRead, SecondAttempt
<1> QED
  BY <1>1, <1>2 DEF HistoryNext, allVars

\* Whatever files are replaced or bound, and wherever a task is dropped, what it
\* read is in the file that its handle keeps (state/history.rs).
THEOREM PoolInductive == HistorySpec => []PoolInv
BY PoolInitial, PoolStep, PTL DEF HistorySpec

\* An answer and a deletion come only after a test.
LEMMA TestedLemma ==
    ASSUME PoolInv, [HistoryNext]_allVars, task'.at \in {"answered", "deleted"}, task.at # task'.at
    PROVE  \/ Pool!Test /\ task'.at = "answered" /\ Pool!IsCurrent(task.handle)
           \/ Pool!Commit /\ task'.at = "deleted" /\ Pool!FileIsCurrent(task.handle)
<1>1. task \in PoolTasks /\ Pool!Nobody.at = "idle"
  BY NobodyLemma DEF PoolInv
<1>2. task' # task /\ task' # Pool!Nobody
  BY <1>1
<1>3. \A at \in PoolStages : Pool!Goto(at) => task'.at = at
  BY <1>1, GotoLemma
<1>4. Pool!Next
  BY <1>2 DEF HistoryNext, allVars, poolVars
<1>5. ~(\E h, at : Pool!Have(h, at) /\ at \notin {"answered", "deleted"})
  BY <1>1 DEF Pool!Have, PoolTasks
<1>6. ~Pool!Stale
  BY <1>2, <1>3 DEF Pool!Stale, Pool!Goto, Pool!Nobody, PoolStages
<1>7. Pool!Test \/ Pool!Commit
  <2>1. ~(\E kind \in {"list", "prepare", "delete", "init"} : Pool!Begin(kind))
    BY DEF Pool!Begin, Pool!Nobody
  <2>2. ~Pool!Query
    BY <1>1 DEF Pool!Query, PoolTasks
  <2>3. ~(\E p \in Paths : Pool!Rebind(p)) /\ ~Pool!TakePool /\ ~Pool!StorePool
    BY <1>3 DEF Pool!Rebind, Pool!TakePool, Pool!StorePool, Pool!Move, PoolStages
  <2>4. ~Pool!OpenForDeletion /\ ~Pool!Reconcile
    BY <1>2, <1>3, <1>6 DEF Pool!OpenForDeletion, Pool!Reconcile, PoolStages
  <2>5. ~Pool!GetPool /\ ~Pool!Anchor /\ ~Pool!Connect
    BY <1>5 DEF Pool!GetPool, Pool!Anchor, Pool!Connect
  <2> QED
    BY <1>2, <1>4, <2>1, <2>2, <2>3, <2>4, <2>5 DEF Pool!Next, Pool!Replace, Pool!Unlink, Pool!GetFails,
       Pool!Initialized, Pool!ReconcileFails, Pool!QueryFails, Pool!End, Pool!Drop
<1>8. CASE Pool!Test
  <2>1. Pool!IsCurrent(task.handle) /\ Pool!Goto(IF task.kind = "delete" THEN "planned" ELSE "answered")
    BY <1>6, <1>8 DEF Pool!Test
  <2>2. task'.at # "planned"
    OBVIOUS
  <2>3. task'.at = "answered"
    BY <1>3, <2>1, <2>2 DEF PoolStages
  <2> QED
    BY <1>8, <2>1, <2>3
<1>9. CASE Pool!Commit
  <2>1. Pool!FileIsCurrent(task.handle) /\ Pool!Goto("deleted")
    BY <1>2, <1>9 DEF Pool!Commit
  <2>2. task'.at = "deleted"
    BY <1>3, <2>1 DEF PoolStages
  <2> QED
    BY <1>9, <2>1, <2>2
<1> QED
  BY <1>7, <1>8, <1>9

LEMMA AnswersLemma ==
    ASSUME PoolInv, [HistoryNext]_allVars, task'.at = "answered", task.at # "answered"
    PROVE  task.read = holds[file[path]]
<1>1. Pool!Test /\ Pool!IsCurrent(task.handle)
  BY TestedLemma
<1>2. HasHandle /\ HasRead
  BY <1>1 DEF Pool!Test, HasHandle, HasRead
<1> QED
  BY <1>1, <1>2, CurrentLemma DEF PoolInv

LEMMA DeletionsLemma ==
    ASSUME PoolInv, [HistoryNext]_allVars, task'.at = "deleted", task.at # "deleted"
    PROVE  task.read = holds[file[task.handle.path]]
<1>1. Pool!Commit /\ Pool!FileIsCurrent(task.handle)
  BY TestedLemma
<1> QED
  BY <1>1 DEF PoolInv, Pool!Commit, Pool!FileIsCurrent, HasRead

\* Answers come from the database at the path, a deletion changes the database
\* that was planned, and a list is given up only when a file changed during its
\* second attempt (state/history.rs, history/opencode.rs).
THEOREM HistoryOfTheFile == HistorySpec => HistoryIsOfTheFile
<1>1. PoolInv /\ [HistoryNext]_allVars =>
        [task'.at = "answered" /\ task.at # "answered" => task.read = holds[file[path]]]_poolVars
  BY AnswersLemma
<1>2. PoolInv /\ [HistoryNext]_allVars =>
        [task'.at = "deleted" /\ task.at # "deleted" => task.read = holds[file[task.handle.path]]]_poolVars
  BY DeletionsLemma
<1>3. PoolInv => (task.kind = "list" /\ task.at = "stale" => changed)
  BY DEF PoolInv
<1>4. HistorySpec =>
        [][task'.at = "answered" /\ task.at # "answered" => task.read = holds[file[path]]]_poolVars
  BY <1>1, PoolInductive, PTL DEF HistorySpec
<1>5. HistorySpec =>
        [][task'.at = "deleted" /\ task.at # "deleted" => task.read = holds[file[task.handle.path]]]_poolVars
  BY <1>2, PoolInductive, PTL DEF HistorySpec
<1>6. HistorySpec => Pool!SecondAttemptsSucceed
  BY <1>3, PoolInductive, PTL DEF Pool!SecondAttemptsSucceed
<1>7. HistorySpec => Pool!AnswersAreCurrent
  BY <1>4 DEF Pool!AnswersAreCurrent, Pool!vars, poolVars
<1>8. HistorySpec => Pool!DeletionsMeetTheirPlan
  BY <1>5 DEF Pool!DeletionsMeetTheirPlan, Pool!vars, poolVars
<1> QED
  BY <1>6, <1>7, <1>8 DEF HistoryIsOfTheFile, Pool!HistoryIsOfTheFile

-----------------------------------------------------------------------------
(* The lineage, and what a user expects of it                              *)

\* What the statements make of a row of the table.
LEMMA RowsLemma ==
    /\ None \notin Times /\ None \notin Lineage!Rows /\ None \notin Lineage!LineageRows
    /\ \A row \in Lineage!Rows : row.created \in Times /\ row.updated \in Times
                                 /\ row = [created |-> row.created, updated |-> row.updated]
    /\ Lineage!Legacy!Rows = Lineage!Rows
BY LineageAssumption DEF Lineage!Rows, Lineage!Legacy!Rows

LEMMA V1WrittenLemma ==
    ASSUME NEW l \in Lineage!LineageRows \cup {None}, NEW row \in Lineage!Rows
    PROVE  \E w \in Lineage!LineageRows :
              /\ w = Lineage!V1Written(l, row) /\ w.p1 /\ w.c1 = row.created /\ w.u1 = row.updated
              /\ w.p2 = (l # None /\ l.p2)
              /\ l # None => w.c2 = l.c2 /\ w.u2 = l.u2
              /\ w.deleted = (l # None /\ l.deleted /\ l.c1 = row.created /\ row.updated <= l.u2)
<1> DEFINE w == Lineage!V1Written(l, row)
<1>1. CASE l = None
  <2>1. w = Lineage!OfV1(row)
    BY <1>1 DEF Lineage!V1Written
  <2>2. /\ w \in Lineage!LineageRows /\ w.p1 /\ w.c1 = row.created /\ w.u1 = row.updated
        /\ w.p2 = FALSE /\ w.deleted = FALSE
    BY <2>1, RowsLemma DEF Lineage!OfV1, Lineage!LineageRows
  <2>3. /\ w.p2 = (l # None /\ l.p2)
        /\ w.deleted = (l # None /\ l.deleted /\ l.c1 = row.created /\ row.updated <= l.u2)
    BY <1>1, <2>2
  <2> HIDE DEF w
  <2>4. w = Lineage!V1Written(l, row)
    BY DEF w
  <2> QED
    BY <1>1, <2>2, <2>3, <2>4
<1>2. CASE l # None
  <2> DEFINE deleted == l.deleted /\ l.c1 = row.created /\ row.updated <= l.u2
  <2>1. w = [l EXCEPT !.c1 = row.created, !.u1 = row.updated, !.p1 = TRUE, !.deleted = deleted]
    BY <1>2 DEF Lineage!V1Written
  <2>2. l \in Lineage!LineageRows /\ deleted \in BOOLEAN
    BY <1>2 DEF Lineage!LineageRows
  <2>3. deleted = (l # None /\ l.deleted /\ l.c1 = row.created /\ row.updated <= l.u2)
    BY <1>2
  <2> HIDE DEF deleted
  <2>4. /\ w \in Lineage!LineageRows /\ w.p1 /\ w.c1 = row.created /\ w.u1 = row.updated
        /\ w.p2 = l.p2 /\ w.c2 = l.c2 /\ w.u2 = l.u2 /\ w.deleted = deleted
    BY <2>1, <2>2, RowsLemma DEF Lineage!LineageRows
  <2>5. w.p2 = (l # None /\ l.p2)
    BY <1>2, <2>2, <2>4 DEF Lineage!LineageRows
  <2> HIDE DEF w
  <2>6. w = Lineage!V1Written(l, row)
    BY DEF w
  <2>7. w.deleted = (l # None /\ l.deleted /\ l.c1 = row.created /\ row.updated <= l.u2)
    BY <2>3, <2>4
  <2> QED
    BY <2>4, <2>5, <2>6, <2>7
<1> QED
  BY <1>1, <1>2

LEMMA V2WrittenLemma ==
    ASSUME NEW l \in Lineage!LineageRows \cup {None}, NEW row \in Lineage!Rows
    PROVE  \E w \in Lineage!LineageRows :
              /\ w = Lineage!V2Written(l, row) /\ w.p2 /\ w.c2 = row.created /\ w.u2 = row.updated
              /\ w.p1 = (l # None /\ l.p1)
              /\ l # None => w.c1 = l.c1 /\ w.u1 = l.u1
              /\ ~w.deleted
<1>1. CASE l = None
  <2> DEFINE w == Lineage!OfV2(row)
  <2>1. w = Lineage!V2Written(l, row)
    BY <1>1 DEF Lineage!V2Written
  <2>2. /\ w \in Lineage!LineageRows /\ w.p2 /\ w.c2 = row.created /\ w.u2 = row.updated
        /\ w.p1 = FALSE /\ ~w.deleted
    BY RowsLemma DEF Lineage!OfV2, Lineage!LineageRows
  <2>3. w.p1 = (l # None /\ l.p1)
    BY <1>1, <2>2
  <2> HIDE DEF w
  <2> QED
    BY <1>1, <2>1, <2>2, <2>3
<1>2. CASE l # None
  <2> DEFINE w == [l EXCEPT !.c2 = row.created, !.u2 = row.updated, !.p2 = TRUE, !.deleted = FALSE]
  <2>1. l \in Lineage!LineageRows /\ w = Lineage!V2Written(l, row)
    BY <1>2 DEF Lineage!V2Written
  <2>2. /\ w \in Lineage!LineageRows /\ w.p2 /\ w.c2 = row.created /\ w.u2 = row.updated
        /\ w.p1 = l.p1 /\ w.c1 = l.c1 /\ w.u1 = l.u1 /\ ~w.deleted
    BY <2>1, RowsLemma DEF Lineage!LineageRows
  <2>3. w.p1 = (l # None /\ l.p1)
    BY <1>2, <2>1, <2>2 DEF Lineage!LineageRows
  <2> HIDE DEF w
  <2> QED
    BY <2>1, <2>2, <2>3
<1> QED
  BY <1>1, <1>2

\* A row without a conversation and not deleted goes.
LEMMA SweptLemma ==
    ASSUME NEW l \in Lineage!LineageRows
    PROVE  /\ Lineage!Swept(l) \in {l, None}
           /\ Lineage!Swept(l) = None <=> ~l.p1 /\ ~l.p2 /\ ~l.deleted
BY RowsLemma DEF Lineage!Swept

LEMMA V1RemovedLemma ==
    ASSUME NEW l \in Lineage!LineageRows
    PROVE  \E w \in Lineage!LineageRows :
              /\ Lineage!V1Removed(l) = Lineage!Swept(w) /\ ~w.p1
              /\ w.p2 = l.p2 /\ w.deleted = l.deleted
              /\ w.c1 = l.c1 /\ w.u1 = l.u1 /\ w.c2 = l.c2 /\ w.u2 = l.u2
<1> DEFINE w == [l EXCEPT !.p1 = FALSE]
<1>1. Lineage!V1Removed(l) = Lineage!Swept(w)
  BY RowsLemma DEF Lineage!V1Removed
<1>2. /\ w \in Lineage!LineageRows /\ ~w.p1 /\ w.p2 = l.p2 /\ w.deleted = l.deleted
      /\ w.c1 = l.c1 /\ w.u1 = l.u1 /\ w.c2 = l.c2 /\ w.u2 = l.u2
  BY DEF Lineage!LineageRows
<1> HIDE DEF w
<1> QED
  BY <1>1, <1>2

LEMMA V2RemovedLemma ==
    ASSUME NEW l \in Lineage!LineageRows, NEW old \in Lineage!Rows
    PROVE  \E w \in Lineage!LineageRows :
              /\ Lineage!V2Removed(l, old) = Lineage!Swept(w) /\ ~w.p2
              /\ w.c2 = old.created /\ w.u2 = old.updated
              /\ w.p1 = l.p1 /\ w.c1 = l.c1 /\ w.u1 = l.u1
              /\ w.deleted = (l.p1 /\ l.c1 = old.created /\ l.u1 <= old.updated)
<1> DEFINE deleted == l.p1 /\ l.c1 = old.created /\ l.u1 <= old.updated
           w == [l EXCEPT !.c2 = old.created, !.u2 = old.updated, !.p2 = FALSE, !.deleted = deleted]
<1>1. Lineage!V2Removed(l, old) = Lineage!Swept(w)
  BY RowsLemma DEF Lineage!V2Removed
<1>2. deleted \in BOOLEAN
  BY DEF Lineage!LineageRows
<1>3. deleted = (l.p1 /\ l.c1 = old.created /\ l.u1 <= old.updated)
  OBVIOUS
<1> HIDE DEF deleted
<1>4. /\ w \in Lineage!LineageRows /\ ~w.p2 /\ w.c2 = old.created /\ w.u2 = old.updated
      /\ w.p1 = l.p1 /\ w.c1 = l.c1 /\ w.u1 = l.u1 /\ w.deleted = deleted
  BY <1>2, RowsLemma DEF Lineage!LineageRows
<1> HIDE DEF w
<1>5. w.deleted = (l.p1 /\ l.c1 = old.created /\ l.u1 <= old.updated)
  BY <1>3, <1>4
<1> QED
  BY <1>1, <1>4, <1>5

\* A tombstone is a copy there has been.
LEMMA TombstoneLemma ==
    ASSUME NEW l \in Lineage!LineageRows \cup {None}, NEW copies \in SUBSET Lineage!Rows, WasTrue(l, copies)
    PROVE  /\ Lineage!Tombstone(l) \in copies \cup {None} /\ Lineage!Tombstone(l) \in Lineage!Rows \cup {None}
           /\ Lineage!Tombstone(l) = None <=> l = None \/ ~l.deleted
           /\ Lineage!Tombstone(l) # None =>
                 Lineage!Tombstone(l).created = l.c1 /\ Lineage!Tombstone(l).updated = l.u2
BY RowsLemma DEF WasTrue, Lineage!Tombstone

\* What each statement leaves of a row that says what was true or is true.
LEMMA V1WrittenKeeps ==
    ASSUME NEW l \in Lineage!LineageRows \cup {None}, NEW row \in Lineage!Rows,
           NEW copies \in SUBSET Lineage!Rows, WasTrue(l, copies)
    PROVE  /\ Lineage!V1Written(l, row) \in Lineage!LineageRows
           /\ WasTrue(Lineage!V1Written(l, row), copies)
           /\ Lineage!Tombstone(Lineage!V1Written(l, row)) =
                 IF Lineage!Tombstone(l) # None /\ ~Lineage!Legacy!IsCopy(row, Lineage!Tombstone(l))
                 THEN None ELSE Lineage!Tombstone(l)
<1>1. PICK w \in Lineage!LineageRows :
              /\ w = Lineage!V1Written(l, row) /\ w.p1 /\ w.c1 = row.created /\ w.u1 = row.updated
              /\ w.p2 = (l # None /\ l.p2)
              /\ l # None => w.c2 = l.c2 /\ w.u2 = l.u2
              /\ w.deleted = (l # None /\ l.deleted /\ l.c1 = row.created /\ row.updated <= l.u2)
  BY V1WrittenLemma
<1>2. Lineage!Tombstone(w) =
         IF Lineage!Tombstone(l) # None /\ ~Lineage!Legacy!IsCopy(row, Lineage!Tombstone(l))
         THEN None ELSE Lineage!Tombstone(l)
  BY <1>1, TombstoneLemma, RowsLemma DEF Lineage!Tombstone, Lineage!Legacy!IsCopy
<1>3. WasTrue(w, copies)
  <2>1. CASE w.deleted
    BY <1>1, <2>1, RowsLemma DEF WasTrue, Lineage!Tombstone
  <2>2. CASE ~w.deleted
    BY <1>1, <2>2, RowsLemma DEF WasTrue, Lineage!OfV1, Lineage!V1Written
  <2> QED
    BY <2>1, <2>2
<1> QED
  BY <1>1, <1>2, <1>3

LEMMA V1WrittenIsTrue ==
    ASSUME NEW l \in Lineage!LineageRows \cup {None}, NEW row \in Lineage!Rows,
           NEW old \in Lineage!Rows \cup {None}, NEW new \in Lineage!Rows \cup {None}, IsTrue(l, old, new)
    PROVE  IsTrue(Lineage!V1Written(l, row), row, new)
<1>1. PICK w \in Lineage!LineageRows :
              /\ w = Lineage!V1Written(l, row) /\ w.p1 /\ w.c1 = row.created /\ w.u1 = row.updated
              /\ w.p2 = (l # None /\ l.p2)
              /\ l # None => w.c2 = l.c2 /\ w.u2 = l.u2
              /\ w.deleted = (l # None /\ l.deleted /\ l.c1 = row.created /\ row.updated <= l.u2)
  BY V1WrittenLemma
<1>2. w.deleted => Lineage!Legacy!IsCopy(row, Lineage!Tombstone(w))
  BY <1>1, RowsLemma DEF Lineage!Tombstone, Lineage!Legacy!IsCopy
<1>3. new # None => w.p2 /\ w.c2 = new.created /\ w.u2 = new.updated
  BY <1>1 DEF IsTrue
<1>4. w.p2 => new # None
  BY <1>1 DEF IsTrue
<1>5. IsTrue(w, row, new)
  BY <1>1, <1>2, <1>3, <1>4, RowsLemma DEF IsTrue
<1> QED
  BY <1>1, <1>5

LEMMA V1RemovedKeeps ==
    ASSUME NEW l \in Lineage!LineageRows \cup {None}, NEW copies \in SUBSET Lineage!Rows, WasTrue(l, copies)
    PROVE  /\ Lineage!V1Removed(l) \in Lineage!LineageRows \cup {None}
           /\ WasTrue(Lineage!V1Removed(l), copies)
           /\ \A old \in Lineage!Rows, new \in Lineage!Rows \cup {None} :
                 IsTrue(l, old, new) => IsTrue(Lineage!V1Removed(l), None, new)
           /\ Lineage!Tombstone(Lineage!V1Removed(l)) = Lineage!Tombstone(l)
<1>1. CASE l = None
  BY <1>1 DEF Lineage!V1Removed, IsTrue
<1>2. CASE l # None
  <2>1. l \in Lineage!LineageRows
    BY <1>2
  <2>2. PICK w \in Lineage!LineageRows :
                /\ Lineage!V1Removed(l) = Lineage!Swept(w) /\ ~w.p1
                /\ w.p2 = l.p2 /\ w.deleted = l.deleted
                /\ w.c1 = l.c1 /\ w.u1 = l.u1 /\ w.c2 = l.c2 /\ w.u2 = l.u2
    BY <2>1, V1RemovedLemma
  <2>3. CASE Lineage!Swept(w) = None
    <3>1. ~w.p1 /\ ~w.p2 /\ ~w.deleted
      BY <2>3, SweptLemma
    <3> QED
      BY <2>1, <2>2, <2>3, <3>1, RowsLemma DEF WasTrue, IsTrue, Lineage!Tombstone
  <2>4. CASE Lineage!Swept(w) = w /\ w # None
    <3>1. w.p1 \/ w.p2 \/ w.deleted
      BY <2>4, SweptLemma
    <3>2. Lineage!Tombstone(w) = Lineage!Tombstone(l)
      BY <2>1, <2>2, RowsLemma DEF Lineage!Tombstone
    <3>3. WasTrue(w, copies)
      BY <2>1, <2>2, <3>2, RowsLemma DEF WasTrue
    <3>4. ASSUME NEW old \in Lineage!Rows, NEW new \in Lineage!Rows \cup {None}, IsTrue(l, old, new)
          PROVE  IsTrue(w, None, new)
      BY <2>1, <2>2, <3>1, <3>4, RowsLemma DEF IsTrue
    <3> QED
      BY <2>2, <2>4, <3>2, <3>3, <3>4
  <2> QED
    BY <2>2, <2>3, <2>4, SweptLemma, RowsLemma
<1> QED
  BY <1>1, <1>2

LEMMA V2WrittenKeeps ==
    ASSUME NEW l \in Lineage!LineageRows \cup {None}, NEW row \in Lineage!Rows
    PROVE  /\ Lineage!V2Written(l, row) \in Lineage!LineageRows
           /\ \A copies \in SUBSET Lineage!Rows : row \in copies => WasTrue(Lineage!V2Written(l, row), copies)
           /\ \A old, new \in Lineage!Rows \cup {None} :
                 IsTrue(l, old, new) => IsTrue(Lineage!V2Written(l, row), old, row)
           /\ Lineage!Tombstone(Lineage!V2Written(l, row)) = None
<1>1. PICK w \in Lineage!LineageRows :
              /\ w = Lineage!V2Written(l, row) /\ w.p2 /\ w.c2 = row.created /\ w.u2 = row.updated
              /\ w.p1 = (l # None /\ l.p1)
              /\ l # None => w.c1 = l.c1 /\ w.u1 = l.u1
              /\ ~w.deleted
  BY V2WrittenLemma
<1>2. ASSUME NEW copies \in SUBSET Lineage!Rows, row \in copies PROVE WasTrue(w, copies)
  BY <1>1, <1>2, RowsLemma DEF WasTrue
<1>3. ASSUME NEW old \in Lineage!Rows \cup {None}, NEW new \in Lineage!Rows \cup {None}, IsTrue(l, old, new)
      PROVE  IsTrue(w, old, row)
  BY <1>1, <1>3, RowsLemma DEF IsTrue
<1>4. Lineage!Tombstone(w) = None
  BY <1>1 DEF Lineage!Tombstone
<1> QED
  BY <1>1, <1>2, <1>3, <1>4

LEMMA V2RemovedKeeps ==
    ASSUME NEW l \in Lineage!LineageRows \cup {None}, NEW copies \in SUBSET Lineage!Rows, NEW new \in copies
    PROVE  /\ Lineage!V2Removed(l, new) \in Lineage!LineageRows \cup {None}
           /\ WasTrue(Lineage!V2Removed(l, new), copies)
           /\ Lineage!Tombstone(Lineage!V2Removed(l, new)) \in {new, None}
<1>1. new \in Lineage!Rows
  OBVIOUS
<1>2. CASE l = None
  BY <1>2 DEF Lineage!V2Removed, WasTrue, Lineage!Tombstone
<1>3. CASE l # None
  <2>1. PICK w \in Lineage!LineageRows :
                /\ Lineage!V2Removed(l, new) = Lineage!Swept(w) /\ ~w.p2
                /\ w.c2 = new.created /\ w.u2 = new.updated
                /\ w.p1 = l.p1 /\ w.c1 = l.c1 /\ w.u1 = l.u1
                /\ w.deleted = (l.p1 /\ l.c1 = new.created /\ l.u1 <= new.updated)
    BY <1>1, <1>3, V2RemovedLemma
  <2>2. w.deleted => [created |-> w.c1, updated |-> w.u2] = new
    BY <1>1, <2>1, RowsLemma
  <2>3. WasTrue(w, copies) /\ Lineage!Tombstone(w) \in {new, None}
    BY <1>1, <2>1, <2>2, RowsLemma DEF WasTrue, Lineage!Tombstone
  <2>4. WasTrue(None, copies) /\ Lineage!Tombstone(None) = None
    BY DEF WasTrue, Lineage!Tombstone
  <2> QED
    BY <2>1, <2>3, <2>4, SweptLemma
<1> QED
  BY <1>2, <1>3

LEMMA V2RemovedIsTrue ==
    ASSUME NEW l \in Lineage!LineageRows \cup {None},
           NEW old \in Lineage!Rows \cup {None}, NEW new \in Lineage!Rows, IsTrue(l, old, new)
    PROVE  /\ IsTrue(Lineage!V2Removed(l, new), old, None)
           /\ Lineage!Tombstone(Lineage!V2Removed(l, new)) =
                 IF Lineage!Legacy!Covers(new, old) THEN new ELSE None
<1>1. l \in Lineage!LineageRows
  BY RowsLemma DEF IsTrue
<1>2. PICK w \in Lineage!LineageRows :
              /\ Lineage!V2Removed(l, new) = Lineage!Swept(w) /\ ~w.p2
              /\ w.c2 = new.created /\ w.u2 = new.updated
              /\ w.p1 = l.p1 /\ w.c1 = l.c1 /\ w.u1 = l.u1
              /\ w.deleted = (l.p1 /\ l.c1 = new.created /\ l.u1 <= new.updated)
  BY <1>1, V2RemovedLemma
<1>3. w.deleted <=> Lineage!Legacy!Covers(new, old)
  BY <1>1, <1>2, RowsLemma DEF IsTrue, Lineage!Legacy!Covers, Lineage!Legacy!IsCopy
<1>4. w.deleted => [created |-> w.c1, updated |-> w.u2] = new
  BY <1>1, <1>2, RowsLemma
<1>5. Lineage!Tombstone(w) = IF Lineage!Legacy!Covers(new, old) THEN new ELSE None
  BY <1>1, <1>3, <1>4, RowsLemma DEF Lineage!Tombstone
<1>6. CASE Lineage!Swept(w) = None
  <2>1. ~w.p1 /\ ~w.p2 /\ ~w.deleted
    BY <1>6, SweptLemma
  <2>2. old = None
    BY <1>1, <1>2, <2>1 DEF IsTrue
  <2>3. IsTrue(None, old, None)
    BY <2>2 DEF IsTrue
  <2>4. Lineage!Tombstone(None) = IF Lineage!Legacy!Covers(new, old) THEN new ELSE None
    BY <2>2 DEF Lineage!Legacy!Covers, Lineage!Tombstone
  <2> QED
    BY <1>2, <1>6, <2>3, <2>4
<1>7. CASE Lineage!Swept(w) = w /\ w # None
  <2>1. w.p1 \/ w.p2 \/ w.deleted
    BY <1>7, SweptLemma
  <2>2. w.deleted => Lineage!Tombstone(w) = new /\ Lineage!Legacy!IsCopy(old, new)
    BY <1>3, <1>5 DEF Lineage!Legacy!Covers
  <2>3. IsTrue(w, old, None)
    BY <1>1, <1>2, <2>1, <2>2, RowsLemma DEF IsTrue
  <2> QED
    BY <1>2, <1>5, <1>7, <2>3
<1> QED
  BY <1>2, <1>6, <1>7, SweptLemma, RowsLemma

\* The table after a look at the rows that are left: old and new.
LEMMA WithoutV1Lemma ==
    ASSUME NEW l \in Lineage!LineageRows, NEW row
    PROVE  \E w \in Lineage!LineageRows :
              /\ w = Lineage!WithoutV1(l, row)
              /\ w.p1 = (l.p1 /\ row # None /\ row.created = l.c1)
              /\ w.p2 = l.p2 /\ w.deleted = l.deleted
              /\ w.c1 = l.c1 /\ w.u1 = l.u1 /\ w.c2 = l.c2 /\ w.u2 = l.u2
<1> DEFINE w == [l EXCEPT !.p1 = FALSE]
<1>1. CASE l.p1 /\ ~(row # None /\ row.created = l.c1)
  <2>1. Lineage!WithoutV1(l, row) = w
    BY <1>1, RowsLemma DEF Lineage!WithoutV1
  <2>2. /\ w \in Lineage!LineageRows /\ w.p1 = FALSE /\ w.p2 = l.p2 /\ w.deleted = l.deleted
        /\ w.c1 = l.c1 /\ w.u1 = l.u1 /\ w.c2 = l.c2 /\ w.u2 = l.u2
    BY DEF Lineage!LineageRows
  <2>3. w.p1 = (l.p1 /\ row # None /\ row.created = l.c1)
    BY <1>1, <2>2
  <2> HIDE DEF w
  <2> QED
    BY <2>1, <2>2, <2>3
<1>2. CASE ~(l.p1 /\ ~(row # None /\ row.created = l.c1))
  <2>1. Lineage!WithoutV1(l, row) = l
    BY <1>2, RowsLemma DEF Lineage!WithoutV1
  <2>2. l.p1 \in BOOLEAN
    BY DEF Lineage!LineageRows
  <2>3. l.p1 = (l.p1 /\ row # None /\ row.created = l.c1)
    BY <1>2, <2>2
  <2> QED
    BY <2>1, <2>3
<1> QED
  BY <1>1, <1>2

LEMMA WithoutV2Lemma ==
    ASSUME NEW l \in Lineage!LineageRows, NEW row, l.p2, ~(row # None /\ row.created = l.c2)
    PROVE  \E w \in Lineage!LineageRows :
              /\ w = Lineage!WithoutV2(l, row) /\ ~w.p2
              /\ w.deleted = (l.p1 /\ l.c1 = l.c2 /\ l.u1 <= l.u2)
              /\ w.p1 = l.p1 /\ w.c1 = l.c1 /\ w.u1 = l.u1 /\ w.c2 = l.c2 /\ w.u2 = l.u2
<1> DEFINE deleted == l.p1 /\ l.c1 = l.c2 /\ l.u1 <= l.u2
           w == [l EXCEPT !.p2 = FALSE, !.deleted = deleted]
<1>1. Lineage!WithoutV2(l, row) = w
  BY RowsLemma DEF Lineage!WithoutV2
<1>2. deleted \in BOOLEAN
  BY DEF Lineage!LineageRows
<1>3. deleted = (l.p1 /\ l.c1 = l.c2 /\ l.u1 <= l.u2)
  OBVIOUS
<1> HIDE DEF deleted
<1>4. /\ w \in Lineage!LineageRows /\ ~w.p2 /\ w.deleted = deleted
      /\ w.p1 = l.p1 /\ w.c1 = l.c1 /\ w.u1 = l.u1 /\ w.c2 = l.c2 /\ w.u2 = l.u2
  BY <1>2 DEF Lineage!LineageRows
<1> HIDE DEF w
<1>5. w.deleted = (l.p1 /\ l.c1 = l.c2 /\ l.u1 <= l.u2)
  BY <1>3, <1>4
<1> QED
  BY <1>1, <1>4, <1>5

\* What a row of the table says of a row of session is true, and of session_v2.
HasOld(l, old) ==
    old # None => /\ l # None /\ l.p1 /\ l.c1 = old.created /\ l.u1 = old.updated
                  /\ l.deleted => Lineage!Legacy!IsCopy(old, Lineage!Tombstone(l))

HasNew(l, new) == new # None => l # None /\ l.p2 /\ l.c2 = new.created /\ l.u2 = new.updated

LEMMA WithLemma ==
    ASSUME NEW l \in Lineage!LineageRows \cup {None}, NEW copies \in SUBSET Lineage!Rows, WasTrue(l, copies),
           NEW old \in Lineage!Rows \cup {None}, NEW new \in copies \cup {None}
    PROVE  \E w \in Lineage!LineageRows \cup {None} :
              /\ w = Lineage!WithV2(Lineage!WithV1(l, old), new)
              /\ WasTrue(w, copies) /\ HasOld(w, old) /\ HasNew(w, new)
<1> DEFINE one == Lineage!WithV1(l, old)
           two == Lineage!WithV2(one, new)
<1>1. one \in Lineage!LineageRows \cup {None} /\ WasTrue(one, copies) /\ HasOld(one, old)
  <2>1. CASE old = None
    BY <2>1 DEF Lineage!WithV1, HasOld
  <2>2. CASE old # None
    <3>1. old \in Lineage!Rows /\ one = Lineage!V1Written(l, old)
      BY <2>2 DEF Lineage!WithV1
    <3>2. one \in Lineage!LineageRows /\ WasTrue(one, copies)
      BY <3>1, V1WrittenKeeps
    <3>3. PICK w \in Lineage!LineageRows :
              /\ w = Lineage!V1Written(l, old) /\ w.p1 /\ w.c1 = old.created /\ w.u1 = old.updated
              /\ w.p2 = (l # None /\ l.p2)
              /\ l # None => w.c2 = l.c2 /\ w.u2 = l.u2
              /\ w.deleted = (l # None /\ l.deleted /\ l.c1 = old.created /\ old.updated <= l.u2)
      BY <3>1, V1WrittenLemma
    <3>4. HasOld(w, old)
      BY <3>3, RowsLemma DEF HasOld, Lineage!Tombstone, Lineage!Legacy!IsCopy
    <3> QED
      BY <3>1, <3>2, <3>3, <3>4
  <2> QED
    BY <2>1, <2>2
<1> HIDE DEF one
<1>2. two \in Lineage!LineageRows \cup {None} /\ WasTrue(two, copies) /\ HasOld(two, old) /\ HasNew(two, new)
  <2>1. CASE new = None
    BY <1>1, <2>1 DEF Lineage!WithV2, HasNew
  <2>2. CASE new # None
    <3>1. new \in Lineage!Rows /\ two = Lineage!V2Written(one, new)
      BY <2>2 DEF Lineage!WithV2
    <3>2. two \in Lineage!LineageRows /\ WasTrue(two, copies)
      BY <1>1, <2>2, <3>1, V2WrittenKeeps
    <3>3. PICK w \in Lineage!LineageRows :
              /\ w = Lineage!V2Written(one, new) /\ w.p2 /\ w.c2 = new.created /\ w.u2 = new.updated
              /\ w.p1 = (one # None /\ one.p1)
              /\ one # None => w.c1 = one.c1 /\ w.u1 = one.u1
              /\ ~w.deleted
      BY <1>1, <3>1, V2WrittenLemma
    <3>4. HasOld(w, old) /\ HasNew(w, new)
      BY <1>1, <3>3, RowsLemma DEF HasOld, HasNew
    <3> QED
      BY <3>1, <3>2, <3>3, <3>4
  <2> QED
    BY <2>1, <2>2
<1>3. two = Lineage!WithV2(Lineage!WithV1(l, old), new)
  BY DEF one
<1> HIDE DEF two
<1> QED
  BY <1>2, <1>3

LEMMA WithoutLemma ==
    ASSUME NEW l \in Lineage!LineageRows \cup {None}, NEW copies \in SUBSET Lineage!Rows, WasTrue(l, copies),
           NEW old \in Lineage!Rows \cup {None}, NEW new \in copies \cup {None}, HasOld(l, old), HasNew(l, new)
    PROVE  LET w == Lineage!Swept(Lineage!WithoutV2(Lineage!WithoutV1(l, old), new))
           IN  w \in Lineage!LineageRows \cup {None} /\ WasTrue(w, copies) /\ IsTrue(w, old, new)
<1>1. CASE l = None
  <2>1. Lineage!Swept(Lineage!WithoutV2(Lineage!WithoutV1(l, old), new)) = None
    BY <1>1 DEF Lineage!Swept, Lineage!WithoutV1, Lineage!WithoutV2
  <2>2. old = None /\ new = None
    BY <1>1 DEF HasOld, HasNew
  <2> QED
    BY <2>1, <2>2 DEF WasTrue, IsTrue
<1>2. CASE l \in Lineage!LineageRows
  <2>1. PICK a \in Lineage!LineageRows :
              /\ a = Lineage!WithoutV1(l, old)
              /\ a.p1 = (l.p1 /\ old # None /\ old.created = l.c1)
              /\ a.p2 = l.p2 /\ a.deleted = l.deleted
              /\ a.c1 = l.c1 /\ a.u1 = l.u1 /\ a.c2 = l.c2 /\ a.u2 = l.u2
    BY <1>2, WithoutV1Lemma
  <2>2. a # None /\ l # None /\ Lineage!Tombstone(a) = Lineage!Tombstone(l)
    BY <1>2, <2>1, RowsLemma DEF Lineage!Tombstone
  <2>3. WasTrue(a, copies) /\ HasOld(a, old) /\ HasNew(a, new) /\ (a.p1 => old # None)
    BY <2>1, <2>2 DEF WasTrue, HasOld, HasNew
  <2>4. PICK b \in Lineage!LineageRows :
              /\ b = Lineage!WithoutV2(a, new)
              /\ WasTrue(b, copies) /\ HasOld(b, old) /\ HasNew(b, new)
              /\ b.p1 => old # None
              /\ b.p2 => new # None
    <3>1. CASE a.p2 /\ ~(new # None /\ new.created = a.c2)
      <4>1. PICK b \in Lineage!LineageRows :
              /\ b = Lineage!WithoutV2(a, new) /\ ~b.p2
              /\ b.deleted = (a.p1 /\ a.c1 = a.c2 /\ a.u1 <= a.u2)
              /\ b.p1 = a.p1 /\ b.c1 = a.c1 /\ b.u1 = a.u1 /\ b.c2 = a.c2 /\ b.u2 = a.u2
        BY <3>1, WithoutV2Lemma
      <4>2. new = None
        BY <2>3, <3>1 DEF HasNew
      <4>3. b.deleted => /\ old # None /\ b.c1 = old.created /\ b.u1 = old.updated /\ b.u1 <= b.u2
                         /\ Lineage!Tombstone(b) = [created |-> a.c2, updated |-> a.u2]
        BY <2>3, <4>1, RowsLemma DEF HasOld, Lineage!Tombstone
      <4>4. b.deleted => a.c2 # None
        BY <4>1, <4>3, RowsLemma
      <4>5. b.deleted => Lineage!Tombstone(b) \in copies
        BY <2>2, <2>3, <3>1, <4>3, <4>4 DEF WasTrue
      <4>6. b.deleted => Lineage!Legacy!IsCopy(old, Lineage!Tombstone(b))
        <5>1. [created |-> a.c2, updated |-> a.u2].created = a.c2 /\ [created |-> a.c2, updated |-> a.u2].updated = a.u2
          OBVIOUS
        <5>2. b.deleted => /\ Lineage!Tombstone(b).created = old.created
                           /\ Lineage!Tombstone(b).updated = b.u2 /\ old.updated = b.u1
          BY <4>1, <4>3, <5>1
        <5> QED
          BY <4>3, <5>2, RowsLemma DEF Lineage!Legacy!IsCopy
      <4>7. WasTrue(b, copies)
        BY <4>1, <4>5 DEF WasTrue
      <4>8. HasOld(b, old) /\ HasNew(b, new)
        BY <2>3, <4>1, <4>2, <4>6, RowsLemma DEF HasOld, HasNew
      <4> QED
        BY <2>3, <4>1, <4>7, <4>8
    <3>2. CASE ~(a.p2 /\ ~(new # None /\ new.created = a.c2))
      <4>1. Lineage!WithoutV2(a, new) = a
        BY <3>2 DEF Lineage!WithoutV2
      <4> QED
        BY <2>1, <2>3, <3>2, <4>1
    <3> QED
      BY <3>1, <3>2
  <2>5. CASE ~b.p1 /\ ~b.p2 /\ ~b.deleted
    <3>1. Lineage!Swept(b) = None
      BY <2>5, SweptLemma
    <3>2. old = None /\ new = None
      BY <2>4, <2>5 DEF HasOld, HasNew
    <3> QED
      BY <2>1, <2>4, <3>1, <3>2 DEF WasTrue, IsTrue
  <2>6. CASE b.p1 \/ b.p2 \/ b.deleted
    <3>1. Lineage!Swept(b) = b
      BY <2>6, SweptLemma
    <3>2. IsTrue(b, old, new)
      BY <2>4, <2>6, RowsLemma DEF IsTrue, HasOld, HasNew
    <3> QED
      BY <2>1, <2>4, <3>1, <3>2
  <2> QED
    BY <2>5, <2>6
<1> QED
  BY <1>1, <1>2

LEMMA ReconciledIsTrue ==
    ASSUME LineageInv, NEW id \in Ids
    PROVE  /\ Lineage!Reconciled(id) \in Lineage!LineageRows \cup {None}
           /\ WasTrue(Lineage!Reconciled(id), past[id])
           /\ IsTrue(Lineage!Reconciled(id), v1[id], v2[id])
<1>1. /\ lineage[id] \in Lineage!LineageRows \cup {None} /\ WasTrue(lineage[id], past[id])
      /\ past[id] \in SUBSET Lineage!Rows /\ v1[id] \in Lineage!Rows \cup {None}
      /\ v2[id] \in past[id] \cup {None}
  BY DEF LineageInv
<1>2. PICK w \in Lineage!LineageRows \cup {None} :
         /\ w = Lineage!WithV2(Lineage!WithV1(lineage[id], v1[id]), v2[id])
         /\ WasTrue(w, past[id]) /\ HasOld(w, v1[id]) /\ HasNew(w, v2[id])
  BY <1>1, WithLemma
<1>3. Lineage!Reconciled(id) = Lineage!Swept(Lineage!WithoutV2(Lineage!WithoutV1(w, v1[id]), v2[id]))
  BY <1>2 DEF Lineage!Reconciled
<1> QED
  BY <1>1, <1>2, <1>3, WithoutLemma

-----------------------------------------------------------------------------
(* Each step keeps the table's word and is one of LegacyConversations      *)

Gone == [id \in Ids |-> Lineage!Tombstone(lineage[id])]

LEMMA GoneLemma ==
    ASSUME lineage \in [Ids -> Lineage!LineageRows \cup {None}], NEW id \in Ids, NEW l,
           lineage' = [lineage EXCEPT ![id] = l]
    PROVE  /\ Gone' = [Gone EXCEPT ![id] = Lineage!Tombstone(l)]
           /\ Lineage!Tombstone(l) = Lineage!Tombstone(lineage[id]) => Gone' = Gone
BY DEF Gone

\* What the invariant says of one conversation.
LEMMA OneConversation ==
    ASSUME LineageInv, NEW id \in Ids
    PROVE  /\ lineage[id] \in Lineage!LineageRows \cup {None} /\ past[id] \in SUBSET Lineage!Rows
           /\ v1[id] \in Lineage!Rows \cup {None} /\ v2[id] \in past[id] \cup {None}
           /\ v2[id] \in Lineage!Rows \cup {None}
           /\ WasTrue(lineage[id], past[id]) /\ (Lineage!Ready => IsTrue(lineage[id], v1[id], v2[id]))
           /\ Gone[id] = Lineage!Tombstone(lineage[id]) /\ Gone[id] \in past[id] \cup {None}
           /\ Gone[id] \in Lineage!Rows \cup {None}
<1>1. /\ lineage[id] \in Lineage!LineageRows \cup {None} /\ past[id] \in SUBSET Lineage!Rows
      /\ v1[id] \in Lineage!Rows \cup {None} /\ v2[id] \in past[id] \cup {None}
      /\ v2[id] \in Lineage!Rows \cup {None}
      /\ WasTrue(lineage[id], past[id]) /\ (Lineage!Ready => IsTrue(lineage[id], v1[id], v2[id]))
      /\ Gone[id] = Lineage!Tombstone(lineage[id])
  BY DEF LineageInv, Gone
<1> QED
  BY <1>1, TombstoneLemma

\* The row of one conversation in the lineage table changes.
LEMMA RowChanges ==
    ASSUME LineageInv, NEW id \in Ids, NEW l \in Lineage!LineageRows \cup {None},
           lineage' = [lineage EXCEPT ![id] = l], UNCHANGED triggers,
           v1' \in [Ids -> Lineage!Rows \cup {None}], v2' \in [Ids -> Lineage!Rows \cup {None}],
           past' \in [Ids -> SUBSET Lineage!Rows],
           \A i \in Ids \ {id} : v1'[i] = v1[i] /\ v2'[i] = v2[i] /\ past'[i] = past[i],
           v2'[id] # None => v2'[id] \in past'[id],
           WasTrue(l, past'[id]), Lineage!Ready => IsTrue(l, v1'[id], v2'[id])
    PROVE  LineageInv'
<1>1. lineage' \in [Ids -> Lineage!LineageRows \cup {None}] /\ triggers' \in SUBSET Lineage!Tables /\ (Lineage!Ready' <=> Lineage!Ready)
  BY DEF LineageInv, Lineage!Ready
<1>2. \A i \in Ids : IF i = id THEN lineage'[i] = l ELSE lineage'[i] = lineage[i]
  BY DEF LineageInv
<1>3. \A i \in Ids : v2'[i] # None => v2'[i] \in past'[i]
  BY DEF LineageInv
<1>4. \A i \in Ids : WasTrue(lineage'[i], past'[i])
  BY <1>2 DEF LineageInv
<1>5. Lineage!Ready' => \A i \in Ids : IsTrue(lineage'[i], v1'[i], v2'[i])
  BY <1>1, <1>2 DEF LineageInv
<1> QED
  BY <1>1, <1>3, <1>4, <1>5 DEF LineageInv

LEMMA WriteV1Step ==
    ASSUME LineageInv, NEW id \in Ids, NEW row \in Lineage!Rows, Lineage!WriteV1(id, row)
    PROVE  LineageInv' /\ Lineage!Legacy!WriteOld(id, row)
<1> DEFINE l == IF "v1" \in triggers THEN Lineage!V1Written(lineage[id], row) ELSE lineage[id]
           noticed == IF Gone[id] # None /\ Lineage!Legacy!IsCopy(row, Gone[id]) THEN Gone[id] ELSE None
<1>1. /\ v1' = [v1 EXCEPT ![id] = row] /\ UNCHANGED <<v2, triggers, past>>
      /\ lineage' = [lineage EXCEPT ![id] = l]
  BY DEF Lineage!WriteV1, LineageInv
<1>2. /\ l \in Lineage!LineageRows \cup {None} /\ WasTrue(l, past[id])
      /\ Lineage!Ready => IsTrue(l, row, v2[id])
      /\ Lineage!Tombstone(l) = noticed \/ (~Lineage!Ready /\ Lineage!Tombstone(l) = Gone[id])
  <2>1. CASE "v1" \in triggers
    <3>1. /\ l \in Lineage!LineageRows /\ WasTrue(l, past[id])
          /\ Lineage!Tombstone(l) = noticed
      BY <2>1, OneConversation, V1WrittenKeeps
    <3>2. Lineage!Ready => IsTrue(l, row, v2[id])
      BY <2>1, OneConversation, V1WrittenIsTrue
    <3> QED
      BY <3>1, <3>2
  <2>2. CASE "v1" \notin triggers
    BY <2>2, OneConversation DEF Lineage!Ready, Lineage!Tables
  <2> QED
    BY <2>1, <2>2
<1> HIDE DEF l
<1>3. v1' \in [Ids -> Lineage!Rows \cup {None}] /\ v1'[id] = row /\ \A i \in Ids \ {id} : v1'[i] = v1[i]
  BY <1>1 DEF LineageInv
<1>4. LineageInv'
  <2>1. v2' \in [Ids -> Lineage!Rows \cup {None}] /\ past' \in [Ids -> SUBSET Lineage!Rows]
    BY <1>1 DEF LineageInv
  <2> QED
    BY <1>1, <1>2, <1>3, <2>1, OneConversation, RowChanges
<1>5. lineage \in [Ids -> Lineage!LineageRows \cup {None}]
  BY DEF LineageInv
<1>6. Gone' = [Gone EXCEPT ![id] = Lineage!Tombstone(l)] /\ (Lineage!Tombstone(l) = Gone[id] => Gone' = Gone)
  BY <1>1, <1>5, GoneLemma, OneConversation
<1>7. Gone' = [Gone EXCEPT ![id] = noticed] \/ (~Lineage!Ready /\ Gone' = Gone)
  BY <1>2, <1>6
<1>8. Lineage!Ready' <=> Lineage!Ready
  BY <1>1 DEF Lineage!Ready
<1> QED
  BY <1>1, <1>4, <1>7, <1>8 DEF Lineage!Legacy!WriteOld, Lineage!Legacy!Gone, Lineage!Legacy!Unnoticed, Gone

LEMMA RemoveV1Step ==
    ASSUME LineageInv, NEW id \in Ids, Lineage!RemoveV1(id)
    PROVE  LineageInv' /\ Lineage!Legacy!RemoveOld(id)
<1> DEFINE l == IF "v1" \in triggers THEN Lineage!V1Removed(lineage[id]) ELSE lineage[id]
<1>1. /\ v1[id] # None /\ v1' = [v1 EXCEPT ![id] = None] /\ UNCHANGED <<v2, triggers, past>>
      /\ lineage' = [lineage EXCEPT ![id] = l]
  BY DEF Lineage!RemoveV1, LineageInv
<1>2. /\ l \in Lineage!LineageRows \cup {None} /\ WasTrue(l, past[id])
      /\ Lineage!Ready => IsTrue(l, None, v2[id])
      /\ Lineage!Tombstone(l) = Lineage!Tombstone(lineage[id])
  <2>1. CASE "v1" \in triggers
    <3>1. v1[id] \in Lineage!Rows
      BY <1>1, OneConversation
    <3> QED
      BY <2>1, <3>1, OneConversation, V1RemovedKeeps
  <2>2. CASE "v1" \notin triggers
    BY <2>2, OneConversation DEF Lineage!Ready, Lineage!Tables
  <2> QED
    BY <2>1, <2>2
<1> HIDE DEF l
<1>3. v1' \in [Ids -> Lineage!Rows \cup {None}] /\ v1'[id] = None /\ \A i \in Ids \ {id} : v1'[i] = v1[i]
  BY <1>1 DEF LineageInv
<1>4. LineageInv'
  <2>1. v2' \in [Ids -> Lineage!Rows \cup {None}] /\ past' \in [Ids -> SUBSET Lineage!Rows]
    BY <1>1 DEF LineageInv
  <2> QED
    BY <1>1, <1>2, <1>3, <2>1, OneConversation, RowChanges
<1>5. lineage \in [Ids -> Lineage!LineageRows \cup {None}]
  BY DEF LineageInv
<1>6. Gone' = Gone
  BY <1>1, <1>2, <1>5, GoneLemma
<1>7. Lineage!Ready' <=> Lineage!Ready
  BY <1>1 DEF Lineage!Ready
<1> QED
  BY <1>1, <1>4, <1>6, <1>7 DEF Lineage!Legacy!RemoveOld, Gone

LEMMA WriteV2Step ==
    ASSUME LineageInv, NEW id \in Ids, NEW row \in Lineage!Rows, Lineage!WriteV2(id, row)
    PROVE  LineageInv' /\ Lineage!Legacy!WriteNew(id, row)
<1> DEFINE l == IF "v2" \notin triggers THEN lineage[id]
                ELSE IF v2[id] = None THEN Lineage!V2Written(lineage[id], row)
                ELSE Lineage!V2Updated(lineage[id], v2[id], row)
           copies == past[id] \cup {row}
<1>1. /\ v2' = [v2 EXCEPT ![id] = row] /\ past' = [past EXCEPT ![id] = copies] /\ UNCHANGED <<v1, triggers>>
      /\ lineage' = [lineage EXCEPT ![id] = l]
  BY DEF Lineage!WriteV2, LineageInv
<1>2. copies \in SUBSET Lineage!Rows /\ row \in copies
  BY OneConversation
<1>3. /\ l \in Lineage!LineageRows \cup {None} /\ WasTrue(l, copies)
      /\ Lineage!Ready => IsTrue(l, v1[id], row)
      /\ Lineage!Tombstone(l) = None \/ (~Lineage!Ready /\ Lineage!Tombstone(l) = Gone[id])
  <2>1. CASE "v2" \in triggers /\ v2[id] = None
    <3>1. l = Lineage!V2Written(lineage[id], row)
      BY <2>1
    <3> HIDE DEF l, copies
    <3>2. Lineage!Ready => IsTrue(l, v1[id], row)
      BY <3>1, OneConversation, V2WrittenKeeps
    <3>3. l \in Lineage!LineageRows /\ WasTrue(l, copies) /\ Lineage!Tombstone(l) = None
      BY <1>2, <3>1, OneConversation, V2WrittenKeeps
    <3> QED
      BY <3>2, <3>3
  <2>2. CASE "v2" \in triggers /\ v2[id] # None
    <3>1. v2[id] \in past[id]
      BY <2>2, OneConversation
    <3>2. Lineage!V2Removed(lineage[id], v2[id]) \in Lineage!LineageRows \cup {None}
      BY <3>1, OneConversation, V2RemovedKeeps
    <3>3. l = Lineage!V2Written(Lineage!V2Removed(lineage[id], v2[id]), row)
      BY <2>2 DEF Lineage!V2Updated
    <3>4. l \in Lineage!LineageRows /\ WasTrue(l, copies) /\ Lineage!Tombstone(l) = None
      BY <1>2, <3>2, <3>3, V2WrittenKeeps
    <3>5. \A old, new \in Lineage!Rows \cup {None} :
             IsTrue(Lineage!V2Removed(lineage[id], v2[id]), old, new) => IsTrue(l, old, row)
      BY <3>2, <3>3, V2WrittenKeeps
    <3>6. Lineage!Ready => IsTrue(Lineage!V2Removed(lineage[id], v2[id]), v1[id], None)
      BY <3>1, OneConversation, V2RemovedIsTrue
    <3>7. Lineage!Ready => IsTrue(l, v1[id], row)
      BY <3>5, <3>6, OneConversation
    <3> QED
      BY <3>4, <3>7
  <2>3. CASE "v2" \notin triggers
    <3>1. WasTrue(lineage[id], copies)
      BY OneConversation DEF WasTrue
    <3> QED
      BY <2>3, <3>1, OneConversation DEF Lineage!Ready, Lineage!Tables
  <2> QED
    BY <2>1, <2>2, <2>3
<1> HIDE DEF l
<1>4. /\ v2' \in [Ids -> Lineage!Rows \cup {None}] /\ v2'[id] = row
      /\ past' \in [Ids -> SUBSET Lineage!Rows] /\ past'[id] = copies
      /\ \A i \in Ids \ {id} : v2'[i] = v2[i] /\ past'[i] = past[i]
  BY <1>1, <1>2 DEF LineageInv
<1>5. LineageInv'
  <2>1. v1' \in [Ids -> Lineage!Rows \cup {None}]
    BY <1>1 DEF LineageInv
  <2> QED
    BY <1>1, <1>2, <1>3, <1>4, <2>1, OneConversation, RowChanges
<1>6. lineage \in [Ids -> Lineage!LineageRows \cup {None}]
  BY DEF LineageInv
<1>7. Gone' = [Gone EXCEPT ![id] = None] \/ (~Lineage!Ready /\ Gone' = Gone)
  <2>1. /\ Gone' = [Gone EXCEPT ![id] = Lineage!Tombstone(l)]
        /\ Lineage!Tombstone(l) = Gone[id] => Gone' = Gone
    BY <1>1, <1>6, GoneLemma, OneConversation
  <2> QED
    BY <1>3, <2>1
<1>8. Lineage!Ready' <=> Lineage!Ready
  BY <1>1 DEF Lineage!Ready
<1> QED
  BY <1>1, <1>5, <1>7, <1>8 DEF Lineage!Legacy!WriteNew, Lineage!Legacy!Gone, Lineage!Legacy!Unnoticed, Gone

LEMMA RemoveV2Step ==
    ASSUME LineageInv, NEW id \in Ids, Lineage!RemoveV2(id)
    PROVE  /\ LineageInv' /\ Lineage!Legacy!RemoveNew(id)
           /\ Lineage!Ready =>
                 Lineage!Tombstone(lineage'[id]) = IF Lineage!Legacy!Covers(v2[id], v1[id]) THEN v2[id] ELSE None
<1> DEFINE l == IF "v2" \in triggers THEN Lineage!V2Removed(lineage[id], v2[id]) ELSE lineage[id]
           covered == Lineage!Legacy!Covers(v2[id], v1[id])
<1>1. /\ v2[id] # None /\ v2' = [v2 EXCEPT ![id] = None] /\ UNCHANGED <<v1, triggers, past>>
      /\ lineage' = [lineage EXCEPT ![id] = l]
  BY DEF Lineage!RemoveV2, LineageInv
<1>2. /\ l \in Lineage!LineageRows \cup {None} /\ WasTrue(l, past[id])
      /\ Lineage!Ready => IsTrue(l, v1[id], None) /\ Lineage!Tombstone(l) = IF covered THEN v2[id] ELSE None
      /\ Lineage!Tombstone(l) \in {v2[id], None} \/ (~Lineage!Ready /\ Lineage!Tombstone(l) = Gone[id])
  <2>1. CASE "v2" \in triggers
    <3>1. v2[id] \in past[id] /\ v2[id] \in Lineage!Rows
      BY <1>1, OneConversation
    <3>2. /\ l \in Lineage!LineageRows \cup {None} /\ WasTrue(l, past[id])
          /\ Lineage!Tombstone(l) \in {v2[id], None}
      BY <2>1, <3>1, OneConversation, V2RemovedKeeps
    <3>3. Lineage!Ready => IsTrue(l, v1[id], None) /\ Lineage!Tombstone(l) = IF covered THEN v2[id] ELSE None
      BY <2>1, <3>1, OneConversation, V2RemovedIsTrue
    <3> QED
      BY <3>2, <3>3
  <2>2. CASE "v2" \notin triggers
    BY <2>2, OneConversation DEF Lineage!Ready, Lineage!Tables
  <2> QED
    BY <2>1, <2>2
<1> HIDE DEF l
<1>3. v2' \in [Ids -> Lineage!Rows \cup {None}] /\ v2'[id] = None /\ \A i \in Ids \ {id} : v2'[i] = v2[i]
  BY <1>1 DEF LineageInv
<1>4. LineageInv'
  <2>1. v1' \in [Ids -> Lineage!Rows \cup {None}] /\ past' \in [Ids -> SUBSET Lineage!Rows]
    BY <1>1 DEF LineageInv
  <2> QED
    BY <1>1, <1>2, <1>3, <2>1, OneConversation, RowChanges
<1>5. lineage \in [Ids -> Lineage!LineageRows \cup {None}]
  BY DEF LineageInv
<1>6. /\ Gone' = [Gone EXCEPT ![id] = Lineage!Tombstone(l)]
      /\ Lineage!Tombstone(l) = Gone[id] => Gone' = Gone
  BY <1>1, <1>5, GoneLemma, OneConversation
<1>7. Lineage!Ready' <=> Lineage!Ready
  BY <1>1 DEF Lineage!Ready
<1>8. \/ \E c \in {covered} \cup (IF Lineage!Ready THEN {} ELSE BOOLEAN) :
            Gone' = [Gone EXCEPT ![id] = IF c THEN v2[id] ELSE None]
      \/ ~Lineage!Ready /\ Gone' = Gone
  <2>1. CASE Lineage!Ready
    <3>1. Gone' = [Gone EXCEPT ![id] = IF covered THEN v2[id] ELSE None]
      BY <1>2, <1>6, <2>1
    <3>2. covered \in {covered} \cup (IF Lineage!Ready THEN {} ELSE BOOLEAN)
      OBVIOUS
    <3> HIDE DEF covered
    <3> QED
      BY <3>1, <3>2
  <2>2. CASE ~Lineage!Ready /\ Lineage!Tombstone(l) = v2[id]
    <3>1. TRUE \in {covered} \cup (IF Lineage!Ready THEN {} ELSE BOOLEAN)
      BY <2>2
    <3> QED
      BY <1>6, <2>2, <3>1
  <2>3. CASE ~Lineage!Ready /\ Lineage!Tombstone(l) = None
    <3>1. FALSE \in {covered} \cup (IF Lineage!Ready THEN {} ELSE BOOLEAN)
      BY <2>3
    <3> QED
      BY <1>6, <2>3, <3>1
  <2> QED
    BY <1>2, <1>6, <2>1, <2>2, <2>3
<1>9. lineage'[id] = l
  BY <1>1, <1>5
<1>10. Lineage!Legacy!RemoveNew(id)
  <2> HIDE DEF covered
  <2>1. [i \in Ids |-> Lineage!Tombstone(lineage[i])] = Gone /\ [i \in Ids |-> Lineage!Tombstone(lineage'[i])] = Gone'
    BY DEF Gone
  <2> QED
    BY <1>1, <1>7, <1>8, <2>1
       DEF Lineage!Legacy!RemoveNew, Lineage!Legacy!Gone, Lineage!Legacy!Unnoticed, covered
<1> QED
  BY <1>2, <1>4, <1>9, <1>10

LEMMA DeleteStep ==
    ASSUME LineageInv, NEW id \in Ids, Lineage!Delete(id)
    PROVE  LineageInv' /\ Lineage!Legacy!Remove(id)
<1>1. /\ Lineage!Ready /\ v1' = [v1 EXCEPT ![id] = None] /\ v2' = [v2 EXCEPT ![id] = None]
      /\ lineage' = [lineage EXCEPT ![id] = None] /\ UNCHANGED <<triggers, past>>
  BY DEF Lineage!Delete
<1>2. /\ v1' \in [Ids -> Lineage!Rows \cup {None}] /\ v2' \in [Ids -> Lineage!Rows \cup {None}]
      /\ past' \in [Ids -> SUBSET Lineage!Rows] /\ v1'[id] = None /\ v2'[id] = None
      /\ \A i \in Ids \ {id} : v1'[i] = v1[i] /\ v2'[i] = v2[i] /\ past'[i] = past[i]
  BY <1>1 DEF LineageInv
<1>3. WasTrue(None, past'[id]) /\ IsTrue(None, v1'[id], v2'[id])
  BY <1>2 DEF WasTrue, IsTrue
<1>4. LineageInv'
  BY <1>1, <1>2, <1>3, RowChanges
<1>5. lineage \in [Ids -> Lineage!LineageRows \cup {None}]
  BY DEF LineageInv
<1>6. Lineage!Tombstone(None) = None
  BY DEF Lineage!Tombstone
<1>7. Gone' = [Gone EXCEPT ![id] = None]
  BY <1>1, <1>5, <1>6, GoneLemma
<1>8. Lineage!Ready'
  BY <1>1 DEF Lineage!Ready
<1> QED
  BY <1>1, <1>4, <1>7, <1>8 DEF Lineage!Legacy!Remove, Lineage!Legacy!Gone, Gone

LEMMA MigrateStep ==
    ASSUME LineageInv, NEW table \in Lineage!Tables, Lineage!Migrate(table)
    PROVE  LineageInv' /\ Lineage!Legacy!Lose
<1>1. UNCHANGED <<v1, v2, lineage, past>> /\ triggers' = triggers \ {table}
  BY DEF Lineage!Migrate
<1>2. ~Lineage!Ready'
  BY <1>1 DEF Lineage!Ready
<1>3. LineageInv'
  BY <1>1, <1>2 DEF LineageInv
<1>4. Gone' = Gone
  BY <1>1 DEF Gone
<1> QED
  BY <1>1, <1>2, <1>3, <1>4 DEF Lineage!Legacy!Lose, Gone

\* A row that is true has a tombstone for what is removed only.
LEMMA TrueTombstone ==
    ASSUME NEW l \in Lineage!LineageRows \cup {None}, NEW copies \in SUBSET Lineage!Rows, WasTrue(l, copies),
           NEW old \in Lineage!Rows \cup {None}, NEW new \in copies \cup {None}, IsTrue(l, old, new),
           Lineage!Tombstone(l) # None
    PROVE  /\ Lineage!Tombstone(l) \in copies /\ new = None
           /\ old # None => Lineage!Legacy!IsCopy(old, Lineage!Tombstone(l))
<1>1. l # None /\ l.deleted /\ Lineage!Tombstone(l) \in copies
  BY TombstoneLemma
<1> QED
  BY <1>1 DEF WasTrue, IsTrue

LEMMA ReconcileStep ==
    ASSUME LineageInv, Lineage!Reconcile
    PROVE  LineageInv' /\ Lineage!Legacy!Look
<1>1. triggers' = Lineage!Tables /\ Lineage!Ready' /\ lineage' = [id \in Ids |-> Lineage!Reconciled(id)] /\ UNCHANGED <<v1, v2, past>>
  BY DEF Lineage!Reconcile, Lineage!Ready
<1>2. \A id \in Ids : /\ lineage'[id] = Lineage!Reconciled(id)
                      /\ lineage'[id] \in Lineage!LineageRows \cup {None}
                      /\ WasTrue(lineage'[id], past[id]) /\ IsTrue(lineage'[id], v1[id], v2[id])
  BY <1>1, ReconciledIsTrue
<1>3. lineage' \in [Ids -> Lineage!LineageRows \cup {None}]
  BY <1>1, <1>2
<1>4. LineageInv'
  BY <1>1, <1>2, <1>3 DEF LineageInv
<1>5. ASSUME NEW id \in Ids
      PROVE  /\ Gone'[id] \in Lineage!Rows \cup {None}
             /\ Gone'[id] # None =>
                   /\ Gone'[id] \in past[id] /\ v2[id] = None
                   /\ v1[id] # None => Lineage!Legacy!IsCopy(v1[id], Gone'[id])
  <2>1. Gone'[id] = Lineage!Tombstone(lineage'[id])
    BY DEF Gone
  <2>2. past[id] \in SUBSET Lineage!Rows /\ v1[id] \in Lineage!Rows \cup {None} /\ v2[id] \in past[id] \cup {None}
    BY OneConversation
  <2> QED
    BY <1>2, <2>1, <2>2, TombstoneLemma, TrueTombstone
<1>6. Gone' = [id \in Ids |-> Gone'[id]]
  BY DEF Gone
<1>7. Gone' \in [Ids -> Lineage!Rows \cup {None}]
  BY <1>5, <1>6
<1>8. Lineage!Legacy!Sound(Gone')
  BY <1>5 DEF Lineage!Legacy!Sound
<1> QED
  BY <1>1, <1>4, <1>7, <1>8, RowsLemma DEF Lineage!Legacy!Look, Gone

\* The table before the server's first look, also a previous version's.
LEMMA PreviousLemma ==
    ASSUME NEW id \in Ids, past[id] \in SUBSET Lineage!Rows,
           v1[id] \in Lineage!Rows \cup {None}, v2[id] \in past[id] \cup {None},
           NEW l \in Lineage!Previous(id)
    PROVE  /\ l \in Lineage!LineageRows \cup {None} /\ WasTrue(l, past[id])
           /\ Lineage!Tombstone(l) # None =>
                 v2[id] = None /\ (v1[id] # None => Lineage!Legacy!IsCopy(v1[id], Lineage!Tombstone(l)))
<1> DEFINE old == v1[id]
           new == v2[id]
           kept == [c1 |-> IF old = None THEN None ELSE old.created,
                    u1 |-> IF old = None THEN None ELSE old.updated,
                    c2 |-> None, u2 |-> IF new = None THEN None ELSE new.updated,
                    p1 |-> old # None, p2 |-> new # None, deleted |-> FALSE]
<1>1. CASE l = None
  BY <1>1 DEF WasTrue, Lineage!Tombstone
<1>2. CASE l = kept
  <2>1. kept \in Lineage!LineageRows
    BY RowsLemma DEF Lineage!LineageRows
  <2>2. ~kept.deleted /\ kept.c2 = None
    OBVIOUS
  <2> HIDE DEF kept
  <2> QED
    BY <1>2, <2>1, <2>2 DEF WasTrue, Lineage!Tombstone
<1>3. CASE \E r \in past[id] :
              /\ l = [kept EXCEPT !.u2 = r.updated, !.deleted = TRUE]
              /\ old # None /\ new = None /\ r.created = old.created /\ old.updated <= r.updated
  <2>1. PICK r \in past[id] :
              /\ l = [kept EXCEPT !.u2 = r.updated, !.deleted = TRUE]
              /\ old # None /\ new = None /\ r.created = old.created /\ old.updated <= r.updated
    BY <1>3
  <2>2. /\ r \in Lineage!Rows /\ old \in Lineage!Rows /\ r = [created |-> r.created, updated |-> r.updated]
        /\ r.created \in Times /\ r.updated \in Times /\ old.created \in Times /\ old.updated \in Times
    BY <2>1, RowsLemma
  <2>3. l = [c1 |-> old.created, u1 |-> old.updated, c2 |-> None, u2 |-> r.updated,
             p1 |-> TRUE, p2 |-> FALSE, deleted |-> TRUE]
    BY <2>1
  <2>4. /\ l \in Lineage!LineageRows /\ l.c1 = r.created /\ l.u2 = r.updated
        /\ l.deleted = TRUE /\ l.p2 = FALSE
    BY <2>1, <2>2, <2>3 DEF Lineage!LineageRows
  <2>5. Lineage!Tombstone(l) = r
    BY <2>2, <2>4, RowsLemma DEF Lineage!Tombstone
  <2>6. WasTrue(l, past[id])
    BY <2>1, <2>4, <2>5 DEF WasTrue
  <2>7. Lineage!Legacy!IsCopy(old, r)
    BY <2>1 DEF Lineage!Legacy!IsCopy
  <2> QED
    BY <2>1, <2>4, <2>5, <2>6, <2>7
<1>4. \/ l = None \/ l = kept
      \/ \E r \in past[id] :
              /\ l = [kept EXCEPT !.u2 = r.updated, !.deleted = TRUE]
              /\ old # None /\ new = None /\ r.created = old.created /\ old.updated <= r.updated
  BY DEF Lineage!Previous
<1> QED
  BY <1>1, <1>2, <1>3, <1>4

LEMMA LineageInitial == Lineage!Init => LineageInv /\ Lineage!Legacy!Init
<1> SUFFICES ASSUME Lineage!Init PROVE LineageInv /\ Lineage!Legacy!Init
  OBVIOUS
<1>1. /\ v1 \in [Ids -> Lineage!Rows \cup {None}] /\ v2 \in [Ids -> Lineage!Rows \cup {None}]
      /\ past \in [Ids -> SUBSET Lineage!Rows] /\ triggers = {} /\ ~Lineage!Ready
      /\ \A id \in Ids : v2[id] # None => v2[id] \in past[id]
  BY DEF Lineage!Init, Lineage!Ready, Lineage!Tables
<1>2. \/ lineage = [id \in Ids |-> None]
      \/ /\ lineage \in [Ids -> UNION {Lineage!Previous(id) : id \in Ids}]
         /\ \A id \in Ids : lineage[id] \in Lineage!Previous(id)
  BY DEF Lineage!Init
<1>3. lineage = [id \in Ids |-> lineage[id]]
  BY <1>2
<1>4. ASSUME NEW id \in Ids
      PROVE  /\ lineage[id] \in Lineage!LineageRows \cup {None} /\ WasTrue(lineage[id], past[id])
             /\ Lineage!Tombstone(lineage[id]) # None =>
                   /\ v2[id] = None
                   /\ v1[id] # None => Lineage!Legacy!IsCopy(v1[id], Lineage!Tombstone(lineage[id]))
  <2>1. CASE lineage[id] = None
    BY <2>1 DEF WasTrue, Lineage!Tombstone
  <2>2. CASE lineage[id] \in Lineage!Previous(id)
    <3>1. past[id] \in SUBSET Lineage!Rows /\ v1[id] \in Lineage!Rows \cup {None} /\ v2[id] \in past[id] \cup {None}
      BY <1>1
    <3> QED
      BY <2>2, <3>1, PreviousLemma
  <2> QED
    BY <1>2, <2>1, <2>2
<1>5. lineage \in [Ids -> Lineage!LineageRows \cup {None}]
  BY <1>3, <1>4
<1>6. LineageInv
  BY <1>1, <1>4, <1>5 DEF LineageInv
<1>7. \A id \in Ids : Gone[id] \in Lineage!Rows \cup {None} /\ Gone[id] \in past[id] \cup {None}
                      /\ Gone[id] = Lineage!Tombstone(lineage[id])
  BY <1>6, OneConversation
<1>8. Gone \in [Ids -> Lineage!Rows \cup {None}]
  BY <1>7 DEF Gone
<1>9. Lineage!Legacy!Sound(Gone)
  BY <1>4, <1>7 DEF Lineage!Legacy!Sound
<1> QED
  BY <1>1, <1>6, <1>8, <1>9, RowsLemma DEF Lineage!Legacy!Init, Gone

LEMMA LineageStep ==
    ASSUME LineageInv, Lineage!Next
    PROVE  LineageInv' /\ Lineage!Legacy!Next
<1>1. CASE \E id \in Ids, row \in Lineage!Rows : Lineage!WriteV1(id, row)
  BY <1>1, WriteV1Step, RowsLemma DEF Lineage!Legacy!Next
<1>2. CASE \E id \in Ids, row \in Lineage!Rows : Lineage!WriteV2(id, row)
  BY <1>2, WriteV2Step, RowsLemma DEF Lineage!Legacy!Next
<1>3. CASE \E id \in Ids : Lineage!RemoveV1(id)
  BY <1>3, RemoveV1Step DEF Lineage!Legacy!Next
<1>4. CASE \E id \in Ids : Lineage!RemoveV2(id)
  BY <1>4, RemoveV2Step DEF Lineage!Legacy!Next
<1>5. CASE \E id \in Ids : Lineage!Delete(id)
  BY <1>5, DeleteStep DEF Lineage!Legacy!Next
<1>6. CASE \E table \in Lineage!Tables : Lineage!Migrate(table)
  BY <1>6, MigrateStep DEF Lineage!Legacy!Next
<1>7. CASE Lineage!Reconcile
  BY <1>7, ReconcileStep DEF Lineage!Legacy!Next
<1> QED
  BY <1>1, <1>2, <1>3, <1>4, <1>5, <1>6, <1>7 DEF Lineage!Next

LEMMA LineageHistoryStep ==
    ASSUME LineageInv, [HistoryNext]_allVars
    PROVE  LineageInv' /\ [Lineage!Legacy!Next]_(Lineage!Legacy!vars)
<1>1. CASE UNCHANGED lineageVars
  <2>1. LineageInv'
    BY <1>1 DEF lineageVars, LineageInv, Lineage!Ready
  <2>2. UNCHANGED Lineage!Legacy!vars
    BY <1>1 DEF lineageVars, Lineage!Legacy!vars, Lineage!Ready
  <2> QED
    BY <2>1, <2>2
<1>2. CASE Lineage!Next
  BY <1>2, LineageStep
<1> QED
  BY <1>1, <1>2 DEF HistoryNext, allVars

\* A row of the lineage table is never wrong about what was once so, and not
\* about what is so while all the triggers are there (history/opencode.rs).
THEOREM LineageInductive == HistorySpec => []LineageInv
<1>1. HistoryInit => LineageInv
  BY LineageInitial DEF HistoryInit
<1>2. LineageInv /\ [HistoryNext]_allVars => LineageInv'
  BY LineageHistoryStep
<1> QED
  BY <1>1, <1>2, PTL DEF HistorySpec

\* What a removal of a copy hides.
LEMMA RemovalHides ==
    ASSUME LineageInv, [HistoryNext]_allVars, NEW id \in Ids, Lineage!Ready, v2[id] # None, v2'[id] = None
    PROVE  \/ Lineage!Shown(id)' = None
           \/ Lineage!Shown(id)' = v1[id] /\ ~Lineage!Legacy!IsCopy(v1[id], v2[id])
<1>1. v1 \in [Ids -> Lineage!Rows \cup {None}] /\ v2 \in [Ids -> Lineage!Rows \cup {None}]
  BY DEF LineageInv
<1>2. Lineage!Next
  BY DEF HistoryNext, allVars, lineageVars
<1>3. Lineage!RemoveV2(id) \/ Lineage!Delete(id)
  <2>1. ASSUME NEW i \in Ids, NEW row \in Lineage!Rows, Lineage!WriteV2(i, row) PROVE FALSE
    BY <1>1, <2>1, RowsLemma DEF Lineage!WriteV2
  <2>2. ASSUME NEW i \in Ids, Lineage!RemoveV2(i) \/ Lineage!Delete(i), i # id PROVE FALSE
    BY <1>1, <2>2 DEF Lineage!RemoveV2, Lineage!Delete
  <2>3. v2' # v2
    OBVIOUS
  <2> QED
    BY <1>2, <2>1, <2>2, <2>3
       DEF Lineage!Next, Lineage!WriteV1, Lineage!RemoveV1, Lineage!Migrate, Lineage!Reconcile
<1>4. CASE Lineage!Delete(id)
  <2>1. v1'[id] = None
    BY <1>1, <1>4 DEF Lineage!Delete
  <2> QED
    BY <2>1 DEF Lineage!Shown
<1>5. CASE Lineage!RemoveV2(id)
  <2>1. /\ LineageInv'
        /\ Lineage!Tombstone(lineage'[id]) = IF Lineage!Legacy!Covers(v2[id], v1[id]) THEN v2[id] ELSE None
    BY <1>5, RemoveV2Step
  <2>2. v1'[id] = v1[id] /\ Lineage!Ready'
    BY <1>5 DEF Lineage!RemoveV2, Lineage!Ready
  <2>3. CASE v1[id] = None
    BY <2>2, <2>3 DEF Lineage!Shown
  <2>4. CASE v1[id] # None
    <3>1. IsTrue(lineage'[id], v1[id], None) /\ lineage'[id] \in Lineage!LineageRows \cup {None}
      BY <2>1, <2>2 DEF LineageInv
    <3>2. Lineage!Tombstone(lineage'[id]) = IF Lineage!Legacy!IsCopy(v1[id], v2[id]) THEN v2[id] ELSE None
      BY <2>1, <2>4 DEF Lineage!Legacy!Covers
    <3>3. Lineage!Hidden(id)' <=> lineage'[id].deleted
      BY <2>2, <2>4, <3>1 DEF Lineage!Hidden, IsTrue
    <3>4. lineage'[id].deleted <=> Lineage!Tombstone(lineage'[id]) # None
      BY <2>4, <3>1, RowsLemma, <2>1, TombstoneLemma DEF IsTrue, LineageInv
    <3> QED
      BY <2>2, <2>4, <3>2, <3>3, <3>4 DEF Lineage!Shown
  <2> QED
    BY <2>3, <2>4
<1> QED
  BY <1>3, <1>4, <1>5

\* The table does for each of the two versions' conversations what a user
\* expects of it, hides the remains of removed copies only, and hides them
\* (history/opencode.rs).
THEOREM LineageKept == HistorySpec => LineageIsKept
<1>1. HistoryInit => Lineage!Legacy!Init
  BY LineageInitial DEF HistoryInit
<1>2. LineageInv /\ [HistoryNext]_allVars => [Lineage!Legacy!Next]_(Lineage!Legacy!vars)
  BY LineageHistoryStep
<1>3. HistorySpec => Lineage!ImplementsLegacyConversations
  BY <1>1, <1>2, LineageInductive, PTL
     DEF HistorySpec, Lineage!ImplementsLegacyConversations, Lineage!Legacy!Spec
<1>4. LineageInv => (Lineage!Ready => Lineage!HiddenIsRemoved)
  <2> SUFFICES ASSUME LineageInv, Lineage!Ready, NEW id \in Ids, Lineage!Hidden(id)
               PROVE  v2[id] = None /\ \E copy \in past[id] : Lineage!Legacy!IsCopy(v1[id], copy)
    BY DEF Lineage!HiddenIsRemoved
  <2>1. /\ v1[id] # None /\ lineage[id] # None /\ lineage[id].deleted
    BY DEF Lineage!Hidden
  <2>2. Lineage!Tombstone(lineage[id]) # None
    BY <2>1, OneConversation, TombstoneLemma
  <2> QED
    BY <2>1, <2>2, OneConversation, TrueTombstone
<1>5. LineageInv /\ [HistoryNext]_allVars =>
        [\A id \in Ids : Lineage!Ready /\ v2[id] # None /\ v2'[id] = None =>
            \/ Lineage!Shown(id)' = None
            \/ Lineage!Shown(id)' = v1[id] /\ ~Lineage!Legacy!IsCopy(v1[id], v2[id])]_(Lineage!vars)
  BY RemovalHides
<1>6. HistorySpec => Lineage!RemovedIsHidden
  BY <1>5, LineageInductive, PTL DEF HistorySpec, Lineage!RemovedIsHidden
<1>7. HistorySpec => [](Lineage!Ready => Lineage!HiddenIsRemoved)
  BY <1>4, LineageInductive, PTL
<1> QED
  BY <1>3, <1>6, <1>7 DEF LineageIsKept, Lineage!LineageIsKept
=============================================================================
