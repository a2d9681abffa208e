----------------------- MODULE SessionLifecycle_proofs -----------------------
(***************************************************************************)
(* Proofs about SessionLifecycle, for any number of terminals, agents and  *)
(* restarts.  What the safety invariants say while the workspace lock is   *)
(* free is extended here to every place its holder can be at: which        *)
(* session may lack a row, or have one too many, at which step.            *)
(***************************************************************************)
EXTENDS SessionLifecycle, TLAPS

\* A session that was never forked is nowhere, only a reaped child is reported,
\* and a registered session without a waiter is the one being started.
ProcessFacts ==
    /\ \A s \in Sessions :
          child[s] = "none" => waiter[s] = "none" /\ s \notin registry \cup members
    /\ \A s \in Sessions :
          waiter[s] \in {"reported", "unlisting", "done"} => child[s] = "reaped"
    /\ \A s \in registry : waiter[s] = "none" => holder = "starting" /\ subject = s

\* What the holder of the lock knows of its subject and of its locals.
HolderKnows ==
    /\ holder \in {"spawned", "starting", "aborting"} =>
          /\ subject \in Sessions
          /\ child[subject] # "none" /\ waiter[subject] = "none"
          /\ subject \notin members
          /\ holder # "starting" => subject \notin registry
    /\ holder = "unlisting" =>
          /\ subject \in Sessions \ registry
          /\ subject \in Terminals => termination[subject] # "no"
    /\ holder = "unregistering" => subject \notin members
    /\ holder = "exiting" => subject \in Sessions \ registry /\ waiter[subject] = "unlisting"
    /\ holder \in {"attaching", "listing"} => Eligible \subseteq chosen
    /\ holder \in {"attaching", "listing", "grouping"} => chosen \subseteq registry
    /\ holder = "emptying" => chosen \cap members = {}
    /\ holder # "emptying" => removed = {}

\* A shutdown awaits every session that is registered or terminating, and
\* nothing survives the server.
ServerFacts ==
    /\ phase \in {"draining", "drained", "timedOut"} =>
          registry \cup terminating \subseteq awaited
    /\ phase = "drained" => \A s \in awaited : waiter[s] = "done"
    /\ phase = "down" =>
          /\ holder = "free"
          /\ registry = {} /\ terminating = {} /\ doomed = {}
          /\ \A s \in Sessions : child[s] \notin {"running", "exited"}

\* Rows and registry agree but for what the holder is at.
RowsAccounted ==
    /\ \A s \in members : \/ s \in registry \cup stale
                          \/ subject = s /\ holder \in {"unlisting", "exiting"}
    /\ \A s \in Eligible :
          \/ s \in members \cup interrupted
          \/ /\ subject = s
             /\ holder \in {"starting", "checking", "snapshotting", "attaching",
                            "discarding", "unregistering"}
          \/ holder = "emptying" /\ s \in chosen

Inv == /\ TypeOK
       /\ ProcessFacts
       /\ HolderKnows
       /\ ServerFacts
       /\ Ownership
       /\ RowsAccounted

\* Every step keeps the invariant.
LEMMA Step ==
    ASSUME Inv, [Next]_vars
    PROVE  Inv'
<1> USE DEF Sessions, Alive, Running, Live, Eligible, ProcessTypeOK, Hold, Release, NoRows,
            processVars, lockVars, serverVars
<1>1. ASSUME NEW s \in Sessions, Spawn(s) PROVE Inv'
  <2>1. TypeOK'
    BY <1>1 DEF Inv, TypeOK, Steps, Spawn, Fork
  <2>2. ProcessFacts'
    BY <1>1 DEF Inv, ProcessFacts, Spawn, Fork
  <2>3. HolderKnows'
    BY <1>1 DEF Inv, HolderKnows, TypeOK, ProcessFacts, Spawn, Fork
  <2>4. ServerFacts'
    BY <1>1 DEF Inv, ServerFacts, Spawn, Fork
  <2>5. Ownership'
    BY <1>1 DEF Inv, Ownership, HolderKnows, LiveAgentsAreOwned, TerminatingAgentsEnd,
       UnlistedSessionsAreStopped, Starting, Spawn, Fork
  <2>6. RowsAccounted'
    BY <1>1 DEF Inv, RowsAccounted, Spawn, Fork
  <2> QED  BY <2>1, <2>2, <2>3, <2>4, <2>5, <2>6 DEF Inv
<1>2. ASSUME NEW s \in Sessions, Insert(s) PROVE Inv'
  <2>1. TypeOK'
    BY <1>2 DEF Inv, TypeOK, Steps, Insert
  <2>2. ProcessFacts'
    BY <1>2 DEF Inv, ProcessFacts, HolderKnows, Insert
  <2>3. HolderKnows'
    BY <1>2 DEF Inv, HolderKnows, Insert
  <2>4. ServerFacts'
    BY <1>2 DEF Inv, ServerFacts, Insert
  <2>5. Ownership'
    BY <1>2 DEF Inv, Ownership, HolderKnows, LiveAgentsAreOwned, TerminatingAgentsEnd,
       UnlistedSessionsAreStopped, Starting, Insert
  <2>6. RowsAccounted'
    BY <1>2 DEF Inv, RowsAccounted, Insert
  <2> QED  BY <2>1, <2>2, <2>3, <2>4, <2>5, <2>6 DEF Inv
<1>3. ASSUME NEW s \in Sessions, StartFails(s) PROVE Inv'
  <2>1. TypeOK'
    BY <1>3 DEF Inv, TypeOK, Steps, StartFails, Forget
  <2>2. ProcessFacts'
    BY <1>3 DEF Inv, ProcessFacts, StartFails, Forget
  <2>3. HolderKnows'
    BY <1>3 DEF Inv, HolderKnows, StartFails, Forget
  <2>4. ServerFacts'
    BY <1>3 DEF Inv, ServerFacts, StartFails, Forget
  <2>5. Ownership'
    BY <1>3 DEF Inv, Ownership, HolderKnows, LiveAgentsAreOwned, TerminatingAgentsEnd,
       UnlistedSessionsAreStopped, Starting, StartFails, Forget
  <2>6. RowsAccounted'
    BY <1>3 DEF Inv, RowsAccounted, HolderKnows, StartFails, Forget
  <2> QED  BY <2>1, <2>2, <2>3, <2>4, <2>5, <2>6 DEF Inv
<1>4. ASSUME NEW s \in Sessions, Abort(s) PROVE Inv'
  <2>1. TypeOK'
    BY <1>4 DEF Inv, TypeOK, Steps, Abort, DropChild
  <2>2. ProcessFacts'
    BY <1>4 DEF Inv, ProcessFacts, Abort, DropChild
  <2>3. HolderKnows'
    BY <1>4 DEF Inv, HolderKnows, Abort, DropChild
  <2>4. ServerFacts'
    BY <1>4 DEF Inv, ServerFacts, Abort, DropChild
  <2>5. Ownership'
    BY <1>4 DEF Inv, Ownership, TypeOK, HolderKnows, LiveAgentsAreOwned,
       TerminatingAgentsEnd, UnlistedSessionsAreStopped, Starting, Abort, DropChild
  <2>6. RowsAccounted'
    BY <1>4 DEF Inv, RowsAccounted, Abort, DropChild
  <2> QED  BY <2>1, <2>2, <2>3, <2>4, <2>5, <2>6 DEF Inv
<1>5. ASSUME NEW s \in Sessions, Start(s) PROVE Inv'
  <2>1. TypeOK'
    BY <1>5 DEF Inv, TypeOK, Steps, Start, StartWaiter
  <2>2. ProcessFacts'
    BY <1>5 DEF Inv, ProcessFacts, TypeOK, HolderKnows, Start, StartWaiter
  <2>3. HolderKnows'
    BY <1>5 DEF Inv, HolderKnows, Start, StartWaiter
  <2>4. ServerFacts'
    BY <1>5 DEF Inv, ServerFacts, HolderKnows, Start, StartWaiter
  <2>5. Ownership'
    BY <1>5 DEF Inv, Ownership, HolderKnows, LiveAgentsAreOwned, TerminatingAgentsEnd,
       UnlistedSessionsAreStopped, Starting, Start, StartWaiter
  <2>6. RowsAccounted'
    BY <1>5 DEF Inv, RowsAccounted, Start, StartWaiter
  <2> QED  BY <2>1, <2>2, <2>3, <2>4, <2>5, <2>6 DEF Inv
<1>6. ASSUME NEW s \in Sessions, CheckLive(s) PROVE Inv'
  <2>1. TypeOK'
    BY <1>6 DEF Inv, TypeOK, Steps, CheckLive
  <2>2. ProcessFacts'
    BY <1>6 DEF Inv, ProcessFacts, CheckLive
  <2>3. HolderKnows'
    BY <1>6 DEF Inv, HolderKnows, CheckLive
  <2>4. ServerFacts'
    BY <1>6 DEF Inv, ServerFacts, CheckLive
  <2>5. Ownership'
    BY <1>6 DEF Inv, Ownership, HolderKnows, LiveAgentsAreOwned, TerminatingAgentsEnd,
       UnlistedSessionsAreStopped, Starting, CheckLive
  <2>6. RowsAccounted'
    BY <1>6 DEF Inv, RowsAccounted, CheckLive
  <2> QED  BY <2>1, <2>2, <2>3, <2>4, <2>5, <2>6 DEF Inv
<1>7. ASSUME NEW s \in Sessions, Snapshot(s) PROVE Inv'
  <2>1. TypeOK'
    BY <1>7 DEF Inv, TypeOK, Steps, Snapshot
  <2>2. ProcessFacts'
    BY <1>7 DEF Inv, ProcessFacts, Snapshot
  <2>3. HolderKnows'
    BY <1>7 DEF Inv, HolderKnows, Snapshot
  <2>4. ServerFacts'
    BY <1>7 DEF Inv, ServerFacts, Snapshot
  <2>5. Ownership'
    BY <1>7 DEF Inv, Ownership, HolderKnows, LiveAgentsAreOwned, TerminatingAgentsEnd,
       UnlistedSessionsAreStopped, Starting, Snapshot
  <2>6. RowsAccounted'
    BY <1>7 DEF Inv, RowsAccounted, Snapshot
  <2> QED  BY <2>1, <2>2, <2>3, <2>4, <2>5, <2>6 DEF Inv
<1>8. ASSUME NEW s \in Sessions, Attach(s) PROVE Inv'
  <2>1. TypeOK'
    BY <1>8 DEF Inv, TypeOK, Steps, Attach, Reconcile
  <2>2. ProcessFacts'
    BY <1>8 DEF Inv, ProcessFacts, HolderKnows, Attach, Reconcile
  <2>3. HolderKnows'
    BY <1>8 DEF Inv, HolderKnows, Attach, Reconcile
  <2>4. ServerFacts'
    BY <1>8 DEF Inv, ServerFacts, Attach, Reconcile
  <2>5. Ownership'
    BY <1>8 DEF Inv, Ownership, HolderKnows, LiveAgentsAreOwned, TerminatingAgentsEnd,
       UnlistedSessionsAreStopped, Starting, Attach, Reconcile
  <2>6. RowsAccounted'
    BY <1>8 DEF Inv, RowsAccounted, HolderKnows, Attach, Reconcile
  <2> QED  BY <2>1, <2>2, <2>3, <2>4, <2>5, <2>6 DEF Inv
<1>9. ASSUME NEW s \in Sessions, AttachDropped(s) PROVE Inv'
  <2>1. TypeOK'
    BY <1>9 DEF Inv, TypeOK, Steps, AttachDropped, Reconcile
  <2>2. ProcessFacts'
    BY <1>9 DEF Inv, ProcessFacts, HolderKnows, AttachDropped, Reconcile
  <2>3. HolderKnows'
    BY <1>9 DEF Inv, HolderKnows, AttachDropped, Reconcile
  <2>4. ServerFacts'
    BY <1>9 DEF Inv, ServerFacts, AttachDropped, Reconcile
  <2>5. Ownership'
    BY <1>9 DEF Inv, Ownership, HolderKnows, LiveAgentsAreOwned, TerminatingAgentsEnd,
       UnlistedSessionsAreStopped, Starting, AttachDropped, Reconcile
  <2>6. RowsAccounted'
    BY <1>9 DEF Inv, RowsAccounted, HolderKnows, AttachDropped, Reconcile
  <2> QED  BY <2>1, <2>2, <2>3, <2>4, <2>5, <2>6 DEF Inv
<1>10. ASSUME NEW s \in Sessions, Discard(s) PROVE Inv'
  <2>1. TypeOK'
    BY <1>10 DEF Inv, TypeOK, Steps, Discard, Terminated, Unregister
  <2>2. ProcessFacts'
    BY <1>10 DEF Inv, ProcessFacts, Discard, Terminated, Unregister
  <2>3. HolderKnows'
    BY <1>10 DEF Inv, HolderKnows, Discard, Terminated, Unregister
  <2>4. ServerFacts'
    BY <1>10 DEF Inv, ServerFacts, Discard, Terminated, Unregister
  <2>5. Ownership'
    BY <1>10 DEF Inv, Ownership, TypeOK, ProcessFacts, HolderKnows, LiveAgentsAreOwned,
       TerminatingAgentsEnd, UnlistedSessionsAreStopped, Starting, Discard, Terminated,
       Unregister
  <2>6. RowsAccounted'
    BY <1>10 DEF Inv, RowsAccounted, Discard, Terminated, Unregister
  <2> QED  BY <2>1, <2>2, <2>3, <2>4, <2>5, <2>6 DEF Inv
<1>11. ASSUME NEW s \in Sessions, Unlist(s) PROVE Inv'
  <2>1. TypeOK'
    BY <1>11 DEF Inv, TypeOK, Steps, Unlist, RemoveRowIfPossible, StoreRows, Terminated
  <2>2. ProcessFacts'
    BY <1>11 DEF Inv, ProcessFacts, Unlist, RemoveRowIfPossible, StoreRows, Terminated
  <2>3. HolderKnows'
    BY <1>11 DEF Inv, HolderKnows, Unlist, RemoveRowIfPossible, StoreRows, Terminated
  <2>4. ServerFacts'
    BY <1>11 DEF Inv, ServerFacts, Unlist, RemoveRowIfPossible, StoreRows, Terminated
  <2>5. Ownership'
    BY <1>11 DEF Inv, Ownership, HolderKnows, LiveAgentsAreOwned, TerminatingAgentsEnd,
       UnlistedSessionsAreStopped, Starting, Unlist, RemoveRowIfPossible, StoreRows,
       Terminated
  <2>6. RowsAccounted'
    BY <1>11 DEF Inv, RowsAccounted, HolderKnows, Unlist, RemoveRowIfPossible,
       StoreRows, Terminated
  <2> QED  BY <2>1, <2>2, <2>3, <2>4, <2>5, <2>6 DEF Inv
<1>12. ASSUME NEW s \in Sessions, UnlistDropped(s) PROVE Inv'
  <2>1. TypeOK'
    BY <1>12 DEF Inv, TypeOK, Steps, UnlistDropped, RemoveRowIfPossible, StoreRows
  <2>2. ProcessFacts'
    BY <1>12 DEF Inv, ProcessFacts, UnlistDropped, RemoveRowIfPossible, StoreRows
  <2>3. HolderKnows'
    BY <1>12 DEF Inv, HolderKnows, UnlistDropped, RemoveRowIfPossible, StoreRows
  <2>4. ServerFacts'
    BY <1>12 DEF Inv, ServerFacts, UnlistDropped, RemoveRowIfPossible, StoreRows
  <2>5. Ownership'
    BY <1>12 DEF Inv, Ownership, HolderKnows, LiveAgentsAreOwned, TerminatingAgentsEnd,
       UnlistedSessionsAreStopped, Starting, UnlistDropped, RemoveRowIfPossible,
       StoreRows
  <2>6. RowsAccounted'
    BY <1>12 DEF Inv, RowsAccounted, HolderKnows, UnlistDropped, RemoveRowIfPossible,
       StoreRows
  <2> QED  BY <2>1, <2>2, <2>3, <2>4, <2>5, <2>6 DEF Inv
<1>13. ASSUME NEW s \in Sessions, BeginRemove(s) PROVE Inv'
  <2>1. TypeOK'
    BY <1>13 DEF Inv, TypeOK, Steps, BeginRemove
  <2>2. ProcessFacts'
    BY <1>13 DEF Inv, ProcessFacts, BeginRemove
  <2>3. HolderKnows'
    BY <1>13 DEF Inv, HolderKnows, BeginRemove
  <2>4. ServerFacts'
    BY <1>13 DEF Inv, ServerFacts, BeginRemove
  <2>5. Ownership'
    BY <1>13 DEF Inv, Ownership, HolderKnows, LiveAgentsAreOwned, TerminatingAgentsEnd,
       UnlistedSessionsAreStopped, Starting, BeginRemove
  <2>6. RowsAccounted'
    BY <1>13 DEF Inv, RowsAccounted, BeginRemove
  <2> QED  BY <2>1, <2>2, <2>3, <2>4, <2>5, <2>6 DEF Inv
<1>14. ASSUME NEW s \in Sessions, RemoveRow(s) PROVE Inv'
  <2>1. TypeOK'
    BY <1>14 DEF Inv, TypeOK, Steps, RemoveRow, DroppedDeleting, StoreRows
  <2>2. ProcessFacts'
    BY <1>14 DEF Inv, ProcessFacts, RemoveRow, DroppedDeleting, StoreRows
  <2>3. HolderKnows'
    BY <1>14 DEF Inv, HolderKnows, RemoveRow, DroppedDeleting, StoreRows
  <2>4. ServerFacts'
    BY <1>14 DEF Inv, ServerFacts, RemoveRow, DroppedDeleting, StoreRows
  <2>5. Ownership'
    BY <1>14 DEF Inv, Ownership, HolderKnows, LiveAgentsAreOwned, TerminatingAgentsEnd,
       UnlistedSessionsAreStopped, Starting, RemoveRow, DroppedDeleting, StoreRows
  <2>6. RowsAccounted'
    BY <1>14 DEF Inv, RowsAccounted, RemoveRow, DroppedDeleting, StoreRows
  <2> QED  BY <2>1, <2>2, <2>3, <2>4, <2>5, <2>6 DEF Inv
<1>15. ASSUME NEW s \in Sessions, Remove(s) PROVE Inv'
  <2>1. TypeOK'
    BY <1>15 DEF Inv, TypeOK, Steps, Remove, Unregister
  <2>2. ProcessFacts'
    BY <1>15 DEF Inv, ProcessFacts, Remove, Unregister
  <2>3. HolderKnows'
    BY <1>15 DEF Inv, HolderKnows, Remove, Unregister
  <2>4. ServerFacts'
    BY <1>15 DEF Inv, ServerFacts, Remove, Unregister
  <2>5. Ownership'
    BY <1>15 DEF Inv, Ownership, TypeOK, ProcessFacts, HolderKnows, LiveAgentsAreOwned,
       TerminatingAgentsEnd, UnlistedSessionsAreStopped, Starting, Remove, Unregister
  <2>6. RowsAccounted'
    BY <1>15 DEF Inv, RowsAccounted, HolderKnows, Remove, Unregister
  <2> QED  BY <2>1, <2>2, <2>3, <2>4, <2>5, <2>6 DEF Inv
<1>16. ASSUME NEW s \in Sessions, Empty(s) PROVE Inv'
  <2>1. TypeOK'
    BY <1>16 DEF Inv, TypeOK, Empty, Unregister
  <2>2. ProcessFacts'
    BY <1>16 DEF Inv, ProcessFacts, Empty, Unregister
  <2>3. HolderKnows'
    BY <1>16 DEF Inv, HolderKnows, Empty, Unregister
  <2>4. ServerFacts'
    BY <1>16 DEF Inv, ServerFacts, Empty, Unregister
  <2>5. Ownership'
    BY <1>16 DEF Inv, Ownership, TypeOK, ProcessFacts, LiveAgentsAreOwned,
       TerminatingAgentsEnd, UnlistedSessionsAreStopped, Starting, Empty, Unregister
  <2>6. RowsAccounted'
    BY <1>16 DEF Inv, RowsAccounted, HolderKnows, Empty, Unregister
  <2> QED  BY <2>1, <2>2, <2>3, <2>4, <2>5, <2>6 DEF Inv
<1>17. ASSUME NEW s \in Sessions, Terminate(s) PROVE Inv'
  <2>1. TypeOK'
    BY <1>17 DEF Inv, TypeOK, Terminate, Terminated
  <2>2. HolderKnows'
    BY <1>17 DEF Inv, HolderKnows, Terminate, Terminated
  <2>3. ServerFacts'
    BY <1>17 DEF Inv, ServerFacts, Terminate, Terminated
  <2>4. Ownership'
    BY <1>17, KindsAssumption DEF Inv, Ownership, TypeOK, ProcessFacts, HolderKnows,
       ServerFacts, LiveAgentsAreOwned, TerminatingAgentsEnd,
       UnlistedSessionsAreStopped, Starting, Terminate, Terminated
  <2>5. ProcessFacts' /\ RowsAccounted'
    BY <1>17 DEF Inv, ProcessFacts, RowsAccounted, Terminate, Terminated
  <2> QED  BY <2>1, <2>2, <2>3, <2>4, <2>5 DEF Inv
<1>18. ASSUME NEW s \in Sessions, Exits(s) PROVE Inv'
  <2>1. TypeOK'
    BY <1>18 DEF Inv, TypeOK, Exits, ChildExits
  <2>2. ProcessFacts'
    BY <1>18 DEF Inv, ProcessFacts, Exits, ChildExits
  <2>3. HolderKnows'
    BY <1>18 DEF Inv, HolderKnows, Exits, ChildExits
  <2>4. ServerFacts'
    BY <1>18 DEF Inv, ServerFacts, Exits, ChildExits
  <2>5. Ownership'
    BY <1>18 DEF Inv, Ownership, LiveAgentsAreOwned, TerminatingAgentsEnd,
       UnlistedSessionsAreStopped, Starting, Exits, ChildExits
  <2>6. RowsAccounted'
    BY <1>18 DEF Inv, RowsAccounted, Exits, ChildExits
  <2> QED  BY <2>1, <2>2, <2>3, <2>4, <2>5, <2>6 DEF Inv
<1>19. ASSUME NEW s \in Sessions, Reports(s) PROVE Inv'
  <2>1. TypeOK'
    BY <1>19 DEF Inv, TypeOK, Reports, ReportExit
  <2>2. ProcessFacts'
    BY <1>19 DEF Inv, ProcessFacts, TypeOK, Reports, ReportExit
  <2>3. HolderKnows'
    BY <1>19 DEF Inv, HolderKnows, Reports, ReportExit
  <2>4. ServerFacts'
    BY <1>19 DEF Inv, ServerFacts, Reports, ReportExit
  <2>5. Ownership'
    BY <1>19 DEF Inv, Ownership, TypeOK, LiveAgentsAreOwned, TerminatingAgentsEnd,
       UnlistedSessionsAreStopped, Starting, Reports, ReportExit
  <2>6. RowsAccounted'
    BY <1>19 DEF Inv, RowsAccounted, Reports, ReportExit
  <2> QED  BY <2>1, <2>2, <2>3, <2>4, <2>5, <2>6 DEF Inv
<1>20. ASSUME NEW s \in Sessions, Kills(s) PROVE Inv'
  <2>1. TypeOK'
    BY <1>20 DEF Inv, TypeOK, Kills, Kill
  <2>2. ProcessFacts'
    BY <1>20 DEF Inv, ProcessFacts, Kills, Kill
  <2>3. HolderKnows'
    BY <1>20 DEF Inv, HolderKnows, Kills, Kill
  <2>4. ServerFacts'
    BY <1>20 DEF Inv, ServerFacts, Kills, Kill
  <2>5. Ownership'
    BY <1>20 DEF Inv, Ownership, LiveAgentsAreOwned, TerminatingAgentsEnd,
       UnlistedSessionsAreStopped, Starting, Kills, Kill
  <2>6. RowsAccounted'
    BY <1>20 DEF Inv, RowsAccounted, Kills, Kill
  <2> QED  BY <2>1, <2>2, <2>3, <2>4, <2>5, <2>6 DEF Inv
<1>21. ASSUME NEW s \in Sessions, BeginExit(s) PROVE Inv'
  <2>1. TypeOK'
    BY <1>21 DEF Inv, TypeOK, Steps, BeginExit, Forget
  <2>2. ProcessFacts'
    BY <1>21 DEF Inv, ProcessFacts, BeginExit, Forget
  <2>3. HolderKnows'
    BY <1>21 DEF Inv, HolderKnows, TypeOK, BeginExit, Forget
  <2>4. ServerFacts'
    BY <1>21 DEF Inv, ServerFacts, BeginExit, Forget
  <2>5. Ownership'
    BY <1>21 DEF Inv, Ownership, ProcessFacts, HolderKnows, LiveAgentsAreOwned,
       TerminatingAgentsEnd, UnlistedSessionsAreStopped, Starting, BeginExit, Forget
  <2>6. RowsAccounted'
    BY <1>21 DEF Inv, RowsAccounted, BeginExit, Forget
  <2> QED  BY <2>1, <2>2, <2>3, <2>4, <2>5, <2>6 DEF Inv
<1>22. ASSUME NEW s \in Sessions, EndExit(s) PROVE Inv'
  <2>1. TypeOK'
    BY <1>22 DEF Inv, TypeOK, Steps, EndExit, RemoveRowIfPossible, StoreRows
  <2>2. ProcessFacts'
    BY <1>22 DEF Inv, ProcessFacts, HolderKnows, EndExit, RemoveRowIfPossible, StoreRows
  <2>3. HolderKnows'
    BY <1>22 DEF Inv, HolderKnows, EndExit, RemoveRowIfPossible, StoreRows
  <2>4. ServerFacts'
    BY <1>22 DEF Inv, ServerFacts, EndExit, RemoveRowIfPossible, StoreRows
  <2>5. Ownership'
    BY <1>22 DEF Inv, Ownership, HolderKnows, LiveAgentsAreOwned, TerminatingAgentsEnd,
       UnlistedSessionsAreStopped, Starting, EndExit, RemoveRowIfPossible, StoreRows
  <2>6. RowsAccounted'
    BY <1>22 DEF Inv, RowsAccounted, HolderKnows, EndExit, RemoveRowIfPossible,
       StoreRows
  <2> QED  BY <2>1, <2>2, <2>3, <2>4, <2>5, <2>6 DEF Inv
<1>23. ASSUME BeginList PROVE Inv'
  <2>1. TypeOK'
    BY <1>23 DEF Inv, TypeOK, Steps, BeginList
  <2>2. ProcessFacts'
    BY <1>23 DEF Inv, ProcessFacts, BeginList
  <2>3. HolderKnows'
    BY <1>23 DEF Inv, HolderKnows, BeginList
  <2>4. ServerFacts'
    BY <1>23 DEF Inv, ServerFacts, BeginList
  <2>5. Ownership'
    BY <1>23 DEF Inv, Ownership, HolderKnows, LiveAgentsAreOwned, TerminatingAgentsEnd,
       UnlistedSessionsAreStopped, Starting, BeginList
  <2>6. RowsAccounted'
    BY <1>23 DEF Inv, RowsAccounted, BeginList
  <2> QED  BY <2>1, <2>2, <2>3, <2>4, <2>5, <2>6 DEF Inv
<1>24. ASSUME List PROVE Inv'
  <2>1. TypeOK'
    BY <1>24 DEF Inv, TypeOK, Steps, List, Reconcile
  <2>2. ProcessFacts'
    BY <1>24 DEF Inv, ProcessFacts, HolderKnows, List, Reconcile
  <2>3. HolderKnows'
    BY <1>24 DEF Inv, HolderKnows, List, Reconcile
  <2>4. ServerFacts'
    BY <1>24 DEF Inv, ServerFacts, List, Reconcile
  <2>5. Ownership'
    BY <1>24 DEF Inv, Ownership, HolderKnows, LiveAgentsAreOwned, TerminatingAgentsEnd,
       UnlistedSessionsAreStopped, Starting, List, Reconcile
  <2>6. RowsAccounted'
    BY <1>24 DEF Inv, RowsAccounted, HolderKnows, List, Reconcile
  <2> QED  BY <2>1, <2>2, <2>3, <2>4, <2>5, <2>6 DEF Inv
<1>25. ASSUME BeginGroup PROVE Inv'
  <2>1. TypeOK'
    BY <1>25 DEF Inv, TypeOK, Steps, BeginGroup
  <2>2. ProcessFacts'
    BY <1>25 DEF Inv, ProcessFacts, BeginGroup
  <2>3. HolderKnows'
    BY <1>25 DEF Inv, HolderKnows, BeginGroup
  <2>4. ServerFacts'
    BY <1>25 DEF Inv, ServerFacts, BeginGroup
  <2>5. Ownership'
    BY <1>25 DEF Inv, Ownership, HolderKnows, LiveAgentsAreOwned, TerminatingAgentsEnd,
       UnlistedSessionsAreStopped, Starting, BeginGroup
  <2>6. RowsAccounted'
    BY <1>25 DEF Inv, RowsAccounted, BeginGroup
  <2> QED  BY <2>1, <2>2, <2>3, <2>4, <2>5, <2>6 DEF Inv
<1>26. ASSUME Group PROVE Inv'
  <2>1. TypeOK'
    BY <1>26 DEF Inv, TypeOK, Steps, Group, StoreRows
  <2>2. ProcessFacts'
    BY <1>26 DEF Inv, ProcessFacts, HolderKnows, Group, StoreRows
  <2>3. HolderKnows'
    BY <1>26 DEF Inv, HolderKnows, Group, StoreRows
  <2>4. ServerFacts'
    BY <1>26 DEF Inv, ServerFacts, Group, StoreRows
  <2>5. Ownership'
    BY <1>26 DEF Inv, Ownership, HolderKnows, LiveAgentsAreOwned, TerminatingAgentsEnd,
       UnlistedSessionsAreStopped, Starting, Group, StoreRows
  <2>6. RowsAccounted'
    BY <1>26 DEF Inv, RowsAccounted, HolderKnows, Group, StoreRows
  <2> QED  BY <2>1, <2>2, <2>3, <2>4, <2>5, <2>6 DEF Inv
<1>27. ASSUME BeginDelete PROVE Inv'
  <2>1. TypeOK'
    BY <1>27 DEF Inv, TypeOK, Steps, BeginDelete
  <2>2. ProcessFacts'
    BY <1>27 DEF Inv, ProcessFacts, BeginDelete
  <2>3. HolderKnows'
    BY <1>27 DEF Inv, HolderKnows, BeginDelete
  <2>4. ServerFacts'
    BY <1>27 DEF Inv, ServerFacts, BeginDelete
  <2>5. Ownership'
    BY <1>27 DEF Inv, Ownership, HolderKnows, LiveAgentsAreOwned, TerminatingAgentsEnd,
       UnlistedSessionsAreStopped, Starting, BeginDelete
  <2>6. RowsAccounted'
    BY <1>27 DEF Inv, RowsAccounted, BeginDelete
  <2> QED  BY <2>1, <2>2, <2>3, <2>4, <2>5, <2>6 DEF Inv
<1>28. ASSUME DeleteRows PROVE Inv'
  <2>1. TypeOK'
    BY <1>28 DEF Inv, TypeOK, Steps, DeleteRows, DroppedDeleting, StoreRows
  <2>2. ProcessFacts'
    BY <1>28 DEF Inv, ProcessFacts, DeleteRows, DroppedDeleting, StoreRows
  <2>3. HolderKnows'
    BY <1>28 DEF Inv, HolderKnows, DeleteRows, DroppedDeleting, StoreRows
  <2>4. ServerFacts'
    BY <1>28 DEF Inv, ServerFacts, DeleteRows, DroppedDeleting, StoreRows
  <2>5. Ownership'
    BY <1>28 DEF Inv, Ownership, HolderKnows, LiveAgentsAreOwned, TerminatingAgentsEnd,
       UnlistedSessionsAreStopped, Starting, DeleteRows, DroppedDeleting, StoreRows
  <2>6. RowsAccounted'
    BY <1>28 DEF Inv, RowsAccounted, DeleteRows, DroppedDeleting, StoreRows
  <2> QED  BY <2>1, <2>2, <2>3, <2>4, <2>5, <2>6 DEF Inv
<1>29. ASSUME EndDelete PROVE Inv'
  <2>1. TypeOK'
    BY <1>29 DEF Inv, TypeOK, Steps, EndDelete
  <2>2. ProcessFacts'
    BY <1>29 DEF Inv, ProcessFacts, EndDelete
  <2>3. HolderKnows'
    BY <1>29 DEF Inv, HolderKnows, EndDelete
  <2>4. ServerFacts'
    BY <1>29 DEF Inv, ServerFacts, EndDelete
  <2>5. Ownership'
    BY <1>29 DEF Inv, Ownership, LiveAgentsAreOwned, TerminatingAgentsEnd,
       UnlistedSessionsAreStopped, Starting, EndDelete
  <2>6. RowsAccounted'
    BY <1>29 DEF Inv, RowsAccounted, EndDelete
  <2> QED  BY <2>1, <2>2, <2>3, <2>4, <2>5, <2>6 DEF Inv
<1>30. ASSUME BeginShutdown PROVE Inv'
  <2>1. TypeOK'
    BY <1>30 DEF Inv, TypeOK, BeginShutdown
  <2>2. ServerFacts'
    BY <1>30 DEF Inv, ServerFacts, BeginShutdown
  <2>3. Ownership'
    BY <1>30, KindsAssumption DEF Inv, Ownership, TypeOK, ProcessFacts, HolderKnows,
       ServerFacts, LiveAgentsAreOwned, TerminatingAgentsEnd,
       UnlistedSessionsAreStopped, Starting, BeginShutdown
  <2>4. ProcessFacts' /\ HolderKnows' /\ RowsAccounted'
    BY <1>30 DEF Inv, ProcessFacts, HolderKnows, RowsAccounted, BeginShutdown
  <2> QED  BY <2>1, <2>2, <2>3, <2>4 DEF Inv
<1>31. ASSUME EndDrain PROVE Inv'
  <2>1. TypeOK'
    BY <1>31 DEF Inv, TypeOK, EndDrain
  <2>2. ServerFacts'
    BY <1>31 DEF Inv, ServerFacts, EndDrain
  <2>3. Ownership'
    BY <1>31, KindsAssumption DEF Inv, Ownership, TypeOK, ProcessFacts, HolderKnows,
       ServerFacts, LiveAgentsAreOwned, TerminatingAgentsEnd,
       UnlistedSessionsAreStopped, Starting, EndDrain
  <2>4. ProcessFacts' /\ HolderKnows' /\ RowsAccounted'
    BY <1>31 DEF Inv, ProcessFacts, HolderKnows, RowsAccounted, EndDrain
  <2> QED  BY <2>1, <2>2, <2>3, <2>4 DEF Inv
<1>32. ASSUME ServerExit PROVE Inv'
  <2>1. TypeOK'
    BY <1>32 DEF Inv, TypeOK, Steps, ServerExit, ServerGone, Stop
  <2>2. ProcessFacts'
    BY <1>32 DEF Inv, ProcessFacts, ServerExit, ServerGone, Stop
  <2>3. HolderKnows'
    BY <1>32 DEF Inv, HolderKnows, ServerExit, ServerGone, Stop
  <2>4. ServerFacts'
    BY <1>32 DEF Inv, ServerFacts, ServerExit, ServerGone, Stop
  <2>5. Ownership'
    BY <1>32 DEF Inv, Ownership, LiveAgentsAreOwned, TerminatingAgentsEnd,
       UnlistedSessionsAreStopped, Starting, ServerExit, ServerGone, Stop
  <2>6. RowsAccounted'
    BY <1>32 DEF Inv, RowsAccounted, ServerExit, ServerGone, Stop
  <2> QED  BY <2>1, <2>2, <2>3, <2>4, <2>5, <2>6 DEF Inv
<1>33. ASSUME Crash PROVE Inv'
  <2>1. TypeOK'
    BY <1>33 DEF Inv, TypeOK, Steps, Crash, ServerGone, Stop
  <2>2. ProcessFacts'
    BY <1>33 DEF Inv, ProcessFacts, Crash, ServerGone, Stop
  <2>3. HolderKnows'
    BY <1>33 DEF Inv, HolderKnows, Crash, ServerGone, Stop
  <2>4. ServerFacts'
    BY <1>33 DEF Inv, ServerFacts, Crash, ServerGone, Stop
  <2>5. Ownership'
    BY <1>33 DEF Inv, Ownership, LiveAgentsAreOwned, TerminatingAgentsEnd,
       UnlistedSessionsAreStopped, Starting, Crash, ServerGone, Stop
  <2>6. RowsAccounted'
    BY <1>33 DEF Inv, RowsAccounted, Crash, ServerGone, Stop
  <2> QED  BY <2>1, <2>2, <2>3, <2>4, <2>5, <2>6 DEF Inv
<1>34. ASSUME Restart PROVE Inv'
  <2>1. TypeOK'
    BY <1>34, RestartsAssumption DEF Inv, TypeOK, Restart
  <2>2. ServerFacts'
    BY <1>34 DEF Inv, ServerFacts, Restart
  <2>3. Ownership'
    BY <1>34, KindsAssumption DEF Inv, Ownership, TypeOK, ProcessFacts, HolderKnows,
       ServerFacts, LiveAgentsAreOwned, TerminatingAgentsEnd,
       UnlistedSessionsAreStopped, Starting, Restart
  <2>4. ProcessFacts' /\ HolderKnows' /\ RowsAccounted'
    BY <1>34 DEF Inv, ProcessFacts, HolderKnows, RowsAccounted, Restart
  <2> QED  BY <2>1, <2>2, <2>3, <2>4 DEF Inv
<1>35. ASSUME UNCHANGED vars PROVE Inv'
  BY <1>35 DEF Inv, vars, TypeOK, ProcessFacts, HolderKnows, ServerFacts, Ownership,
     RowsAccounted, LiveAgentsAreOwned, TerminatingAgentsEnd,
     UnlistedSessionsAreStopped, Starting
<1> QED
  BY <1>1, <1>2, <1>3, <1>4, <1>5, <1>6, <1>7, <1>8, <1>9, <1>10, <1>11, <1>12, <1>13,
     <1>14, <1>15, <1>16, <1>17, <1>18, <1>19, <1>20, <1>21, <1>22, <1>23, <1>24, <1>25,
     <1>26, <1>27, <1>28, <1>29, <1>30, <1>31, <1>32, <1>33, <1>34, <1>35 DEF Next,
     Workspaces, Server, Creates, Removes, Ends

\* The initial state satisfies the invariant.
LEMMA InitInv == Init => Inv
  BY RestartsAssumption
  DEF Init, ProcessInit, Inv, TypeOK, ProcessTypeOK, Steps, ProcessFacts, HolderKnows,
      ServerFacts, Ownership, RowsAccounted, LiveAgentsAreOwned, TerminatingAgentsEnd,
      UnlistedSessionsAreStopped, Eligible, Sessions

\* Every reachable state satisfies the invariant.
THEOREM Inductive == Spec => []Inv
  BY InitInv, Step, PTL DEF Spec

\* The state keeps its type.
THEOREM TypeCorrect == Spec => []TypeOK
  BY Inductive, PTL DEF Inv

\* However many agents exit while handlers run, a row that outlives its
\* session is one the database or a restart left.
THEOREM RowsBelong == Spec => []RowsBelongToSessions
<1>1. Inv => RowsBelongToSessions
  BY DEF Inv, RowsAccounted, RowsBelongToSessions
<1> QED
  BY <1>1, Inductive, PTL

\* No interleaving of handlers loses the row of a session that is listed.
THEOREM SessionsHaveRows == Spec => []EligibleSessionsHaveRows
<1>1. Inv => EligibleSessionsHaveRows
  BY DEF Inv, RowsAccounted, EligibleSessionsHaveRows
<1> QED
  BY <1>1, Inductive, PTL

\* An agent whose child is not reaped counts as active, terminating agents have
\* a waiter that will return, and a session removed while it runs is on its way
\* to be terminated.
THEOREM ProcessesAreOwned == Spec => []Ownership
  BY Inductive, PTL DEF Inv

(***************************************************************************)
(* A clean exit leaves no agent running.  An agent with a live child would *)
(* be registered or terminating, since no handler is at work; the shutdown *)
(* awaited all of those, so its waiter is done and its child was reaped.   *)
(***************************************************************************)
THEOREM CleanExit == Spec => CleanExitLeavesNoAgent
<1>1. ASSUME Inv, phase = "drained", ServerExit, NEW a \in Agents
      PROVE  child[a] \notin {"running", "exited"}
  <2> SUFFICES ASSUME child[a] \in {"running", "exited"} PROVE FALSE
    OBVIOUS
  <2>1. a \in registry \cup terminating
    BY <1>1 DEF Inv, Ownership, LiveAgentsAreOwned, Starting, ServerExit, Alive
  <2>2. waiter[a] = "done"
    BY <1>1, <2>1 DEF Inv, ServerFacts
  <2>3. child[a] = "reaped"
    BY <1>1, <2>2 DEF Inv, ProcessFacts, Sessions
  <2> QED
    BY <2>3
<1>2. Inv /\ [Next]_vars =>
        [phase = "drained" /\ ServerExit =>
            \A a \in Agents : child[a] \notin {"running", "exited"}]_vars
  BY <1>1
<1> QED
  BY <1>2, Inductive, PTL DEF Spec, CleanExitLeavesNoAgent

\* Whoever creates, removes and shuts down, no agent is without an owner, and a
\* clean exit leaves none.
THEOREM AgentsStay == Spec => AgentsStayOwned
  BY ProcessesAreOwned, CleanExit, PTL DEF AgentsStayOwned
=============================================================================
