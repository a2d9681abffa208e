-------------------------- MODULE SessionLifecycle --------------------------
(***************************************************************************)
(* Sessions from creation to removal: the SessionRegistry                  *)
(* (state/sessions.rs), the rows of workspace_sessions (workspace.rs), the *)
(* handlers that create, remove, group and list sessions while they hold   *)
(* the workspace_lifecycle mutex (terminal.rs, agent/api.rs,               *)
(* workspace.rs), the exit cleanup an agent's waiter thread runs under the *)
(* same mutex (state/mod.rs), and the shutdown of the server (server.rs).  *)
(*                                                                         *)
(* The mutex lets one of them run at a time, so the holder's place is kept *)
(* in `holder` and its locals in `subject`, `chosen` and `removed`.  A     *)
(* step ends where the code awaits the database or releases a lock.  A     *)
(* handler whose client goes away is dropped at such an await: the mutex   *)
(* is released, and a transaction in flight may or may not have committed. *)
(* Workspaces themselves are abstracted to their rows: deleting one        *)
(* deletes any set of rows.                                                *)
(***************************************************************************)
EXTENDS SessionProcess

CONSTANT MaxRestarts    \* bound: how often a stopped server starts again

ASSUME RestartsAssumption == MaxRestarts \in Nat

VARIABLES
    registry,       \* RegistryState.sessions
    terminating,    \* RegistryState.terminating_agents
    members,        \* sessions with a row in workspace_sessions
    holder,         \* where the holder of workspace_lifecycle is
    subject,        \* the session it works on
    chosen,         \* its eligible snapshot, or the members left to remove
    removed,        \* the sessions it removed, to be terminated after unlock
    doomed,         \* sessions some thread is about to terminate()
    phase,          \* the server: "up", shutting down, or "down"
    awaited,        \* the sessions shutdown_all collected
    restarts,
    stale,          \* history: rows of unregistered sessions that nobody removed
    interrupted,    \* history: sessions a dropped handler left without a row
    abandoned       \* history: agents a dropped handler removed but never terminated

lockVars    == <<holder, subject, chosen, removed>>
historyVars == <<stale, interrupted, abandoned>>
serverVars  == <<phase, awaited, restarts>>
vars == <<child, waiter, termination, registry, terminating, members, holder, subject,
          chosen, removed, doomed, phase, awaited, restarts, stale, interrupted, abandoned>>

Steps == {"free", "spawned", "aborting", "starting", "checking", "snapshotting",
          "attaching", "verifying", "discarding", "unlisting", "removing",
          "unregistering", "deleting", "emptying", "listing", "grouping", "exiting"}

TypeOK ==
    /\ ProcessTypeOK
    /\ registry \subseteq Sessions
    /\ terminating \subseteq Agents
    /\ members \subseteq Sessions
    /\ holder \in Steps
    /\ subject \in Sessions \cup {NoSession}
    /\ chosen \subseteq Sessions
    /\ removed \subseteq Sessions
    /\ doomed \subseteq Sessions
    /\ phase \in {"up", "draining", "drained", "timedOut", "down"}
    /\ awaited \subseteq Sessions
    /\ restarts \in 0..MaxRestarts
    /\ stale \subseteq Sessions
    /\ interrupted \subseteq Sessions
    /\ abandoned \subseteq Agents

Init ==
    /\ ProcessInit
    /\ registry = {} /\ terminating = {} /\ members = {}
    /\ holder = "free" /\ subject = NoSession /\ chosen = {} /\ removed = {}
    /\ doomed = {}
    /\ phase = "up" /\ awaited = {} /\ restarts = 0
    /\ stale = {} /\ interrupted = {} /\ abandoned = {}

---------------------------------------------------------------------------
(* Helpers *)

\* is_live, of a registered agent.
Live(s) == s \in registry /\ Running(s)

\* workspace_snapshot
Eligible == {s \in registry : s \in Terminals \/ Live(s)}

Alive == phase # "down"

\* The holder goes on to step h, for session s, with sets c and r.
Hold(h, s, c, r) == holder' = h /\ subject' = s /\ chosen' = c /\ removed' = r

Release == Hold("free", NoSession, {}, {})

\* SessionRegistry::remove: a live agent stays owned until its waiter is done.
Unregister(s) ==
    /\ registry' = registry \ {s}
    /\ terminating' = IF s \in Agents /\ Live(s) THEN terminating \cup {s} ELSE terminating

\* remove_if_same
Forget(s) == registry' = registry \ {s} /\ terminating' = terminating \ {s}

\* The rows become R: what is left of the history sets follows.
StoreRows(R) ==
    /\ members' = R
    /\ stale' = stale \cap R
    /\ interrupted' = interrupted \ R

\* reconcile_transaction with the eligible set R: rows of ineligible sessions
\* go, unowned eligible sessions get a workspace of their own.
Reconcile(R) ==
    /\ members' = R
    /\ stale' = stale \cap R
    /\ interrupted' = {}

\* remove_member with its result ignored.
RemoveRowIfPossible(s) ==
    \/ StoreRows(members \ {s})
    \/ stale' = stale \cup ({s} \cap members) /\ UNCHANGED <<members, interrupted>>

\* The handler is dropped while a transaction that deletes the rows D runs;
\* it may have committed, and registered sessions are left without a row.
DroppedDeleting(D) ==
    \E T \in {members, members \ D} :
        /\ members' = T
        /\ stale' = stale \cap T
        /\ interrupted' = interrupted \cup ((members \ T) \cap registry)

NoRows == UNCHANGED <<members, stale, interrupted>>

---------------------------------------------------------------------------
(* Creating a session: terminal.rs and agent/api.rs create, and            *)
(* Session::spawn_inner                                                    *)

\* The lock is taken, the request is valid, and the child is forked.
Spawn(s) ==
    /\ Alive /\ holder = "free"
    /\ Fork(s)
    /\ Hold("spawned", s, {}, {})
    /\ NoRows
    /\ UNCHANGED <<registry, terminating, doomed, serverVars, abandoned>>

\* SessionRegistry::insert, refused once the registry is shutting down.
Insert(s) ==
    /\ holder = "spawned" /\ subject = s
    /\ \/ /\ phase = "up"
          /\ registry' = registry \cup {s}
          /\ Hold("starting", s, {}, {})
       \/ /\ phase # "up"
          /\ UNCHANGED registry
          /\ Hold("aborting", s, {}, {})
    /\ NoRows
    /\ UNCHANGED <<processVars, terminating, doomed, serverVars, abandoned>>

\* A thread could not be started: the session leaves the registry again.
StartFails(s) ==
    /\ holder = "starting" /\ subject = s
    /\ Forget(s)
    /\ Hold("aborting", s, {}, {})
    /\ NoRows
    /\ UNCHANGED <<processVars, doomed, serverVars, abandoned>>

Abort(s) ==
    /\ holder = "aborting" /\ subject = s
    /\ DropChild(s)
    /\ Release
    /\ NoRows
    /\ UNCHANGED <<registry, terminating, doomed, serverVars, abandoned>>

Start(s) ==
    /\ holder = "starting" /\ subject = s
    /\ StartWaiter(s)
    /\ Hold(IF s \in Agents THEN "checking" ELSE "snapshotting", s, {}, {})
    /\ NoRows
    /\ UNCHANGED <<registry, terminating, doomed, serverVars, abandoned>>

\* created_session_inner: an agent must be live before its row is written,
\* and still live once it is.
CheckLive(s) ==
    /\ holder \in {"checking", "verifying"} /\ subject = s
    /\ \/ ~Live(s) /\ Hold("discarding", s, {}, {})
       \/ Live(s) /\ holder = "checking" /\ Hold("snapshotting", s, {}, {})
       \/ Live(s) /\ holder = "verifying" /\ Release
    /\ NoRows
    /\ UNCHANGED <<processVars, registry, terminating, doomed, serverVars, abandoned>>

Snapshot(s) ==
    /\ holder = "snapshotting" /\ subject = s
    /\ Hold("attaching", s, Eligible, {})
    /\ NoRows
    /\ UNCHANGED <<processVars, registry, terminating, doomed, serverVars, abandoned>>

\* attach_session: the rows become those of the snapshot, s among them; a
\* session not in the snapshot, or an error, undoes the creation.
Attach(s) ==
    /\ holder = "attaching" /\ subject = s
    /\ \/ /\ s \in chosen
          /\ Reconcile(chosen)
          /\ IF s \in Agents THEN Hold("verifying", s, {}, {}) ELSE Release
       \/ /\ s \notin chosen
          /\ Reconcile(chosen)
          /\ Hold("discarding", s, {}, {})
       \/ NoRows /\ Hold("discarding", s, {}, {})
    /\ UNCHANGED <<processVars, registry, terminating, doomed, serverVars, abandoned>>

\* The client goes away while attach_session runs: the session stays.
AttachDropped(s) ==
    /\ holder = "attaching" /\ subject = s
    /\ \/ Reconcile(chosen)
       \/ interrupted' = interrupted \cup {s} /\ UNCHANGED <<members, stale>>
    /\ Release
    /\ UNCHANGED <<processVars, registry, terminating, doomed, serverVars, abandoned>>

\* cleanup_failed_spawn up to its await: a terminal is terminated before it,
\* an agent only after it.
Discard(s) ==
    /\ holder = "discarding" /\ subject = s
    /\ Unregister(s)
    /\ Hold("unlisting", s, {}, {})
    /\ termination' = IF s \in Terminals THEN Terminated({s}) ELSE termination
    /\ NoRows
    /\ UNCHANGED <<child, waiter, doomed, serverVars, abandoned>>

\* (Mutation: cleanup_failed_spawn leaves the row.)
UnlistNothing(s) ==
    /\ holder = "unlisting" /\ subject = s
    /\ NoRows
    /\ termination' = Terminated({s})
    /\ Release
    /\ UNCHANGED <<child, waiter, registry, terminating, doomed, serverVars, abandoned>>

\* cleanup_failed_spawn from its await on; a failed removal is ignored.
Unlist(s) ==
    /\ holder = "unlisting" /\ subject = s
    /\ RemoveRowIfPossible(s)
    /\ termination' = Terminated({s})
    /\ Release
    /\ UNCHANGED <<child, waiter, registry, terminating, doomed, serverVars, abandoned>>

\* The client goes away at that await: an agent is never terminated.
UnlistDropped(s) ==
    /\ holder = "unlisting" /\ subject = s
    /\ RemoveRowIfPossible(s)
    /\ abandoned' = abandoned \cup ({s} \cap terminating)
    /\ Release
    /\ UNCHANGED <<processVars, registry, terminating, doomed, serverVars>>

---------------------------------------------------------------------------
(* Removing a session: terminal.rs and agent/api.rs remove                 *)

BeginRemove(s) ==
    /\ Alive /\ holder = "free"
    /\ s \in registry
    /\ Hold("removing", s, {}, {})
    /\ NoRows
    /\ UNCHANGED <<processVars, registry, terminating, doomed, serverVars, abandoned>>

\* remove_member: committed, failed, or dropped with the handler.
RemoveRow(s) ==
    /\ holder = "removing" /\ subject = s
    /\ \/ StoreRows(members \ {s}) /\ Hold("unregistering", s, {}, {})
       \/ DroppedDeleting({s}) /\ Release
    /\ UNCHANGED <<processVars, registry, terminating, doomed, serverVars, abandoned>>

\* The session leaves the registry, the lock is released, terminate() is due.
Remove(s) ==
    /\ holder = "unregistering" /\ subject = s
    /\ Unregister(s)
    /\ doomed' = doomed \cup {s}
    /\ Release
    /\ NoRows
    /\ UNCHANGED <<processVars, serverVars, abandoned>>

---------------------------------------------------------------------------
(* Workspaces: workspace.rs list, create and remove                        *)

BeginList ==
    /\ Alive /\ holder = "free"
    /\ Hold("listing", NoSession, Eligible, {})
    /\ NoRows
    /\ UNCHANGED <<processVars, registry, terminating, doomed, serverVars, abandoned>>

List ==
    /\ holder = "listing"
    /\ Reconcile(chosen) \/ NoRows
    /\ Release
    /\ UNCHANGED <<processVars, registry, terminating, doomed, serverVars, abandoned>>

BeginGroup ==
    /\ Alive /\ holder = "free"
    /\ \E M \in SUBSET Eligible \ {{}} : Hold("grouping", NoSession, M, {})
    /\ NoRows
    /\ UNCHANGED <<processVars, registry, terminating, doomed, serverVars, abandoned>>

\* (Mutation: create_workspace deletes the workspaces it takes members from.)
GroupAlone ==
    /\ holder = "grouping"
    /\ StoreRows(chosen) \/ NoRows
    /\ Release
    /\ UNCHANGED <<processVars, registry, terminating, doomed, serverVars, abandoned>>

\* create_workspace: the members move to the new workspace.
Group ==
    /\ holder = "grouping"
    /\ StoreRows(members \cup chosen) \/ NoRows
    /\ Release
    /\ UNCHANGED <<processVars, registry, terminating, doomed, serverVars, abandoned>>

BeginDelete ==
    /\ Alive /\ holder = "free" /\ members # {}
    /\ Hold("deleting", NoSession, {}, {})
    /\ NoRows
    /\ UNCHANGED <<processVars, registry, terminating, doomed, serverVars, abandoned>>

\* delete_workspace: the rows of one workspace go in one transaction.
DeleteRows ==
    /\ holder = "deleting"
    /\ \E M \in SUBSET members :
          \/ StoreRows(members \ M) /\ Hold("emptying", NoSession, M, {})
          \/ DroppedDeleting(M) /\ Release
    /\ UNCHANGED <<processVars, registry, terminating, doomed, serverVars, abandoned>>

\* One turn of the loop that removes the members from the registry.
Empty(s) ==
    /\ holder = "emptying" /\ s \in chosen
    /\ IF s \in registry
       THEN /\ Unregister(s)
            /\ Hold("emptying", NoSession, chosen \ {s}, removed \cup {s})
       ELSE /\ UNCHANGED <<registry, terminating>>
            /\ Hold("emptying", NoSession, chosen \ {s}, removed)
    /\ NoRows
    /\ UNCHANGED <<processVars, doomed, serverVars, abandoned>>

\* The lock is released, then every removed session is terminated.
EndDelete ==
    /\ holder = "emptying" /\ chosen = {}
    /\ doomed' = doomed \cup removed
    /\ Release
    /\ NoRows
    /\ UNCHANGED <<processVars, registry, terminating, serverVars, abandoned>>

Terminate(s) ==
    /\ Alive /\ s \in doomed
    /\ doomed' = doomed \ {s}
    /\ termination' = Terminated({s})
    /\ NoRows
    /\ UNCHANGED <<child, waiter, registry, terminating, lockVars, serverVars, abandoned>>

---------------------------------------------------------------------------
(* The exit of a child: start_waiter and agent_exit_cleanup                *)

Exits(s) ==
    /\ Alive /\ ChildExits(s)
    /\ NoRows
    /\ UNCHANGED <<registry, terminating, lockVars, doomed, serverVars, abandoned>>

Reports(s) ==
    /\ Alive /\ ReportExit(s)
    /\ NoRows
    /\ UNCHANGED <<registry, terminating, lockVars, doomed, serverVars, abandoned>>

Kills(s) ==
    /\ Alive /\ Kill(s)
    /\ NoRows
    /\ UNCHANGED <<registry, terminating, lockVars, doomed, serverVars, abandoned>>

\* agent_exit_cleanup: with the lock, the agent leaves the registry ...
BeginExit(s) ==
    /\ Alive /\ holder = "free" /\ waiter[s] = "reported"
    /\ Forget(s)
    /\ waiter' = [waiter EXCEPT ![s] = "unlisting"]
    /\ Hold("exiting", s, {}, {})
    /\ NoRows
    /\ UNCHANGED <<child, termination, doomed, serverVars, abandoned>>

\* ... then its row goes, a failure being ignored, and completion is signalled.
EndExit(s) ==
    /\ holder = "exiting" /\ subject = s
    /\ RemoveRowIfPossible(s)
    /\ waiter' = [waiter EXCEPT ![s] = "done"]
    /\ Release
    /\ UNCHANGED <<child, termination, registry, terminating, doomed, serverVars, abandoned>>

---------------------------------------------------------------------------
(* The server: shutdown_all, graceful shutdown, crash and restart          *)

\* (Mutation: only the listed sessions are collected.)
BeginShutdownListed ==
    /\ phase = "up"
    /\ phase' = "draining"
    /\ awaited' = registry
    /\ doomed' = doomed \cup registry
    /\ NoRows
    /\ UNCHANGED <<processVars, registry, terminating, lockVars, restarts, abandoned>>

\* begin_shutdown: inserts are refused from here on, and every session
\* registered or terminating is collected, to be terminated and awaited.
BeginShutdown ==
    /\ phase = "up"
    /\ phase' = "draining"
    /\ awaited' = registry \cup terminating
    /\ doomed' = doomed \cup registry \cup terminating
    /\ NoRows
    /\ UNCHANGED <<processVars, registry, terminating, lockVars, restarts, abandoned>>

\* Every collected session has completed, or 10 seconds have passed.
EndDrain ==
    /\ phase = "draining" /\ awaited \cap doomed = {}
    /\ \/ phase' = "timedOut"
       \/ phase' = "drained" /\ \A s \in awaited : waiter[s] = "done"
    /\ NoRows
    /\ UNCHANGED <<processVars, registry, terminating, lockVars, doomed, awaited, restarts,
                   abandoned>>

\* What is in memory is gone; the rows stay.
Stop ==
    /\ ServerGone
    /\ phase' = "down"
    /\ registry' = {} /\ terminating' = {} /\ doomed' = {} /\ awaited' = {}
    /\ Release
    /\ stale' = members /\ interrupted' = {} /\ abandoned' = {}
    /\ UNCHANGED <<members, restarts>>

\* axum's graceful shutdown ends when no handler is left; it does not wait
\* for a waiter thread.
ServerExit ==
    /\ phase \in {"drained", "timedOut"}
    /\ holder \in {"free", "exiting"} /\ doomed = {}
    /\ Stop

Crash == Alive /\ Stop

Restart ==
    /\ phase = "down" /\ restarts < MaxRestarts
    /\ phase' = "up"
    /\ restarts' = restarts + 1
    /\ NoRows
    /\ UNCHANGED <<processVars, registry, terminating, lockVars, doomed, awaited, abandoned>>

---------------------------------------------------------------------------
Creates(s) == \/ Spawn(s) \/ Insert(s) \/ StartFails(s) \/ Abort(s) \/ Start(s)
              \/ CheckLive(s) \/ Snapshot(s) \/ Attach(s) \/ AttachDropped(s)
              \/ Discard(s) \/ Unlist(s) \/ UnlistDropped(s)
Removes(s) == BeginRemove(s) \/ RemoveRow(s) \/ Remove(s) \/ Empty(s) \/ Terminate(s)
Ends(s)    == Exits(s) \/ Reports(s) \/ Kills(s) \/ BeginExit(s) \/ EndExit(s)
Workspaces == BeginList \/ List \/ BeginGroup \/ Group \/ BeginDelete \/ DeleteRows
              \/ EndDelete
Server     == BeginShutdown \/ EndDrain \/ ServerExit \/ Crash \/ Restart

Next == Workspaces \/ Server \/ \E s \in Sessions : Creates(s) \/ Removes(s) \/ Ends(s)

Spec == Init /\ [][Next]_vars

---------------------------------------------------------------------------
(* Safety *)

(***************************************************************************)
(* A row never outlives its session: while no handler is at work, every    *)
(* row of workspace_sessions belongs to a registered session, unless the   *)
(* server was restarted or the database refused the removal.  The exit of  *)
(* an agent races every handler that took its snapshot before it.          *)
(***************************************************************************)
RowsBelongToSessions == holder = "free" => members \subseteq registry \cup stale

(***************************************************************************)
(* Every session the workspace list would show has a row when no handler   *)
(* is at work, unless a dropped handler left it without one and nothing    *)
(* reconciled since.                                                       *)
(***************************************************************************)
EligibleSessionsHaveRows == holder = "free" => Eligible \subseteq members \cup interrupted

\* The holder has forked the session's child, which is not served yet.
Starting(s) == subject = s /\ holder \in {"spawned", "aborting"}

(***************************************************************************)
(* active_upstream_session_ids: an agent with a child that is not reaped   *)
(* is registered or terminating, so that the history it writes is never    *)
(* taken for that of an agent that ended.                                  *)
(***************************************************************************)
LiveAgentsAreOwned ==
    Alive => \A a \in Agents :
        child[a] \in {"running", "exited"} =>
            a \in registry \cup terminating \/ Starting(a)

(***************************************************************************)
(* terminating_agents holds no agent that is listed, and none whose waiter *)
(* will not come back to take it out.                                      *)
(***************************************************************************)
TerminatingAgentsEnd ==
    \A a \in terminating : a \notin registry /\ waiter[a] \in {"waiting", "reported"}

(***************************************************************************)
(* A session that left the registry while its child runs is terminated, or *)
(* will be by a thread that is on its way, or its creation was dropped at  *)
(* the one await that loses it.                                            *)
(***************************************************************************)
UnlistedSessionsAreStopped ==
    Alive => \A s \in Sessions \ registry :
        child[s] = "running" =>
            \/ Starting(s) \/ (subject = s /\ holder = "unlisting")
            \/ s \in removed \cup doomed \cup abandoned
            \/ termination[s] # "no"

(***************************************************************************)
(* Who answers for a process: an agent that may still write its history is *)
(* listed or terminating, a terminating one will be taken out, and what    *)
(* left the list while it ran will be stopped.                             *)
(***************************************************************************)
Ownership == LiveAgentsAreOwned /\ TerminatingAgentsEnd /\ UnlistedSessionsAreStopped

(***************************************************************************)
(* A server that exits without "Timed out waiting for sessions to shut     *)
(* down" leaves no agent running: neither one created while it shut down,  *)
(* nor one that was being removed.                                         *)
(***************************************************************************)
CleanExitLeavesNoAgent ==
    [][phase = "drained" /\ ServerExit =>
          \A a \in Agents : child[a] \notin {"running", "exited"}]_vars

\* While the server runs somebody answers for every agent, so that a clean exit
\* can leave none (SessionRegistry, shutdown_all).
AgentsStayOwned == []Ownership /\ CleanExitLeavesNoAgent

---------------------------------------------------------------------------
(* Liveness.  The holder of the lock goes on: its awaits are database      *)
(* calls.  Threads and tasks run; a child need not exit by itself.  The    *)
(* tokio mutex is FIFO, so a waiter that queued for it gets it (SF).  Once *)
(* the listener stopped only requests of open connections are left, so the *)
(* end of the last handler is not postponed forever (SF).                  *)

HolderProceeds ==
    \/ \E s \in Sessions :
          \/ Insert(s) \/ StartFails(s) \/ Abort(s) \/ Start(s) \/ CheckLive(s)
          \/ Snapshot(s) \/ Attach(s) \/ AttachDropped(s) \/ Discard(s)
          \/ Unlist(s) \/ UnlistDropped(s) \/ RemoveRow(s) \/ Remove(s)
          \/ Empty(s) \/ EndExit(s)
    \/ List \/ Group \/ DeleteRows \/ EndDelete

Fairness ==
    /\ WF_vars(HolderProceeds)
    /\ \A s \in Sessions : /\ WF_vars(Terminate(s)) /\ WF_vars(Kills(s))
                          /\ WF_vars(Reports(s)) /\ SF_vars(BeginExit(s))
    /\ WF_vars(EndDrain) /\ SF_vars(ServerExit)

FairSpec == Spec /\ Fairness

(***************************************************************************)
(* A session that was removed while its child runs, or whose child exited, *)
(* is eventually reaped and its completion signalled, whatever its child   *)
(* does about SIGTERM and whatever handlers hold the lock; an agent that a *)
(* dropped handler abandoned is the exception.  And a shutdown that began  *)
(* ends, even when a completion is never signalled.                        *)
(***************************************************************************)
SessionsEnd ==
    /\ \A s \in Sessions :
          (waiter[s] = "waiting" /\ (s \notin registry \/ child[s] = "exited"))
              ~> (waiter[s] = "done" \/ s \in abandoned \/ phase = "down")
    /\ phase = "draining" ~> phase = "down"
=============================================================================
