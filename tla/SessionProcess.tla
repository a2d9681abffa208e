--------------------------- MODULE SessionProcess ---------------------------
(***************************************************************************)
(* The process behind each session: the PTY child, the waiter thread that  *)
(* reaps it and reports its exit, and the SIGTERM, 250 ms, SIGKILL         *)
(* escalation of Session::terminate (session/runtime.rs).  A session is    *)
(* used once: its name stands for its UUID.                                *)
(*                                                                         *)
(* The `deleting` flag and `status` of a Session are not kept apart: for a *)
(* session in the registry status is Exited exactly when its waiter has    *)
(* reported, and an agent is marked deleting by that report or when it     *)
(* leaves the registry.                                                    *)
(***************************************************************************)
EXTENDS Integers, FiniteSets

CONSTANTS
    Terminals,      \* sessions of kind terminal
    Agents,         \* sessions of kind agent
    NoSession       \* no session

Sessions == Terminals \cup Agents

ASSUME KindsAssumption == Terminals \cap Agents = {} /\ NoSession \notin Sessions

VARIABLES
    child,          \* the PTY child: "lost" once the server is gone
    waiter,         \* the waiter thread
    termination     \* terminate() not called, its SIGKILL pending, or over

processVars == <<child, waiter, termination>>

ProcessTypeOK ==
    /\ child \in [Sessions -> {"none", "running", "exited", "reaped", "lost"}]
    /\ waiter \in [Sessions -> {"none", "waiting", "reported", "unlisting", "done"}]
    /\ termination \in [Sessions -> {"no", "armed", "over"}]

ProcessInit ==
    /\ child = [s \in Sessions |-> "none"]
    /\ waiter = [s \in Sessions |-> "none"]
    /\ termination = [s \in Sessions |-> "no"]

\* The session's status is still Running.
Running(s) == waiter[s] \in {"none", "waiting"}

\* spawn_inner: the child is forked; no thread serves it yet.
Fork(s) ==
    /\ child[s] = "none"
    /\ child' = [child EXCEPT ![s] = "running"]
    /\ UNCHANGED <<waiter, termination>>

\* Dropping the SpawnedChild of a start that failed: kill and wait.
DropChild(s) ==
    /\ child' = [child EXCEPT ![s] = "reaped"]
    /\ UNCHANGED <<waiter, termination>>

\* The reader, writer and waiter threads run, and the waiter is committed.
StartWaiter(s) ==
    /\ waiter' = [waiter EXCEPT ![s] = "waiting"]
    /\ UNCHANGED <<child, termination>>

\* The child ends, by itself or by a signal it did not survive.
ChildExits(s) ==
    /\ child[s] = "running"
    /\ child' = [child EXCEPT ![s] = "exited"]
    /\ UNCHANGED <<waiter, termination>>

(***************************************************************************)
(* The waiter reaps the child and reports its exit.  For a terminal that   *)
(* ends the waiter and signals the completion; the waiter of an agent goes *)
(* on to wait for the workspace lock.                                      *)
(***************************************************************************)
ReportExit(s) ==
    /\ waiter[s] = "waiting" /\ child[s] = "exited"
    /\ child' = [child EXCEPT ![s] = "reaped"]
    /\ waiter' = [waiter EXCEPT ![s] = IF s \in Agents THEN "reported" ELSE "done"]
    /\ UNCHANGED termination

\* (Mutation: terminate() sends SIGTERM only.)
TerminatedSoftly(S) ==
    [s \in Sessions |->
        IF s \in S /\ termination[s] = "no" THEN "over" ELSE termination[s]]

\* The effect of terminate() on the set S: only the first call counts, and
\* only for a session still Running a SIGTERM is sent and a SIGKILL is due.
\* (A child that dies of the SIGTERM is a ChildExits step.)
Terminated(S) ==
    [s \in Sessions |->
        IF s \in S /\ termination[s] = "no"
        THEN IF Running(s) THEN "armed" ELSE "over"
        ELSE termination[s]]

\* The task spawned by terminate(): SIGKILL after 250 ms.
Kill(s) ==
    /\ termination[s] = "armed"
    /\ termination' = [termination EXCEPT ![s] = "over"]
    /\ child' = [child EXCEPT ![s] = IF @ = "running" THEN "exited" ELSE @]
    /\ UNCHANGED waiter

\* The server process is gone, and with it its threads, its tasks and the PTYs.
ServerGone ==
    /\ child' = [s \in Sessions |->
                    IF child[s] \in {"running", "exited"} THEN "lost" ELSE child[s]]
    /\ waiter' = [s \in Sessions |-> "none"]
    /\ termination' = [s \in Sessions |-> "no"]
=============================================================================
