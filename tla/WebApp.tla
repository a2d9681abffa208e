------------------------------- MODULE WebApp -------------------------------
(***************************************************************************)
(* The web app that DevHatch installs, updates and runs                    *)
(* (apps/server/src/web_app): its directories, its process and the record  *)
(* of it, and the one operation that may work on them at a time.           *)
(*                                                                         *)
(* An update stops the process, builds beside the app, exchanges the       *)
(* directories with the old one kept as a backup, starts the new version,  *)
(* and goes back to the backup when that fails; a backup that is found     *)
(* later is an exchange that was interrupted, and every operation first    *)
(* goes back to it.  Operations of a request are dropped with it at an     *)
(* await, the server may stop or crash, the process may end, and the page  *)
(* polls the state beside all of that, without the operation's lock.       *)
(*                                                                         *)
(* A directory is named by the version that was built in it, 0 is none.    *)
(* Progress reports and the process's descendants are left out; a process  *)
(* id is not used twice.                                                   *)
(***************************************************************************)
EXTENDS Integers, FiniteSets

CONSTANTS
    MaxVersion,     \* bound on builds
    MaxProcess,     \* bound on launches
    MaxCrashes,     \* bound on ends of the server
    MaxFaults,      \* bound on renames that fail
    None

VARIABLES
    files,          \* app, its backup, staging, and what is to be removed
    process,        \* per launch: its state and the directory it runs in
    pid,            \* the process of the record on disk, or None
    child,          \* the process this server launched, or None
    op,             \* the running operation and where it is
    outcome,        \* of the last operation
    viewer,         \* whether a poll has seen the child exited
    server, built, faults, crashes

vars == <<files, process, pid, child, op, outcome, viewer, server, built, faults, crashes>>

Idle == [kind |-> "none", at |-> "idle", then |-> "end", next |-> "end", targets |-> {},
         was |-> FALSE, before |-> 0]
NoOutcome == [kind |-> "none", result |-> "none", before |-> 0]

Init ==
    /\ files = [app |-> 0, backup |-> 0, staging |-> 0, stale |-> 0, discard |-> 0]
    /\ process = [p \in 1..MaxProcess |-> [state |-> "unused", dir |-> 0]]
    /\ pid = None /\ child = None
    /\ op = Idle /\ outcome = NoOutcome /\ viewer = FALSE
    /\ server = "up" /\ built = 0 /\ faults = 0 /\ crashes = 0

Installed == files.app > 0
Alive(p) == p # None /\ process[p].state = "alive"
Zombie(p) == p # None /\ process[p].state = "zombie"
Gone(ps) == [p \in 1..MaxProcess |-> IF p \in ps THEN [process[p] EXCEPT !.state = "gone"] ELSE process[p]]

\* The record is compared with /proc: a zombie is there, but in no directory.
PidRecord ==
    CASE pid = None                                 -> "missing"
      [] pid # None /\ process[pid].state = "gone"  -> "stale"
      [] Alive(pid) /\ process[pid].dir = files.app -> "valid"
      [] OTHER                                      -> "invalid"

\* managed_process_state reaps the child first.
Reaped == IF Zombie(child) THEN Gone({child}) ELSE process
ManagedState ==
    IF PidRecord = "invalid" /\ ~(pid = child /\ Zombie(child)) THEN "invalid"
    ELSE IF Alive(child) \/ PidRecord = "valid" THEN "alive" ELSE "missing"

-----------------------------------------------------------------------------
(* Operations *)

Kinds == {"install", "update", "check", "start", "stop"}
Goto(i, at) == op' = [i EXCEPT !.at = at]
End(i, result) ==
    /\ op' = Idle
    /\ outcome' = [kind |-> i.kind, result |-> result, before |-> i.before]

\* begin_install and begin_update look at the directories first.
Admitted(kind) ==
    /\ kind = "install" => ~(Installed /\ files.backup = 0)
    /\ kind = "update" => Installed \/ files.backup > 0

\* begin_operation: one operation at a time, none once the server stops.
Begin(kind) ==
    /\ server = "up" /\ op = Idle /\ Admitted(kind)
    /\ op' = [Idle EXCEPT !.kind = kind, !.at = "recover"]
    /\ outcome' = NoOutcome
    /\ UNCHANGED <<files, process, pid, child, viewer, server, built, faults, crashes>>

\* (Mutation: a process that was recorded by an earlier server is not stopped.)
RecoverRunning ==
    /\ op.at = "recover"
    /\ files' = [files EXCEPT !.discard = 0, !.staging = IF files.backup = 0 THEN 0 ELSE @]
    /\ Goto(op, IF files.backup = 0 THEN "body" ELSE "rollback")
    /\ UNCHANGED <<process, pid, child, outcome, viewer, server, built, faults, crashes>>

\* recover_interrupted_publish_locked: a backup is an interrupted exchange.
Recover ==
    /\ op.at = "recover"
    /\ files' = [files EXCEPT !.discard = 0, !.staging = IF files.backup = 0 THEN 0 ELSE @]
    /\ IF files.backup = 0
       THEN Goto(op, "body") /\ UNCHANGED <<pid, outcome>>
       ELSE CASE PidRecord = "invalid" -> End(op, "invalid") /\ UNCHANGED pid
              [] PidRecord = "valid" \/ (PidRecord # "invalid" /\ child # None) ->
                    /\ op' = [op EXCEPT !.at = "stop", !.then = "rollback"]
                    /\ pid' = IF PidRecord = "stale" THEN None ELSE pid
                    /\ UNCHANGED outcome
              [] OTHER -> Goto(op, "rollback") /\ pid' = None /\ UNCHANGED outcome
    /\ UNCHANGED <<process, child, viewer, server, built, faults, crashes>>

\* rollback_publish: the app is put aside, the backup becomes the app.
PutAside ==
    /\ op.at \in {"rollback", "restore"}
    /\ files' = [files EXCEPT !.stale = files.app, !.app = 0]
    /\ Goto(op, IF op.at = "rollback" THEN "rolled" ELSE "restored")
    /\ UNCHANGED <<process, pid, child, outcome, viewer, server, built, faults, crashes>>

Restore ==
    /\ op.at \in {"rolled", "restored"}
    /\ \/ /\ files' = [files EXCEPT !.app = files.backup, !.backup = 0, !.stale = 0,
                                    !.staging = IF op.at = "rolled" THEN 0 ELSE @]
          /\ IF op.at = "rolled" THEN Goto(op, "body")
             ELSE op' = [op EXCEPT !.at = "launch", !.next = "end"]
          /\ UNCHANGED <<outcome, faults>>
       \/ /\ faults < MaxFaults /\ faults' = faults + 1
          /\ files' = [files EXCEPT !.app = files.stale, !.stale = 0]
          /\ End(op, "error")
    /\ UNCHANGED <<process, pid, child, viewer, server, built, crashes>>

\* What an operation does once nothing is left to recover.
Body ==
    /\ op.at = "body"
    /\ \/ op.kind = "check" /\ Installed /\ Goto(op, "fetch") /\ UNCHANGED outcome
       \/ op.kind = "install" /\ ~Installed /\ ManagedState = "missing"
             /\ Goto(op, "stage") /\ UNCHANGED outcome
       \/ /\ op.kind = "update" /\ Installed /\ ManagedState # "invalid"
          /\ op' = [op EXCEPT !.at = IF ManagedState = "alive" THEN "stop" ELSE "stage", !.then = "stage",
                              !.was = ManagedState = "alive", !.before = files.app]
          /\ UNCHANGED outcome
       \/ op.kind = "start" /\ Goto(op, "launch") /\ UNCHANGED outcome
       \/ op.kind = "stop" /\ op' = [op EXCEPT !.at = "stop", !.then = "end"] /\ UNCHANGED outcome
       \/ op.kind \in {"check", "update", "install"} /\ End(op, "error")
    /\ process' = IF op.kind \in {"install", "update"} THEN Reaped ELSE process
    /\ child' = IF process' # process THEN None ELSE child
    /\ UNCHANGED <<files, pid, viewer, server, built, faults, crashes>>

\* git fetch and what is read of it; a dirty tree also ends an update.
Fetch ==
    /\ op.at = "fetch"
    /\ \E r \in {"ok", "error"} : End(op, r)
    /\ UNCHANGED <<files, process, pid, child, viewer, server, built, faults, crashes>>

-----------------------------------------------------------------------------
(* Stopping and starting *)

Targets == (IF PidRecord = "valid" THEN {pid} ELSE {}) \cup (IF child # None THEN {child} ELSE {})

\* A stop that fails ends the operation, unless it followed a failed start.
StopFails(result) ==
    IF op.then = "failed" THEN Goto(op, "failed") /\ UNCHANGED outcome ELSE End(op, result)

\* stop_locked_result: the record is read before the child is reaped.
Stop ==
    /\ op.at = "stop"
    /\ IF PidRecord = "invalid" THEN StopFails("invalid")
       ELSE op' = [op EXCEPT !.at = "await", !.targets = Targets] /\ UNCHANGED outcome
    /\ UNCHANGED <<files, process, pid, child, viewer, server, built, faults, crashes>>

AwaitStop ==
    /\ op.at = "await"
    /\ \/ /\ process' = Gone(op.targets)
          /\ pid' = None /\ child' = IF child \in op.targets THEN None ELSE child
          /\ IF op.then = "end" THEN End(op, "ok") ELSE Goto(op, op.then) /\ UNCHANGED outcome
       \/ /\ \E p \in op.targets : Alive(p)
          /\ StopFails("error")
          /\ UNCHANGED <<process, pid, child>>
    /\ UNCHANGED <<files, viewer, server, built, faults, crashes>>

\* The end of start_locked: what follows depends on who called it.
Started(i) ==
    CASE op.next = "new"    -> Goto(i, "finalize") /\ UNCHANGED outcome
      [] op.next = "giveup" -> End(i, "error")
      [] OTHER              -> End(i, IF i.kind = "start" THEN "ok" ELSE "error")
NotStarted(i) ==
    IF op.next = "new" THEN op' = [i EXCEPT !.at = "stop", !.then = "restore"] /\ UNCHANGED outcome
    ELSE End(i, "error")

PortFree == \A p \in 1..MaxProcess : process[p].state # "alive"
Ready == \E p \in 1..MaxProcess : Alive(p)

\* start_locked up to the first wait.
Launch ==
    /\ op.at = "launch"
    /\ IF Installed /\ ManagedState = "missing" /\ PortFree
       THEN \/ \E p \in {q \in 1..MaxProcess : process[q].state = "unused"} :
                  /\ \A q \in 1..(p - 1) : process[q].state # "unused"
                  /\ process' = [Reaped EXCEPT ![p] = [state |-> "alive", dir |-> files.app]]
                  /\ pid' = p /\ child' = p
                  /\ Goto(op, "ready") /\ UNCHANGED outcome
            \/ /\ NotStarted(op)
               /\ process' = Reaped /\ child' = IF Zombie(child) THEN None ELSE child
               /\ UNCHANGED pid
       ELSE /\ \/ Installed /\ ManagedState = "alive" /\ Ready /\ Started(op)
               \/ NotStarted(op)
            /\ process' = Reaped /\ child' = IF Zombie(child) THEN None ELSE child
            /\ UNCHANGED pid
    /\ UNCHANGED <<files, viewer, server, built, faults, crashes>>

Owned == child # None \/ PidRecord = "valid"

\* refresh_running in the waiting loop, for at most 90 seconds.
AwaitReady ==
    /\ op.at = "ready"
    /\ \/ /\ Zombie(child)
          /\ process' = Gone({child}) /\ child' = None /\ pid' = None
          /\ UNCHANGED <<op, outcome>>
       \/ /\ ~Zombie(child) /\ Owned /\ Ready
          /\ Started(op)
          /\ UNCHANGED <<process, child, pid>>
       \/ /\ op' = [op EXCEPT !.at = "stop", !.then = "failed"]
          /\ UNCHANGED <<process, child, pid, outcome>>
    /\ UNCHANGED <<files, viewer, server, built, faults, crashes>>

StartFailed ==
    /\ op.at = "failed"
    /\ NotStarted(op)
    /\ UNCHANGED <<files, process, pid, child, viewer, server, built, faults, crashes>>

-----------------------------------------------------------------------------
(* Building and exchanging *)

\* The failure path: staging goes, what was running is started again.
Abandon(i) ==
    IF i.was THEN op' = [i EXCEPT !.at = "launch", !.next = "giveup"] /\ UNCHANGED outcome ELSE End(i, "error")

\* The clone of the remote's head beside the app.
Clone ==
    /\ op.at = "stage"
    /\ \/ Goto(op, "build") /\ UNCHANGED outcome
       \/ Abandon(op)
    /\ UNCHANGED <<files, process, pid, child, viewer, server, built, faults, crashes>>

\* build_staging: the artifacts are there at the end, or it has failed.
Build ==
    /\ op.at = "build"
    /\ \/ /\ built < MaxVersion /\ built' = built + 1
          /\ files' = [files EXCEPT !.staging = built']
          /\ Goto(op, "publish") /\ UNCHANGED outcome
       \/ Abandon(op) /\ files' = [files EXCEPT !.staging = 0] /\ UNCHANGED built
    /\ UNCHANGED <<process, pid, child, viewer, server, faults, crashes>>

\* publish_directory: two renames.
BackUp ==
    /\ op.at = "publish"
    /\ IF files.backup > 0
       THEN Abandon(op) /\ files' = [files EXCEPT !.staging = 0]
       ELSE /\ files' = [files EXCEPT !.backup = files.app, !.app = 0]
            /\ Goto(op, "exchange") /\ UNCHANGED outcome
    /\ UNCHANGED <<process, pid, child, viewer, server, built, faults, crashes>>

AfterExchange == IF op.was THEN [op EXCEPT !.at = "launch", !.next = "new"] ELSE [op EXCEPT !.at = "finalize"]

Exchange ==
    /\ op.at = "exchange"
    /\ \/ /\ files' = [files EXCEPT !.app = files.staging, !.staging = 0]
          /\ op' = AfterExchange /\ UNCHANGED <<outcome, faults>>
       \/ /\ faults < MaxFaults /\ faults' = faults + 1
          /\ \/ files' = [files EXCEPT !.app = files.backup, !.backup = 0, !.staging = 0]
             \/ files' = [files EXCEPT !.staging = 0]
          /\ Abandon(op)
    /\ UNCHANGED <<process, pid, child, viewer, server, built, crashes>>

\* finalize_publish: the backup is renamed away, then removed.
Finalize ==
    /\ op.at = "finalize"
    /\ \/ /\ files' = [files EXCEPT !.discard = files.backup, !.backup = 0]
          /\ End(op, "ok") /\ UNCHANGED faults
       \/ /\ files.backup > 0 /\ faults < MaxFaults /\ faults' = faults + 1
          /\ End(op, "error") /\ UNCHANGED files
    /\ UNCHANGED <<process, pid, child, viewer, server, built, crashes>>

-----------------------------------------------------------------------------
(* Beside the operations *)

\* refresh_running of a poll looks at the child, and takes it in a second step.
View ==
    /\ server = "up" /\ ~viewer /\ Zombie(child)
    /\ viewer' = TRUE /\ process' = Gone({child})
    /\ UNCHANGED <<files, pid, child, op, outcome, server, built, faults, crashes>>

ViewTakes ==
    /\ viewer /\ viewer' = FALSE
    /\ child' = None /\ pid' = None
    /\ UNCHANGED <<files, process, op, outcome, server, built, faults, crashes>>

\* A child of this server stays a zombie until it is waited for.
Ends(p) ==
    /\ Alive(p)
    /\ process' = [process EXCEPT ![p].state = IF p = child THEN "zombie" ELSE "gone"]
    /\ UNCHANGED <<files, pid, child, op, outcome, viewer, server, built, faults, crashes>>

\* A request goes away, or the server stops and drops everything at an await.
Drop ==
    /\ op.at \in {"recover", "await", "fetch", "ready", "stage", "build"}
    /\ server = "closing" \/ op.kind \in {"check", "start", "stop"}
    /\ op.kind # "shutdown"
    /\ op' = Idle /\ outcome' = NoOutcome
    /\ UNCHANGED <<files, process, pid, child, viewer, server, built, faults, crashes>>

Close ==
    /\ server = "up" /\ crashes < MaxCrashes
    /\ server' = "closing" /\ crashes' = crashes + 1
    /\ UNCHANGED <<files, process, pid, child, op, outcome, viewer, built, faults>>

\* shutdown once no operation runs: the process is killed, the record removed.
ForceStop ==
    /\ server = "closing" /\ op = Idle
    /\ process' = Gone(Targets)
    /\ pid' = None /\ child' = None
    /\ op' = [Idle EXCEPT !.kind = "shutdown", !.at = "recover"] /\ outcome' = NoOutcome
    /\ UNCHANGED <<files, viewer, server, built, faults, crashes>>

\* The server ends, in order or not: its memory goes, its child is adopted.
Down ==
    /\ server # "down"
    /\ \/ op.kind = "shutdown" /\ op.at = "body" /\ UNCHANGED crashes
       \/ crashes < MaxCrashes /\ crashes' = crashes + 1
    /\ server' = "down" /\ op' = Idle /\ outcome' = NoOutcome /\ viewer' = FALSE /\ child' = None
    /\ process' = Gone({p \in 1..MaxProcess : Zombie(p)})
    /\ UNCHANGED <<files, pid, built, faults>>

Boot ==
    /\ server = "down" /\ server' = "up"
    /\ UNCHANGED <<files, process, pid, child, op, outcome, viewer, built, faults, crashes>>

Next ==
    \/ \E kind \in Kinds : Begin(kind)
    \/ Recover \/ PutAside \/ Restore \/ Body \/ Fetch
    \/ Stop \/ AwaitStop \/ Launch \/ AwaitReady \/ StartFailed
    \/ Clone \/ Build \/ BackUp \/ Exchange \/ Finalize
    \/ View \/ ViewTakes \/ \E p \in 1..MaxProcess : Ends(p)
    \/ Drop \/ Close \/ ForceStop \/ Down \/ Boot

Spec == Init /\ [][Next]_vars

-----------------------------------------------------------------------------
\* Once a version is installed, a whole one is the app or its backup for ever.
SomeVersionStays == [][files.app + files.backup > 0 => files'.app + files'.backup > 0]_vars

\* An update that succeeded left a new version and no way back, one that failed
\* left the old version, at least as the backup that the next operation restores.
UpdatesAreDecided ==
    server = "up" /\ op = Idle /\ outcome.kind = "update" /\ outcome.before > 0 =>
        IF outcome.result = "ok" THEN files.app > outcome.before /\ files.backup = 0
        ELSE outcome.before \in {files.app, files.backup}

\* A process that is recorded or held runs in the directory that is the app:
\* none is moved away under it.
ManagedRunsTheApp == \A p \in {pid, child} : Alive(p) => process[p].dir = files.app

WebAppIsWhole == SomeVersionStays /\ [](UpdatesAreDecided /\ ManagedRunsTheApp)

\* After a stop that succeeded nothing runs any more.
StopStops == outcome.kind = "stop" /\ outcome.result = "ok" /\ op = Idle => ~Ready
=============================================================================
