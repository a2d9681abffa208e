------------------------- MODULE SupervisorInstall -------------------------
(***************************************************************************)
(* A server installs itself as a user service of systemd and hands the     *)
(* port over to it (supervisor.rs).                                        *)
(*                                                                         *)
(* An install inspects systemd and the files, publishes three files in a   *)
(* blocking thread, asks systemd to reload, enable and start the unit, and *)
(* answers; then the server shuts down.  The unit's helper waits for the   *)
(* process named by the handoff record before the new server starts.  What *)
(* fails is undone by a rollback.  A request may be dropped at every await: *)
(* then nothing is undone, the lock is free again, and its publication     *)
(* goes on.  Every command may fail with or without having taken effect    *)
(* (systemctl is killed after 4 seconds).  Failures, crashes and files     *)
(* written by the user are bounded.                                        *)
(*                                                                         *)
(* The content of the files is a version; which bytes make it is in        *)
(* ManagedEnvironment, how a release gets to its place in                  *)
(* ReleasePublication.                                                     *)
(***************************************************************************)
EXTENDS Integers, FiniteSets

CONSTANTS
    Servers,        \* server processes: pid and start time
    Requests,       \* POST /supervisor requests
    Versions,       \* what an install wants the three files to be
    MaxFaults,      \* bound on failing commands, crashes and files the user
                    \* puts in the way
    None

Missing == "missing"
Foreign == "foreign"
Unread == "unread"
Pieces == {"environment", "unit", "current"}

ASSUME SupervisorAssumption ==
    /\ MaxFaults \in Nat
    /\ None \notin Servers
    /\ Versions \cap {Missing, Foreign} = {}

VARIABLES
    files,          \* the managed files and the link to the release
    record,         \* the handoff record: the server to wait for
    unit,           \* systemd's view of the unit
    server,         \* the processes
    restartPending, \* servers whose restart_pending is set
    install,        \* the requests
    publication,    \* the blocking thread of a request, and what it writes next
    undone,         \* history: what the last rollback's `systemctl stop` did
    failures, userWrites

vars == <<files, record, unit, server, restartPending, install, publication, undone, failures, userWrites>>

Contents == Versions \cup {Missing, Foreign}

Alive(s) == server[s] # "off"

IdleInstall ==
    [stage |-> "idle", host |-> None, want |-> None, seen |-> None, before |-> None,
     mutated |-> FALSE, newlyEnabled |-> FALSE, handoff |-> FALSE, started |-> FALSE,
     lossy |-> FALSE]

NoPublication == [at |-> "none", want |-> None]

Init ==
    /\ \E c \in Versions \cup {Missing} :
          /\ files = [p \in Pieces |-> c]
          /\ unit = [state |-> "inactive", main |-> None, waits |-> None, enabled |-> FALSE, loaded |-> c]
    /\ record = None
    /\ \E s \in Servers : server = [t \in Servers |-> IF t = s THEN "serving" ELSE "off"]
    /\ restartPending = {}
    /\ install = [r \in Requests |-> IdleInstall]
    /\ publication = [r \in Requests |-> NoPublication]
    /\ undone = "none"
    /\ failures = 0 /\ userWrites = 0

Fail == failures + userWrites < MaxFaults /\ failures' = failures + 1
Succeed == UNCHANGED failures

-----------------------------------------------------------------------------
(* systemd *)

\* SystemdStatus: what `systemctl show` answers.
Seen == [state |-> unit.state, main |-> unit.main, enabled |-> unit.enabled]

HandoffStarted(s) == s.state = "start-pre"
ActiveState(s) == s.state = "active"
Managed(r) == install[r].seen.main = install[r].host /\ ActiveState(install[r].seen)

\* `systemctl start --no-block`.
StartEffect ==
    IF unit.state \in {"inactive", "failed", "restart"} /\ unit.loaded \in Versions
    THEN unit' = [unit EXCEPT !.state = "start-pre", !.waits = Unread]
    ELSE unit' = unit

\* `systemctl stop`: the helper is killed, a server gets SIGTERM.
StopEffect ==
    IF unit.main # None
    THEN /\ unit' = [unit EXCEPT !.state = "stopping"]
         /\ server' = [server EXCEPT ![unit.main] = IF @ = "off" THEN @ ELSE "stopping"]
    ELSE /\ unit' = [unit EXCEPT !.state = "inactive", !.waits = None]
         /\ UNCHANGED server

\* run_handoff_helper reads the record once,
HelperRead ==
    /\ unit.state = "start-pre" /\ unit.waits = Unread
    /\ unit' = [unit EXCEPT !.waits = record]
    /\ UNCHANGED <<files, record, server, restartPending, install, publication, undone, failures, userWrites>>

\* waits until its process is gone, removes it, and the server is started;
HelperDone ==
    /\ unit.state = "start-pre" /\ unit.waits # Unread
    /\ unit.waits # None => ~Alive(unit.waits)
    /\ record \in {unit.waits, None}
    /\ record' = None
    /\ \E t \in Servers :
          /\ ~Alive(t) /\ t # unit.waits
          /\ unit' = [unit EXCEPT !.state = "active", !.waits = None, !.main = t]
          /\ server' = [server EXCEPT ![t] = "booting"]
    /\ UNCHANGED <<files, restartPending, install, publication, undone, failures, userWrites>>

\* after 90 seconds, or with another record, it fails and is restarted.
HelperFails ==
    /\ unit.state = "start-pre" /\ unit.waits \in Servers
    /\ Alive(unit.waits) \/ record \notin {unit.waits, None}
    /\ unit' = [unit EXCEPT !.state = "restart", !.waits = None]
    /\ UNCHANGED <<files, record, server, restartPending, install, publication, undone, failures, userWrites>>

\* RestartSec.
UnitRestarts ==
    /\ unit.state = "restart"
    /\ unit' = [unit EXCEPT !.state = "start-pre", !.waits = Unread]
    /\ UNCHANGED <<files, record, server, restartPending, install, publication, undone, failures, userWrites>>

\* What becomes of the unit and of the requests when server s ends.
Ended(s) ==
    /\ unit' = IF unit.main = s
               THEN [unit EXCEPT !.main = None, !.state = IF @ = "stopping" THEN "inactive" ELSE "restart"]
               ELSE unit
    /\ restartPending' = restartPending \ {s}
    /\ install' = [r \in Requests |->
                     IF install[r].host = s /\ install[r].stage \notin {"idle", "failed", "refused", "done"}
                     THEN [IdleInstall EXCEPT !.stage = "dropped"] ELSE install[r]]
    /\ publication' = [r \in Requests |->
                         IF install[r].host = s THEN NoPublication ELSE publication[r]]

\* server::run binds the port, or ends when another server has it; one that
\* shuts down keeps its listener to the end.
Boot(s) ==
    /\ server[s] = "booting"
    /\ IF \E t \in Servers \ {s} : server[t] \in {"serving", "stopping"}
       THEN server' = [server EXCEPT ![s] = "off"] /\ Ended(s)
       ELSE /\ server' = [server EXCEPT ![s] = "serving"]
            /\ UNCHANGED <<unit, restartPending, install, publication>>
    /\ UNCHANGED <<files, record, undone, failures, userWrites>>

\* The graceful shutdown ends.
Exit(s) ==
    /\ server[s] = "stopping"
    /\ server' = [server EXCEPT ![s] = "off"]
    /\ Ended(s)
    /\ UNCHANGED <<files, record, undone, failures, userWrites>>

Crash(s) ==
    /\ server[s] \in {"serving", "stopping"}
    /\ Fail
    /\ server' = [server EXCEPT ![s] = "off"]
    /\ Ended(s)
    /\ UNCHANGED <<files, record, undone, userWrites>>

\* The user puts a file of another origin at a managed place.
UserWrites(p) ==
    /\ failures + userWrites < MaxFaults /\ files[p] # Foreign
    /\ userWrites' = userWrites + 1
    /\ files' = [files EXCEPT ![p] = Foreign]
    /\ UNCHANGED <<record, unit, server, restartPending, install, publication, undone, failures>>

-----------------------------------------------------------------------------
(* Supervisor::install up to its first effect *)

Finished == {"idle", "refused", "failed", "done", "dropped"}
Running(r) == install[r].stage \notin Finished

\* The lock is tried, then systemd is asked.
Begin(r, s, v) ==
    /\ install[r].stage = "idle" /\ server[s] \in {"serving", "stopping"}
    /\ \A q \in Requests : Running(q) => install[q].host # s
    /\ install' = [install EXCEPT ![r] =
          [IdleInstall EXCEPT !.stage = IF unit.loaded = Foreign THEN "refused" ELSE "seen",
                              !.host = s, !.want = v, !.seen = Seen]]
    /\ UNCHANGED <<files, record, unit, server, restartPending, publication, undone, failures, userWrites>>

\* installation_decision.
Decision(v) ==
    IF \E p \in Pieces : files[p] = Foreign THEN "foreign"
    ELSE IF \A p \in Pieces : files[p] = Missing THEN "fresh"
    ELSE IF \A p \in Pieces : files[p] = v THEN "current"
    ELSE "overwriteRequired"

Refuse(r) ==
    /\ install' = [install EXCEPT ![r].stage = "refused"]
    /\ UNCHANGED publication

Go(r, stage) == install' = [install EXCEPT ![r].stage = stage]

\* A snapshot taken while the thread of a dropped request still writes is a
\* mixture of the two: the history variable lossy excuses it.
Captured(r, i, stage) ==
    install' = [install EXCEPT ![r] =
       [i EXCEPT !.stage = stage, !.before = files,
                 !.lossy = \E q \in Requests \ {r} : publication[q] # NoPublication]]

\* The decision, the snapshot and the handoff record lead to one of the ways
\* through the rest.
Decide(r, overwrite) ==
    LET i == install[r]
        decision == Decision(i.want)
    IN  /\ i.stage = "seen"
        /\ IF decision = "foreign" \/ (decision = "overwriteRequired" /\ ~overwrite)
           THEN Refuse(r)
           ELSE IF decision = "current" /\ Managed(r) /\ i.host \notin restartPending
           THEN Captured(r, i, "refresh") /\ UNCHANGED publication
           ELSE IF record = i.host
           THEN IF decision # "current" THEN Refuse(r)
                ELSE IF HandoffStarted(i.seen)
                THEN Captured(r, i, "committed") /\ UNCHANGED publication
                ELSE /\ Captured(r, [i EXCEPT !.handoff = TRUE, !.started = ~ActiveState(i.seen)], "start")
                     /\ UNCHANGED publication
           ELSE IF record # None /\ Alive(record)
           THEN Refuse(r)
           ELSE IF i.seen.state \notin {"inactive", "failed"} /\ i.seen.main # i.host
           THEN Refuse(r)
           ELSE IF decision # "current"
           THEN /\ Captured(r, [i EXCEPT !.mutated = TRUE], "publishing")
                /\ publication' = [publication EXCEPT ![r] = [at |-> "check", want |-> i.want]]
           ELSE Captured(r, i, "reload") /\ UNCHANGED publication
        /\ UNCHANGED <<files, record, unit, server, restartPending, undone, failures, userWrites>>

\* status_from: what GET /supervisor answers at server s, which would install v.
ReportedState(s, v) ==
    LET managed == unit.main = s /\ ActiveState(unit)
    IN  IF unit.loaded = Foreign \/ Decision(v) = "foreign" THEN "foreign"
        ELSE IF s \in restartPending THEN "restartPending"
        ELSE IF record # None /\ Alive(record) /\ ~managed THEN "handoffPending"
        ELSE IF Decision(v) = "overwriteRequired" THEN "overwriteRequired"
        ELSE IF ActiveState(unit) THEN "active"
        ELSE IF unit.enabled THEN "enabled"
        ELSE IF unit.loaded # Missing \/ \A p \in Pieces : files[p] # Missing THEN "installed"
        ELSE "notInstalled"

-----------------------------------------------------------------------------
(* publish_install, in its blocking thread *)

NextPiece == [check |-> "release", release |-> "environment", environment |-> "unit",
              unit |-> "current", current |-> "done"]

PublicationCheck(r) ==
    /\ publication[r].at = "check"
    /\ publication' = [publication EXCEPT ![r].at =
          IF \E p \in Pieces : files[p] = Foreign THEN "failed" ELSE "release"]
    /\ UNCHANGED <<files, record, unit, server, restartPending, install, undone, failures, userWrites>>

\* Copying the release takes long; then three files are replaced by a rename
\* each, which refuses a link in the place of a file, and the reverse.
PublicationStep(r) ==
    LET p == publication[r].at
    IN  /\ p \in {"release"} \cup Pieces
        /\ \/ /\ Succeed
              /\ files' = IF p \in Pieces THEN [files EXCEPT ![p] = publication[r].want] ELSE files
              /\ publication' = [publication EXCEPT ![r].at = NextPiece[p]]
           \/ /\ Fail \/ (p \in Pieces /\ files[p] = Foreign /\ Succeed)
              /\ UNCHANGED files
              /\ publication' = [publication EXCEPT ![r].at = "failed"]
        /\ UNCHANGED <<record, unit, server, restartPending, install, undone, userWrites>>

Published(r) ==
    /\ install[r].stage = "publishing"
    /\ \/ publication[r].at = "done" /\ Go(r, "reload")
       \/ publication[r].at = "failed" /\ Go(r, "undoStop")
    /\ publication' = [publication EXCEPT ![r] = NoPublication]
    /\ UNCHANGED <<files, record, unit, server, restartPending, undone, failures, userWrites>>

\* The thread of a dropped request ends.
OrphanEnds(r) ==
    /\ install[r].stage = "dropped" /\ publication[r].at \in {"done", "failed"}
    /\ publication' = [publication EXCEPT ![r] = NoPublication]
    /\ UNCHANGED <<files, record, unit, server, restartPending, install, undone, failures, userWrites>>

-----------------------------------------------------------------------------
(* The rest of the install *)

\* reload_systemd_definition.
Reload(r) ==
    /\ install[r].stage \in {"refresh", "reload"}
    /\ \/ /\ Succeed
          /\ unit' = [unit EXCEPT !.loaded = files["unit"]]
          /\ Go(r, IF install[r].stage = "refresh" THEN "refreshEnable" ELSE "enable")
       \/ /\ Fail
          /\ unit' \in {unit, [unit EXCEPT !.loaded = files["unit"]]}
          /\ Go(r, "undoStop")
    /\ UNCHANGED <<files, record, server, restartPending, publication, undone, userWrites>>

\* What follows `systemctl enable`: a refresh is done and needs no restart.
AfterEnable(r) ==
    IF install[r].stage = "refreshEnable" THEN "done"
    ELSE IF Managed(r) THEN "start" ELSE "record"

\* systemctl enable; when it fails, the status tells whether it took effect.
Enable(r) ==
    LET i == install[r]
    IN  /\ i.stage \in {"refreshEnable", "enable"}
        /\ \/ /\ Succeed
              /\ unit' = [unit EXCEPT !.enabled = TRUE]
              /\ install' = [install EXCEPT ![r] =
                    [i EXCEPT !.stage = AfterEnable(r), !.newlyEnabled = ~i.seen.enabled]]
           \/ /\ Fail
              /\ unit' \in {unit, [unit EXCEPT !.enabled = TRUE]}
              /\ \E status \in BOOLEAN :
                    install' = [install EXCEPT ![r] =
                       [i EXCEPT !.stage = "undoStop",
                                 !.newlyEnabled = status /\ ~i.seen.enabled /\ unit'.enabled,
                                 !.lossy = i.lossy \/ ~status]]
        /\ UNCHANGED <<files, record, server, restartPending, publication, undone, userWrites>>

\* write_handoff_record.
WriteRecord(r) ==
    LET i == install[r]
    IN  /\ i.stage = "record"
        /\ \/ /\ Succeed
              /\ record' = i.host
              /\ install' = [install EXCEPT ![r] =
                    [i EXCEPT !.stage = "start", !.handoff = TRUE, !.started = TRUE]]
           \/ /\ Fail
              /\ record' \in {record, i.host}
              /\ install' = [install EXCEPT ![r] = [i EXCEPT !.stage = "undoStop", !.handoff = TRUE]]
        /\ UNCHANGED <<files, unit, server, restartPending, publication, undone, userWrites>>

\* start_systemd_service.
Start(r) ==
    /\ install[r].stage = "start"
    /\ \/ Succeed /\ StartEffect /\ Go(r, IF Managed(r) THEN "committed" ELSE "wait")
       \/ Fail /\ (StartEffect \/ UNCHANGED unit) /\ Go(r, "undoStop")
    /\ undone' = "none"
    /\ UNCHANGED <<files, record, server, restartPending, publication, userWrites>>

\* wait_for_handoff_start: the helper is seen within 4 seconds, or not.
AwaitHandoff(r) ==
    /\ install[r].stage = "wait"
    /\ \/ HandoffStarted(Seen) /\ Succeed /\ Go(r, "committed")
       \/ ~HandoffStarted(Seen) /\ Succeed /\ Go(r, "undoStop")
       \/ Fail /\ Go(r, "undoStop")
    /\ UNCHANGED <<files, record, unit, server, restartPending, publication, undone, userWrites>>

\* (Mutation: the pending restart is not remembered.)
AnswerForgets(r) ==
    LET s == install[r].host
    IN  /\ install[r].stage = "committed"
        /\ Go(r, "done")
        /\ server' = [server EXCEPT ![s] = "stopping"]
        /\ UNCHANGED <<files, record, unit, restartPending, publication, undone, failures, userWrites>>

\* The status is read once more, the answer given, the shutdown requested.
Answer(r) ==
    LET s == install[r].host
    IN  /\ install[r].stage = "committed"
        /\ Go(r, "done")
        /\ restartPending' = IF Managed(r) THEN restartPending \cup {s} ELSE restartPending
        /\ server' = [server EXCEPT ![s] = "stopping"]
        /\ UNCHANGED <<files, record, unit, publication, undone, failures, userWrites>>

\* The client goes away: no rollback.
Drop(r) ==
    /\ Running(r)
    /\ install' = [install EXCEPT ![r] = [IdleInstall EXCEPT !.stage = "dropped", !.host = install[r].host]]
    /\ UNCHANGED <<files, record, unit, server, restartPending, publication, undone, failures, userWrites>>

-----------------------------------------------------------------------------
(* InstallTransaction::rollback: it goes on when a command fails *)

Lossy(r, stage) == install' = [install EXCEPT ![r].stage = stage, ![r].lossy = TRUE]

UndoStop(r) ==
    LET i == install[r]
    IN  /\ i.stage = "undoStop"
        /\ IF i.started /\ ~ActiveState(i.seen)
           THEN \/ Succeed /\ StopEffect /\ Go(r, "undoEnable") /\ undone' = "stopped"
                \/ Fail /\ (StopEffect \/ UNCHANGED <<unit, server>>) /\ Lossy(r, "undoEnable") /\ undone' = "lost"
           ELSE Succeed /\ UNCHANGED <<unit, server, undone>> /\ Go(r, "undoEnable")
        /\ UNCHANGED <<files, record, restartPending, publication, userWrites>>

UndoEnable(r) ==
    LET i == install[r]
    IN  /\ i.stage = "undoEnable"
        /\ IF i.newlyEnabled /\ ~i.seen.enabled
           THEN \/ Succeed /\ unit' = [unit EXCEPT !.enabled = FALSE] /\ Go(r, "undoFiles")
                \/ Fail /\ UNCHANGED unit /\ Lossy(r, "undoFiles")
           ELSE Succeed /\ UNCHANGED unit /\ Go(r, "undoFiles")
        /\ UNCHANGED <<files, record, server, restartPending, publication, undone, userWrites>>

\* restore_install_snapshot: in the order environment, unit, link, up to the
\* first file that is not the server's.
Restored(i) ==
    LET blocked(p) == \/ files["environment"] = Foreign
                      \/ p # "environment" /\ files["unit"] = Foreign
                      \/ p = "current" /\ files["current"] = Foreign
    IN  [p \in Pieces |-> IF blocked(p) THEN files[p] ELSE i.before[p]]

UndoFiles(r) ==
    LET i == install[r]
    IN  /\ i.stage = "undoFiles"
        /\ IF i.mutated
           THEN \/ Succeed /\ files' = Restored(i) /\ Go(r, "undoReload")
                \/ /\ Fail /\ Lossy(r, "undoReload")
                   /\ \E last \in {{}, {"environment"}, {"environment", "unit"}} :
                         files' = [p \in Pieces |-> IF p \in last THEN Restored(i)[p] ELSE files[p]]
           ELSE Succeed /\ UNCHANGED files /\ Go(r, "undoReload")
        /\ UNCHANGED <<record, unit, server, restartPending, publication, undone, userWrites>>

UndoReload(r) ==
    LET i == install[r]
    IN  /\ i.stage = "undoReload"
        /\ IF i.mutated
           THEN \/ Succeed /\ unit' = [unit EXCEPT !.loaded = files["unit"]] /\ Go(r, "undoRecord")
                \/ Fail /\ UNCHANGED unit /\ Lossy(r, "undoRecord")
           ELSE Succeed /\ UNCHANGED unit /\ Go(r, "undoRecord")
        /\ UNCHANGED <<files, record, server, restartPending, publication, undone, userWrites>>

UndoRecord(r) ==
    LET i == install[r]
    IN  /\ i.stage = "undoRecord"
        /\ record' = IF i.handoff /\ record = i.host THEN None ELSE record
        /\ Go(r, "failed")
        /\ UNCHANGED <<files, unit, server, restartPending, publication, undone, failures, userWrites>>

-----------------------------------------------------------------------------
InstallStep(r) ==
    \/ \E s \in Servers, v \in Versions : Begin(r, s, v)
    \/ \E overwrite \in BOOLEAN : Decide(r, overwrite)
    \/ PublicationCheck(r) \/ PublicationStep(r) \/ Published(r) \/ OrphanEnds(r)
    \/ Reload(r) \/ Enable(r) \/ WriteRecord(r) \/ Start(r) \/ AwaitHandoff(r) \/ Answer(r)
    \/ Drop(r)
    \/ UndoStop(r) \/ UndoEnable(r) \/ UndoFiles(r) \/ UndoReload(r) \/ UndoRecord(r)

Next ==
    \/ \E r \in Requests : InstallStep(r)
    \/ \E s \in Servers : Boot(s) \/ Exit(s) \/ Crash(s)
    \/ \E p \in Pieces : UserWrites(p)
    \/ HelperRead \/ HelperDone \/ HelperFails \/ UnitRestarts

\* systemd and the processes it starts go on, and a graceful shutdown ends.
Fairness ==
    /\ WF_vars(HelperRead) /\ WF_vars(HelperDone) /\ WF_vars(UnitRestarts)
    /\ \A s \in Servers : WF_vars(Boot(s)) /\ WF_vars(Exit(s))

Spec == Init /\ [][Next]_vars /\ Fairness

-----------------------------------------------------------------------------
TypeOK ==
    /\ files \in [Pieces -> Contents]
    /\ record \in Servers \cup {None}
    /\ unit.state \in {"inactive", "failed", "start-pre", "active", "stopping", "restart"}
    /\ unit.main \in Servers \cup {None}
    /\ unit.waits \in Servers \cup {None, Unread}
    /\ unit.enabled \in BOOLEAN /\ unit.loaded \in Contents
    /\ server \in [Servers -> {"off", "booting", "serving", "stopping"}]
    /\ restartPending \subseteq Servers /\ undone \in {"none", "stopped", "lost"}
    /\ failures \in 0..MaxFaults /\ userWrites \in 0..MaxFaults

\* A server that the service starts finds its predecessor gone.
HandoffIsExclusive ==
    undone # "lost" => \A s \in Servers : server[s] = "booting" => \A t \in Servers \ {s} : ~Alive(t)

\* While a server shuts down for its successor, its status says so: no other
\* install and no rollback takes the record away before it is gone.
ShutdownIsReported ==
    \A s \in Servers, v \in Versions :
        server[s] = "stopping" /\ undone = "none" /\ unit.state # "stopping"
            => ReportedState(s, v) \in {"restartPending", "handoffPending", "foreign"}

\* An install that failed, with a rollback that did not, leaves no trace.
NobodyElseWrites(r) ==
    /\ \A q \in Requests \ {r} : publication[q] = NoPublication
    /\ userWrites = 0

RestoredAtEnd(r) ==
    LET i == install[r]
    IN  (i.stage = "undoRecord" /\ install'[r].stage = "failed" /\ ~i.lossy /\ NobodyElseWrites(r))
        => /\ files = i.before
           /\ unit.enabled = i.seen.enabled
           /\ i.mutated => unit.loaded = files["unit"]
           /\ i.handoff => record' # i.host

FailedInstallLeavesNoTrace == [][\A r \in Requests : RestoredAtEnd(r)]_vars

\* Once a server shuts down for its successor, the service serves, unless a
\* later rollback stopped it.
Stopping == \E s \in Servers : server[s] = "stopping"
Serves == undone # "none" \/ \E s \in Servers : server[s] = "serving"

HandoffCompletes == Stopping ~> Serves

\* What the server promises of an install that ends either way, and of the
\* handoff that follows it (Supervisor::install, run_handoff_helper).
InstallIsSafe ==
    [](TypeOK /\ HandoffIsExclusive /\ ShutdownIsReported) /\ FailedInstallLeavesNoTrace
=============================================================================
