---------------------------- MODULE AgentInstall ----------------------------
(* Installing an agent's command line under the data directory               *)
(* (agent/install.rs).  A request looks for an executable that satisfies the *)
(* specification, runs npm and the package's own script in a staging         *)
(* directory, validates what they left and moves it into the managed place,  *)
(* with the previous installation as a backup.  Commands run in a process    *)
(* group of their own (process.rs); a client may go away at any await, the   *)
(* server may be stopped or killed.                                          *)
EXTENDS Naturals

CONSTANTS
    Requests,       \* the installation requests, each made once
    Installs,       \* the agents they may ask for: functions from Requests to Agents
    OpenCode,       \* the agent whose database follows its version
    Codex, Pi,      \* agents that accept any installed version
    TraeCli,        \* an agent that is installed by other means only
    Old, New,       \* an older version and the version installed (v1 and v2 of OpenCode)
    Broken,         \* what npm leaves when the package does not work
    Others,         \* the requests that hold the history lock beside the installation
    None

Answers == {"ok", "created", "busy", "unsupported", "failed", "timeout", "dropped"}

InstallConstants ==
    /\ OpenCode \notin {Codex, Pi, TraeCli} /\ Codex \notin {Pi, TraeCli} /\ Pi # TraeCli
    /\ Old \notin {New, Broken, None} /\ New \notin {Broken, None} /\ Broken # None
    /\ Requests \cap Others = {} /\ None \notin Requests \cup Others \cup Answers
    /\ Installs \subseteq [Requests -> {OpenCode, Codex, Pi, TraeCli}]

ASSUME InstallAssumption == InstallConstants

Agents == {OpenCode, Codex, Pi, TraeCli}
Installable == Agents \ {TraeCli}
Versions == {Old, New}

VARIABLES
    managed,        \* the version in the managed directory of each agent
    path,           \* the version of each agent found on the PATH
    dirs,           \* the directories made for a request that are still there
    at,             \* the stage of each request
    agent,          \* what each request installs
    content,        \* what its staging directory holds
    saved,          \* the version its backup directory holds
    answer,         \* what it answered
    leader, helper, \* the processes of its command: the child and one of its descendants
    history,        \* who holds the history lock
    binding,        \* the version whose database is bound
    crashed         \* the server was killed and started again

fileVars == <<managed, path, dirs, content, saved>>
requestVars == <<at, agent, answer>>
processVars == <<leader, helper>>
serverVars == <<history, binding, crashed>>
vars == <<fileVars, requestVars, processVars, serverVars>>

Stages == {"verify", "tools", "npm", "script", "validate", "history", "publish", "swap",
           "sweep", "rebind", "lineage", "cleanup"}

TypeOK ==
    /\ managed \in [Agents -> Versions \cup {Broken, None}]
    /\ path \in [Agents -> Versions \cup {None}]
    /\ dirs \subseteq {"staging", "work", "backup"} \X Requests
    /\ at \in [Requests -> Stages \cup {"new", "done"}]
    /\ agent \in [Requests -> Agents]
    /\ content \in [Requests -> {New, Broken, None}]
    /\ saved \in [Requests -> Versions \cup {Broken, None}]
    /\ answer \in [Requests -> Answers \cup {None}]
    /\ leader \in [Requests -> {"none", "runs", "failed", "reaped"}]
    /\ helper \in [Requests -> BOOLEAN]
    /\ history \in Requests \cup Others \cup {None}
    /\ binding \in Versions
    /\ crashed \in BOOLEAN

\* The executables of an agent that are found and answer; a probe that takes
\* longer than its two seconds hides one.
Found(a) == {managed[a], path[a]} \ {Broken, None}

\* OpenCode needs its second generation, any other agent just an executable.
Satisfied(a, seen) == IF a = OpenCode THEN New \in seen ELSE seen # {}

\* The version whose database a server binds when it starts.
Bound == IF Found(OpenCode) = {Old} THEN Old ELSE New

Init ==
    /\ managed \in [Agents -> {Old, None}]
    /\ path \in [Agents -> {Old, None}]
    /\ dirs = {}
    /\ at = [r \in Requests |-> "new"]
    /\ agent \in Installs
    /\ \A a \in Agents : a \notin {agent[r] : r \in Requests} => managed[a] = None /\ path[a] = None
    /\ content = [r \in Requests |-> None]
    /\ saved = [r \in Requests |-> None]
    /\ answer = [r \in Requests |-> None]
    /\ leader = [r \in Requests |-> "none"]
    /\ helper = [r \in Requests |-> FALSE]
    /\ history = None
    /\ binding = Bound
    /\ crashed = FALSE

Active(r) == at[r] \in Stages
Go(r, stage) == at' = [at EXCEPT ![r] = stage]

\* (Mutation: who ends keeps the lock of the history.)
Unreleased(who) == history

\* The lock of the history is released by the end of who holds it.
Released(who) == IF history = who THEN None ELSE history

\* The end of a request: its locks are released and the guards of its staging
\* and work directories remove them, which a process that still writes there
\* may defeat.
Own(r) == {"staging", "work"} \X {r}
Ends(r, result) ==
    /\ Go(r, "done")
    /\ answer' = [answer EXCEPT ![r] = result]
    /\ history' = Released(r)
    /\ \E left \in {{}} \cup (IF helper'[r] THEN {Own(r) \cap dirs} ELSE {}) : dirs' = (dirs \ Own(r)) \cup left
    /\ content' = [content EXCEPT ![r] = None]
    /\ UNCHANGED agent

-----------------------------------------------------------------------------
\* install: one installation at a time, of whatever agent.
Unsupported(r) ==
    /\ at[r] = "new" /\ agent[r] \notin Installable
    /\ Go(r, "done") /\ answer' = [answer EXCEPT ![r] = "unsupported"]
    /\ UNCHANGED <<fileVars, agent, processVars, serverVars>>

Install(r) ==
    /\ at[r] = "new" /\ agent[r] \in Installable /\ ~\E other \in Requests : Active(other)
    /\ Go(r, "verify")
    /\ UNCHANGED <<fileVars, agent, answer, processVars, serverVars>>

Busy(r) ==
    /\ at[r] = "new" /\ agent[r] \in Installable /\ \E other \in Requests : Active(other)
    /\ Go(r, "done") /\ answer' = [answer EXCEPT ![r] = "busy"]
    /\ UNCHANGED <<fileVars, agent, processVars, serverVars>>

\* verified_executable: an installation that satisfies the request ends it.
Verify(r) ==
    /\ at[r] = "verify"
    /\ UNCHANGED processVars
    /\ \E seen \in SUBSET Found(agent[r]) :
          IF Satisfied(agent[r], seen)
          THEN Ends(r, "ok")
          ELSE Go(r, "tools") /\ UNCHANGED <<dirs, content, agent, answer, history>>
    /\ UNCHANGED <<managed, path, saved, binding, crashed>>

\* Node and npm are looked for, the directories are made and npm is started.
Prepare(r) ==
    /\ at[r] = "tools"
    /\ Go(r, "npm")
    /\ dirs' = dirs \cup Own(r)
    /\ leader' = [leader EXCEPT ![r] = "runs"]
    /\ UNCHANGED <<managed, path, content, saved, agent, answer, helper, serverVars>>

Unprepared(r) ==
    /\ at[r] = "tools"
    /\ UNCHANGED processVars
    /\ Ends(r, "failed")
    /\ UNCHANGED <<managed, path, saved, binding, crashed>>

-----------------------------------------------------------------------------
(* A command: the child leads a process group and may have descendants that  *)
(* hold its output.  The output is complete when both have ended.            *)
Runs(r) == at[r] \in {"npm", "script", "validate"}

Fork(r) ==
    /\ Runs(r) /\ leader[r] = "runs" /\ ~helper[r]
    /\ helper' = [helper EXCEPT ![r] = TRUE]
    /\ UNCHANGED <<fileVars, requestVars, leader, serverVars>>

HelperEnds(r) ==
    /\ helper[r]
    /\ helper' = [helper EXCEPT ![r] = FALSE]
    /\ UNCHANGED <<fileVars, requestVars, leader, serverVars>>

\* The child ends and is waited for; a server that was killed no longer waits.
LeaderEnds(r) ==
    /\ leader[r] = "runs" /\ at[r] # "cleanup"
    /\ \E status \in {"failed", "reaped"} : leader' = [leader EXCEPT ![r] = status]
    /\ UNCHANGED <<fileVars, requestVars, helper, serverVars>>

Complete(r, status) == Runs(r) /\ leader[r] = status /\ ~helper[r]

CommandFails(r) ==
    /\ Complete(r, "failed")
    /\ UNCHANGED processVars
    /\ Ends(r, "failed")
    /\ UNCHANGED <<managed, path, saved, binding, crashed>>

\* What npm and the package's script leave need not be what was asked for.
CommandSucceeds(r) ==
    /\ at[r] \in {"npm", "script"} /\ Complete(r, "reaped")
    /\ Go(r, IF at[r] = "npm" /\ agent[r] = OpenCode THEN "script" ELSE "validate")
    /\ leader' = [leader EXCEPT ![r] = "runs"]
    /\ \E left \in {New, Broken} : content' = [content EXCEPT ![r] = left]
    /\ UNCHANGED <<managed, path, dirs, saved, agent, answer, helper, serverVars>>

\* validate_installed_version: only the version that was asked for is published.
IsValid(r) == content[r] = New

Validate(r) ==
    /\ at[r] = "validate" /\ Complete(r, "reaped")
    /\ UNCHANGED processVars
    /\ IF IsValid(r)
       THEN Go(r, IF agent[r] = OpenCode THEN "history" ELSE "publish") /\ UNCHANGED <<dirs, content, agent, answer, history>>
       ELSE Ends(r, "failed")
    /\ UNCHANGED <<managed, path, saved, binding, crashed>>

\* (Mutation: the time limit is that of the child, not of its output.)
TimesOutWithChild(r) ==
    /\ Runs(r) /\ leader[r] = "runs"
    /\ Go(r, "cleanup")
    /\ helper' \in {helper, [helper EXCEPT ![r] = FALSE]}
    /\ UNCHANGED <<fileVars, agent, answer, leader, serverVars>>

\* command_output gives up: the group is asked to end and then killed, also
\* when the child has already been waited for.
TimesOut(r) ==
    /\ Runs(r)
    /\ Go(r, "cleanup")
    /\ helper' \in {helper, [helper EXCEPT ![r] = FALSE]}
    /\ UNCHANGED <<fileVars, agent, answer, leader, serverVars>>

Kill(r) ==
    /\ at[r] = "cleanup"
    /\ leader' = [leader EXCEPT ![r] = "none"]
    /\ helper' = [helper EXCEPT ![r] = FALSE]
    /\ Ends(r, "timeout")
    /\ UNCHANGED <<managed, path, saved, binding, crashed>>

\* A command that is dropped kills its group only while the child is not waited for.
DropCommand(r) ==
    IF leader[r] = "runs"
    THEN leader' = [leader EXCEPT ![r] = "none"] /\ helper' = [helper EXCEPT ![r] = FALSE]
    ELSE UNCHANGED processVars

\* The server is being stopped: the command is dropped and the request answered.
Interrupt(r) ==
    /\ (Runs(r) \/ at[r] = "cleanup")
    /\ DropCommand(r)
    /\ Ends(r, "failed")
    /\ UNCHANGED <<managed, path, saved, binding, crashed>>

\* The client went away: the request is dropped where it waits.
Drop(r) ==
    /\ at[r] \in {"verify", "tools", "npm", "script", "validate", "cleanup", "history", "rebind", "lineage"}
    /\ DropCommand(r)
    /\ Ends(r, "dropped")
    /\ UNCHANGED <<managed, path, saved, binding, crashed>>

-----------------------------------------------------------------------------
\* The lock of the history, for OpenCode only: from here to the end the
\* conversations are listed, resumed and removed by nobody else.
LockHistoryFor(r) ==
    /\ at[r] = "history" /\ history = None
    /\ history' = r
    /\ Go(r, "publish")
    /\ UNCHANGED <<fileVars, agent, answer, processVars, binding, crashed>>

\* publish, one system call after the other.  The previous installation is
\* moved aside; an unsafe directory or a failing call ends the request.
MoveAside(r) ==
    /\ at[r] = "publish"
    /\ Go(r, "swap")
    /\ saved' = [saved EXCEPT ![r] = managed[agent[r]]]
    /\ managed' = [managed EXCEPT ![agent[r]] = None]
    /\ dirs' = IF managed[agent[r]] = None THEN dirs ELSE dirs \cup {<<"backup", r>>}
    /\ UNCHANGED <<path, content, agent, answer, processVars, serverVars>>

Unpublished(r) ==
    /\ at[r] = "publish"
    /\ UNCHANGED processVars
    /\ Ends(r, "failed")
    /\ UNCHANGED <<managed, path, saved, binding, crashed>>

Swap(r) ==
    /\ at[r] = "swap"
    /\ Go(r, "sweep")
    /\ managed' = [managed EXCEPT ![agent[r]] = content[r]]
    /\ content' = [content EXCEPT ![r] = None]
    /\ dirs' = dirs \ {<<"staging", r>>}
    /\ UNCHANGED <<path, saved, agent, answer, processVars, serverVars>>

\* (Mutation: the backup is removed instead.)
Discarded(r) == UNCHANGED managed /\ saved' = [saved EXCEPT ![r] = None]

\* The staging directory cannot be moved: the backup is moved back, if it can be.
RolledBack(r) == managed' = [managed EXCEPT ![agent[r]] = saved[r]] /\ saved' = [saved EXCEPT ![r] = None]
SwapFails(r) ==
    /\ at[r] = "swap"
    /\ RolledBack(r) \/ UNCHANGED <<managed, saved>>
    /\ Go(r, "done") /\ answer' = [answer EXCEPT ![r] = "failed"]
    /\ history' = Released(r)
    /\ dirs' = (dirs \ Own(r)) \ (IF saved' = saved THEN {} ELSE {<<"backup", r>>})
    /\ content' = [content EXCEPT ![r] = None]
    /\ UNCHANGED <<path, agent, processVars, binding, crashed>>

\* The backup is removed, if it can be; OpenCode's database is bound again.
Sweep(r) ==
    /\ at[r] = "sweep"
    /\ \/ saved' = [saved EXCEPT ![r] = None]
       \/ UNCHANGED saved
    /\ UNCHANGED processVars
    /\ IF agent[r] = OpenCode
       THEN /\ Go(r, "rebind")
            /\ dirs' = dirs \ (IF saved'[r] = None THEN {<<"backup", r>>} ELSE {})
            /\ UNCHANGED <<agent, answer, history>>
       ELSE /\ Go(r, "done") /\ answer' = [answer EXCEPT ![r] = "created"]
            /\ dirs' = (dirs \ Own(r)) \ (IF saved'[r] = None THEN {<<"backup", r>>} ELSE {})
            /\ UNCHANGED <<agent, history>>
    /\ UNCHANGED <<managed, path, content, binding, crashed>>

Rebind(r) ==
    /\ at[r] = "rebind"
    /\ Go(r, "lineage")
    /\ binding' = New
    /\ UNCHANGED <<fileVars, agent, answer, processVars, history, crashed>>

\* The lineage of the conversations is read, whatever comes of it.
Lineage(r) ==
    /\ at[r] = "lineage"
    /\ UNCHANGED processVars
    /\ Ends(r, "created")
    /\ UNCHANGED <<managed, path, saved, binding, crashed>>

-----------------------------------------------------------------------------
\* The server is killed: its requests end with it and what they made stays,
\* their processes among it.  The next one binds the database it finds.
Crash ==
    /\ ~crashed /\ crashed' = TRUE
    /\ at' = [r \in Requests |-> IF Active(r) THEN "done" ELSE at[r]]
    /\ answer' = [r \in Requests |-> IF Active(r) THEN "dropped" ELSE answer[r]]
    /\ history' = None
    /\ binding' = Bound
    /\ UNCHANGED <<fileVars, agent, processVars>>

\* A list, a launch or a removal holds the history lock and binds the database
\* of the version it found.
OtherLocks(o) ==
    /\ history = None /\ history' = o
    /\ binding' \in Versions
    /\ UNCHANGED <<fileVars, requestVars, processVars, crashed>>

OtherUnlocks(o) ==
    /\ history = o /\ history' = None
    /\ UNCHANGED <<fileVars, requestVars, processVars, binding, crashed>>

Step(r) ==
    \/ Verify(r) \/ Prepare(r) \/ Unprepared(r) \/ CommandFails(r) \/ CommandSucceeds(r) \/ Validate(r)
    \/ TimesOut(r) \/ Kill(r) \/ LockHistoryFor(r) \/ MoveAside(r) \/ Unpublished(r) \/ Swap(r)
    \/ SwapFails(r) \/ Sweep(r) \/ Rebind(r) \/ Lineage(r)

InstallNext ==
    \/ \E r \in Requests : Install(r) \/ Busy(r) \/ Unsupported(r) \/ Step(r) \/ Interrupt(r) \/ Drop(r) \/ Fork(r) \/ HelperEnds(r) \/ LeaderEnds(r)
    \/ Crash

Next == InstallNext \/ \E o \in Others : OtherLocks(o) \/ OtherUnlocks(o)

\* A task is run when it can go on, and the lock of the history is handed out
\* in the order of its requests; a command ends or takes too long.
Fairness ==
    /\ \A r \in Requests : WF_vars(Step(r)) /\ SF_vars(LockHistoryFor(r))
    /\ \A o \in Others : WF_vars(OtherUnlocks(o))

Spec == Init /\ [][Next]_vars /\ Fairness

-----------------------------------------------------------------------------
\* The versions of an agent that exist under the data directory: in place or
\* moved aside by an installation.
Copies(a) == ({managed[a]} \cup {saved[r] : r \in {q \in Requests : agent[q] = a}}) \ {None}

\* An installation is all or nothing: the managed directory only ever holds a
\* version that was validated and, while something is moved aside, a version is
\* never lost; a request that ended leaves no staging directory behind, unless
\* a process that outlived it still writes there or the server was killed, no
\* process when it timed out, and "created" says that the version is in place
\* and the database bound to it
\* (install.rs install, install_managed, publish; process.rs command_output).
InstallIsAllOrNothing ==
    /\ []TypeOK
    /\ [](\A a \in Agents : managed[a] # Broken)
    /\ [](\A r \in Requests : at[r] = "done" =>
             \/ crashed
             \/ Own(r) \cap dirs # {} => answer[r] \in {"failed", "dropped"} /\ leader[r] \in {"failed", "reaped"})
    /\ [](\A r \in Requests : answer[r] = "timeout" => ~helper[r] /\ leader[r] # "runs")
    /\ [][\A a \in Agents : /\ Copies(a) # {} => Copies(a)' # {}
                            /\ managed[a] # None /\ managed'[a] = None => saved' # saved]_vars
    /\ [][\A r \in Requests : answer'[r] = "created" /\ answer[r] = None =>
             managed'[agent[r]] = New /\ (agent[r] = OpenCode => binding' = New)]_vars

\* Every installation ends, whatever its commands do and whoever else holds the
\* lock of the history (process.rs command_output has a time limit).
InstallationsEnd == \A r \in Requests : at[r] = "verify" ~> at[r] = "done"

=============================================================================
