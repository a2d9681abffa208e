----------------------------- MODULE AgentLaunch -----------------------------
(* Launching an agent (agent/api.rs create, agent/launch) while its command  *)
(* line may be installed (AgentInstall) or replaced by other means.  A       *)
(* request looks for the executable first, waits for its locks, prepares the *)
(* conversation in the database of the version it found and starts a wrapper *)
(* in a directory of its own, which runs the user's scripts and then the     *)
(* executable.                                                               *)
EXTENDS AgentInstall

CONSTANTS Creates   \* the launch requests

\* What is written into the directory of a run.
FileNames == {"wrapper", "skills", "home", "descriptor", "plugin", "extension", "clipboard"}

\* A launch is one of those that hold the lock of the history beside an installation;
\* nothing is written or found nowhere.
LaunchConstants ==
    /\ Creates \subseteq Others
    /\ None \notin {"managed", "path"} /\ \A written \in SUBSET FileNames : written # None

ASSUME LaunchAssumption == LaunchConstants

VARIABLES
    step,           \* the stage of each request
    kind,           \* the agent it launches
    found,          \* the executable it verified: its place and version
    replaced,       \* the executable there changed since
    prepared,       \* the version whose database the conversation was prepared in
    files,          \* what was written into its run directory, if it exists
    session,        \* the session it started
    reply           \* what it answered

launchVars == <<step, kind, found, replaced, prepared, files, session, reply>>
allVars == <<vars, launchVars>>

Unstarted == [alive |-> FALSE, names |-> {}, arguments |-> None, database |-> None, runs |-> None]

LaunchTypeOK ==
    /\ step \in [Creates -> {"new", "verify", "workspace", "history", "prepare", "spawn", "write", "start",
                             "attach", "done"}]
    /\ kind \in [Creates -> Agents]
    /\ \A c \in Creates : found[c].place \in {"managed", "path", None} /\ found[c].version \in Versions \cup {None}
    /\ replaced \in [Creates -> BOOLEAN]
    /\ prepared \in [Creates -> Versions \cup {None}]
    /\ \A c \in Creates : files[c] = None \/ files[c] \subseteq FileNames
    /\ \A c \in Creates : DOMAIN session[c] = DOMAIN Unstarted
    /\ reply \in [Creates -> {None, "unavailable", "failed", "created", "dropped"}]

LaunchInit ==
    /\ Init
    /\ step = [c \in Creates |-> "new"]
    /\ kind \in [Creates -> Agents]
    /\ found = [c \in Creates |-> [place |-> None, version |-> None]]
    /\ replaced = [c \in Creates |-> FALSE]
    /\ prepared = [c \in Creates |-> None]
    /\ files = [c \in Creates |-> None]
    /\ session = [c \in Creates |-> Unstarted]
    /\ reply = [c \in Creates |-> None]

At(a, place) == IF place = "managed" THEN managed[a] ELSE path[a]
Enter(c, stage) == step' = [step EXCEPT ![c] = stage]

\* The answer of a request, which gives the history lock back.
Reply(c, result) ==
    /\ Enter(c, "done")
    /\ reply' = [reply EXCEPT ![c] = result]
    /\ history' = Released(c)

Create(c) ==
    /\ step[c] = "new" /\ Enter(c, "verify")
    /\ UNCHANGED <<vars, kind, found, replaced, prepared, files, session, reply>>

\* verified_executable: of the candidates that answer, one of OpenCode's second
\* generation, the managed one first; otherwise the one on the PATH first.
Chosen(a, answers) ==
    LET second == {p \in answers : At(a, p) = New}
    IN  IF a = OpenCode /\ second # {}
        THEN IF "managed" \in second THEN "managed" ELSE "path"
        ELSE IF "path" \in answers THEN "path" ELSE IF "managed" \in answers THEN "managed" ELSE None

VerifyExecutable(c) ==
    /\ step[c] = "verify"
    /\ \E answers \in SUBSET {p \in {"managed", "path"} : At(kind[c], p) \in Versions} :
          LET place == Chosen(kind[c], answers) IN
          IF place = None
          THEN Reply(c, "unavailable") /\ UNCHANGED found
          ELSE /\ Enter(c, "workspace")
               /\ found' = [found EXCEPT ![c] = [place |-> place, version |-> At(kind[c], place)]]
               /\ UNCHANGED <<reply, history>>
    /\ UNCHANGED <<fileVars, requestVars, processVars, binding, crashed, kind, replaced, prepared, files, session>>

\* The workspace must exist, the launch configuration too, and the skill
\* profile is applied.
Resolve(c) ==
    /\ step[c] = "workspace"
    /\ \/ Enter(c, "history") /\ UNCHANGED <<reply, history>>
       \/ Reply(c, "failed")
    /\ UNCHANGED <<fileVars, requestVars, processVars, binding, crashed, kind, found, replaced, prepared, files, session>>

\* (Mutation: the database stays bound to the version of the last request.)
BindToLast(c) == binding

\* Under the history lock OpenCode's database is bound to the version found.
BindTo(c) == IF kind[c] = OpenCode THEN found[c].version ELSE binding
LockHistory(c) ==
    /\ step[c] = "history" /\ history = None
    /\ Enter(c, "prepare")
    /\ history' = c
    /\ binding' = BindTo(c)
    /\ UNCHANGED <<fileVars, requestVars, processVars, crashed, kind, found, replaced, prepared, files, session, reply>>

\* The backend prepares a new conversation or the one to resume.
PrepareConversation(c) ==
    /\ step[c] = "prepare"
    /\ \/ Enter(c, "spawn") /\ prepared' = [prepared EXCEPT ![c] = binding] /\ UNCHANGED <<reply, history>>
       \/ Reply(c, "failed") /\ UNCHANGED prepared
    /\ UNCHANGED <<fileVars, requestVars, processVars, binding, crashed, kind, found, replaced, files, session>>

-----------------------------------------------------------------------------
(* What the agents' launchers write into the run directory, what may fail to *)
(* be written without ending the launch, and what the command names of it.   *)
CodexFiles(version, skills) ==
    [must |-> {"wrapper"} \cup (IF skills THEN {"home"} ELSE {}),
     may |-> IF version = New THEN {"descriptor"} ELSE {}]

OpenCodeFiles(version, skills) ==
    [must |-> {"wrapper"} \cup (IF skills THEN {"skills"} ELSE {}) \cup (IF version = Old THEN {"clipboard"} ELSE {}),
     may |-> IF version = New THEN {"descriptor", "plugin"} ELSE {}]

TraeFiles(version, skills) ==
    [must |-> {"wrapper"} \cup (IF skills THEN {"home"} ELSE {}),
     may |-> IF version = New THEN {"descriptor"} ELSE {}]

PiFiles(version, skills) ==
    [must |-> {"wrapper"} \cup (IF skills THEN {"skills"} ELSE {}), may |-> {"descriptor", "extension"}]

Files(a, version, skills) ==
    CASE a = Codex -> CodexFiles(version, skills)
      [] a = OpenCode -> OpenCodeFiles(version, skills)
      [] a = TraeCli -> TraeFiles(version, skills)
      [] a = Pi -> PiFiles(version, skills)

\* OpenCode's reporter needs all of its files.
Named(a, parts, written) ==
    IF a = OpenCode /\ ~(parts.may \subseteq written) THEN parts.must ELSE written

\* The directory of the run is made, filled and given to the session; a step
\* that fails removes it.
MakeRunDirectory(c) ==
    /\ step[c] = "spawn"
    /\ \/ Enter(c, "write") /\ files' = [files EXCEPT ![c] = {}] /\ UNCHANGED <<reply, history>>
       \/ Reply(c, "failed") /\ UNCHANGED files
    /\ UNCHANGED <<fileVars, requestVars, processVars, binding, crashed, kind, found, replaced, prepared, session>>

WriteFiles(c) ==
    /\ step[c] = "write"
    /\ Enter(c, "start")
    /\ \E skills \in BOOLEAN : LET parts == Files(kind[c], found[c].version, skills) IN
          \E written \in {parts.must \cup some : some \in SUBSET parts.may} :
             /\ files' = [files EXCEPT ![c] = written]
             /\ session' = [session EXCEPT ![c].names = Named(kind[c], parts, written)]
    /\ UNCHANGED <<vars, kind, found, replaced, prepared, reply>>

\* Session::spawn_with_id: the command has the arguments of the version found
\* and the database that is bound.
StartSession(c) ==
    /\ step[c] = "start"
    /\ Enter(c, "attach")
    /\ session' = [session EXCEPT ![c].alive = TRUE, ![c].arguments = found[c].version, ![c].database = binding]
    /\ UNCHANGED <<vars, kind, found, replaced, prepared, files, reply>>

Guarded(c) == files' = [files EXCEPT ![c] = None]
SpawnFails(c) ==
    /\ step[c] \in {"write", "start"}
    /\ Reply(c, "failed")
    /\ Guarded(c)
    /\ session' = [session EXCEPT ![c] = Unstarted]
    /\ UNCHANGED <<fileVars, requestVars, processVars, binding, crashed, kind, found, replaced, prepared>>

\* created_session: the session is attached to a workspace, or ended.
Attach(c) ==
    /\ step[c] = "attach"
    /\ \/ session[c].alive /\ Reply(c, "created")
       \/ Reply(c, "failed")
    /\ UNCHANGED <<fileVars, requestVars, processVars, binding, crashed, kind, found, replaced, prepared, files, session>>

\* The wrapper runs the user's scripts, restores what they must not change and
\* becomes the executable that is in its place by then.
Execute(c) ==
    /\ session[c].alive /\ session[c].runs = None /\ At(kind[c], found[c].place) \in Versions
    /\ session' = [session EXCEPT ![c].runs = At(kind[c], found[c].place)]
    /\ UNCHANGED <<vars, step, kind, found, replaced, prepared, files, reply>>

\* The wrapper or the agent ends, or is ended: the waiter removes the directory.
SessionEnds(c) ==
    /\ session[c].alive
    /\ session' = [session EXCEPT ![c].alive = FALSE]
    /\ Guarded(c)
    /\ UNCHANGED <<vars, step, kind, found, replaced, prepared, reply>>

\* The client went away.
DropCreate(c) ==
    /\ step[c] \in {"verify", "workspace", "history", "prepare", "attach"}
    /\ Reply(c, "dropped")
    /\ UNCHANGED <<fileVars, requestVars, processVars, binding, crashed, kind, found, replaced, prepared, files, session>>

-----------------------------------------------------------------------------
\* Whether the executable a request verified is another one after this step.
Changes(c) ==
    CASE found[c].place = "managed" -> managed'[kind[c]] # managed[kind[c]]
      [] found[c].place = "path" -> path'[kind[c]] # path[kind[c]]
      [] OTHER -> FALSE
NoteReplaced ==
    \E stale \in SUBSET Creates :
       /\ \A c \in Creates : c \in stale <=> Changes(c)
       /\ replaced' = [c \in Creates |-> replaced[c] \/ c \in stale]

\* A command line on the PATH is installed, upgraded or removed by its user.
ChangePath(a) ==
    /\ path' \in {[path EXCEPT ![a] = v] : v \in (Versions \cup {None}) \ {path[a]}}
    /\ UNCHANGED <<managed, dirs, content, saved, requestVars, processVars, serverVars>>
    /\ NoteReplaced
    /\ UNCHANGED <<step, kind, found, prepared, files, session, reply>>

\* The installation, of which only the ways it ends before it publishes
\* anything are left to AgentInstall.
InstallStep(r) ==
    \/ Install(r) \/ Verify(r) \/ Prepare(r) \/ LeaderEnds(r) \/ CommandSucceeds(r) \/ Validate(r) \/ LockHistoryFor(r)
    \/ MoveAside(r) \/ Swap(r) \/ SwapFails(r) \/ Sweep(r) \/ Rebind(r) \/ Lineage(r)
    \/ at[r] \in {"rebind", "lineage"} /\ Drop(r)

Installing ==
    /\ \E r \in Requests : InstallStep(r)
    /\ NoteReplaced
    /\ UNCHANGED <<step, kind, found, prepared, files, session, reply>>

\* The server is killed: no request goes on, no session is waited for.
CrashAll ==
    /\ Crash
    /\ step' = [c \in Creates |-> IF step[c] = "new" THEN "new" ELSE "done"]
    /\ session' = [c \in Creates |-> Unstarted]
    /\ UNCHANGED <<kind, found, replaced, prepared, files, reply>>

LaunchStep(c) ==
    \/ VerifyExecutable(c) \/ Resolve(c) \/ LockHistory(c) \/ PrepareConversation(c) \/ MakeRunDirectory(c)
    \/ WriteFiles(c) \/ StartSession(c) \/ SpawnFails(c) \/ Attach(c)

LaunchNext ==
    \/ \E c \in Creates : Create(c) \/ LaunchStep(c) \/ Execute(c) \/ SessionEnds(c) \/ DropCreate(c) \/ ChangePath(kind[c])
    \/ Installing \/ CrashAll

\* A request goes on when it can; the history lock is handed out in order.
LaunchSpec ==
    /\ LaunchInit /\ [][LaunchNext]_allVars
    /\ \A c \in Creates : WF_allVars(LaunchStep(c)) /\ SF_allVars(LockHistory(c))
    /\ WF_allVars(Installing)

-----------------------------------------------------------------------------
\* A launched agent fits its launch, whatever is installed in the meantime: it
\* has the database its conversation was prepared in, of the version it was
\* given arguments for; it runs that version unless the executable was replaced
\* after it was verified; the files its command names are there as long as it
\* lives, and its directory is gone when it ended or could not be started
\* (agent/api.rs create; launch/mod.rs spawn_codex, spawn_opencode, spawn_traecli, spawn_pi).
LaunchFits ==
    /\ []LaunchTypeOK
    /\ [](\A c \in Creates : session[c].alive =>
             /\ session[c].database = prepared[c]
             /\ kind[c] = OpenCode => session[c].database = session[c].arguments
             /\ session[c].runs \in {None, session[c].arguments} \/ replaced[c]
             /\ files[c] # None /\ session[c].names \subseteq files[c])
    /\ [](\A c \in Creates : files[c] # None => session[c].alive \/ step[c] \in {"write", "start"} \/ crashed)

\* Every launch ends, though it waits for an installation's lock (agent/api.rs create).
LaunchesEnd == \A c \in Creates : step[c] = "verify" ~> step[c] = "done"

=============================================================================
