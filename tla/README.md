# DevHatch in TLA+

DevHatch is a local server (Rust, `apps/server`) that runs terminals and coding
agents behind PTYs, groups them in workspaces, manages skills through a library
shared with a command line (`crates/skillink`), and serves a React page
(`apps/web`). This directory holds TLA+ models of the parts whose interleavings
are hard to test, the TLC runs that check them, and TLAPS proofs.

Paths below are relative to the repository; `server/` is short for
`apps/server/src/` and `web/` for `apps/web/src/`.

## The system

| Component | State it keeps | Operations | What is hard | What makes it correct |
|---|---|---|---|---|
| Session processes (`server/session/runtime.rs`, `process.rs`) | PTY child, status, `deleting`, `terminating`, completion, input queue, broadcast channel | spawn, write, resize, terminate, the reader, writer and waiter threads | three threads and two tasks per session; a start that fails halfway; a child that ignores SIGTERM | every child is reaped once; a terminated session ends; completion is signalled |
| Session registry (`server/state/sessions.rs`) | `sessions`, `terminating_agents`, `shutting_down` | insert, remove, `remove_if_same`, snapshots, `shutdown_all` | inserts and removals racing the shutdown and the exit of an agent | an agent with a live child is always counted as active |
| Workspaces (`server/workspace.rs`, `terminal.rs`, `agent/api.rs`) | SQLite rows of workspaces and their members, the `workspace_lifecycle` mutex | list, create, update, delete; attach and remove a member; reconcile | snapshots older than the transaction; handlers dropped at an await; errors that are ignored | rows and registered sessions agree; the active session is a member; positions are unique |
| Agent activity (`server/session/model.rs`, `agent/activity_socket.rs`, `agent/runtime`) | activity per agent, a global sequence, a broadcast channel | publish, remove, snapshot, subscribe | three locks; lag; resynchronisation | a client converges to the server's state; sequence numbers never go back |
| Session sockets (`server/session/socket.rs`, `web/shared/terminal`) | retained output, subscriptions, the browser's write queue | attach, replay, write, resize, reconnect | lag, reconnection, bounded queues | what is shown is what was printed, in order |
| History (`server/state/history.rs`, `history/*`, `agent/runtime/activity.rs`) | the conversation each agent claims, deletion markers, the reconciliation lock, pools of external databases by generation | resume, report an identity, list, delete, rebind, invalidate | claims that appear between a removal's checks and its effect; removals that outlive their request; a database replaced while it is open | a conversation has one owner; nothing that an agent owns is deleted; a stale handle is not used |
| Skill repository operations (`server/state/skill_repository_operation.rs`, `skillink/repositories.rs`) | the operation in progress, its revision, the deletions in progress | begin, begin_deletion, report, drop of a guard | dropped requests whose git task lives on | operations and deletions that conflict exclude each other |
| Skills page (`web/features/skills`) | the last revision and operation seen, the lists shown | poll, refresh, navigate | refreshes that race polls and commits | a page at rest shows the server's data |
| Skill library (`crates/skillink`) | repositories, revisions on disk, skills, profiles and generations | clone, preview, sync, remove, create, apply a profile | server and command line share directory and database; futures dropped between files and rows | every row leads to its files; a sync leaves exactly the skills of its commit |
| Agent launch (`server/agent/launch`, `agent/api.rs`) | the verified executable, the run directory, the database binding | verify, prepare, spawn, clean up | an executable that is replaced between its verification and its start | arguments, files and database fit the version that was verified |
| Agent installation (`server/agent/install.rs`, `process.rs`) | staging directories, the published version and its backup, process groups | prepare, run, validate, publish, roll back | two renames; hanging and forking commands; dropped requests | only validated versions are published, none is lost, nothing is left |
| Images (`server/agent/runtime_input.rs`, `agent/launch/workspace.rs`) | files in a run directory, the paste in progress; Pi's port and pending images | stage, type, send, expire; report the port, prepare, attach | blocking tasks that outlive their request; lost answers; sessions that change | no image is left, pasted twice, or put into another session |
| Runtimes (`server/agent/runtime/activity.rs`, `events.rs`) | numbered messages, the bridge's queue, the event stream | number, send, queue, process; connect, ask, read, retry | hooks that overtake each other and are killed; a stream that breaks | the newest report wins; what is shown is of the session's conversation |
| Supervisor (`server/supervisor.rs`) | releases, three managed files, the handoff record, the unit | install, roll back, hand off the port, launch from the file | partial failure; the old server still answers; files of the user | either server serves; a failed install leaves no trace; the launched server has the same settings |
| Web apps (`server/web_app`) | directories of the current version, the next and the backup; the child and its PID record | install, update, start, stop, recover, poll | polls beside operations; crashes between renames and starts | a whole version is always there; a managed process runs where the app is |
| Authentication (`server/auth.rs`) | the password, sessions, leases of sockets, the fair lock | set up, log in, log out, expire | sockets that outlive the request which opened them | no input after a logout; sockets end with their login |
| Settings, the page's queues, presentation | rows; the browser's queues | save, retry | late answers | not modelled |

How they interact: HTTP handlers run as tokio tasks and are dropped when the
client disconnects, at whatever `await` they are. Handlers that change which
sessions exist hold the `workspace_lifecycle` mutex. Every agent has a waiter
thread that blocks on the same mutex when its child ends. The registry has its
own lock and is read by the history handlers, which must not touch a
conversation an active agent writes. The page learns of repository operations by
polling, of agents by a web socket. The hooks, plugins and extensions of agent
programs reach their session's bridge over a local port. Launches and
installations of agents share the executable and, for OpenCode, the history's
lock. Everything on disk may be met half done by the next server, and some of it
by a command line that runs beside it.

## Modules

**`SkillRepositoryOperation`** models the coordinator. `operation`, `revision`
and `deletions` are the fields of its mutex-protected state; `request` is the
control state of each HTTP request (its name is also the id of the guard it
gets) and `reporting` the tasks reading git's standard error, which may outlive a
dropped request. Each critical section is one action: `Begin`, `BeginDeletion`,
`Report`, and the two `Drop`s (`ReleaseOperation`, `EndDeletion`, used by
`Complete` and `Cancel`).

**`SkillRepositoryPolling`** extends it with one browser page: the polling loop
and the refresh of `useSkillsWorkspace.ts`, with a server commit (`Commit`) that
happens while an operation runs. A refresh reads everything in one step, the end
of the loop and its `finally` are one step, and a commit of a request that was
already dropped is left out.

**`SessionProcess`** models the process behind a session: the PTY child, its
waiter thread and `terminate()`. The `deleting` flag and `status` are derived
(`Running`, and `Live` in the next module), see the comment of the module.

**`SessionLifecycle`** composes the processes with the registry, the rows of
`workspace_sessions`, the handlers under `workspace_lifecycle`, the exit cleanup
of agents, shutdown, crash and restart. Since the mutex admits one holder,
`holder` says where it is, with its local variables in `subject`, `chosen` and
`removed`; a step ends at each database await and wherever a registry lock is
released. At each await there are three outcomes: success, an error, and a
dropped handler whose transaction may or may not have committed (`AttachDropped`,
`UnlistDropped`, `DroppedDeleting`). `doomed` holds the sessions some thread is
about to `terminate()` after it released the lock. Three history variables say
what the code gives up: rows nobody removed (`stale`), sessions a dropped handler
left without a row (`interrupted`), and agents it removed but never terminated
(`abandoned`, the await in `cleanup_failed_spawn` of `agent/api.rs`).

Left out of these: names, positions and the active member of a workspace, the
`update` handler (it changes no row of `workspace_sessions`), the kind-specific
parts of launching an agent, output and input, and process numbers.

**`WorkspaceStore`** looks into the transactions on the tables `workspaces` and
`workspace_sessions`. `db` holds both tables as sets and functions, `live` is what
a snapshot of the registry would contain, `handler` the holder of the mutex with
its snapshot or with the row its checks looked at. What the transaction of a
handler may make of the tables is a set of tables (`Outcomes`), built from one
operator per SQL helper (`Repair`, `InsertSingletons`, `AttachMember`, ...).
SQLite serialises transactions that write and refuses one whose reads are
outdated, so a transaction is one step, and may fail. What does interleave is a
COMMIT whose handler was dropped: it sits in `inflight`, keeps the database
locked, and lands while the next handler is already making its checks. A
transaction that would break a constraint of the schema is refused; the
properties say which ones can be. **`WorkspaceLists`** says what all this is to a
user, lists of sessions one of which is active; `MCWorkspaceStore` maps the
tables to lists (`book`) and checks that every step is one of its operations.

**`AgentActivity`** follows an agent's activity from its runtime to the activity
socket: the stages of an agent, the global sequence, the broadcast channel with
its bounded backlog, and the task that subscribes, takes a snapshot and passes
events on. What the code does under `agent_event_lock` is one action.
**`AgentActivityPage`** adds the page: what it shows and the two time stamps per
agent of `App.tsx`, the terminal sockets that repeat activities from another
channel, lost connections and reconnection. The model shows one oddity nothing
promises against: after a snapshot without some agent the page forgets its time
stamps, and an activity still under way on its terminal socket is shown although
the agent is gone.

**`HistoryClaims`** is about conversations of external agent programs. `agent`
holds each session's claim (`upstream_session_id`), its working directory and the
conversation its program really works on, which the server learns from a `report`
later or never. `holder` is the reconciliation lock. Creating an agent, accepting
a report and removing a conversation are cut at their awaits: a check before an
await and its use after it are different actions, and agents switch (`Use`), start
subagents (`Branch`) and end in between. `backend`, which never changes, selects one of
three sets of rules. OpenCode removes a tree of conversations in a task of its own, re-checks its plan in
the transaction, and drops the lock before the markers (`RemoveEnd`,
`DropMarkers`); it refuses while an agent without an identity works in one of the
directories. Codex holds a lock file per conversation in use and its command is
killed with the request. Pi tells its agents their conversation at the start, and
its blocking thread is not stopped when the request is dropped (`Abandon`): from
then on it holds neither lock nor marker and may delete what an agent resumed
since. `OwnedConversationsSurvive` names that one exception. Left out: Trae's
names of pending threads, processes outside the server, aliases of identities, and
the delivery of reports (one at a time is on its way, and it may be dropped only
with its session); some of that is in the modules below.

**`OpenCodePool`** is what `state/history.rs` keeps of OpenCode's database: an
anchor (the open file), a pool for it and the generation of the path. `file` says
which inode is at a path and `holds` which database an inode has, since inodes are
used again. Lists, preparations, deletions and initialisations open, test, query
and invalidate at their awaits while OpenCode replaces or removes the file and the
binding moves to another path.

**`OpenCodeLineage`** follows the rows of conversations in the tables of OpenCode's
two versions, the triggers (three on each table) and the server's lineage table. A
migration that builds one table anew takes its three triggers along, those of the
other still run; the reconciliation starts from what is left, or from the previous
layout of the table. It implements **`LegacyConversations`**, what a user of both versions
expects: a conversation is there or removed, and a copy that is left of a removed
one is not shown. While triggers are missing a change may be noticed or not.

**`OpenCodeDeletion`** plans a deletion over any small database (`rows`, each with
its session or parent and the other rows it refers to) and any set of foreign keys,
lets OpenCode write in between, and carries it out with SQLite's cascades. What a
schema may do to rows outside of the plan is what `cascade_dependent_snapshots` and
`deletion_postconditions_hold` are about. They leave one kind of row open: an event
of another session that a foreign key ties to a row that goes. It goes too, without
being in the plan, and `DeletesWhatWasPlanned` says that nothing else does.

**`AgentReports`** starts where an agent program does: hooks, one process per event,
that number their messages in a locked file and may be killed at any step, or a
plugin with a bounded queue; the connections of the bridge, its queue, and the task
that accepts a message when its number is new and its conversation the session's.
**`OpenCodeEvents`** is the other source of activities, the event stream of an
OpenCode 1 runtime with the status requests that begin each connection.

**`ImagePaste`** stages an image for a terminal or for OpenCode's clipboard. The
blocking task that writes it holds the session's `runtime_input` lock itself, so a
dropped request does not release it. **`PiImages`** has both ends of Pi's way: the
server that waits for a port, and the extension that reports it, prepares the image
and attaches it to the next input, while Pi's session changes.

**`AgentInstall`** cuts an installation at its awaits: the install lock,
preparation, commands that hang, fork or fail, validation, the two renames of
`publish` with their roll back, and the binding of OpenCode's database, which needs
the history's lock. **`AgentLaunch`** extends it with `create`: the executable is
chosen and verified before the lock is waited for, and everything that depends on
its version is prepared after.

**`SkillLibrary`** has tasks over one database and one directory. In each initial
state they are of one server, where the coordinator keeps them apart, or of a
server and a command line (`exclusive`); the variable never changes. A clone, sync
or removal is cut at its file operations and transactions, and may be dropped
between them; what a sync compares with the clone are the rows it read before.
One's own skills are directory and row one after the other, in both directions; in
the runs with a command line nobody creates them (a bound, named in `CreatePublish`).
Profiles are what they enable and the links that were made for them. The rows that a sync leaves are stated at once (`Reconciled`), not row by row as they
are written in one transaction.

**`SupervisorInstall`** models a server that installs itself as a systemd unit, the
three managed files, the unit as systemd sees it, the helper that waits for the
old server, and the roll back in reverse order. A snapshot taken while a dropped
request still publishes, or a roll back step that failed, is excused by the history
variable `lossy`, a `systemctl stop` that may not have worked by `undone`.
**`ReleasePublication`** is the copy of the build: hash, copy, check, move, link, by
two publishers while the build changes. **`ManagedEnvironment`** is the environment
file: what is captured, quoted, edited, parsed, normalised and launched; the file is
a set of lines, a value a short sequence of items. `places` says whether the runtime
directory with the bus in it and the directory of the configuration are what they
must be; the capture, the install and the launched server all test that.

**`WebApp`** follows one web app through updates, starts, stops, polls that take no
lock, dropped requests, failing renames and crashes; a directory is a version or
nothing, a process has the version and the directory it started from.

**`Connections`** has logins, their sockets, logouts and the fair lock as a queue,
so that who waits for whom is explicit. Sockets of the activities keep the lock
while they send. They look their login up each time, and an error of the database
counts as no valid login: the socket ends and revokes the lease that it shares with
the login's terminals (`Found`). Attempts to log in are counted even before there is
a password, and are cleared by a right password although its row may then fail.

### Modules for TLC

Modules that share no state are checked together, to keep the number of runs small:
`MCHistory` (`HistoryClaims`, `OpenCodePool`, `OpenCodeLineage`),
`MCStores` (`ReleasePublication`, `ManagedEnvironment`, `WebApp`,
`OpenCodeDeletion`), `MCAgentRuntime` (`AgentReports`, `OpenCodeEvents`,
`ImagePaste`, `PiImages`) and `MCService` (`SupervisorInstall`, `Connections`,
`HistoryClaims` with Codex). A variable `part` says in the initial state which of
them takes steps; the variables of the others rest in one of their own initial
states. So a run is the disjoint union of the runs of its parts. Where a module's
fairness has one condition per request, the run has one condition for the requests
of whichever part is at work: since `part` never changes, it says the same.
`MCSkillLibrary`, `MCAgentActivityPage`, `MCAgentInstall`, `MCAgentLaunch` and
`MCWorkspaceStore` give constants their values and hold refinement mappings.

## Runs

| Run | Question | Bounds |
|---|---|---|
| `skill_repositories` | Do guards exclude each other, is progress never reported backwards or by a dropped request's reporter, does every commit reach the page? | 1 repository, 2 requests, 1 page, revisions to 4 |
| `skill_library` | Do rows, revisions and links agree whatever tasks are dropped; does a sync leave exactly its commit's skills, also beside a command line? | 2 tasks, 2 commits, 2 names, 1 repository, 2 syncs, 1 own skill |
| `session_lifecycle` | Does every listed session have a row and no row outlive its session; is no running agent forgotten; do removed sessions and shutdowns end? | one terminal, one agent, one restart |
| `workspace_store` | Can a constraint of the schema refuse a transaction, and do positions implement lists? | 3 sessions, 3 workspaces at a time, positions 0..2 |
| `agent_activity` | Is the stream complete, does what the page shows never go back, and does it end up being what the agents do, through lag, lost sockets and reconnection? | 2 agents with 3 and 2 updates, a channel of 1, 1 lost socket |
| `agent_install` | Is a version published only when it is valid, and whole; is nothing left of what failed; does every installation end? | 2 requests, 1 list of the history beside them |
| `agent_launch` | Do files, arguments and database fit the verified version; does every launch end? | 1 launch beside 1 installation and replacements by the user |
| `history` | Who owns a conversation, and what may a removal take? Are answers of the file at the path? Does the lineage table implement what a user expects? | 2 agents, 2 removals, 3 conversations, one with a part; 2 paths, 3 inodes, 4 databases; 1 conversation in two tables |
| `stores` | Is the published release whole, does the environment survive its file, is a version of the web app always there, does a deletion take what was planned, and nothing else but tied events? | 2 publishers; settings of 2 items, 1 edit; 3 versions, 3 processes, 2 crashes, 2 faults; 9 rows, 81 schemas, 1 edit |
| `agent_runtime` | Do reports, event streams and images arrive, and where they belong? | 3 events; 4 events, 2 faults; 3 pastes; 2 pastes into Pi, 2 changes of its session |
| `service` | Is an install safe, and does the handoff complete; is a logout final and answered; is a reported identity decided? | 2 servers, 2 requests, 2 versions, 1 fault; 2 logins, 2 sockets; 2 agents, 1 removal |
| `web_app_lost_child` | A finding, below. | 1 version, 3 processes |

Three sessions are the least with which a workspace has a gap between positions,
a successor that is not the first, and members from two workspaces that move to a
third; identifiers of deleted workspaces are used again once nothing refers to
them, since real ones are random. A channel of one makes a page lag after two
events, and four updates are enough for a snapshot with unseen events on either
side of it. Events of the second agent push those of the first out of the channel.

Two agents and two removals meet in every way the lock allows: one removal at a
time holds it, a second can start only while the first drops its markers, and of
two agents one may own what the other reports. A tree of two conversations is the
least where a removal takes away more than was asked for.

Two agents, or an agent and a terminal, are enough for the interactions in
`SessionLifecycle`: the lock admits one handler, and what interferes with it are
exits, kills and the shutdown. Three sessions without a restart (8 million
states) and with one (17 million) were explored too, without an error; the proofs
cover every number. In `SkillRepositoryOperation` conflicts are between pairs of
requests; two repositories and three requests were explored too, and the proofs
cover every number.

Three inodes let a path get back an inode it had with another database in it. The
universe of `OpenCodeDeletion` has a conversation with a copy and a child in the
other table, a stranger that may refer to it, and one message, part and event, of
which the run takes any subset; the event is the conversation's, or the stranger's
and tied to the conversation. Three hooks are enough for one to be killed while two overtake each
other; queues hold one message less than there are. One fault of the supervisor's
install is a failing command, a crash or a file of the user; a roll back also
happens without one, when the helper is not seen in time. With two faults of
different kinds the module was explored alone (1.1 million states), and so were
three changes of Pi's session.

### Finding

`refresh_running` (`server/web_app/process.rs:410-428`) tests the child under a lock,
releases it and then takes whatever child is there, with its record. A poll runs it
beside an operation, so it may take the child that a start has just put in place:
the process runs on, a stop reports success, and the next start finds the port in
use. `process.rs:260-262` promises an error when a stop leaves the process running.
`web_app_lost_child` shows it.

### Observations

What follows was met while modelling and is in the models as the code has it. No
property is stated against it, or the property names it as its exception.

- Two syncs of one repository by server and command line may leave rows whose
  revision was removed: a failing sync asks whether its revision is referenced,
  and removes it later (`crates/skillink/src/repository/sync.rs:93-109`);
  `LibraryIsConsistent` asks for content only within one server. A commit in which
  two skills exchange names can never be synchronised (`repository/store.rs:112`
  updates row by row under a unique constraint).
- `publish_install` tests for files of the user once, before the long copy of the
  release, and replaces a file that appears during it (`supervisor.rs:2228-2257`),
  although the README says that unrelated installation files are never replaced.
- An install that is dropped is never rolled back, and one dropped after its commit
  leaves `restart_pending` unset. Once the `SSH_AUTH_SOCK` named in the environment
  file is gone (`supervisor.rs:1438`), or the bus or one of the directories is not
  what it was (`supervisor.rs:1207-1220`), the service does not start again.
- `stop_locked_result` reads the PID record before it reaps the child
  (`web_app/process.rs:188-194`), so a stop after the process ended by itself asks
  for a manual cleanup. A check for updates dropped during `git fetch` leaves
  `update.checking` set.
- A logout dropped between the deletion of the row and the revocation of the lease
  leaves terminal sockets open until they end. A single failure of the database while
  an activity is forwarded ends all sockets of that login
  (`agent/activity_socket.rs:78-83`, `140-144`). The socket of the activities holds
  the fair lock while it sends to its client.
- A hook killed between truncating and writing the sequence file
  (`agent/runtime/activity.rs:858-861`) silences the session's later hooks; hooks
  may number in another order than their events happened. A failed status request
  leaves the activity from before a new connection, and waiting is shown as busy.
- A deletion may take events of another session: `cascade_dependent_snapshots_connection`
  follows foreign keys into the tables of events but leaves them out of what it lists
  (`history/opencode.rs:919-921`), so an event that a cascading key ties to a removed
  row goes unannounced. `DeletesWhatWasPlanned` names it as its exception.
- A deletion from the pool answers Unavailable without invalidating a stale pool; a
  file replaced between the last check and COMMIT goes unnoticed. Codex's writer lock is
  tested before the command that deletes (`history/codex.rs:410`).
- A crash between the renames of a publication leaves no agent, and the backup is
  not recovered (`agent/install.rs:532-535`); nothing removes staging and run
  directories after a crash; a request dropped between publication and binding
  leaves the binding until the next list or creation; an executable replaced while
  `create` waits is used with what was verified before (`agent/api.rs:132`;
  `LaunchFits` exempts it).
- Attachments stay as long as their session, so the thirty-third paste is refused;
  a file staged while the run directory is being removed keeps it there; a lost
  answer leads to several paste commands for one image.

## Fairness

`SessionLifecycle` assumes that the holder of the lock goes on (its awaits are
calls of a local SQLite database), that threads and tasks that can run do, and
that the shutdown's timer fires. A child need not react to SIGTERM, and need not
exit by itself. The tokio mutex is FIFO, so a waiter that queued for it gets it
although handlers keep coming: strong fairness of `BeginExit`. After the listener
stopped only requests of open connections remain, so the moment when no handler
is at work comes: strong fairness of `ServerExit`.

`AgentActivityPage` assumes that the task of the socket (`Serve`) and the page's
event loop (`PageStep`, with its reconnect timer) run while they have something to
do. Agents and the network owe nothing; losses of sockets are bounded.

`HistoryClaims` assumes that what is awaited under the lock ends (look-ups in
SQLite, 15 seconds for Codex's command), so weak fairness of the steps that end a
creation, a report's look-up or a removal, and that tokio's mutex is FIFO: strong fairness of the
report that waits for it. A removal need not take effect.

`SupervisorInstall` assumes that systemd and the helper go on, that a started server
boots, and that a graceful shutdown ends (it has a time limit). Requests need not
go on: the handoff completes without the client.

`Connections` assumes that the lock is handed on, that the tasks of the server run,
and that a send ends, because the client reads or the connection is found dead. A
socket's `select!` polls its branches in random order, so a revoked lease is noticed although
messages keep coming: strong fairness of `Close`.

`AgentReports` assumes that hooks which are not killed go on (the file's lock is
held for three steps), and that the tasks of bridge and plugin run. `OpenCodeEvents`
assumes that the watcher's task runs; faults are bounded. `ImagePaste` and
`PiImages` assume that requests and timers go on, of agents they assume nothing but
that the waiter of an ended agent cleans up.

`AgentInstall` and `AgentLaunch` assume that an installation or launch that can go
on does, that time limits fire, and that the history's lock is FIFO: strong
fairness of the steps that take it, since lists come and go.

The other modules have no liveness: they say nothing about when a request goes on.

`SkillRepositoryPolling` assumes that requests are answered and the page's timer
fires, while it shows the skills page, and that an operation that was accepted
ends.

## Proofs

TLAPS proves that every safety property of the runs holds for all values of the
constants, with the exceptions listed at the end of this section. A proof module
EXTENDS the modules it is about; each theorem `...Inductive` states the invariant
that carries the properties after it. Where a module is checked as a part of
a combined run, the theorem is about the specification of that run (`AgentSpec`,
`HistorySpec`, `StoresSpec`), hence about the part with its constants unbounded.

| Proof module | About | Properties proved |
|---|---|---|
| `Skills_proofs` | `SkillRepositoryOperation`, `SkillRepositoryPolling`, `SkillLibrary` | `GuardsExclude`, `ProgressNeverGoesBack`, `StaleReporterIsIgnored`, `SettledPageIsCurrent`, `LibraryIsConsistent`, `SyncIsExact`; polling implements the coordinator |
| `SessionLifecycle_proofs` | `SessionProcess`, `SessionLifecycle` | `RowsBelongToSessions`, `EligibleSessionsHaveRows`, `AgentsStayOwned` |
| `WorkspacesAndLaunches_proofs` | `WorkspaceStore`, `WorkspaceLists`; `AgentInstall`, `AgentLaunch` | `ConstraintsNeverRefuse`, `ImplementsLists`, `RemovalActivatesNext`; `InstallIsAllOrNothing`, `LaunchFits` |
| `AgentActivityPage_proofs` | `AgentActivity`, `AgentActivityPage` | `StreamIsExact`, `SettledStreamIsCurrent`, `ShownNeverGoesBack` |
| `AgentRuntime_proofs` | `AgentReports`, `OpenCodeEvents`, `ImagePaste`, `PiImages` | `ReportsAreShown`, `SettledIsUpToDate`, `StagedForOnePaste`, `PastedIntoTheSession` |
| `History_proofs` | `HistoryClaims`, `OpenCodePool`, `OpenCodeLineage` | `NoSharedConversation`, `MarkersAreKept`, `OwnedConversationsSurvive`, `UnidentifiedConversationsSurvive`, `HistoryIsOfTheFile`, `LineageIsKept` |
| `Stores_proofs` | `ReleasePublication`, `WebApp`, `ManagedEnvironment`, `OpenCodeDeletion` | `PublicationIsAtomic`, `WebAppIsWhole`, `EnvironmentSurvives`, `DeletionMeetsItsPlan` |
| `Service_proofs` | `Connections`, `SupervisorInstall` | `LoginsAreKept`, `InstallIsSafe` |

### Skills

*Coordinator.* The invariant adds `OperationWasAsked`: an `add` has no repository
and the other kinds have one. `begin` tests the kind and `begin_deletion` the
repository, and this fact makes the two tests agree.

*Polling.* A page learns of the operation by answers that come late and in any
order. What it knows, and every answer on its way to it, is a past state of the
operation (`PollingInv`); a page that knows the last revision shows the catalog of
that revision, is reading it, or will read it again. So a page with nothing under
way is current. Every step of the composition is a step or a stutter of the coordinator.

*Library.* The id of a task is its own, even after its row was removed; so is the
name of the skill that it creates or removes. In one
server no other task changes the repository that a task works on, so what it read
is still true when it writes; a revision that was published is a new directory to
which nothing leads before its rows do. `SyncIsExact` needs less than
`LibraryIsConsistent`, and is proved beside a command line too. What a sync leaves is
defined in closed form (`Reconciled`), not by folding over the paths.

### Sessions, workspaces, installations and launches

*Sessions.* The properties speak of moments when the lock is free, so they are not
inductive. `HolderKnows` says what the
holder may rely on at each of its steps (its snapshot still contains every
eligible session, since only holders add or remove sessions; the rows of the
members it is removing are gone), `RowsAccounted` which session may lack a row
or have one too many at which step, `ProcessFacts` ties the waiter to the child,
and `ServerFacts` says that the shutdown collected every registered or
terminating session. From the last two follows `CleanExit`: an agent with a live
child would be registered or terminating, hence awaited, hence reaped.

*Workspaces.* The constraints of the schema refuse no transaction but an update
whose checks were overtaken by the commit of a dropped handler. One lemma per SQL
helper says that it keeps the constraints; those that pick a lowest position or a
free one rest on the well-foundedness of the naturals. The invariant adds that a
commit on its way is valid too, and `HandlerKnows`: the session about to attach
has no row in the tables, nor in those a commit on its way will leave.

*Lists.* The workspaces implement `WorkspaceLists`. The list that the rows of a
workspace are is the one sequence in which a member's place is one more than the
number of members at lower positions (`Book` says it of both tables); the rank
lemmas say how these numbers move when a row is inserted, removed or renumbered, so
that each group of statements is one operation on a list. `ListInv` adds
that a commit on its way leaves what one operation makes of the lists as they are:
nothing else is written meanwhile, since the connection is one. `RemovalActivatesNext` follows from the same lemmas.

*Installations.* One request is past the lock of `install` (`OneRequest`), so what
it validated is what it moves, the place is empty while it swaps, and what it moved
aside is the one thing that a roll back can bring back. A descendant that outlives its
command has a leader that ended (`DropCommandLemma`), which is why nothing is left
after a timeout. From its publication to its answer an installation of OpenCode
holds the lock of the history, so that nobody binds another database before "created".

*Launches.* `LaunchInv` contains the invariant of installations: a launch is one of
those that take the lock of the history beside them. It holds the lock from its
preparation until its session has started, so the database its conversation was prepared in is the
one its session gets. What it found is in its place, or a replacement was noted. A run
directory is there only while its launch fills it or its session lives, or after a
crash.

### Activity

*Page.* Three places hold what the page has not seen: the broadcast channel, the
socket of the activities, and the sockets of the terminals. Everything on its way
is true of the past of its agent, in the order in which it happened, and the last of
it is the present; unless the connection is lost or the channel overran, in which case a
snapshot is coming. Where nothing is queued for an agent, nothing that a terminal socket
brings is news, because its time stamp is not above the page's.

*Reports.* A message on its way carries the number that its event keeps, numbers
are handed out under the lock of the file, and an event is coming, lost, or no newer
than what is shown. Lost are those of hooks that were killed, of a full queue and of
another conversation.

*Event streams.* The last event under way about a conversation says what the runtime
does in it; a conversation is created once; and where nothing is under way about the
session's, the answer of the status request, or what is shown, is the present.

*Images.* The request of a staged image keeps the lock until it is answered,
although it may be dropped, because the blocking task holds it; so what is in the
directory is counted, there is room for one more, and its file is read once, by the
agent it was typed to. In Pi one request is past the lock, the images it has are of
requests that were answered with success or will be, and the last report of a
port on its way is of the port that is open.

### History

*Claims.* The theorems are about all backends; that agents without an identity keep
their conversations is so for OpenCode, the only program whose removals check it.
`LockHeld` ties
the control state of creations, reports and removals to the lock, `KeysAreApart`
says that markers of two removals never overlap (hence the end of one leaves the
others' alone), `Unclaimed` that no claim reaches the targets of a removal that
made its plan, or the conversation being resumed, and `Undisclosed` that an agent
works only in its directory, so that a directory is enough to tell what an
unidentified agent may own.

*Pool.* A handle keeps its file open, so the inode it saw is not used again
while a task has it: equal inodes mean the same file. A second attempt finds no pool
and opens what is at the path, so it fails only when the file changed once more.

*Lineage.* A row of the lineage table says what was true once, also one of a table
of the previous version (`WasTrue`), and is true as long as all the triggers of both
tables are there (`IsTrue`). A reconciliation finds the first and makes the second. Each step maps to a step of `LegacyConversations` or to a stutter.

### Releases, web apps and the service

*Publication.* The binary is read before the distribution, when hashing and when
copying, and every rebuild makes a new binary. So as long as the binary is the one
that was hashed, what was hashed is one build; and a copy whose binary is the one
that was hashed shows that it still was when the copy began. A release is
named by its hash, so two publishers who meet at a name bring the same.

*Environment file.* Decoding, reading the lines and cleaning a path are recursive
functions on the length of what was read. One lemma for each says what one
more character, component or line does; the rest is induction over lengths, by the
well-foundedness of the naturals. Quoted text is decoded with no escape pending, so the
quoting of a concatenation decodes to what its parts were. A path that was normalised
has no `..` left and starts at the root, so normalising it again changes nothing, whatever
the directory; hence the launched server captures what the first one had, unless the
socket, the bus or a directory changed meanwhile. In an
accepted file each name was read once (`Complete`), by counting the lines with that name.

*Web app.* Where an operation is (its request's program counter, and after a crash
the directories themselves) says which of the app, its backup and its staging
directory are there, and that nothing that is managed runs while they move.

*Removal of a conversation.* What a row takes along is the least set with it that is
closed under the foreign keys (`WithLemma`, by the number of rows). A supported plan
is closed under all that cascade, sessions' own key included, and has no reference that
is set to NULL (`PlanLemma`). The statements go from the deepest session on, so each
takes along one session and otherwise rows of the plan, and afterwards nothing that is
left would have gone along with what went (`Halfway`, by the number of sessions left).
When no session and no event of the plan is left, what went is therefore closed too
and contains the whole plan. Of what else is closed along with it, all but events
of other sessions is in the plan by its definition. The keys are arbitrary.

*Logins.* A logout that was answered leaves neither a lease that is valid nor a row
from which a socket could get one. A socket tests its lease after it has the lock.

*Supervisor.* The helper waits for the one server that the unit did not start, or is
at rest, or that server is `Forsaken`: its install was rolled back with a
`systemctl stop` that did not work. How far a request got is tied to the record, the
files and the unit (`InstallIsSafe` has four parts). A failed install whose roll back
lost nothing leaves what it found, if nobody else wrote in the meantime.

### Assumptions

The proofs assume of the constants, in `ASSUME`s that TLC evaluates on the runs:
values for "none" are not members of the sets they are added to; bounds and limits
are natural numbers, and the capacity of a queue or a directory at least one;
different kinds of sessions, requests, agents and versions are different;
the sets of pastes, of sessions and of rows are finite. Three say more than that:
`AgentReportsAssumption` has names of threads resolve to identities that resolve to themselves;
`HooksAssumption`, `EventsAssumption` and `RuntimeAssumption` give every event that
happens in a run a meaning in the tables of the code, and a hook's event one only;
and `LibraryConstants` has the paths of a repository as a sequence without
repetitions.

### Left to TLC

- Liveness: `SessionsEnd`, `CommitReachesPage`, `PageCatchesUp`, `EverythingArrives`,
  `EverythingIsAnswered`, `InstallationsEnd`, `LaunchesEnd`. The temporal prover has
  no rules for fairness.
- `StopStops` is violated; see the finding.

## Not modelled

Terminal output: its retention, trimming and resynchronisation, the browser's write
queue and the escape sequences. The parsing of Codex's, Pi's and Trae's history
files. The browser's queue of workspace mutations and of settings; on the server
these are single statements. Validation of files, names and origins, hashing,
permissions of files. Presentation. `server/agent/runtime/reconcile.rs` belongs to
no module of the crate. Memory reordering does not arise: what threads share is
behind locks and channels.

## Plan

Every safety property of the runs is proved. What could be added are models of the
terminal's output and of the parsers of the other programs' histories, and liveness
where the code has timeouts of its own.
