--------------------------- MODULE HistoryClaims ---------------------------
(***************************************************************************)
(* Who owns a conversation of an external agent program, and what its      *)
(* removal from the program's history may take away.                       *)
(*                                                                         *)
(* An agent session claims a conversation when it resumes it, or later,    *)
(* when its runtime reports which conversation it shows.  Creating an      *)
(* agent, accepting a report and removing a conversation hold the          *)
(* reconciliation lock; what they await in between does not stop agents    *)
(* from working, switching to another conversation or ending, nor clients  *)
(* from going away.  A removal marks its conversations besides, and of the *)
(* three ways to remove (`backend`) one runs in a task of its own, one ends  *)
(* with its request and one leaves a blocking thread behind.               *)
(*                                                                         *)
(* What happens between two awaits is one action.  The registry's tables   *)
(* are in SessionLifecycle; here a session is listed, or terminating (gone *)
(* from the list while its child lives), or gone.                          *)
(***************************************************************************)
EXTENDS Integers, FiniteSets

CONSTANTS
    Agents,         \* agent sessions of one agent program
    Conversations,  \* upstream session ids
    Removals,       \* requests that remove a conversation
    Directories,    \* working directories
    Parent,         \* the conversation that a conversation is a part of, or None
    DirectoryOf,    \* where a conversation takes place
    None

\* Holders of the lock other than an agent's reports and removals.
Creator == "create"
Nobody == "nobody"

ASSUME ClaimsAssumption ==
    /\ None \notin Conversations \cup Directories
    /\ Agents \cap Removals = {}
    /\ {Nobody, Creator} \cap (Agents \cup Removals) = {}
    /\ Parent \in [Conversations -> Conversations \cup {None}]
    /\ DirectoryOf \in [Conversations -> Directories]

VARIABLES
    backend,        \* the agent program: "opencode", "codex" or "pi"
    agent,          \* [stage, claim, cwd, uses] per session
    report,         \* the identity that a runtime reported last, not yet handled
    conversation,   \* the program's history: what became of each conversation
    holder,         \* who holds the reconciliation lock
    create,         \* the request that creates an agent
    removal,        \* [stage, id, targets, keys] per removal
    deletions       \* HistoryCoordinator::deletions

vars == <<backend, agent, report, conversation, holder, create, removal, deletions>>

MaybeConversation == Conversations \cup {None}

Live(a) == agent[a].stage \in {"listed", "terminating"}

\* active_upstream_session_ids_for: both tables of the registry.
ActiveIds == {agent[a].claim : a \in {b \in Agents : Live(b)}} \ {None}

\* unidentified_agent_cwds_for.
UnidentifiedCwds == {agent[a].cwd : a \in {b \in Agents : Live(b) /\ agent[b].claim = None}}

\* What the agents' programs write to: Codex holds a lock on it.
WriterLocks == {agent[a].uses : a \in {b \in Agents : Live(b)}} \ {None}

Stored == {c \in Conversations : conversation[c] = "stored"}

\* Only OpenCode's conversations have parts.
PartOf(c) == IF backend = "opencode" THEN Parent[c] ELSE None

\* A conversation and what descends from it through conversations that exist.
Subtree(id) ==
    {d \in Stored :
        \A S \in SUBSET Conversations :
            (id \in S /\ \A c \in Stored : PartOf(c) \in S => c \in S) => d \in S}

IdleCreate == [stage |-> "idle", resume |-> None]
IdleRemoval == [stage |-> "idle", id |-> None, targets |-> {}, keys |-> {}]

ClaimsInit ==
    /\ backend \in {"opencode", "codex", "pi"}
    /\ agent = [a \in Agents |-> [stage |-> "absent", claim |-> None, cwd |-> None, uses |-> None]]
    /\ report = [a \in Agents |-> None]
    /\ conversation \in [Conversations -> {"unborn", "stored"}]
    /\ \A c \in Stored : PartOf(c) \in Stored \cup {None}
    /\ holder = Nobody
    /\ create = IdleCreate
    /\ removal = [r \in Removals |-> IdleRemoval]
    /\ deletions = {}

-----------------------------------------------------------------------------
(* Creating an agent: one at a time, they hold the workspace lifecycle lock *)

\* Nobody works on a conversation that does not exist yet.
Fresh(c) == conversation[c] = "unborn" /\ \A a \in Agents : agent[a].claim # c

\* (Mutation: the lock is not held while the agent is created.)
CreateUnlocked(c) ==
    /\ create.stage = "idle" /\ holder = Nobody
    /\ c \notin ActiveIds /\ c \notin deletions
    /\ create' = [stage |-> "preparing", resume |-> c]
    /\ UNCHANGED <<backend, agent, report, conversation, holder, removal, deletions>>

\* HistoryBackend::prepare up to its first await.
CreateBegin(c) ==
    /\ create.stage = "idle" /\ holder = Nobody
    /\ c \notin ActiveIds /\ c \notin deletions
    /\ create' = [stage |-> "preparing", resume |-> c]
    /\ holder' = Creator
    /\ UNCHANGED <<backend, agent, report, conversation, removal, deletions>>

\* opencode::prepare, codex::prepare and pi::prepare find the conversation.
MayResume(c) ==
    /\ c \in Stored
    /\ backend = "opencode" => Parent[c] = None /\ DirectoryOf[c] \notin UnidentifiedCwds
    /\ backend = "codex" => c \notin WriterLocks

\* The rest of prepare, and Session::spawn_with_id.
Spawn(a, claim, d) ==
    /\ create.stage = "preparing" /\ agent[a].stage = "absent"
    /\ agent' = [agent EXCEPT ![a] = [stage |-> "listed", claim |-> claim, cwd |-> d, uses |-> claim]]
    /\ create' = [create EXCEPT !.stage = "spawned"]
    /\ UNCHANGED <<backend, report, conversation, holder, removal, deletions>>

CreateResumed(a) ==
    /\ create.resume \in Conversations /\ MayResume(create.resume)
    /\ Spawn(a, create.resume, DirectoryOf[create.resume])

\* A new agent of Pi is told its conversation's id, others choose one later.
CreateNew(a, d) ==
    /\ create.resume = None
    /\ IF backend = "pi"
       THEN \E c \in Conversations : Fresh(c) /\ DirectoryOf[c] = d /\ Spawn(a, c, d)
       ELSE Spawn(a, None, d)

\* The handler ends, was refused, or its client is gone.
CreateEnd ==
    /\ create.stage # "idle"
    /\ create' = IdleCreate
    /\ holder' = Nobody
    /\ UNCHANGED <<backend, agent, report, conversation, removal, deletions>>

-----------------------------------------------------------------------------
(* What agents do *)

\* The agent program shows another conversation, perhaps a new one; its plugin
\* or hook reports it.  (One report at a time is on its way.)
Use(a, c) ==
    /\ Live(a) /\ DirectoryOf[c] = agent[a].cwd /\ report[a] = None
    /\ \/ c \in Stored /\ conversation' = conversation
       \/ /\ Fresh(c) \/ (agent[a].claim = c /\ conversation[c] = "unborn")
          /\ PartOf(c) = None
          /\ conversation' = [conversation EXCEPT ![c] = "stored"]
    /\ agent' = [agent EXCEPT ![a].uses = c]
    /\ report' = [report EXCEPT ![a] = c]
    /\ UNCHANGED <<backend, holder, create, removal, deletions>>

\* A subagent starts in a conversation of its own; that is not reported.
Branch(a, c) ==
    /\ Live(a) /\ Fresh(c)
    /\ agent[a].uses \in Stored /\ PartOf(c) = agent[a].uses
    /\ conversation' = [conversation EXCEPT ![c] = "stored"]
    /\ UNCHANGED <<backend, agent, report, holder, create, removal, deletions>>

\* The session is removed: it leaves the list, its child is being ended.
Remove(a) ==
    /\ agent[a].stage = "listed"
    /\ agent' = [agent EXCEPT ![a].stage = "terminating"]
    /\ UNCHANGED <<backend, report, conversation, holder, create, removal, deletions>>

\* The child has been waited for and the session left the registry.
Exit(a) ==
    /\ Live(a)
    /\ agent' = [agent EXCEPT ![a].stage = "gone"]
    /\ UNCHANGED <<backend, report, conversation, holder, create, removal, deletions>>

-----------------------------------------------------------------------------
(* Reported identities: process_messages and apply_identity *)

\* (Mutation: an identity that another agent has is accepted.)
ClaimUnshared(a, c) == agent[a].stage = "listed" /\ c \notin deletions

\* claim_available.
ClaimAvailable(a, c) ==
    /\ agent[a].stage = "listed"
    /\ c \notin deletions
    /\ agent[a].claim = c \/ c \notin ActiveIds

\* The lock is free for an agent's report.  Pi's identity is accepted at once,
\* the others are looked up first.
ReportBegin(a) ==
    /\ report[a] # None /\ agent[a].stage = "listed" /\ holder = Nobody
    /\ IF ClaimAvailable(a, report[a]) /\ backend # "pi"
       THEN holder' = a /\ UNCHANGED <<agent, report>>
       ELSE /\ report' = [report EXCEPT ![a] = None]
            /\ agent' = IF ClaimAvailable(a, report[a])
                        THEN [agent EXCEPT ![a].claim = report[a]]
                        ELSE agent
            /\ UNCHANGED holder
    /\ UNCHANGED <<backend, conversation, create, removal, deletions>>

\* The look-up is done: the identity is accepted if it still can be.
Accept(a) ==
    /\ holder = a
    /\ ClaimAvailable(a, report[a])
    /\ backend = "codex" => report[a] \in Stored
    /\ agent' = [agent EXCEPT ![a].claim = report[a]]
    /\ report' = [report EXCEPT ![a] = None]
    /\ holder' = Nobody
    /\ UNCHANGED <<backend, conversation, create, removal, deletions>>

\* (Mutation: a refusal keeps the lock.)
RefuseKeepingLock(a) ==
    /\ holder = a
    /\ report' = [report EXCEPT ![a] = None]
    /\ UNCHANGED <<backend, agent, conversation, holder, create, removal, deletions>>

\* It is refused: not found, another directory, or no longer available.
Refuse(a) ==
    /\ holder = a
    /\ report' = [report EXCEPT ![a] = None]
    /\ holder' = Nobody
    /\ UNCHANGED <<backend, agent, conversation, create, removal, deletions>>

\* The bridge of a stopped session aborts the task that handles its reports.
AbortReports(a) ==
    /\ report[a] # None /\ agent[a].stage \in {"terminating", "gone"}
    /\ report' = [report EXCEPT ![a] = None]
    /\ holder' = IF holder = a THEN Nobody ELSE holder
    /\ UNCHANGED <<backend, agent, conversation, create, removal, deletions>>

-----------------------------------------------------------------------------
(* Removing a conversation *)

\* The handler up to its first await; clients remove what a list has shown.
RemoveBegin(r, c) ==
    /\ removal[r].stage = "idle" /\ holder = Nobody
    /\ conversation[c] # "unborn"
    /\ c \notin ActiveIds
    /\ c \notin deletions
    /\ deletions' = deletions \cup {c}
    /\ removal' = [removal EXCEPT ![r] =
                      [stage |-> "begun", id |-> c, targets |-> {}, keys |-> {c}]]
    /\ holder' = r
    /\ UNCHANGED <<backend, agent, report, conversation, create>>

\* deletion_plan: what goes with the conversation.
Targets(id) == IF backend = "opencode" THEN Subtree(id) ELSE {id}

CanPlan(r) ==
    /\ removal[r].stage = "begun" /\ removal[r].id \in Stored
    /\ backend = "opencode" => Parent[removal[r].id] = None

\* (Mutation: what another removal has marked can be marked again.)
MayExtendAlways(r, targets) == TRUE

\* extend_deletion refuses what another removal has marked.
MayExtend(r, targets) == deletions \cap targets \subseteq removal[r].keys

\* (Mutation: agents without an identity are forgotten.)
NotInUseIdentified(r, targets) == targets \cap ActiveIds = {}

\* None of the conversations has an owner; an agent of OpenCode without an
\* identity may own anything in its directory, one of Codex holds a lock on
\* what it writes to.
NotInUse(r, targets) ==
    /\ targets \cap ActiveIds = {}
    /\ backend = "opencode" => {DirectoryOf[c] : c \in targets} \cap UnidentifiedCwds = {}
    /\ backend = "codex" => targets \cap WriterLocks = {}

Extended(r, targets, stage) ==
    /\ removal' = [removal EXCEPT ![r] = [stage |-> stage, id |-> @.id, targets |-> targets,
                                          keys |-> @.keys \cup targets]]
    /\ deletions' = deletions \cup targets

\* The plan is made, its conversations are marked and nobody uses them.
RemovePlan(r) ==
    /\ CanPlan(r)
    /\ LET targets == Targets(removal[r].id)
       IN  MayExtend(r, targets) /\ NotInUse(r, targets) /\ Extended(r, targets, "planned")
    /\ UNCHANGED <<backend, agent, report, conversation, holder, create>>

\* They are marked before it shows that they are in use.
RemoveInUse(r) ==
    /\ CanPlan(r) /\ backend = "opencode"
    /\ LET targets == Targets(removal[r].id)
       IN  MayExtend(r, targets) /\ ~NotInUse(r, targets) /\ Extended(r, targets, "unlocked")
    /\ holder' = Nobody
    /\ UNCHANGED <<backend, agent, report, conversation, create>>

\* The transaction, the other program's command or the blocking thread takes
\* effect.  OpenCode's transaction fails when the plan is out of date.
RemoveCommit(r) ==
    /\ removal[r].stage \in {"planned", "orphaned"}
    /\ backend = "opencode" => Targets(removal[r].id) = removal[r].targets
    /\ conversation' = [c \in Conversations |->
                           IF c \in removal[r].targets THEN "deleted" ELSE conversation[c]]
    /\ removal' = [removal EXCEPT ![r] =
                      IF @.stage = "orphaned" THEN IdleRemoval ELSE [@ EXCEPT !.stage = "committed"]]
    /\ UNCHANGED <<backend, agent, report, holder, create, deletions>>

\* The removal ends, with or without success: OpenCode's scope drops the lock
\* and then the markers; the others keep the lock until the markers are gone.
RemoveEnd(r) ==
    /\ removal[r].stage \in {"begun", "planned", "committed"}
    /\ holder' = Nobody
    /\ IF backend = "opencode"
       THEN /\ removal' = [removal EXCEPT ![r].stage = "unlocked"]
            /\ UNCHANGED deletions
       ELSE /\ removal' = [removal EXCEPT ![r] = IdleRemoval]
            /\ deletions' = deletions \ removal[r].keys
    /\ UNCHANGED <<backend, agent, report, conversation, create>>

\* HistoryDeletionGuard::drop.
DropMarkers(r) ==
    /\ removal[r].stage = "unlocked"
    /\ deletions' = deletions \ removal[r].keys
    /\ removal' = [removal EXCEPT ![r] = IdleRemoval]
    /\ UNCHANGED <<backend, agent, report, conversation, holder, create>>

\* The client goes away.  OpenCode's task does not notice and Codex's command
\* is killed, as in RemoveEnd, but Pi's blocking thread goes on.
Abandon(r) ==
    /\ backend = "pi" /\ removal[r].stage = "planned"
    /\ holder' = Nobody
    /\ deletions' = deletions \ removal[r].keys
    /\ removal' = [removal EXCEPT ![r] = [stage |-> "orphaned", id |-> @.id,
                                          targets |-> @.targets, keys |-> {}]]
    /\ UNCHANGED <<backend, agent, report, conversation, create>>

\* The orphaned thread refuses: the file is open elsewhere or has changed.
OrphanFails(r) ==
    /\ removal[r].stage = "orphaned"
    /\ removal' = [removal EXCEPT ![r] = IdleRemoval]
    /\ UNCHANGED <<backend, agent, report, conversation, holder, create, deletions>>

-----------------------------------------------------------------------------

ReportStep(a) == ReportBegin(a) \/ AbortReports(a)

Next ==
    \/ \E c \in MaybeConversation : CreateBegin(c)
    \/ \E a \in Agents : CreateResumed(a) \/ \E d \in Directories : CreateNew(a, d)
    \/ CreateEnd
    \/ \E a \in Agents, c \in Conversations : Use(a, c) \/ Branch(a, c)
    \/ \E a \in Agents : Remove(a) \/ Exit(a)
    \/ \E a \in Agents : ReportBegin(a) \/ Accept(a) \/ Refuse(a) \/ AbortReports(a)
    \/ \E r \in Removals, c \in Conversations : RemoveBegin(r, c)
    \/ \E r \in Removals : RemovePlan(r) \/ RemoveInUse(r) \/ RemoveCommit(r)
    \/ \E r \in Removals : RemoveEnd(r) \/ DropMarkers(r) \/ Abandon(r) \/ OrphanFails(r)

\* What is awaited under the lock has an end (look-ups, SQLite's busy timeout,
\* 15 seconds for a command), and tokio's mutex is handed on in order.
Fairness ==
    /\ WF_vars(CreateEnd)
    /\ \A a \in Agents : SF_vars(ReportStep(a)) /\ WF_vars(Refuse(a))
    /\ \A r \in Removals : WF_vars(RemoveEnd(r)) /\ WF_vars(DropMarkers(r))

Spec == ClaimsInit /\ [][Next]_vars /\ Fairness
-----------------------------------------------------------------------------
(* Properties *)

Stages == {"absent", "listed", "terminating", "gone"}

RemovalStages == {"idle", "begun", "planned", "committed", "unlocked", "orphaned"}

\* Types.
TypeOK ==
    /\ backend \in {"opencode", "codex", "pi"}
    /\ agent \in [Agents -> [stage : Stages, claim : MaybeConversation,
                              cwd : Directories \cup {None}, uses : MaybeConversation]]
    /\ \A a \in Agents : agent[a].cwd = None <=> agent[a].stage = "absent"
    /\ report \in [Agents -> MaybeConversation]
    /\ conversation \in [Conversations -> {"unborn", "stored", "deleted"}]
    /\ holder \in {Nobody, Creator} \cup Agents \cup Removals
    /\ create \in [stage : {"idle", "preparing", "spawned"}, resume : MaybeConversation]
    /\ removal \in [Removals -> [stage : RemovalStages, id : MaybeConversation,
                                  targets : SUBSET Conversations, keys : SUBSET Conversations]]
    /\ deletions \subseteq Conversations

\* No two agents own the same conversation, whether they resumed it or reported
\* it (claim_available and prepare ask both tables, under the lock).
NoSharedConversation ==
    \A a, b \in Agents :
        a # b /\ Live(a) /\ Live(b) /\ agent[a].claim # None => agent[a].claim # agent[b].claim

\* What a removal is about to take away stays marked until it is done, also
\* when another removal of a part of it drops its own markers (extend_deletion).
TargetsAreMarked ==
    \A r \in Removals :
        removal[r].stage \in {"planned", "committed", "unlocked"} =>
            removal[r].targets \subseteq deletions

\* Markers are of removals in progress: none is left behind.
MarkersHaveRemovals ==
    \A c \in Conversations : c \in deletions <=> \E r \in Removals : c \in removal[r].keys

\* The bookkeeping of markers as a whole, while removals overlap.
MarkersAreKept == TargetsAreMarked /\ MarkersHaveRemovals

Orphaned(c) == \E r \in Removals : removal[r].stage = "orphaned" /\ c \in removal[r].targets

Deleted(c) == conversation[c] # "deleted" /\ conversation'[c] = "deleted"

\* A removal takes no conversation from an agent that owns it.  The exception
\* is Pi's: the thread of an abandoned request deletes without the lock.
OwnedConversationsSurvive ==
    [][\A c \in Conversations :
          Deleted(c) /\ ~(backend = "pi" /\ Orphaned(c)) => c \notin ActiveIds]_vars

\* Nor does it take one from an agent of OpenCode that has not told yet which
\* one it works on.
UnidentifiedConversationsSurvive ==
    [][backend = "opencode" => \A c \in Conversations, a \in Agents :
          Deleted(c) /\ Live(a) /\ agent[a].claim = None => agent[a].uses # c]_vars

\* Every reported identity is decided, however many others want the lock.
IsDecided(a) == report[a] = None
IdentitiesAreDecided == \A a \in Agents : ~IsDecided(a) ~> IsDecided(a)
=============================================================================
