--------------------------- MODULE AgentActivity ---------------------------
(***************************************************************************)
(* The activity of agents ("busy", "waiting for an answer", ...) on its    *)
(* way from the agents' runtimes to the activity socket of one page.       *)
(*                                                                         *)
(* Every change of an activity is published on one broadcast channel under *)
(* agent_event_lock, with a number of a global sequence.  A socket         *)
(* subscribes first, takes a snapshot under the same lock and then passes  *)
(* on the events that are newer than its snapshot.  A socket that lags     *)
(* behind the channel is closed; the page reconnects.                      *)
(*                                                                         *)
(* What holds agent_event_lock is one action.  An agent's time stamps are  *)
(* only compared with its own, so max(now, updated_at + 1) is updated_at+1.*)
(* An agent is inserted in the registry before its runtime is watched      *)
(* (Session::spawn), and after it left the snapshots it never comes back,  *)
(* so one stage stands for registration, status and the deleting flag.     *)
(***************************************************************************)
EXTENDS Integers, Sequences, SequencesExt, FiniteSets

CONSTANTS
    Agents,         \* agent sessions
    Activities,     \* what a runtime reports: status, phase and detail
    NoActivity,     \* None
    ChannelSize,    \* capacity of the broadcast channel
    MaxUpdates      \* bound on each agent's time stamps

ASSUME ActivityAssumption ==
    /\ NoActivity \notin Activities
    /\ ChannelSize \in Nat \ {0}
    /\ MaxUpdates \in [Agents -> Nat \ {0}]

VARIABLES
    agent,              \* [stage, activity, activityAt, updatedAt] per agent
    unsent,             \* activity published, not yet sent on the session's own channel
    sequence,           \* agent_event_sequence
    connection,         \* the task that serves the page's activity socket
    snapshotSequence,   \* its snapshot_sequence
    channel,            \* events it has not received from the channel
    lagged,             \* whether the channel dropped one of them
    wire                \* what it sent and the page has not received

serverVars == <<agent, unsent, sequence>>
socketVars == <<connection, snapshotSequence, channel, lagged, wire>>

Stages == {"absent", "live", "exited", "deleting"}

MaybeActivity == Activities \cup {NoActivity}

Reports == [activity : MaybeActivity, at : Nat]

Events == [agent : Agents, activity : MaybeActivity, at : Nat, sequence : Nat]

SnapshotMessage(reports) == [type |-> "snapshot", reports |-> reports]
EventMessage(event) == [type |-> "event", event |-> event]
CloseMessage == [type |-> "close"]

IsEvent(message) == message.type = "event"

\* Events still to be shown by the page: those it was sent, and those of the
\* channel that its snapshot does not contain.
Queued ==
    {wire[i].event : i \in {j \in 1..Len(wire) : IsEvent(wire[j])}}
        \cup {channel[i] : i \in {j \in 1..Len(channel) : channel[j].sequence > snapshotSequence}}

Live(a) == agent[a].stage = "live"

CanUpdate(a) == agent[a].stage # "absent" /\ agent[a].updatedAt < MaxUpdates[a]

-----------------------------------------------------------------------------

AgentActivityInit ==
    /\ agent = [a \in Agents |->
                   [stage |-> "absent", activity |-> NoActivity, activityAt |-> 0, updatedAt |-> 1]]
    /\ unsent = [a \in Agents |-> [activity |-> NoActivity, at |-> 0]]
    /\ sequence = 0
    /\ connection = "none"
    /\ snapshotSequence = 0
    /\ channel = <<>>
    /\ lagged = FALSE
    /\ wire = <<>>

-----------------------------------------------------------------------------
(* The broadcast channel *)

Subscribed == connection \in {"subscribed", "open"}

\* broadcast::Sender::send: the oldest event goes when a receiver is full.
Send(event) ==
    IF Subscribed
    THEN LET queue == Append(channel, event)
         IN  /\ channel' = IF Len(queue) > ChannelSize THEN Tail(queue) ELSE queue
             /\ lagged' = (lagged \/ Len(queue) > ChannelSize)
    ELSE UNCHANGED <<channel, lagged>>

\* An agent's new state together with the event that tells of it.
SendChange(a, stage, activity) ==
    LET now == agent[a].updatedAt + 1
    IN  /\ agent' = [agent EXCEPT ![a] =
                        [stage |-> stage, activity |-> activity,
                         activityAt |-> IF activity = NoActivity THEN 0 ELSE now,
                         updatedAt |-> now]]
        /\ sequence' = sequence + 1
        /\ Send([agent |-> a, activity |-> activity, at |-> now, sequence |-> sequence + 1])
        /\ UNCHANGED <<connection, snapshotSequence, wire>>

-----------------------------------------------------------------------------
(* Sessions *)

\* SessionRegistry::insert, before anything watches the agent.
Insert(a) ==
    /\ agent[a].stage = "absent"
    /\ agent' = [agent EXCEPT ![a].stage = "live"]
    /\ UNCHANGED <<unsent, sequence, socketVars>>

MayPublish(a) == agent[a].stage \in {"live", "exited"}

\* publish_agent_activity up to the release of the event lock.  The one task
\* that watches a runtime has sent its previous activity on.
Publish(a, activity) ==
    /\ MayPublish(a)
    /\ CanUpdate(a)
    /\ unsent[a].activity = NoActivity
    /\ agent[a].activity # activity
    /\ SendChange(a, agent[a].stage, activity)
    /\ unsent' = [unsent EXCEPT ![a] = [activity |-> activity, at |-> agent[a].updatedAt + 1]]

\* update_runtime_identity with a new id: it does not ask whether the agent is
\* being deleted.
ChangeIdentity(a) ==
    /\ CanUpdate(a)
    /\ SendChange(a, agent[a].stage, NoActivity)
    /\ UNCHANGED unsent

\* mark_deleting_with_agent_event_lock, from registry.remove, mark_deleting or
\* the end of finish_exit.
MarkDeleting(a) ==
    /\ agent[a].stage \in {"live", "exited"}
    /\ CanUpdate(a)
    /\ SendChange(a, "deleting", NoActivity)
    /\ UNCHANGED unsent

\* finish_exit before it marks the session: the lock is not held yet.
FinishExit(a) ==
    /\ Live(a)
    /\ CanUpdate(a)
    /\ agent' = [agent EXCEPT ![a].stage = "exited", ![a].updatedAt = @ + 1]
    /\ UNCHANGED <<unsent, sequence, socketVars>>

\* rename, resize, another cwd: a new time stamp without an event.
Touch(a) ==
    /\ CanUpdate(a)
    /\ agent' = [agent EXCEPT ![a].updatedAt = @ + 1]
    /\ UNCHANGED <<unsent, sequence, socketVars>>

SessionStep(a) ==
    \/ Insert(a)
    \/ \E activity \in Activities : Publish(a, activity)
    \/ ChangeIdentity(a)
    \/ MarkDeleting(a)
    \/ FinishExit(a)
    \/ Touch(a)

-----------------------------------------------------------------------------
(* The activity socket *)

\* handle_socket begins: it subscribes before it takes its snapshot.
Subscribe ==
    /\ connection = "opening"
    /\ connection' = "subscribed"
    /\ channel' = <<>>
    /\ lagged' = FALSE
    /\ UNCHANGED <<serverVars, snapshotSequence, wire>>

\* agent_activity_event: what a snapshot says of an agent.
Report(a) ==
    [activity |-> agent[a].activity,
     at |-> IF agent[a].activity = NoActivity THEN agent[a].updatedAt ELSE agent[a].activityAt]

\* The number that tells which events the snapshot contains.
SnapshotNumber == sequence

\* agent_activity_snapshot under the event lock, sent as the first message.
Snapshot ==
    /\ connection = "subscribed"
    /\ connection' = "open"
    /\ snapshotSequence' = SnapshotNumber
    /\ wire' = Append(wire, SnapshotMessage([a \in {b \in Agents : Live(b)} |-> Report(a)]))
    /\ UNCHANGED <<serverVars, channel, lagged>>

\* (Mutation: the event right after the snapshot counts as old.)
InSnapshotInclusive(event) == event.sequence <= snapshotSequence + 1
InSnapshot(event) == event.sequence <= snapshotSequence

\* events.recv() with an event: skip it or pass it on.
Receive ==
    /\ connection = "open"
    /\ ~lagged
    /\ channel # <<>>
    /\ channel' = Tail(channel)
    /\ wire' = IF InSnapshot(Head(channel)) THEN wire
               ELSE Append(wire, EventMessage(Head(channel)))
    /\ UNCHANGED <<serverVars, connection, snapshotSequence, lagged>>

\* (Mutation: a socket that lags goes on.)
LagIgnored ==
    /\ connection = "open"
    /\ lagged
    /\ lagged' = FALSE
    /\ UNCHANGED <<serverVars, connection, snapshotSequence, channel, wire>>

\* events.recv() with Lagged: the socket closes with 1011.
ReceiveLagged ==
    /\ connection = "open"
    /\ lagged
    /\ connection' = "none"
    /\ channel' = <<>>
    /\ lagged' = FALSE
    /\ wire' = Append(wire, CloseMessage)
    /\ UNCHANGED <<serverVars, snapshotSequence>>

SocketStep == Subscribe \/ Snapshot \/ Receive \/ ReceiveLagged

-----------------------------------------------------------------------------

\* Type invariant of the server's part.
AgentActivityTypeOK ==
    /\ agent \in [Agents -> [stage : Stages, activity : MaybeActivity,
                             activityAt : Nat, updatedAt : Nat]]
    /\ \A a \in Agents : agent[a].activityAt <= agent[a].updatedAt /\ agent[a].updatedAt <= MaxUpdates[a]
    /\ unsent \in [Agents -> Reports]
    /\ sequence \in Nat
    /\ connection \in {"none", "opening", "subscribed", "open"}
    /\ snapshotSequence \in 0..sequence
    /\ Range(channel) \subseteq Events /\ Len(channel) <= ChannelSize
    /\ lagged \in BOOLEAN
    /\ \A message \in Range(wire) : IsEvent(message) => message.event \in Events

\* An agent that is being deleted has no activity, and the last that is queued
\* about it says so: nothing a runtime reports comes after the removal.
RemovalIsLast ==
    \A a \in Agents : agent[a].stage = "deleting" =>
        /\ agent[a].activity = NoActivity
        /\ connection = "open" /\ ~lagged =>
              \A e \in Queued : e.agent = a =>
                 \E last \in Queued :
                    last.agent = a /\ last.activity = NoActivity /\ last.sequence >= e.sequence

\* The number of the last event that the socket passed on or skipped.
Passed ==
    IF snapshotSequence > sequence - Len(channel) THEN snapshotSequence ELSE sequence - Len(channel)

\* The page misses no event: with those of the snapshot, those it received and
\* those that are under way, all numbers up to the current one are there, in
\* order and once.  (A socket that lags is closed and starts over.)
StreamIsComplete ==
    connection = "open" /\ ~lagged =>
        /\ \A i \in 1..Len(channel) : channel[i].sequence = sequence - Len(channel) + i
        /\ \A i \in 1..Len(wire) :
              LET number == Passed - Len(wire) + i
              IN  \/ wire[i].type = "snapshot" /\ number = snapshotSequence
                  \/ IsEvent(wire[i]) /\ wire[i].event.sequence = number /\ number > snapshotSequence

=============================================================================
