---------------------- MODULE AgentActivityPage_proofs ----------------------
(***************************************************************************)
(* Proofs about the activities that a page shows (AgentActivityPage).      *)
(*                                                                         *)
(* What says that the page is current is not the last event alone: its     *)
(* terminal sockets still bring what they know.  So the invariant follows  *)
(* every report on its way.  All of them are true of the past of their     *)
(* agent; what is queued about an agent is newer than what the stream told *)
(* so far, in order, and the last of it is the present; and where nothing  *)
(* is queued, nothing that a terminal socket brings is news.               *)
(***************************************************************************)
EXTENDS AgentActivityPage, TLAPS

-----------------------------------------------------------------------------
(* The invariant *)

ReportMaps == UNION {[S -> Reports] : S \in SUBSET Agents}

Messages ==
    [type : {"snapshot"}, reports : ReportMaps] \cup [type : {"event"}, event : Events]
        \cup [type : {"close"}]

AgentStates == [stage : Stages, activity : MaybeActivity, activityAt : Nat, updatedAt : Nat]

ServerTypeOK ==
    /\ agent \in [Agents -> AgentStates]
    /\ unsent \in [Agents -> Reports]
    /\ sequence \in Nat
    /\ connection \in {"none", "opening", "subscribed", "open"}
    /\ snapshotSequence \in Nat /\ snapshotSequence <= sequence
    /\ channel \in Seq(Events) /\ Len(channel) <= ChannelSize
    /\ lagged \in BOOLEAN
    /\ wire \in Seq(Messages)

PageTypeOK ==
    /\ ServerTypeOK
    /\ phase \in {"closed", "connecting", "ready"}
    /\ shown \in [Agents -> MaybeActivity]
    /\ shownAt \in [Agents -> Nat] /\ streamAt \in [Agents -> Nat]
    /\ attached \subseteq Agents
    /\ terminal \in [Agents -> Seq(Reports)]
    /\ breaks \in Nat /\ breaks <= MaxBreaks

\* An activity has the time stamp of its event.
StampsAreOrdered ==
    \A a \in Agents :
        /\ 1 <= agent[a].updatedAt /\ agent[a].updatedAt <= MaxUpdates[a]
        /\ IF agent[a].activity = NoActivity THEN agent[a].activityAt = 0
           ELSE 1 < agent[a].activityAt /\ agent[a].activityAt <= agent[a].updatedAt

\* The page's socket: it begins with a snapshot, and then has only events.
Delivering == connection = "open" /\ ~lagged

SocketOfPage ==
    /\ phase = "closed" => connection = "none" /\ wire = <<>>
    /\ connection \in {"opening", "subscribed"} => phase = "connecting" /\ wire = <<>>
    /\ connection \in {"none", "opening"} => channel = <<>> /\ ~lagged
    /\ connection = "open" =>
          /\ \A i \in 1..Len(wire) :
                IF i = 1 /\ phase = "connecting" THEN wire[i].type = "snapshot" ELSE IsEvent(wire[i])
          /\ phase = "connecting" => wire # <<>>

ChannelIsComplete ==
    ~lagged => \A i \in 1..Len(channel) : channel[i].sequence = sequence - Len(channel) + i

\* What an activity and its time stamp say of agent a is true of its past.
Truth(a, activity, at) ==
    /\ at <= agent[a].updatedAt
    /\ agent[a].activity # NoActivity =>
          at < agent[a].activityAt \/ (at = agent[a].activityAt /\ activity = agent[a].activity)
    /\ agent[a].activity = NoActivity /\ activity # NoActivity => at < agent[a].updatedAt

\* What the terminal sockets will bring of agent a.
Coming(a) ==
    {terminal[a][i] : i \in 1..Len(terminal[a])} \cup {m \in {unsent[a]} : m.activity # NoActivity}

EventIsTrue(e) == e.at > 0 /\ agent[e.agent].stage # "absent" /\ Truth(e.agent, e.activity, e.at)

MessageIsTrue(message) ==
    /\ IsEvent(message) => EventIsTrue(message.event)
    /\ message.type = "snapshot" =>
          \A a \in DOMAIN message.reports :
             /\ agent[a].stage # "absent" /\ message.reports[a].at > 0
             /\ Truth(a, message.reports[a].activity, message.reports[a].at)

StreamIsTrue ==
    /\ \A i \in 1..Len(channel) : EventIsTrue(channel[i])
    /\ \A i \in 1..Len(wire) : MessageIsTrue(wire[i])

PageIsTrue ==
    \A a \in Agents :
        /\ \A m \in Coming(a) : m.activity # NoActivity /\ m.at > 0 /\ Truth(a, m.activity, m.at)
        /\ Truth(a, shown[a], shownAt[a]) /\ streamAt[a] <= agent[a].updatedAt
        /\ agent[a].stage = "absent" =>
              /\ agent[a].activity = NoActivity /\ Coming(a) = {} /\ a \notin attached
              /\ shown[a] = NoActivity

\* The page shows the present of agent a, and what still comes is no news.
InTouch(a) ==
    IF agent[a].activity = NoActivity
    THEN shown[a] = NoActivity /\ \A m \in Coming(a) : m.at <= shownAt[a]
    ELSE shownAt[a] = agent[a].activityAt

\* The stream told of the present of agent a.
ToldIsShown == \A a \in Agents : streamAt[a] >= Report(a).at => InTouch(a)

\* A report of the present of a, and all else of a that the page may show is older.
IsPresent(a, activity, at) ==
    /\ activity = agent[a].activity
    /\ IF activity = NoActivity
       THEN /\ \A m \in Coming(a) : m.at < at
            /\ shown[a] # NoActivity => shownAt[a] < at
       ELSE at = agent[a].activityAt

Waiting(a) == \E e \in Queued : e.agent = a

IsLast(e) == \A f \in Queued : f.agent = e.agent => f.sequence <= e.sequence

QueueIsNews ==
    Delivering => \A e \in Queued :
        /\ streamAt[e.agent] < e.at
        /\ \A f \in Queued : f.agent = e.agent /\ f.sequence > e.sequence => f.at > e.at
        /\ phase = "connecting" /\ e.agent \in DOMAIN wire[1].reports =>
              wire[1].reports[e.agent].at < e.at
        /\ Live(e.agent) /\ IsLast(e) => IsPresent(e.agent, e.activity, e.at)

\* Of an agent about which nothing is queued the snapshot is the present, or,
\* once it was shown, the page is in touch.
SnapshotIsPresent ==
    Delivering /\ phase = "connecting" => \A a \in Agents : Live(a) /\ ~Waiting(a) =>
        IF a \in DOMAIN wire[1].reports
        THEN LET report == wire[1].reports[a]
             IN  /\ IsPresent(a, report.activity, report.at)
                 /\ streamAt[a] >= report.at => InTouch(a)
        ELSE agent[a].activity = NoActivity /\ Coming(a) = {}

QuietIsInTouch ==
    Delivering /\ phase = "ready" => \A a \in Agents : Live(a) /\ ~Waiting(a) => InTouch(a)

PageInv ==
    /\ PageTypeOK /\ StampsAreOrdered /\ SocketOfPage
    /\ ChannelIsComplete /\ StreamIsComplete /\ RemovalIsLast
    /\ StreamIsTrue /\ PageIsTrue
    /\ ToldIsShown /\ QueueIsNews /\ SnapshotIsPresent /\ QuietIsInTouch

-----------------------------------------------------------------------------
(* Types *)

LEMMA MessageLemma ==
    /\ \A m \in Messages : IsEvent(m) => m.event \in Events
    /\ \A m \in Messages : m.type = "snapshot" =>
          /\ DOMAIN m.reports \subseteq Agents
          /\ \A a \in DOMAIN m.reports : m.reports[a] \in Reports
    /\ \A e \in Events : EventMessage(e) \in Messages /\ IsEvent(EventMessage(e)) /\ EventMessage(e).event = e
          /\ EventMessage(e).type = "event"
    /\ \A r \in ReportMaps : SnapshotMessage(r) \in Messages /\ SnapshotMessage(r).type = "snapshot"
          /\ SnapshotMessage(r).reports = r
    /\ CloseMessage \in Messages /\ CloseMessage.type = "close"
<1>1. \A m \in Messages : IsEvent(m) => m.event \in Events
  BY DEF Messages, IsEvent
<1>2. ASSUME NEW m \in Messages, m.type = "snapshot"
      PROVE  /\ DOMAIN m.reports \subseteq Agents
             /\ \A a \in DOMAIN m.reports : m.reports[a] \in Reports
  <2>1. PICK S \in SUBSET Agents : m.reports \in [S -> Reports]
    BY <1>2 DEF Messages, ReportMaps
  <2> QED
    BY <2>1
<1>3. \A e \in Events : EventMessage(e) \in Messages /\ IsEvent(EventMessage(e)) /\ EventMessage(e).event = e
          /\ EventMessage(e).type = "event"
  BY DEF Messages, EventMessage, IsEvent
<1>4. \A r \in ReportMaps : SnapshotMessage(r) \in Messages /\ SnapshotMessage(r).type = "snapshot"
          /\ SnapshotMessage(r).reports = r
  BY DEF Messages, SnapshotMessage
<1>5. CloseMessage \in Messages /\ CloseMessage.type = "close"
  BY DEF Messages, CloseMessage
<1> QED
  BY <1>1, <1>2, <1>3, <1>4, <1>5

LEMMA EmptyLemma ==
    <<>> \in Seq(Events) /\ <<>> \in Seq(Messages) /\ Len(<<>>) <= ChannelSize
  BY ActivityAssumption

\* What a step of a session makes of its agent.
LEMMA AgentLemma ==
    ASSUME ServerTypeOK, NEW a \in Agents
    PROVE  /\ agent[a] \in AgentStates
           /\ \A s \in AgentStates : [agent EXCEPT ![a] = s] \in [Agents -> AgentStates]
           /\ \A stage \in Stages, x \in MaybeActivity, t \in Nat, u \in Nat :
                 [stage |-> stage, activity |-> x, activityAt |-> t, updatedAt |-> u] \in AgentStates
           /\ \A stage \in Stages : [agent[a] EXCEPT !.stage = stage] \in AgentStates
           /\ \A u \in Nat : [agent[a] EXCEPT !.updatedAt = u] \in AgentStates
           /\ \A stage \in Stages, u \in Nat :
                 [agent[a] EXCEPT !.stage = stage, !.updatedAt = u] \in AgentStates
  BY DEF ServerTypeOK, AgentStates

LEMMA SendLemma ==
    ASSUME ServerTypeOK, NEW e \in Events, Send(e)
    PROVE  /\ channel' \in Seq(Events) /\ Len(channel') <= ChannelSize /\ lagged' \in BOOLEAN
           /\ Subscribed /\ ~lagged' => channel' = Append(channel, e) /\ ~lagged
           /\ ~Subscribed => channel' = channel /\ lagged' = lagged
           /\ \A i \in 1..Len(channel') : channel'[i] = e \/ \E j \in 1..Len(channel) : channel'[i] = channel[j]
<1> USE ActivityAssumption DEF ServerTypeOK
<1>1. CASE Subscribed
  <2> DEFINE queue == Append(channel, e)
  <2>1. queue \in Seq(Events) /\ Len(queue) = Len(channel) + 1
        /\ \A i \in 1..Len(queue) : queue[i] = e \/ \E j \in 1..Len(channel) : queue[i] = channel[j]
    OBVIOUS
  <2> HIDE DEF queue
  <2>2. /\ channel' = IF Len(queue) > ChannelSize THEN Tail(queue) ELSE queue
        /\ lagged' = (lagged \/ Len(queue) > ChannelSize)
    BY <1>1 DEF Send, queue
  <2>3. CASE Len(queue) > ChannelSize
    <3>1. channel' = Tail(queue) /\ lagged'
      BY <2>2, <2>3
    <3>2. channel' \in Seq(Events) /\ Len(channel') = Len(queue) - 1
          /\ \A i \in 1..Len(channel') : channel'[i] = queue[i + 1] /\ i + 1 \in 1..Len(queue)
      BY <2>1, <2>3, <3>1
    <3> QED
      BY <1>1, <2>1, <3>1, <3>2
  <2>4. CASE ~(Len(queue) > ChannelSize)
    <3>1. channel' = queue /\ lagged' = lagged
      BY <2>2, <2>4
    <3> QED
      BY <1>1, <2>1, <2>4, <3>1 DEF queue
  <2> QED
    BY <2>3, <2>4
<1>2. CASE ~Subscribed
  BY <1>2 DEF Send
<1> QED
  BY <1>1, <1>2

\* A change of an agent and its event, field by field.
LEMMA ChangeLemma ==
    ASSUME ServerTypeOK, NEW a \in Agents, NEW stage \in Stages, NEW activity \in MaybeActivity,
           SendChange(a, stage, activity)
    PROVE  LET now == agent[a].updatedAt + 1
               e == [agent |-> a, activity |-> activity, at |-> now, sequence |-> sequence + 1]
           IN  /\ e \in Events /\ Send(e)
               /\ agent' \in [Agents -> AgentStates]
               /\ agent'[a].stage = stage /\ agent'[a].activity = activity
               /\ agent'[a].updatedAt = now
               /\ agent'[a].activityAt = IF activity = NoActivity THEN 0 ELSE now
               /\ \A b \in Agents \ {a} : agent'[b] = agent[b]
               /\ sequence' = sequence + 1
               /\ UNCHANGED <<connection, snapshotSequence, wire>>
<1> DEFINE now == agent[a].updatedAt + 1
           s == [stage |-> stage, activity |-> activity,
                 activityAt |-> IF activity = NoActivity THEN 0 ELSE now, updatedAt |-> now]
<1>1. now \in Nat /\ agent[a].updatedAt \in Nat
  BY DEF ServerTypeOK, AgentStates
<1>2. s \in AgentStates /\ agent' = [agent EXCEPT ![a] = s]
  BY <1>1, AgentLemma DEF SendChange
<1>3. agent' \in [Agents -> AgentStates] /\ agent'[a] = s /\ \A b \in Agents \ {a} : agent'[b] = agent[b]
  BY <1>2 DEF ServerTypeOK
<1>4. [agent |-> a, activity |-> activity, at |-> now, sequence |-> sequence + 1] \in Events
  BY <1>1 DEF ServerTypeOK, Events
<1> QED
  BY <1>1, <1>3, <1>4 DEF SendChange

LEMMA SessionTypes ==
    ASSUME PageTypeOK, ServerStep
    PROVE  PageTypeOK'
<1> USE DEF PageTypeOK
<1> SUFFICES ServerTypeOK'
  BY DEF ServerStep, pageVars, terminalVars
<1>1. PICK a \in Agents : SessionStep(a)
  BY DEF ServerStep
<1>2. ASSUME NEW stage \in Stages, NEW activity \in MaybeActivity, SendChange(a, stage, activity),
             unsent' \in [Agents -> Reports]
      PROVE  ServerTypeOK'
  <2>1. PICK e \in Events :
          /\ Send(e) /\ agent' \in [Agents -> AgentStates] /\ sequence' = sequence + 1
          /\ UNCHANGED <<connection, snapshotSequence, wire>>
    BY <1>2, ChangeLemma
  <2>2. channel' \in Seq(Events) /\ Len(channel') <= ChannelSize /\ lagged' \in BOOLEAN
    BY <2>1, SendLemma
  <2> QED
    BY <1>2, <2>1, <2>2 DEF ServerTypeOK
<1>3. agent[a] \in AgentStates /\ agent[a].stage \in Stages /\ agent[a].updatedAt \in Nat
  BY DEF ServerTypeOK, AgentStates
<1>4. ASSUME NEW activity \in Activities, Publish(a, activity)
      PROVE  ServerTypeOK'
  <2>1. [activity |-> activity, at |-> agent[a].updatedAt + 1] \in Reports
    BY <1>3 DEF Reports, MaybeActivity
  <2> QED
    BY <1>2, <1>3, <1>4, <2>1 DEF Publish, MaybeActivity, ServerTypeOK
<1>5. CASE ChangeIdentity(a)
  BY <1>2, <1>3, <1>5 DEF ChangeIdentity, MaybeActivity, ServerTypeOK
<1>6. CASE MarkDeleting(a)
  BY <1>2, <1>6 DEF MarkDeleting, MaybeActivity, Stages, ServerTypeOK
<1>7. CASE Insert(a) \/ FinishExit(a) \/ Touch(a)
  <2>1. agent' \in [Agents -> AgentStates]
    <3>1. CASE Insert(a)
      <4>1. agent' = [agent EXCEPT ![a] = [agent[a] EXCEPT !.stage = "live"]]
        BY <3>1 DEF Insert
      <4> QED
        BY <4>1, AgentLemma DEF Stages
    <3>2. PICK u \in Nat : u = agent[a].updatedAt + 1
      BY <1>3
    <3>3. CASE FinishExit(a)
      <4>1. agent' = [agent EXCEPT ![a] = [agent[a] EXCEPT !.stage = "exited", !.updatedAt = u]]
        BY <1>3, <3>2, <3>3 DEF FinishExit, ServerTypeOK, AgentStates
      <4> QED
        BY <4>1, AgentLemma DEF Stages
    <3>4. CASE Touch(a)
      <4>1. agent' = [agent EXCEPT ![a] = [agent[a] EXCEPT !.updatedAt = u]]
        BY <3>2, <3>4 DEF Touch
      <4> QED
        BY <4>1, AgentLemma
    <3> QED
      BY <1>7, <3>1, <3>3, <3>4
  <2> QED
    BY <1>7, <2>1 DEF Insert, FinishExit, Touch, socketVars, ServerTypeOK
<1> QED
  BY <1>1, <1>4, <1>5, <1>6, <1>7 DEF SessionStep

LEMMA SocketTypes ==
    ASSUME PageTypeOK, SocketOfPage, Serve
    PROVE  PageTypeOK'
<1> USE DEF PageTypeOK, ServerTypeOK
<1> SUFFICES ServerTypeOK'
  BY DEF Serve, pageVars, terminalVars
<1>1. CASE Subscribe
  BY <1>1, EmptyLemma DEF Subscribe, serverVars
<1>2. CASE Snapshot
  <2>1. \A b \in Agents : Report(b) \in Reports
    BY DEF Report, Reports, AgentStates
  <2>2. [b \in {c \in Agents : Live(c)} |-> Report(b)] \in ReportMaps
    <3>1. ASSUME NEW S \in SUBSET Agents
          PROVE  [b \in S |-> Report(b)] \in ReportMaps
      <4>1. [b \in S |-> Report(b)] \in [S -> Reports]
        BY <2>1
      <4> QED
        BY <4>1 DEF ReportMaps
    <3> QED
      BY <3>1
  <2>3. wire' \in Seq(Messages)
    BY <1>2, <2>2, MessageLemma DEF Snapshot
  <2> QED
    BY <1>2, <2>3 DEF Snapshot, serverVars, SnapshotNumber
<1>3. CASE Receive
  <2>1. channel' \in Seq(Events) /\ Len(channel') <= ChannelSize /\ Head(channel) \in Events
    BY <1>3, ActivityAssumption DEF Receive
  <2>2. wire' \in Seq(Messages)
    BY <1>3, <2>1, MessageLemma DEF Receive
  <2> QED
    BY <1>3, <2>1, <2>2 DEF Receive, serverVars
<1>4. CASE ReceiveLagged
  <2>1. wire' \in Seq(Messages)
    BY <1>4, MessageLemma DEF ReceiveLagged
  <2> QED
    BY <1>4, <2>1, EmptyLemma DEF ReceiveLagged, serverVars
<1> QED
  BY <1>1, <1>2, <1>3, <1>4 DEF Serve, SocketStep

LEMMA TerminalTypes ==
    ASSUME PageTypeOK, StampsAreOrdered, NEW a \in Agents, TerminalStep(a)
    PROVE  PageTypeOK'
<1> USE DEF PageTypeOK
<1>1. terminal[a] \in Seq(Reports) /\ unsent[a] \in Reports
      /\ [activity |-> agent[a].activity, at |-> agent[a].activityAt] \in Reports
      /\ [activity |-> NoActivity, at |-> 0] \in Reports
  BY DEF ServerTypeOK, Reports, AgentStates, MaybeActivity
<1>2. CASE Attach(a)
  <2>1. terminal' \in [Agents -> Seq(Reports)]
    BY <1>1, <1>2 DEF Attach
  <2> QED
    BY <1>2, <2>1 DEF Attach, serverVars, socketVars, pageVars, ServerTypeOK
<1>3. CASE Notify(a)
  <2>1. terminal' \in [Agents -> Seq(Reports)] /\ unsent' \in [Agents -> Reports]
    BY <1>1, <1>3 DEF Notify, ServerTypeOK
  <2> QED
    BY <1>3, <2>1 DEF Notify, socketVars, pageVars, ServerTypeOK
<1>4. CASE Detach(a)
  <2>1. terminal' \in [Agents -> Seq(Reports)]
    BY <1>4 DEF Detach
  <2> QED
    BY <1>4, <2>1 DEF Detach, serverVars, socketVars, pageVars, ServerTypeOK
<1>5. CASE ReceiveTerminal(a)
  <2>1. terminal' \in [Agents -> Seq(Reports)] /\ Head(terminal[a]) \in Reports
    BY <1>1, <1>5 DEF ReceiveTerminal
  <2>2. shown' \in [Agents -> MaybeActivity] /\ shownAt' \in [Agents -> Nat]
    BY <1>5, <2>1 DEF ReceiveTerminal, Reports
  <2> QED
    BY <1>5, <2>1, <2>2 DEF ReceiveTerminal, serverVars, socketVars, ServerTypeOK
<1> QED
  BY <1>2, <1>3, <1>4, <1>5 DEF TerminalStep

LEMMA PageTypes ==
    ASSUME PageTypeOK, PageStep \/ Break \/ (\E a \in Agents : Forget(a))
    PROVE  PageTypeOK'
<1> USE DEF PageTypeOK, ServerTypeOK
<1>1. CASE Connect
  BY <1>1, EmptyLemma DEF Connect, serverVars, terminalVars
<1>2. CASE ReceiveSnapshot
  <2> DEFINE reports == Head(wire).reports
  <2>1. wire' \in Seq(Messages) /\ Head(wire) \in Messages /\ Head(wire).type = "snapshot"
    BY <1>2 DEF ReceiveSnapshot
  <2>2. \A a \in DOMAIN reports : reports[a].activity \in MaybeActivity /\ reports[a].at \in Nat
    BY <2>1, MessageLemma DEF Reports
  <2>3. /\ shown' \in [Agents -> MaybeActivity]
        /\ shownAt' \in [Agents -> Nat] /\ streamAt' \in [Agents -> Nat]
    BY <1>2, <2>2 DEF ReceiveSnapshot, MaybeActivity
  <2> QED
    BY <1>2, <2>1, <2>3 DEF ReceiveSnapshot, serverVars, terminalVars
<1>3. CASE ReceiveEvent
  <2>1. wire' \in Seq(Messages) /\ Head(wire) \in Messages /\ IsEvent(Head(wire))
    BY <1>3 DEF ReceiveEvent
  <2>2. Head(wire).event \in Events
    BY <2>1, MessageLemma
  <2>3. /\ Head(wire).event.agent \in Agents /\ Head(wire).event.activity \in MaybeActivity
        /\ Head(wire).event.at \in Nat
    BY <2>2 DEF Events
  <2>4. /\ shown' \in [Agents -> MaybeActivity]
        /\ shownAt' \in [Agents -> Nat] /\ streamAt' \in [Agents -> Nat]
    BY <1>3, <2>3 DEF ReceiveEvent
  <2> QED
    BY <1>3, <2>1, <2>4 DEF ReceiveEvent, serverVars, terminalVars
<1>4. CASE ReceiveClose
  BY <1>4 DEF ReceiveClose, serverVars, terminalVars
<1>5. CASE Break
  <2>1. PICK n \in 0..Len(wire) : wire' = Append(SubSeq(wire, 1, n), CloseMessage)
    BY <1>5 DEF Break
  <2>2. wire' \in Seq(Messages)
    BY <2>1, MessageLemma
  <2>3. breaks' \in Nat /\ breaks' <= MaxBreaks
    BY <1>5, PageAssumption DEF Break
  <2> QED
    BY <1>5, <2>2, <2>3, EmptyLemma DEF Break, serverVars, pageVars, terminalVars
<1>6. CASE \E a \in Agents : Forget(a)
  BY <1>6 DEF Forget, serverVars, socketVars, terminalVars, MaybeActivity
<1> QED
  BY <1>1, <1>2, <1>3, <1>4, <1>5, <1>6 DEF PageStep

LEMMA TypeStep ==
    ASSUME PageInv, [Next]_vars
    PROVE  PageTypeOK'
<1> USE DEF PageInv
<1>1. CASE UNCHANGED vars
  BY <1>1 DEF vars, serverVars, socketVars, pageVars, terminalVars, PageTypeOK, ServerTypeOK
<1> QED
  BY <1>1, SessionTypes, SocketTypes, TerminalTypes, PageTypes DEF Next

LEMMA PageInitial == Init => PageInv
<1> SUFFICES ASSUME Init
             PROVE  PageInv
  OBVIOUS
<1> USE ActivityAssumption, PageAssumption DEF Init, AgentActivityInit
<1>1. PageTypeOK
  <2>1. ServerTypeOK
    <3>1. agent \in [Agents -> AgentStates]
      BY DEF AgentStates, Stages, MaybeActivity
    <3>2. unsent \in [Agents -> Reports]
      BY DEF Reports, MaybeActivity
    <3> QED
      <4>1. channel \in Seq(Events) /\ Len(channel) <= ChannelSize /\ wire \in Seq(Messages)
        BY EmptyLemma
      <4>2. sequence \in Nat /\ snapshotSequence \in Nat /\ snapshotSequence <= sequence
        OBVIOUS
      <4>3. connection \in {"none", "opening", "subscribed", "open"} /\ lagged \in BOOLEAN
        OBVIOUS
      <4> HIDE DEF Init, AgentActivityInit
      <4> QED
        BY <3>1, <3>2, <4>1, <4>2, <4>3 DEF ServerTypeOK
  <2>2. terminal \in [Agents -> Seq(Reports)]
    OBVIOUS
  <2> QED
    BY <2>1, <2>2 DEF PageTypeOK, MaybeActivity
<1>2. StampsAreOrdered
  BY DEF StampsAreOrdered
<1>3. SocketOfPage /\ ChannelIsComplete /\ StreamIsTrue
  BY DEF SocketOfPage, ChannelIsComplete, StreamIsTrue
<1>4. ~Delivering
  BY DEF Delivering
<1>5. RemovalIsLast /\ StreamIsComplete /\ QueueIsNews /\ SnapshotIsPresent /\ QuietIsInTouch
  BY <1>4 DEF RemovalIsLast, StreamIsComplete, QueueIsNews, SnapshotIsPresent, QuietIsInTouch, Delivering
<1>6. \A a \in Agents : Coming(a) = {}
  BY DEF Coming
<1>7. PageIsTrue /\ ToldIsShown
  BY <1>6 DEF PageIsTrue, ToldIsShown, Truth, InTouch, Report
<1> QED
  BY <1>1, <1>2, <1>3, <1>5, <1>7 DEF PageInv

-----------------------------------------------------------------------------
(* The queue *)

\* What is queued is true, and numbered after the snapshot.
LEMMA QueueLemma ==
    ASSUME PageInv, Delivering, NEW e \in Queued
    PROVE  e \in Events /\ EventIsTrue(e) /\ snapshotSequence < e.sequence /\ e.sequence <= sequence
<1> USE DEF PageInv, PageTypeOK, ServerTypeOK
<1>1. CASE \E i \in 1..Len(wire) : IsEvent(wire[i]) /\ e = wire[i].event
  <2>1. PICK i \in 1..Len(wire) : IsEvent(wire[i]) /\ e = wire[i].event
    BY <1>1
  <2>2. e \in Events /\ EventIsTrue(e)
    <3>1. wire[i] \in Messages
      OBVIOUS
    <3>2. e \in Events
      BY <2>1, <3>1, MessageLemma
    <3>3. MessageIsTrue(wire[i])
      BY DEF StreamIsTrue
    <3> QED
      BY <2>1, <3>2, <3>3 DEF MessageIsTrue
  <2>3. e.sequence = Passed - Len(wire) + i /\ e.sequence > snapshotSequence
    BY <2>1 DEF StreamIsComplete, Delivering, IsEvent
  <2>4. Passed <= sequence /\ Passed \in Int
    BY DEF Passed
  <2> QED
    BY <2>1, <2>2, <2>3, <2>4
<1>2. CASE \E i \in 1..Len(channel) : channel[i].sequence > snapshotSequence /\ e = channel[i]
  <2>1. PICK i \in 1..Len(channel) : channel[i].sequence > snapshotSequence /\ e = channel[i]
    BY <1>2
  <2>2. e \in Events /\ EventIsTrue(e)
    BY <2>1 DEF StreamIsTrue
  <2>3. e.sequence = sequence - Len(channel) + i
    BY <2>1 DEF StreamIsComplete, Delivering
  <2> QED
    BY <2>1, <2>2, <2>3
<1> QED
  BY <1>1, <1>2 DEF Queued

LEMMA InQueue ==
    ASSUME NEW e
    PROVE  /\ e \in Queued <=>
                 \/ \E i \in 1..Len(wire) : IsEvent(wire[i]) /\ e = wire[i].event
                 \/ \E i \in 1..Len(channel) : channel[i].sequence > snapshotSequence /\ e = channel[i]
           /\ e \in Queued' <=>
                 \/ \E i \in 1..Len(wire') : IsEvent(wire'[i]) /\ e = wire'[i].event
                 \/ \E i \in 1..Len(channel') : channel'[i].sequence > snapshotSequence' /\ e = channel'[i]
  BY DEF Queued, IsEvent

\* The queue depends on nothing but the socket.
LEMMA SameQueue ==
    ASSUME UNCHANGED <<wire, channel, snapshotSequence>>
    PROVE  Queued' = Queued
  BY DEF Queued

LEMMA StampLemma ==
    ASSUME PageTypeOK, StampsAreOrdered, NEW a \in Agents
    PROVE  /\ agent[a].updatedAt \in Nat /\ agent[a].activityAt \in Nat /\ agent[a].activity \in MaybeActivity
           /\ agent[a].stage \in Stages
           /\ Report(a).activity = agent[a].activity
           /\ Report(a).at = IF agent[a].activity = NoActivity THEN agent[a].updatedAt ELSE agent[a].activityAt
           /\ Report(a).at \in Nat /\ 0 < Report(a).at /\ Report(a).at <= agent[a].updatedAt
  BY DEF PageTypeOK, ServerTypeOK, AgentStates, StampsAreOrdered, Report

\* What was true of an agent's past stays true.
Ages(a) ==
    /\ \A b \in Agents \ {a} : agent'[b] = agent[b]
    /\ agent'[a].updatedAt >= agent[a].updatedAt
    /\ agent[a].stage # "absent" => agent'[a].stage # "absent"
    /\ \/ agent'[a].activity = agent[a].activity /\ agent'[a].activityAt = agent[a].activityAt
       \/ /\ agent'[a].updatedAt = agent[a].updatedAt + 1
          /\ agent'[a].activity # NoActivity => agent'[a].activityAt = agent[a].updatedAt + 1

LEMMA TruthAges ==
    ASSUME PageInv, PageTypeOK', NEW a \in Agents, Ages(a), NEW b \in Agents
    PROVE  /\ \A x \in MaybeActivity, t \in Nat : Truth(b, x, t) => Truth(b, x, t)'
           /\ \A t \in Nat : t <= agent[b].updatedAt => t <= agent'[b].updatedAt
           /\ agent[b].stage # "absent" => agent'[b].stage # "absent"
<1>1. /\ agent[b].updatedAt \in Nat /\ agent[b].activityAt \in Nat
      /\ agent'[b].updatedAt \in Nat /\ agent'[b].activityAt \in Nat
  BY DEF PageInv, PageTypeOK, ServerTypeOK, AgentStates
<1>2. CASE b # a
  BY <1>1, <1>2 DEF Ages, Truth
<1>3. CASE b = a
  BY <1>1, <1>3 DEF Ages, Truth
<1> QED
  BY <1>2, <1>3

LEMMA EventsAge ==
    ASSUME PageInv, PageTypeOK', NEW a \in Agents, Ages(a)
    PROVE  /\ \A e \in Events : EventIsTrue(e) => EventIsTrue(e)'
           /\ \A m \in Messages : MessageIsTrue(m) => MessageIsTrue(m)'
<1>1. ASSUME NEW e \in Events, EventIsTrue(e)
      PROVE  EventIsTrue(e)'
  BY <1>1, TruthAges DEF EventIsTrue, Events
<1>2. ASSUME NEW m \in Messages, MessageIsTrue(m)
      PROVE  MessageIsTrue(m)'
  <2>1. IsEvent(m) => EventIsTrue(m.event)'
    BY <1>1, <1>2, MessageLemma DEF MessageIsTrue
  <2>2. ASSUME m.type = "snapshot", NEW b \in DOMAIN m.reports
        PROVE  /\ agent'[b].stage # "absent" /\ m.reports[b].at > 0
               /\ Truth(b, m.reports[b].activity, m.reports[b].at)'
    <3>1. b \in Agents /\ m.reports[b].activity \in MaybeActivity /\ m.reports[b].at \in Nat
      BY <2>2, MessageLemma DEF Reports
    <3> QED
      BY <1>2, <2>2, <3>1, TruthAges DEF MessageIsTrue
  <2> QED
    BY <2>1, <2>2 DEF MessageIsTrue
<1> QED
  BY <1>1, <1>2

\* Where the page and what comes stay, and the activity, so does what they say.
Undisturbed(a) ==
    /\ agent'[a].activity = agent[a].activity /\ agent'[a].activityAt = agent[a].activityAt
    /\ Coming(a)' = Coming(a) /\ shown'[a] = shown[a] /\ shownAt'[a] = shownAt[a]

LEMMA Untouched ==
    ASSUME NEW a \in Agents, Undisturbed(a)
    PROVE  /\ InTouch(a) => InTouch(a)'
           /\ \A x \in MaybeActivity, t \in Nat : IsPresent(a, x, t) => IsPresent(a, x, t)'
<1>1. InTouch(a) => InTouch(a)'
  BY DEF Undisturbed, InTouch
<1>2. \A x \in MaybeActivity, t \in Nat : IsPresent(a, x, t) => IsPresent(a, x, t)'
  BY DEF Undisturbed, IsPresent
<1> QED
  BY <1>1, <1>2

LEMMA ComingTypes ==
    ASSUME PageTypeOK, NEW a \in Agents
    PROVE  Coming(a) \subseteq Reports
<1>1. terminal[a] \in Seq(Reports) /\ unsent[a] \in Reports
  BY DEF PageTypeOK, ServerTypeOK
<1> QED
  BY <1>1 DEF Coming

LEMMA SameComing ==
    ASSUME NEW a \in Agents, unsent'[a] = unsent[a], terminal'[a] = terminal[a]
    PROVE  Coming(a)' = Coming(a)
  BY DEF Coming

\* The first message is the snapshot while the page waits for it.
LEMMA FirstIsSnapshot ==
    ASSUME PageInv, Delivering, phase = "connecting"
    PROVE  /\ 1 \in 1..Len(wire) /\ wire[1] \in Messages /\ wire[1].type = "snapshot"
           /\ MessageIsTrue(wire[1])
           /\ DOMAIN wire[1].reports \subseteq Agents
           /\ \A a \in DOMAIN wire[1].reports :
                 wire[1].reports[a].activity \in MaybeActivity /\ wire[1].reports[a].at \in Nat
<1>1. 1 \in 1..Len(wire) /\ wire[1] \in Messages
  BY DEF PageInv, PageTypeOK, ServerTypeOK, SocketOfPage, Delivering
<1>2. wire[1].type = "snapshot"
  BY <1>1 DEF PageInv, SocketOfPage, Delivering
<1>3. MessageIsTrue(wire[1])
  BY <1>1 DEF PageInv, StreamIsTrue
<1> QED
  BY <1>1, <1>2, <1>3, MessageLemma DEF Reports

-----------------------------------------------------------------------------
(* Steps of the sessions *)

\* A new activity, its end or a removal: the event is the news about its agent.
\* What the agent's session will still send to the terminal sockets is of now.
Changes(a, activity) ==
    /\ agent[a].stage # "absent" /\ CanUpdate(a)
    /\ \/ unsent' = unsent
       \/ /\ activity # NoActivity
          /\ unsent' = [unsent EXCEPT ![a] = [activity |-> activity, at |-> agent[a].updatedAt + 1]]

LEMMA ChangeComing ==
    ASSUME PageInv, NEW a \in Agents, NEW activity \in MaybeActivity, Changes(a, activity),
           UNCHANGED terminal
    PROVE  /\ \A b \in Agents \ {a} : Coming(b)' = Coming(b)
           /\ \A m \in Coming(a)' : m \in Coming(a)
                 \/ (m.activity = activity /\ activity # NoActivity /\ m.at = agent[a].updatedAt + 1)
<1>1. \A b \in Agents \ {a} : unsent'[b] = unsent[b]
  BY DEF Changes, PageInv, PageTypeOK, ServerTypeOK
<1>2. \A b \in Agents \ {a} : Coming(b)' = Coming(b)
  BY <1>1 DEF Coming
<1>3. CASE unsent' = unsent
  <2>1. Coming(a)' = Coming(a)
    BY <1>3, SameComing
  <2> QED
    BY <1>2, <2>1
<1>4. CASE /\ activity # NoActivity
           /\ unsent' = [unsent EXCEPT ![a] = [activity |-> activity, at |-> agent[a].updatedAt + 1]]
  <2>1. unsent'[a] = [activity |-> activity, at |-> agent[a].updatedAt + 1]
    BY <1>4 DEF PageInv, PageTypeOK, ServerTypeOK
  <2> QED
    BY <1>2, <1>4, <2>1 DEF Coming
<1> QED
  BY <1>2, <1>3, <1>4 DEF Changes

\* What the event of a change does to the queue.
LEMMA ChangeQueue ==
    ASSUME PageInv, NEW e \in Events, Send(e), e.sequence = sequence + 1, sequence' = sequence + 1,
           UNCHANGED <<connection, snapshotSequence, wire>>, Delivering'
    PROVE  /\ Delivering /\ channel' = Append(channel, e)
           /\ Queued' = Queued \cup {e} /\ Passed' = Passed
           /\ \A f \in Queued : f.sequence < e.sequence
<1> USE DEF PageInv, PageTypeOK, ServerTypeOK
<1>1. Delivering /\ channel' = Append(channel, e)
  BY SendLemma DEF Delivering, Subscribed
<1>2. Len(channel') = Len(channel) + 1
      /\ \A i \in 1..Len(channel') : channel'[i] = IF i = Len(channel) + 1 THEN e ELSE channel[i]
  BY <1>1
<1>3. e.sequence > snapshotSequence
  OBVIOUS
<1>4. ASSUME NEW x \in Queued'
      PROVE  x \in Queued \cup {e}
  <2>1. CASE \E i \in 1..Len(wire') : IsEvent(wire'[i]) /\ x = wire'[i].event
    BY <2>1, InQueue
  <2>2. CASE \E i \in 1..Len(channel') : channel'[i].sequence > snapshotSequence' /\ x = channel'[i]
    <3>1. PICK i \in 1..Len(channel') : channel'[i].sequence > snapshotSequence' /\ x = channel'[i]
      BY <2>2
    <3>2. x = e \/ (i \in 1..Len(channel) /\ x = channel[i])
      BY <1>2, <3>1
    <3>3. snapshotSequence' = snapshotSequence
      OBVIOUS
    <3> QED
      BY <3>1, <3>2, <3>3, InQueue
  <2> QED
    BY <2>1, <2>2, InQueue
<1>5. Queued' = Queued \cup {e}
  <2>1. ASSUME NEW x \in Queued
        PROVE  x \in Queued'
    <3>1. CASE \E i \in 1..Len(wire) : IsEvent(wire[i]) /\ x = wire[i].event
      BY <3>1, InQueue
    <3>2. CASE \E i \in 1..Len(channel) : channel[i].sequence > snapshotSequence /\ x = channel[i]
      <4>1. PICK i \in 1..Len(channel) : channel[i].sequence > snapshotSequence /\ x = channel[i]
        BY <3>2
      <4>2. i \in 1..Len(channel') /\ channel'[i] = x
        BY <1>2, <4>1
      <4>3. snapshotSequence' = snapshotSequence
        OBVIOUS
      <4> QED
        BY <4>1, <4>2, <4>3, InQueue
    <3> QED
      BY <3>1, <3>2, InQueue
  <2>2. Len(channel) + 1 \in 1..Len(channel') /\ channel'[Len(channel) + 1] = e
    BY <1>2
  <2>3. e \in Queued'
    BY <1>3, <2>2, InQueue
  <2> QED
    BY <1>4, <2>1, <2>3
<1>6. Passed' = Passed
  BY <1>2 DEF Passed
<1>7. \A f \in Queued : f.sequence < e.sequence
  BY <1>1, QueueLemma DEF Events
<1> QED
  BY <1>1, <1>5, <1>6, <1>7

LEMMA ChangeStep ==
    ASSUME PageInv, PageTypeOK', NEW a \in Agents, NEW stage \in Stages, NEW activity \in MaybeActivity,
           Changes(a, activity), SendChange(a, stage, activity),
           stage # "absent", stage = "deleting" => activity = NoActivity,
           UNCHANGED <<pageVars, terminalVars, breaks>>
    PROVE  PageInv'
<1>0. PICK now \in Nat : now = agent[a].updatedAt + 1
  BY StampLemma DEF PageInv
<1>1. PICK e \in Events :
      /\ e.agent = a /\ e.activity = activity /\ e.at = now /\ e.sequence = sequence + 1
      /\ Send(e)
      /\ agent'[a].stage = stage /\ agent'[a].activity = activity
      /\ agent'[a].updatedAt = now
      /\ agent'[a].activityAt = IF activity = NoActivity THEN 0 ELSE now
      /\ \A b \in Agents \ {a} : agent'[b] = agent[b]
      /\ sequence' = sequence + 1
      /\ UNCHANGED <<connection, snapshotSequence, wire>>
  <2> DEFINE x == [agent |-> a, activity |-> activity, at |-> now, sequence |-> sequence + 1]
  <2>1. x.agent = a /\ x.activity = activity /\ x.at = now /\ x.sequence = sequence + 1
    OBVIOUS
  <2>2. /\ x \in Events /\ Send(x)
        /\ agent'[a].stage = stage /\ agent'[a].activity = activity
        /\ agent'[a].updatedAt = now
        /\ agent'[a].activityAt = IF activity = NoActivity THEN 0 ELSE now
        /\ \A b \in Agents \ {a} : agent'[b] = agent[b]
        /\ sequence' = sequence + 1
        /\ UNCHANGED <<connection, snapshotSequence, wire>>
    BY <1>0, ChangeLemma DEF PageInv, PageTypeOK
  <2> HIDE DEF x
  <2> QED
    BY <2>1, <2>2
<1>2. /\ agent[a].updatedAt \in Nat /\ now > agent[a].updatedAt
      /\ sequence \in Nat
  <2>1. sequence \in Nat
    BY DEF PageInv, PageTypeOK, ServerTypeOK
  <2> QED
    BY <1>0, <2>1, StampLemma DEF PageInv
<1>3. UNCHANGED <<phase, shown, shownAt, streamAt, attached, terminal>>
  BY DEF pageVars, terminalVars
<1>4. Ages(a)
  BY <1>0, <1>1, <1>2 DEF Ages
<1>5. /\ \A b \in Agents \ {a} : Coming(b)' = Coming(b)
      /\ \A m \in Coming(a)' : m \in Coming(a) \/ (m.activity = activity /\ activity # NoActivity /\ m.at = now)
  BY <1>0, <1>3, ChangeComing
<1>6. \A b \in Agents \ {a} : Undisturbed(b)
  BY <1>1, <1>3, <1>5 DEF Undisturbed
<1>7. \A b \in Agents \ {a} :
         /\ InTouch(b) => InTouch(b)'
         /\ \A x \in MaybeActivity, t \in Nat : IsPresent(b, x, t) => IsPresent(b, x, t)'
         /\ Report(b)' = Report(b) /\ Live(b)' = Live(b)
  BY <1>1, <1>6, Untouched DEF Report, Live
<1>8. Delivering' =>
         /\ Delivering /\ channel' = Append(channel, e)
         /\ Queued' = Queued \cup {e} /\ Passed' = Passed
         /\ \A f \in Queued : f.sequence < e.sequence
  BY <1>1, <1>2, ChangeQueue
<1>9. EventIsTrue(e)'
  BY <1>1, <1>2 DEF EventIsTrue, Truth
<1>10. StampsAreOrdered'
  <2>1. agent[a].updatedAt < MaxUpdates[a] /\ MaxUpdates[a] \in Nat /\ agent[a].updatedAt >= 1
    BY ActivityAssumption DEF Changes, CanUpdate, PageInv, StampsAreOrdered
  <2> QED
    BY <1>0, <1>1, <1>2, <2>1 DEF PageInv, StampsAreOrdered
<1>11. SocketOfPage'
  <2>1. connection \in {"none", "opening"} => channel' = channel /\ lagged' = lagged
    BY <1>1, SendLemma DEF PageInv, PageTypeOK, Subscribed
  <2> QED
    BY <1>1, <1>3, <2>1 DEF PageInv, SocketOfPage
<1>12. ChannelIsComplete'
  <2>1. CASE Subscribed
    <3> SUFFICES ASSUME ~lagged', NEW i \in 1..Len(channel')
                 PROVE  channel'[i].sequence = sequence' - Len(channel') + i
      BY DEF ChannelIsComplete
    <3>1. channel' = Append(channel, e) /\ ~lagged /\ channel \in Seq(Events)
      BY <1>1, <2>1, SendLemma DEF PageInv, PageTypeOK, ServerTypeOK
    <3>2. Len(channel') = Len(channel) + 1
          /\ channel'[i] = IF i = Len(channel) + 1 THEN e ELSE channel[i]
      BY <3>1
    <3>3. i # Len(channel) + 1 => channel[i].sequence = sequence - Len(channel) + i
      BY <3>1, <3>2 DEF PageInv, ChannelIsComplete
    <3> QED
      BY <1>1, <1>2, <3>1, <3>2, <3>3
  <2>2. CASE ~Subscribed
    <3>1. connection \in {"none", "opening"} /\ channel' = channel
      BY <1>1, <2>2, SendLemma DEF Subscribed, PageInv, PageTypeOK, ServerTypeOK
    <3>2. channel' = <<>>
      BY <3>1 DEF PageInv, SocketOfPage
    <3> QED
      BY <3>2 DEF ChannelIsComplete
  <2> QED
    BY <2>1, <2>2
<1>13. StreamIsComplete'
  <2> SUFFICES ASSUME Delivering'
               PROVE  /\ \A i \in 1..Len(channel') : channel'[i].sequence = sequence' - Len(channel') + i
                      /\ \A i \in 1..Len(wire) :
                           LET number == Passed - Len(wire) + i
                           IN  \/ wire[i].type = "snapshot" /\ number = snapshotSequence
                               \/ IsEvent(wire[i]) /\ wire[i].event.sequence = number /\ number > snapshotSequence
    BY <1>1, <1>8 DEF StreamIsComplete, Delivering, IsEvent
  <2> QED
    BY <1>8, <1>12 DEF PageInv, StreamIsComplete, ChannelIsComplete, Delivering
<1>14. RemovalIsLast'
  <2> SUFFICES ASSUME NEW b \in Agents, agent'[b].stage = "deleting"
               PROVE  /\ agent'[b].activity = NoActivity
                      /\ Delivering' => \A f \in Queued' : f.agent = b =>
                            \E last \in Queued' : /\ last.agent = b /\ last.activity = NoActivity
                                                  /\ last.sequence >= f.sequence
    BY DEF RemovalIsLast, Delivering
  <2>1. agent'[b].activity = NoActivity
    BY <1>1 DEF PageInv, RemovalIsLast
  <2>2. ASSUME Delivering', NEW f \in Queued', f.agent = b
        PROVE  \E last \in Queued' : /\ last.agent = b /\ last.activity = NoActivity
                                     /\ last.sequence >= f.sequence
    <3>1. CASE b = a
      <4>1. f.sequence <= e.sequence
        BY <1>1, <1>2, <1>8, <2>2, QueueLemma DEF Events
      <4> QED
        BY <1>1, <1>2, <1>8, <2>1, <2>2, <3>1, <4>1
    <3>2. CASE b # a
      BY <1>1, <1>2, <1>8, <2>2, <3>2 DEF PageInv, RemovalIsLast, Delivering
    <3> QED
      BY <3>1, <3>2
  <2> QED
    BY <2>1, <2>2
<1>15. StreamIsTrue'
  <2>1. ASSUME NEW i \in 1..Len(channel')
        PROVE  EventIsTrue(channel[i])'
    <3>1. \A g \in Events : EventIsTrue(g) => EventIsTrue(g)'
      BY <1>4, EventsAge
    <3>2. \A j \in 1..Len(channel) : channel[j] \in Events /\ EventIsTrue(channel[j])
      BY DEF PageInv, StreamIsTrue, PageTypeOK, ServerTypeOK
    <3>3. PICK g \in Events : channel'[i] = g /\ EventIsTrue(g)'
      BY <1>1, <1>9, <3>1, <3>2, SendLemma DEF PageInv, PageTypeOK
    <3> QED
      BY <3>3 DEF EventIsTrue
  <2>2. ASSUME NEW i \in 1..Len(wire')
        PROVE  MessageIsTrue(wire[i])'
    <3>0. wire' = wire /\ i \in 1..Len(wire) /\ wire \in Seq(Messages)
      BY <1>1 DEF PageInv, PageTypeOK, ServerTypeOK
    <3>1. PICK m \in Messages : m = wire[i] /\ MessageIsTrue(m)
      <4>1. wire[i] \in Messages
        BY <3>0
      <4>2. MessageIsTrue(wire[i])
        BY <3>0 DEF PageInv, StreamIsTrue
      <4> QED
        BY <4>1, <4>2
    <3>2. MessageIsTrue(m)' /\ wire'[i] = m
      BY <1>4, <3>0, <3>1, EventsAge
    <3> QED
      BY <3>2 DEF MessageIsTrue
  <2> QED
    BY <1>1, <2>1, <2>2 DEF StreamIsTrue
<1>16. PageIsTrue'
  <2> SUFFICES ASSUME NEW b \in Agents
               PROVE  /\ \A m \in Coming(b)' : m.activity # NoActivity /\ m.at > 0 /\ Truth(b, m.activity, m.at)'
                      /\ Truth(b, shown[b], shownAt[b])' /\ streamAt'[b] <= agent'[b].updatedAt
                      /\ agent'[b].stage = "absent" =>
                            /\ agent'[b].activity = NoActivity /\ Coming(b)' = {} /\ b \notin attached'
                            /\ shown'[b] = NoActivity
    BY DEF PageIsTrue, Truth
  <2>1. \A m \in Coming(b) : m \in Reports
    BY ComingTypes DEF PageInv
  <2>2. \A m \in Coming(b) : m.activity # NoActivity /\ m.at > 0 /\ Truth(b, m.activity, m.at)'
    BY <1>4, <2>1, TruthAges DEF PageInv, PageIsTrue, Reports
  <2>3. \A m \in Coming(b)' : m.activity # NoActivity /\ m.at > 0 /\ Truth(b, m.activity, m.at)'
    BY <1>1, <1>2, <1>5, <2>2 DEF Truth
  <2>4. Truth(b, shown[b], shownAt[b])' /\ streamAt[b] <= agent'[b].updatedAt
    BY <1>3, <1>4, TruthAges DEF PageInv, PageIsTrue, PageTypeOK, Truth
  <2>5. agent'[b].stage = "absent" => b # a
    BY <1>1
  <2> QED
    BY <1>1, <1>3, <1>5, <2>3, <2>4, <2>5 DEF PageInv, PageIsTrue
<1>17. ToldIsShown'
  <2> SUFFICES ASSUME NEW b \in Agents, streamAt'[b] >= Report(b)'.at
               PROVE  InTouch(b)'
    BY DEF ToldIsShown
  <2>1. Report(a)'.at = now
    BY <1>1 DEF Report
  <2>2. streamAt[a] <= agent[a].updatedAt /\ streamAt[a] \in Nat
    BY DEF PageInv, PageIsTrue, PageTypeOK
  <2>3. b # a
    BY <1>1, <1>2, <1>3, <2>1, <2>2
  <2> QED
    BY <1>3, <1>7, <2>3 DEF PageInv, ToldIsShown
<1>18. QueueIsNews'
  <2> SUFFICES ASSUME Delivering', NEW f \in Queued'
               PROVE  /\ streamAt[f.agent] < f.at
                      /\ \A g \in Queued' : g.agent = f.agent /\ g.sequence > f.sequence => g.at > f.at
                      /\ phase = "connecting" /\ f.agent \in DOMAIN wire[1].reports =>
                            wire[1].reports[f.agent].at < f.at
                      /\ Live(f.agent)' /\ IsLast(f)' => IsPresent(f.agent, f.activity, f.at)'
    BY <1>1, <1>3 DEF QueueIsNews
  <2>1. \A g \in Queued : g \in Events /\ g.sequence < e.sequence /\ EventIsTrue(g)
    BY <1>8, QueueLemma
  <2>2. \A g \in Queued : g.agent \in Agents /\ g.at \in Nat /\ g.sequence \in Nat /\ g.activity \in MaybeActivity
                          /\ g.at <= agent[g.agent].updatedAt
    BY <2>1 DEF Events, EventIsTrue, Truth
  <2>3. CASE f = e
    <3>1. streamAt[a] < now
      BY <1>1, <1>2 DEF PageInv, PageIsTrue, PageTypeOK
    <3>2. \A g \in Queued' : ~(g.sequence > e.sequence)
      BY <1>1, <1>2, <1>8, <2>1, <2>2
    <3>3. ASSUME phase = "connecting", a \in DOMAIN wire[1].reports
          PROVE  wire[1].reports[a].at < now
      BY <1>1, <1>2, <1>8, <3>3, FirstIsSnapshot DEF MessageIsTrue, Truth
    <3>4. IsPresent(a, activity, now)'
      <4>1. CASE activity = NoActivity
        <5>1. \A m \in Coming(a)' : m \in Coming(a) /\ m \in Reports /\ m.at <= agent[a].updatedAt
          BY <1>5, <4>1, ComingTypes DEF PageInv, PageIsTrue, Truth
        <5>2. shownAt[a] <= agent[a].updatedAt /\ shownAt[a] \in Nat
          BY DEF PageInv, PageIsTrue, PageTypeOK, Truth
        <5> QED
          BY <1>1, <1>2, <1>3, <4>1, <5>1, <5>2 DEF IsPresent, Reports
      <4>2. CASE activity # NoActivity
        BY <1>1, <4>2 DEF IsPresent
      <4> QED
        BY <4>1, <4>2
    <3> QED
      <4>1. f.agent = a /\ f.activity = activity /\ f.at = now /\ f.sequence = e.sequence
        BY <1>1, <2>3
      <4> QED
        BY <3>1, <3>2, <3>3, <3>4, <4>1
  <2>4. CASE f \in Queued
    <3>1. /\ streamAt[f.agent] < f.at
          /\ \A g \in Queued : g.agent = f.agent /\ g.sequence > f.sequence => g.at > f.at
          /\ phase = "connecting" /\ f.agent \in DOMAIN wire[1].reports =>
                wire[1].reports[f.agent].at < f.at
          /\ Live(f.agent) /\ IsLast(f) => IsPresent(f.agent, f.activity, f.at)
      BY <1>8, <2>4 DEF PageInv, QueueIsNews
    <3>2. e.agent = f.agent => e.at > f.at
      BY <1>1, <1>2, <2>2, <2>4
    <3>3. ASSUME Live(f.agent)', IsLast(f)'
          PROVE  IsPresent(f.agent, f.activity, f.at)'
      <4>1. f.agent # a /\ IsLast(f)
        BY <1>1, <1>2, <1>8, <2>1, <2>2, <2>4, <3>3 DEF IsLast
      <4> QED
        BY <1>7, <2>2, <2>4, <3>1, <3>3, <4>1
    <3> QED
      BY <1>8, <3>1, <3>2, <3>3
  <2> QED
    BY <1>8, <2>3, <2>4
<1>19. \A b \in Agents : Delivering' /\ ~Waiting(b)' => b # a /\ Delivering /\ ~Waiting(b)
  BY <1>1, <1>2, <1>8 DEF Waiting
<1>20. SnapshotIsPresent'
  <2> SUFFICES ASSUME Delivering', phase = "connecting", NEW b \in Agents, Live(b)', ~Waiting(b)'
               PROVE  IF b \in DOMAIN wire[1].reports
                      THEN LET report == wire[1].reports[b]
                           IN  /\ IsPresent(b, report.activity, report.at)'
                               /\ streamAt[b] >= report.at => InTouch(b)'
                      ELSE agent'[b].activity = NoActivity /\ Coming(b)' = {}
    BY <1>1, <1>3 DEF SnapshotIsPresent, IsPresent
  <2>1. b # a /\ Delivering /\ ~Waiting(b) /\ Live(b)
    BY <1>7, <1>19
  <2> QED
    BY <1>1, <1>5, <1>7, <2>1, FirstIsSnapshot DEF PageInv, SnapshotIsPresent
<1>21. QuietIsInTouch'
  BY <1>3, <1>7, <1>19 DEF PageInv, QuietIsInTouch
<1> QED
  BY <1>10, <1>11, <1>12, <1>13, <1>14, <1>15, <1>16, <1>17, <1>18, <1>20, <1>21 DEF PageInv

\* An agent is inserted, ends, or has a new time stamp: nothing is sent.
LEMMA RestStep ==
    ASSUME PageInv, PageTypeOK', NEW a \in Agents, Insert(a) \/ FinishExit(a) \/ Touch(a),
           UNCHANGED <<pageVars, terminalVars, breaks>>
    PROVE  PageInv'
<1>1. UNCHANGED <<unsent, sequence, connection, snapshotSequence, channel, lagged, wire,
                  phase, shown, shownAt, streamAt, attached, terminal>>
  BY DEF Insert, FinishExit, Touch, socketVars, pageVars, terminalVars
<1>2. /\ agent[a].updatedAt \in Nat /\ agent'[a].updatedAt \in Nat
      /\ agent'[a].activity = agent[a].activity /\ agent'[a].activityAt = agent[a].activityAt
      /\ agent'[a].updatedAt \in {agent[a].updatedAt, agent[a].updatedAt + 1}
      /\ agent'[a].updatedAt # agent[a].updatedAt => CanUpdate(a)
      /\ agent'[a].stage # "absent"
      /\ agent'[a].stage = agent[a].stage
            \/ (agent[a].stage = "absent" /\ agent'[a].stage = "live")
            \/ agent'[a].stage = "exited"
      /\ \A b \in Agents \ {a} : agent'[b] = agent[b]
  <2>1. agent \in [Agents -> AgentStates] /\ agent[a].updatedAt \in Nat
    BY DEF PageInv, PageTypeOK, ServerTypeOK, AgentStates
  <2>2. CASE Insert(a)
    BY <2>1, <2>2 DEF Insert, AgentStates
  <2>3. CASE FinishExit(a)
    BY <2>1, <2>3 DEF FinishExit, AgentStates
  <2>4. CASE Touch(a)
    BY <2>1, <2>4 DEF Touch, AgentStates, CanUpdate
  <2> QED
    BY <2>2, <2>3, <2>4
<1>3. Ages(a)
  BY <1>2 DEF Ages
<1>4. \A b \in Agents : Coming(b)' = Coming(b)
  BY <1>1 DEF Coming
<1>5. \A b \in Agents : Undisturbed(b)
  BY <1>1, <1>2, <1>4 DEF Undisturbed
<1>6. \A b \in Agents :
         /\ InTouch(b) => InTouch(b)'
         /\ \A x \in MaybeActivity, t \in Nat : IsPresent(b, x, t) => IsPresent(b, x, t)'
         /\ Live(b)' => Live(b) \/ agent[b].stage = "absent"
         /\ agent'[b].stage = "deleting" => agent[b].stage = "deleting"
         /\ agent'[b].stage = "absent" => agent[b].stage = "absent"
         /\ agent'[b].activity = agent[b].activity
  BY <1>2, <1>5, Untouched DEF Live
<1>7. Queued' = Queued /\ Delivering' = Delivering
  BY <1>1, SameQueue DEF Delivering
<1>8. StampsAreOrdered'
  <2>1. CanUpdate(a) => agent[a].updatedAt < MaxUpdates[a] /\ MaxUpdates[a] \in Nat
    BY ActivityAssumption DEF CanUpdate
  <2> QED
    BY <1>2, <2>1, StampLemma DEF PageInv, StampsAreOrdered
<1>9. SocketOfPage' /\ ChannelIsComplete'
  BY <1>1 DEF PageInv, SocketOfPage, ChannelIsComplete
<1>10. StreamIsComplete'
  BY <1>1 DEF PageInv, StreamIsComplete, Passed
<1>11. RemovalIsLast'
  BY <1>1, <1>6, <1>7 DEF PageInv, RemovalIsLast
<1>12. StreamIsTrue'
  BY <1>1, <1>3, EventsAge DEF PageInv, StreamIsTrue, PageTypeOK, ServerTypeOK
<1>13. PageIsTrue'
  <2> SUFFICES ASSUME NEW b \in Agents
               PROVE  /\ \A m \in Coming(b)' : m.activity # NoActivity /\ m.at > 0 /\ Truth(b, m.activity, m.at)'
                      /\ Truth(b, shown[b], shownAt[b])' /\ streamAt'[b] <= agent'[b].updatedAt
                      /\ agent'[b].stage = "absent" =>
                            /\ agent'[b].activity = NoActivity /\ Coming(b)' = {} /\ b \notin attached'
                            /\ shown'[b] = NoActivity
    BY DEF PageIsTrue, Truth
  <2>1. \A m \in Coming(b) : m \in Reports
    BY ComingTypes DEF PageInv
  <2>2. \A m \in Coming(b)' : m.activity # NoActivity /\ m.at > 0 /\ Truth(b, m.activity, m.at)'
    BY <1>3, <1>4, <2>1, TruthAges DEF PageInv, PageIsTrue, Reports
  <2>3. Truth(b, shown[b], shownAt[b])' /\ streamAt[b] <= agent'[b].updatedAt
    BY <1>1, <1>3, TruthAges DEF PageInv, PageIsTrue, PageTypeOK, Truth
  <2> QED
    BY <1>1, <1>4, <1>6, <2>2, <2>3 DEF PageInv, PageIsTrue
<1>14. ToldIsShown'
  <2> SUFFICES ASSUME NEW b \in Agents, streamAt[b] >= Report(b)'.at
               PROVE  InTouch(b)'
    BY <1>1 DEF ToldIsShown
  <2>1. /\ streamAt[b] \in Nat /\ Report(b).at \in Nat
        /\ Report(b).at = IF agent[b].activity = NoActivity THEN agent[b].updatedAt ELSE agent[b].activityAt
        /\ Report(b)'.at = IF agent'[b].activity = NoActivity THEN agent'[b].updatedAt ELSE agent'[b].activityAt
        /\ agent[b].updatedAt \in Nat /\ agent[b].activityAt \in Nat
    <3>1. streamAt[b] \in Nat
      BY DEF PageInv, PageTypeOK
    <3>2. Report(b)'.at = IF agent'[b].activity = NoActivity THEN agent'[b].updatedAt ELSE agent'[b].activityAt
      BY DEF Report
    <3> QED
      BY <3>1, <3>2, StampLemma DEF PageInv
  <2>2. Report(b)'.at \in Nat /\ Report(b)'.at >= Report(b).at
    BY <1>2, <2>1
  <2> QED
    BY <1>6, <2>1, <2>2 DEF PageInv, ToldIsShown
<1>15. QueueIsNews'
  <2> SUFFICES ASSUME Delivering, NEW f \in Queued
               PROVE  /\ streamAt[f.agent] < f.at
                      /\ \A g \in Queued : g.agent = f.agent /\ g.sequence > f.sequence => g.at > f.at
                      /\ phase = "connecting" /\ f.agent \in DOMAIN wire[1].reports =>
                            wire[1].reports[f.agent].at < f.at
                      /\ Live(f.agent)' /\ IsLast(f) => IsPresent(f.agent, f.activity, f.at)'
    BY <1>1, <1>7 DEF QueueIsNews, IsLast
  <2>1. /\ f.agent \in Agents /\ f.activity \in MaybeActivity /\ f.at \in Nat
        /\ agent[f.agent].stage # "absent"
    BY QueueLemma DEF Events, EventIsTrue
  <2> QED
    BY <1>6, <2>1 DEF PageInv, QueueIsNews
<1>16. SnapshotIsPresent'
  <2> SUFFICES ASSUME Delivering, phase = "connecting", NEW b \in Agents, Live(b)', ~Waiting(b)
               PROVE  IF b \in DOMAIN wire[1].reports
                      THEN LET report == wire[1].reports[b]
                           IN  /\ IsPresent(b, report.activity, report.at)'
                               /\ streamAt[b] >= report.at => InTouch(b)'
                      ELSE agent'[b].activity = NoActivity /\ Coming(b)' = {}
    BY <1>1, <1>7 DEF SnapshotIsPresent, IsPresent, Waiting
  <2>1. CASE Live(b)
    <3>1. CASE b \in DOMAIN wire[1].reports
      <4>1. PICK x \in MaybeActivity, t \in Nat : x = wire[1].reports[b].activity /\ t = wire[1].reports[b].at
        BY <3>1, FirstIsSnapshot
      <4>2. IsPresent(b, x, t) /\ (streamAt[b] >= t => InTouch(b))
        BY <2>1, <3>1, <4>1 DEF PageInv, SnapshotIsPresent
      <4>3. IsPresent(b, x, t)' /\ (streamAt[b] >= t => InTouch(b)')
        BY <1>6, <4>2
      <4> QED
        BY <1>1, <3>1, <4>1, <4>3 DEF IsPresent
    <3>2. CASE b \notin DOMAIN wire[1].reports
      BY <1>4, <1>6, <2>1, <3>2 DEF PageInv, SnapshotIsPresent
    <3> QED
      BY <3>1, <3>2
  <2>2. CASE agent[b].stage = "absent"
    BY <1>4, <1>6, <2>2, FirstIsSnapshot DEF PageInv, PageIsTrue, MessageIsTrue
  <2> QED
    BY <1>6, <2>1, <2>2
<1>17. QuietIsInTouch'
  <2> SUFFICES ASSUME Delivering, phase = "ready", NEW b \in Agents, Live(b)', ~Waiting(b)
               PROVE  InTouch(b)'
    BY <1>1, <1>7 DEF QuietIsInTouch, Waiting
  <2>1. CASE Live(b)
    BY <1>6, <2>1 DEF PageInv, QuietIsInTouch
  <2>2. CASE agent[b].stage = "absent"
    BY <1>1, <1>4, <1>6, <2>2 DEF PageInv, PageIsTrue, InTouch
  <2> QED
    BY <1>6, <2>1, <2>2
<1> QED
  BY <1>8, <1>9, <1>10, <1>11, <1>12, <1>13, <1>14, <1>15, <1>16, <1>17 DEF PageInv

LEMMA SessionsKeep ==
    ASSUME PageInv, PageTypeOK', ServerStep
    PROVE  PageInv'
<1>1. PICK a \in Agents : SessionStep(a) /\ UNCHANGED <<pageVars, terminalVars, breaks>>
  BY DEF ServerStep
<1>2. agent[a].stage \in Stages
  BY StampLemma DEF PageInv
<1>3. ASSUME NEW activity \in Activities, Publish(a, activity)
      PROVE  PageInv'
  <2>1. activity \in MaybeActivity /\ activity # NoActivity
    BY ActivityAssumption DEF MaybeActivity
  <2>2. /\ Changes(a, activity) /\ SendChange(a, agent[a].stage, activity)
        /\ agent[a].stage # "absent" /\ agent[a].stage # "deleting"
    BY <1>3, <2>1 DEF Publish, MayPublish, Changes, CanUpdate
  <2> QED
    BY <1>1, <1>2, <2>1, <2>2, ChangeStep
<1>4. CASE ChangeIdentity(a)
  <2>1. NoActivity \in MaybeActivity
    BY DEF MaybeActivity
  <2>2. /\ Changes(a, NoActivity) /\ SendChange(a, agent[a].stage, NoActivity)
        /\ agent[a].stage # "absent"
    BY <1>4 DEF ChangeIdentity, Changes, CanUpdate
  <2> QED
    BY <1>1, <1>2, <2>1, <2>2, ChangeStep
<1>5. CASE MarkDeleting(a)
  <2>1. NoActivity \in MaybeActivity /\ "deleting" \in Stages
    BY DEF MaybeActivity, Stages
  <2>2. Changes(a, NoActivity) /\ SendChange(a, "deleting", NoActivity)
    BY <1>5 DEF MarkDeleting, Changes, CanUpdate
  <2> QED
    BY <1>1, <2>1, <2>2, ChangeStep
<1> QED
  BY <1>1, <1>3, <1>4, <1>5, RestStep DEF SessionStep

-----------------------------------------------------------------------------
(* Steps of the socket *)

\* Steps that leave the agents and the page alone, and end in a state where the
\* socket does not deliver: all there is to say is about what was sent.
LEMMA IdleStep ==
    ASSUME PageInv, PageTypeOK', ~Delivering',
           UNCHANGED <<agent, unsent, shown, shownAt, streamAt, attached, terminal>>,
           SocketOfPage', ChannelIsComplete', StreamIsTrue'
    PROVE  PageInv'
<1>1. StampsAreOrdered'
  BY DEF PageInv, StampsAreOrdered
<1>2. \A a \in Agents : Coming(a)' = Coming(a) /\ Report(a)' = Report(a)
  BY DEF Coming, Report
<1>3. PageIsTrue'
  BY <1>2 DEF PageInv, PageIsTrue, Truth
<1>4. ToldIsShown'
  BY <1>2 DEF PageInv, ToldIsShown, InTouch
<1>5. RemovalIsLast'
  BY DEF PageInv, RemovalIsLast, Delivering
<1>6. StreamIsComplete'
  BY DEF StreamIsComplete, Delivering
<1>7. QueueIsNews' /\ SnapshotIsPresent' /\ QuietIsInTouch'
  BY DEF QueueIsNews, SnapshotIsPresent, QuietIsInTouch
<1> QED
  BY <1>1, <1>3, <1>4, <1>5, <1>6, <1>7 DEF PageInv

LEMMA SubscribeStep ==
    ASSUME PageInv, PageTypeOK', Subscribe, UNCHANGED <<pageVars, terminalVars, breaks>>
    PROVE  PageInv'
<1>1. /\ connection = "opening" /\ connection' = "subscribed" /\ channel' = <<>> /\ ~lagged'
      /\ UNCHANGED <<agent, unsent, sequence, wire, phase, shown, shownAt, streamAt, attached, terminal>>
  BY DEF Subscribe, serverVars, pageVars, terminalVars
<1>2. SocketOfPage' /\ ChannelIsComplete'
  BY <1>1 DEF PageInv, SocketOfPage, ChannelIsComplete
<1>3. StreamIsTrue'
  BY <1>1 DEF PageInv, StreamIsTrue, MessageIsTrue, EventIsTrue, Truth
<1> QED
  BY <1>1, <1>2, <1>3, IdleStep DEF Delivering

\* The snapshot tells the present of every live agent.
LEMMA SnapshotStep ==
    ASSUME PageInv, PageTypeOK', Snapshot, UNCHANGED <<pageVars, terminalVars, breaks>>
    PROVE  PageInv'
<1> DEFINE reports == [b \in {c \in Agents : Live(c)} |-> Report(b)]
<1>1. /\ connection = "subscribed" /\ connection' = "open" /\ snapshotSequence' = sequence
      /\ wire = <<>> /\ phase = "connecting"
      /\ wire' = <<SnapshotMessage(reports)>>
      /\ UNCHANGED <<agent, unsent, sequence, channel, lagged, phase, shown, shownAt, streamAt, attached, terminal>>
  BY DEF Snapshot, SnapshotNumber, serverVars, pageVars, terminalVars, PageInv, SocketOfPage
<1>2. /\ Len(wire') = 1 /\ wire'[1].type = "snapshot" /\ ~IsEvent(wire'[1])
      /\ DOMAIN wire'[1].reports = {c \in Agents : Live(c)}
      /\ \A b \in DOMAIN wire'[1].reports : wire'[1].reports[b] = Report(b)
  BY <1>1 DEF SnapshotMessage, IsEvent
<1> HIDE DEF reports
<1>3. \A b \in Agents : Coming(b)' = Coming(b) /\ Report(b)' = Report(b) /\ Live(b)' = Live(b)
  BY <1>1 DEF Coming, Report, Live
<1>4. Delivering' => Queued' = {}
  <2> SUFFICES ASSUME Delivering'
               PROVE  Queued' = {}
    OBVIOUS
  <2>1. \A i \in 1..Len(channel) : channel[i].sequence = sequence - Len(channel) + i
    BY <1>1 DEF PageInv, ChannelIsComplete, Delivering
  <2>2. \A i \in 1..Len(channel) : ~(channel[i].sequence > sequence)
    BY <2>1 DEF PageInv, PageTypeOK, ServerTypeOK
  <2> QED
    BY <1>1, <1>2, <2>2 DEF Queued
<1>5. StampsAreOrdered' /\ ChannelIsComplete'
  BY <1>1 DEF PageInv, StampsAreOrdered, ChannelIsComplete
<1>6. SocketOfPage'
  BY <1>1, <1>2 DEF SocketOfPage
<1>7. StreamIsComplete'
  <2>1. Passed' = sequence
    <3>1. channel \in Seq(Events) /\ sequence \in Nat
      BY DEF PageInv, PageTypeOK, ServerTypeOK
    <3>2. ~(sequence > sequence - Len(channel)) => sequence - Len(channel) = sequence
      BY <3>1
    <3> QED
      BY <1>1, <3>2 DEF Passed
  <2>2. sequence \in Nat
    BY DEF PageInv, PageTypeOK, ServerTypeOK
  <2> QED
    BY <1>1, <1>2, <1>5, <2>1, <2>2 DEF StreamIsComplete, ChannelIsComplete
<1>8. RemovalIsLast'
  BY <1>1, <1>4 DEF PageInv, RemovalIsLast, Delivering
<1>9. \A b \in Agents : Live(b) => agent[b].stage # "absent" /\ Report(b).at > 0
                                   /\ Truth(b, Report(b).activity, Report(b).at)
  BY StampLemma DEF PageInv, Live, Truth
<1>10. StreamIsTrue'
  <2>1. MessageIsTrue(wire[1])'
    BY <1>1, <1>2, <1>9 DEF MessageIsTrue, Truth
  <2>2. \A i \in 1..Len(channel) : EventIsTrue(channel[i])'
    BY <1>1 DEF PageInv, StreamIsTrue, EventIsTrue, Truth
  <2> QED
    BY <1>1, <1>2, <2>1, <2>2 DEF StreamIsTrue
<1>11. PageIsTrue'
  BY <1>1, <1>3 DEF PageInv, PageIsTrue, Truth
<1>12. ToldIsShown'
  BY <1>1, <1>3 DEF PageInv, ToldIsShown, InTouch
<1>13. QueueIsNews' /\ QuietIsInTouch'
  BY <1>1, <1>4 DEF QueueIsNews, QuietIsInTouch
<1>14. SnapshotIsPresent'
  <2> SUFFICES ASSUME NEW b \in Agents, Live(b)
               PROVE  /\ b \in DOMAIN wire'[1].reports
                      /\ IsPresent(b, Report(b).activity, Report(b).at)
                      /\ streamAt[b] >= Report(b).at => InTouch(b)
    BY <1>1, <1>2, <1>3 DEF SnapshotIsPresent, IsPresent, InTouch
  <2>1. \A m \in Coming(b) : m.activity # NoActivity /\ Truth(b, m.activity, m.at)
    BY DEF PageInv, PageIsTrue
  <2>2. IsPresent(b, Report(b).activity, Report(b).at)
    BY <2>1, StampLemma DEF PageInv, PageIsTrue, IsPresent, Truth
  <2> QED
    BY <1>2, <2>2 DEF PageInv, ToldIsShown
<1> QED
  BY <1>5, <1>6, <1>7, <1>8, <1>10, <1>11, <1>12, <1>13, <1>14 DEF PageInv

\* The same queue, agents and page: the same news.
LEMMA SameNews ==
    ASSUME PageInv, Queued' = Queued, Delivering' = Delivering,
           Delivering /\ phase = "connecting" => wire'[1] = wire[1],
           UNCHANGED <<agent, unsent, phase, shown, shownAt, streamAt, terminal>>
    PROVE  QueueIsNews'
<1>1. \A b \in Agents : Coming(b)' = Coming(b)
  BY DEF Coming
<1>2. \A b \in Agents : \A x \in MaybeActivity, t \in Nat : IsPresent(b, x, t) => IsPresent(b, x, t)'
  BY <1>1, Untouched DEF Undisturbed
<1> SUFFICES ASSUME Delivering, NEW f \in Queued
             PROVE  /\ streamAt[f.agent] < f.at
                    /\ \A g \in Queued : g.agent = f.agent /\ g.sequence > f.sequence => g.at > f.at
                    /\ phase = "connecting" /\ f.agent \in DOMAIN wire[1].reports =>
                          wire[1].reports[f.agent].at < f.at
                    /\ Live(f.agent) /\ IsLast(f) => IsPresent(f.agent, f.activity, f.at)'
  BY DEF QueueIsNews, IsLast, Live
<1>3. f.agent \in Agents /\ f.activity \in MaybeActivity /\ f.at \in Nat
  BY QueueLemma DEF Events
<1> QED
  BY <1>2, <1>3 DEF PageInv, QueueIsNews

\* An event goes from the channel to the page, or is in the snapshot: the queue
\* stays what it is.
LEMMA ReceiveStep ==
    ASSUME PageInv, PageTypeOK', Receive, UNCHANGED <<pageVars, terminalVars, breaks>>
    PROVE  PageInv'
<1> DEFINE head == Head(channel)
           old == head.sequence <= snapshotSequence
<1>1. /\ connection = "open" /\ ~lagged /\ channel # <<>> /\ channel' = Tail(channel)
      /\ wire' = IF old THEN wire ELSE Append(wire, EventMessage(head))
      /\ UNCHANGED <<agent, unsent, sequence, connection, snapshotSequence, lagged,
                     phase, shown, shownAt, streamAt, attached, terminal>>
  BY DEF Receive, InSnapshot, serverVars, pageVars, terminalVars
<1>2. /\ channel \in Seq(Events) /\ wire \in Seq(Messages) /\ sequence \in Nat /\ snapshotSequence \in Nat
  BY DEF PageInv, PageTypeOK, ServerTypeOK
<1>3. /\ head = channel[1] /\ head \in Events /\ head.sequence \in Nat
      /\ Len(channel) \in Nat \ {0} /\ Len(channel') = Len(channel) - 1
      /\ \A i \in 1..Len(channel') : channel'[i] = channel[i + 1]
  <2>1. Len(channel) \in Nat \ {0} /\ head = channel[1] /\ head \in Events
    BY <1>1, <1>2
  <2>2. head.sequence \in Nat
    BY <2>1 DEF Events
  <2>3. Len(channel') = Len(channel) - 1 /\ \A i \in 1..Len(channel') : channel'[i] = channel[i + 1]
    BY <1>1, <1>2
  <2> QED
    BY <2>1, <2>2, <2>3
<1> HIDE DEF head
<1>4. Delivering /\ Delivering' = Delivering
  BY <1>1 DEF Delivering
<1>5. head.sequence = sequence - Len(channel) + 1
  BY <1>1, <1>3 DEF PageInv, ChannelIsComplete

<1>6. /\ Len(wire') >= Len(wire) /\ Len(wire') \in Nat
      /\ \A i \in 1..Len(wire) : i \in 1..Len(wire') /\ wire'[i] = wire[i]
      /\ \A i \in 1..Len(wire') : i \in 1..Len(wire)
            \/ (i = Len(wire) + 1 /\ ~old /\ IsEvent(wire'[i]) /\ wire'[i].event = head /\ MessageIsTrue(wire'[i]))
      /\ ~old => Len(wire') = Len(wire) + 1
      /\ Passed' - Len(wire') = Passed - Len(wire)
      /\ ~old => Passed' = head.sequence
  <2>1. CASE old
    <3>1. Passed' = Passed
      BY <1>1, <1>2, <1>3, <1>5, <2>1 DEF Passed
    <3> QED
      BY <1>1, <1>2, <2>1, <3>1
  <2>2. CASE ~old
    <3>1. Passed' = Passed + 1 /\ Passed' = head.sequence /\ Passed \in Int
      BY <1>1, <1>2, <1>3, <1>5, <2>2 DEF Passed
    <3>2. wire' = Append(wire, EventMessage(head)) /\ Len(wire') = Len(wire) + 1
      BY <1>1, <1>2, <2>2
    <3>3. wire'[Len(wire) + 1] = EventMessage(head)
      BY <1>2, <3>2
    <3>4. IsEvent(EventMessage(head)) /\ EventMessage(head).event = head /\ EventMessage(head).type = "event"
      BY <1>3, MessageLemma
    <3>5. EventIsTrue(head)
      BY <1>3 DEF PageInv, StreamIsTrue
    <3>6. MessageIsTrue(EventMessage(head))
      BY <3>4, <3>5 DEF MessageIsTrue
    <3> QED
      BY <1>2, <2>2, <3>1, <3>2, <3>3, <3>4, <3>6
  <2> QED
    BY <2>1, <2>2
<1>7. Queued' = Queued
  <2>1. ASSUME NEW x \in Queued'
        PROVE  x \in Queued
    <3>1. CASE \E i \in 1..Len(wire') : IsEvent(wire'[i]) /\ x = wire'[i].event
      <4>1. PICK i \in 1..Len(wire') : IsEvent(wire'[i]) /\ x = wire'[i].event
        BY <3>1
      <4>2. CASE i \in 1..Len(wire)
        BY <1>6, <4>1, <4>2, InQueue
      <4>3. CASE ~old /\ x = head
        BY <1>2, <1>3, <4>3, InQueue
      <4> QED
        BY <1>6, <4>1, <4>2, <4>3
    <3>2. CASE \E i \in 1..Len(channel') : channel'[i].sequence > snapshotSequence' /\ x = channel'[i]
      <4>1. PICK i \in 1..Len(channel') : channel'[i].sequence > snapshotSequence' /\ x = channel'[i]
        BY <3>2
      <4>2. i + 1 \in 1..Len(channel) /\ x = channel[i + 1]
        BY <1>3, <4>1
      <4> QED
        BY <1>1, <4>1, <4>2, InQueue
    <3> QED
      BY <3>1, <3>2, InQueue
  <2>2. ASSUME NEW x \in Queued
        PROVE  x \in Queued'
    <3>1. CASE \E i \in 1..Len(wire) : IsEvent(wire[i]) /\ x = wire[i].event
      BY <1>6, <3>1, InQueue
    <3>2. CASE \E i \in 1..Len(channel) : channel[i].sequence > snapshotSequence /\ x = channel[i]
      <4>1. PICK i \in 1..Len(channel) : channel[i].sequence > snapshotSequence /\ x = channel[i]
        BY <3>2
      <4>2. CASE i = 1
        <5>1. ~old /\ x = head
          BY <1>2, <1>3, <4>1, <4>2
        <5>2. Len(wire') \in 1..Len(wire') /\ ~(Len(wire') \in 1..Len(wire))
          BY <1>2, <1>6, <5>1
        <5> QED
          BY <1>6, <5>1, <5>2, InQueue
      <4>3. CASE i # 1
        <5>1. i - 1 \in 1..Len(channel') /\ x = channel'[i - 1]
          BY <1>3, <4>1, <4>3
        <5> QED
          BY <1>1, <4>1, <5>1, InQueue
      <4> QED
        BY <4>2, <4>3
    <3> QED
      BY <3>1, <3>2, InQueue
  <2> QED
    BY <2>1, <2>2
<1>8. phase = "connecting" => wire'[1] = wire[1]
  BY <1>4, <1>6, FirstIsSnapshot
<1>9. \A b \in Agents : Coming(b)' = Coming(b) /\ Report(b)' = Report(b) /\ Live(b)' = Live(b)
  BY <1>1 DEF Coming, Report, Live
<1>10. StampsAreOrdered'
  BY <1>1 DEF PageInv, StampsAreOrdered
<1>11. SocketOfPage'
  <2>1. phase # "closed"
    BY <1>1 DEF PageInv, SocketOfPage
  <2>2. ASSUME NEW i \in 1..Len(wire')
        PROVE  IF i = 1 /\ phase = "connecting" THEN wire'[i].type = "snapshot" ELSE IsEvent(wire'[i])
    <3>1. CASE i \in 1..Len(wire)
      BY <1>1, <1>6, <3>1 DEF PageInv, SocketOfPage
    <3>2. CASE i \notin 1..Len(wire)
      BY <1>4, <1>6, <3>2, FirstIsSnapshot
    <3> QED
      BY <3>1, <3>2
  <2>3. phase = "connecting" => wire' # <<>>
    BY <1>2, <1>4, <1>6, FirstIsSnapshot
  <2> QED
    BY <1>1, <2>1, <2>2, <2>3 DEF SocketOfPage, IsEvent
<1>12. ChannelIsComplete'
  BY <1>1, <1>2, <1>3 DEF PageInv, ChannelIsComplete
<1>13. StreamIsComplete'
  <2>1. ASSUME NEW i \in 1..Len(wire')
        PROVE  LET number == Passed' - Len(wire') + i
               IN  \/ wire'[i].type = "snapshot" /\ number = snapshotSequence
                   \/ IsEvent(wire'[i]) /\ wire'[i].event.sequence = number /\ number > snapshotSequence
    <3>1. CASE i \in 1..Len(wire)
      BY <1>1, <1>6, <3>1 DEF PageInv, StreamIsComplete
    <3>2. CASE i \notin 1..Len(wire)
      <4>1. /\ ~old /\ IsEvent(wire'[i]) /\ wire'[i].event = head /\ i = Len(wire')
            /\ Passed' = head.sequence
        BY <1>6, <3>2
      <4> QED
        BY <1>2, <1>3, <1>6, <4>1
    <3> QED
      BY <3>1, <3>2
  <2> QED
    BY <1>1, <1>12, <2>1 DEF StreamIsComplete, ChannelIsComplete, IsEvent
<1>14. RemovalIsLast'
  BY <1>1, <1>7 DEF PageInv, RemovalIsLast
<1>15. StreamIsTrue'
  <2>1. \A i \in 1..Len(channel') : EventIsTrue(channel'[i])
    BY <1>3 DEF PageInv, StreamIsTrue
  <2>2. \A i \in 1..Len(wire) : MessageIsTrue(wire[i])
    BY DEF PageInv, StreamIsTrue
  <2>3. \A i \in 1..Len(wire') : MessageIsTrue(wire'[i])
    BY <1>6, <2>2
  <2> QED
    BY <1>1, <2>1, <2>3 DEF StreamIsTrue, MessageIsTrue, EventIsTrue, Truth
<1>16. PageIsTrue'
  BY <1>1, <1>9 DEF PageInv, PageIsTrue, Truth
<1>17. ToldIsShown'
  BY <1>1, <1>9 DEF PageInv, ToldIsShown, InTouch
<1>18. QueueIsNews'
  BY <1>1, <1>4, <1>7, <1>8, SameNews
<1>19. SnapshotIsPresent'
  BY <1>1, <1>4, <1>7, <1>8, <1>9 DEF PageInv, SnapshotIsPresent, Waiting, IsPresent, InTouch
<1>20. QuietIsInTouch'
  BY <1>1, <1>4, <1>7, <1>9 DEF PageInv, QuietIsInTouch, Waiting, InTouch
<1> QED
  BY <1>10, <1>11, <1>12, <1>13, <1>14, <1>15, <1>16, <1>17, <1>18, <1>19, <1>20 DEF PageInv

LEMMA SocketKeeps ==
    ASSUME PageInv, PageTypeOK', Serve
    PROVE  PageInv'
<1>1. CASE ReceiveLagged
  <2>1. /\ connection = "open" /\ connection' = "none" /\ channel' = <<>> /\ ~lagged'
        /\ wire' = Append(wire, CloseMessage)
        /\ UNCHANGED <<agent, unsent, phase, shown, shownAt, streamAt, attached, terminal>>
    BY <1>1 DEF Serve, ReceiveLagged, serverVars, pageVars, terminalVars
  <2>2. SocketOfPage' /\ ChannelIsComplete'
    BY <2>1 DEF PageInv, SocketOfPage, ChannelIsComplete
  <2>3. wire \in Seq(Messages) /\ MessageIsTrue(CloseMessage)
    BY MessageLemma DEF PageInv, PageTypeOK, ServerTypeOK, MessageIsTrue, IsEvent
  <2>4. \A i \in 1..Len(wire') : MessageIsTrue(wire'[i])
    BY <2>1, <2>3 DEF PageInv, StreamIsTrue
  <2>5. StreamIsTrue'
    BY <2>1, <2>4 DEF StreamIsTrue, MessageIsTrue, EventIsTrue, Truth
  <2> QED
    BY <2>1, <2>2, <2>5, IdleStep DEF Delivering
<1> QED
  BY <1>1, SubscribeStep, SnapshotStep, ReceiveStep DEF Serve, SocketStep

-----------------------------------------------------------------------------
(* Steps of the terminal sockets *)

\* What comes of an agent is what came, or its present activity.
LEMMA ComingShrinks ==
    ASSUME PageInv, NEW a \in Agents, TerminalStep(a), NEW b \in Agents, NEW m \in Coming(b)'
    PROVE  \/ m \in Coming(b)
           \/ /\ Live(b) /\ agent[b].activity # NoActivity
              /\ m.activity = agent[b].activity /\ m.at = agent[b].activityAt
<1> USE DEF PageInv, PageTypeOK, ServerTypeOK
<1>1. /\ m \in {terminal'[b][i] : i \in 1..Len(terminal'[b])} \/ m = unsent'[b]
      /\ m \notin {terminal'[b][i] : i \in 1..Len(terminal'[b])} => m = unsent'[b] /\ m.activity # NoActivity
  BY DEF Coming
<1>2. CASE b # a
  BY <1>2 DEF Coming, TerminalStep, Attach, Notify, Detach, ReceiveTerminal, serverVars
<1>3. CASE b = a /\ Attach(a)
  <2>1. unsent' = unsent
    BY <1>3 DEF Attach, serverVars
  <2>2. CASE agent[a].activity = NoActivity
    <3>1. terminal'[a] = <<>>
      BY <1>3, <2>2 DEF Attach
    <3> QED
      BY <1>1, <1>3, <2>1, <3>1 DEF Coming
  <2>3. CASE agent[a].activity # NoActivity
    <3>1. terminal'[a] = <<[activity |-> agent[a].activity, at |-> agent[a].activityAt]>>
      BY <1>3, <2>3 DEF Attach
    <3>2. m = [activity |-> agent[a].activity, at |-> agent[a].activityAt] \/ (m = unsent[a] /\ m.activity # NoActivity)
      BY <1>1, <1>3, <2>1, <3>1
    <3> QED
      BY <1>3, <2>3, <3>2 DEF Coming, Attach
  <2> QED
    BY <2>2, <2>3
<1>4. CASE b = a /\ Notify(a)
  <2>1. unsent[a].activity # NoActivity /\ unsent'[a].activity = NoActivity
        /\ terminal'[a] = IF a \in attached THEN Append(terminal[a], unsent[a]) ELSE terminal[a]
    BY <1>4 DEF Notify
  <2>2. m \in {terminal'[a][i] : i \in 1..Len(terminal'[a])}
    BY <1>1, <1>4, <2>1
  <2>3. PICK i \in 1..Len(terminal'[a]) : m = terminal'[a][i]
    BY <2>2
  <2>4. terminal[a] \in Seq(Reports) /\ unsent[a] \in Reports
    OBVIOUS
  <2>5. m = unsent[a] \/ (i \in 1..Len(terminal[a]) /\ m = terminal[a][i])
    BY <2>1, <2>3, <2>4
  <2> QED
    BY <1>4, <2>1, <2>5 DEF Coming
<1>5. CASE b = a /\ Detach(a)
  <2>1. terminal'[a] = <<>> /\ unsent' = unsent
    BY <1>5 DEF Detach, serverVars
  <2> QED
    BY <1>1, <1>5, <2>1 DEF Coming
<1>6. CASE b = a /\ ReceiveTerminal(a)
  <2>1. terminal'[a] = Tail(terminal[a]) /\ unsent' = unsent /\ terminal[a] # <<>>
        /\ terminal[a] \in Seq(Reports)
    BY <1>6 DEF ReceiveTerminal, serverVars
  <2>2. CASE m \in {terminal'[a][i] : i \in 1..Len(terminal'[a])}
    <3>1. PICK i \in 1..Len(terminal'[a]) : m = terminal'[a][i]
      BY <2>2
    <3>2. i + 1 \in 1..Len(terminal[a]) /\ m = terminal[a][i + 1]
      BY <2>1, <3>1
    <3> QED
      BY <1>6, <3>2 DEF Coming
  <2> QED
    BY <1>1, <1>6, <2>1, <2>2 DEF Coming
<1> QED
  BY <1>2, <1>3, <1>4, <1>5, <1>6 DEF TerminalStep

\* What a terminal socket brings is shown when it is newer, and then the page
\* was not in touch.
LEMMA TerminalKeepsTouch ==
    ASSUME PageInv, PageTypeOK', NEW a \in Agents, TerminalStep(a)
    PROVE  /\ PageIsTrue'
           /\ \A b \in Agents :
                 /\ InTouch(b) => InTouch(b)'
                 /\ \A x \in MaybeActivity, t \in Nat : IsPresent(b, x, t) => IsPresent(b, x, t)'
                 /\ agent[b].activity = NoActivity /\ Coming(b) = {} => Coming(b)' = {}
<1>1. UNCHANGED <<agent, streamAt>>
  BY DEF TerminalStep, Attach, Notify, Detach, ReceiveTerminal, serverVars, pageVars
<1>2. \A b \in Agents :
         /\ \A m \in Coming(b) : m.activity # NoActivity /\ m.at > 0 /\ Truth(b, m.activity, m.at) /\ m \in Reports
         /\ Truth(b, shown[b], shownAt[b]) /\ streamAt[b] <= agent[b].updatedAt
         /\ agent[b].stage = "absent" =>
               agent[b].activity = NoActivity /\ Coming(b) = {} /\ b \notin attached /\ shown[b] = NoActivity
  BY ComingTypes DEF PageInv, PageIsTrue
<1>3. \A b \in Agents : \A m \in Coming(b)' :
         m.activity # NoActivity /\ m.at > 0 /\ Truth(b, m.activity, m.at)
  BY <1>2, ComingShrinks, StampLemma DEF PageInv, StampsAreOrdered, Truth
<1>4. \A b \in Agents : agent[b].activity = NoActivity => Coming(b)' \subseteq Coming(b)
  BY ComingShrinks
<1>5. \A b \in Agents : agent[b].stage = "absent" => b \notin attached'
  BY <1>2 DEF TerminalStep, Attach, Notify, Detach, ReceiveTerminal, Live
\* What changes of the page is what a report says of it.
<1>6. \/ UNCHANGED <<shown, shownAt>>
      \/ \E r \in Coming(a) :
            /\ IsNewer(shownAt[a], r.at)
            /\ shown' = [shown EXCEPT ![a] = r.activity] /\ shownAt' = [shownAt EXCEPT ![a] = r.at]
  <2>1. CASE ReceiveTerminal(a)
    <3>1. Head(terminal[a]) = terminal[a][1] /\ 1 \in 1..Len(terminal[a])
      BY <2>1 DEF ReceiveTerminal, PageInv, PageTypeOK
    <3>2. Head(terminal[a]) \in Coming(a)
      BY <3>1 DEF Coming
    <3> QED
      BY <2>1, <3>2 DEF ReceiveTerminal
  <2> QED
    BY <2>1 DEF TerminalStep, Attach, Notify, Detach, pageVars
<1>7. CASE UNCHANGED <<shown, shownAt>>
  <2>1. PageIsTrue'
    BY <1>1, <1>2, <1>3, <1>4, <1>5, <1>7 DEF PageIsTrue, Truth
  <2>2. \A b \in Agents : InTouch(b) => InTouch(b)'
    BY <1>1, <1>4, <1>7 DEF InTouch
  <2>3. \A b \in Agents : \A x \in MaybeActivity, t \in Nat : IsPresent(b, x, t) => IsPresent(b, x, t)'
    BY <1>1, <1>4, <1>7 DEF IsPresent
  <2> QED
    BY <1>4, <2>1, <2>2, <2>3
<1>8. ASSUME NEW r \in Coming(a), IsNewer(shownAt[a], r.at),
             shown' = [shown EXCEPT ![a] = r.activity], shownAt' = [shownAt EXCEPT ![a] = r.at]
      PROVE  /\ PageIsTrue'
             /\ \A b \in Agents :
                   /\ InTouch(b) => InTouch(b)'
                   /\ \A x \in MaybeActivity, t \in Nat : IsPresent(b, x, t) => IsPresent(b, x, t)'
                   /\ agent[b].activity = NoActivity /\ Coming(b) = {} => Coming(b)' = {}
  <2>1. /\ shown'[a] = r.activity /\ shownAt'[a] = r.at /\ r.at \in Nat
        /\ \A b \in Agents \ {a} : shown'[b] = shown[b] /\ shownAt'[b] = shownAt[b]
    BY <1>2, <1>8 DEF PageInv, PageTypeOK, Reports
  <2>2. r.at > 0 /\ Truth(a, r.activity, r.at) /\ agent[a].stage # "absent"
    BY <1>2
  <2>3. PageIsTrue'
    BY <1>1, <1>2, <1>3, <1>4, <1>5, <2>1, <2>2 DEF PageIsTrue, Truth
  <2>4. ~InTouch(a)
    BY <1>2, <1>8, <2>1, <2>2, StampLemma DEF PageInv, PageTypeOK, InTouch, IsNewer, Truth, StampsAreOrdered
  <2>5. \A b \in Agents : InTouch(b) => InTouch(b)'
    BY <1>1, <1>4, <2>1, <2>4 DEF InTouch
  <2>6. \A b \in Agents : \A x \in MaybeActivity, t \in Nat : IsPresent(b, x, t) => IsPresent(b, x, t)'
    BY <1>1, <1>4, <2>1 DEF IsPresent
  <2> QED
    BY <1>4, <2>3, <2>5, <2>6
<1> QED
  BY <1>6, <1>7, <1>8

LEMMA TerminalKeeps ==
    ASSUME PageInv, PageTypeOK', NEW a \in Agents, TerminalStep(a)
    PROVE  PageInv'
<1>1. UNCHANGED <<agent, sequence, connection, snapshotSequence, channel, lagged, wire, phase, streamAt>>
  BY DEF TerminalStep, Attach, Notify, Detach, ReceiveTerminal, serverVars, socketVars, pageVars
<1>2. Queued' = Queued /\ Delivering' = Delivering
  BY <1>1, SameQueue DEF Delivering
<1>3. StampsAreOrdered' /\ SocketOfPage' /\ ChannelIsComplete' /\ StreamIsComplete'
  BY <1>1 DEF PageInv, StampsAreOrdered, SocketOfPage, ChannelIsComplete, StreamIsComplete, Passed
<1>4. RemovalIsLast'
  BY <1>1, <1>2 DEF PageInv, RemovalIsLast
<1>5. StreamIsTrue'
  BY <1>1 DEF PageInv, StreamIsTrue, MessageIsTrue, EventIsTrue, Truth
<1>6. ToldIsShown'
  BY <1>1, TerminalKeepsTouch DEF PageInv, ToldIsShown, Report
<1>7. QueueIsNews'
  <2> SUFFICES ASSUME Delivering, NEW f \in Queued
               PROVE  /\ streamAt[f.agent] < f.at
                      /\ \A g \in Queued : g.agent = f.agent /\ g.sequence > f.sequence => g.at > f.at
                      /\ phase = "connecting" /\ f.agent \in DOMAIN wire[1].reports =>
                            wire[1].reports[f.agent].at < f.at
                      /\ Live(f.agent) /\ IsLast(f) => IsPresent(f.agent, f.activity, f.at)'
    BY <1>1, <1>2 DEF QueueIsNews, IsLast, Live
  <2>1. f.agent \in Agents /\ f.activity \in MaybeActivity /\ f.at \in Nat
    BY QueueLemma DEF Events
  <2> QED
    BY <2>1, TerminalKeepsTouch DEF PageInv, QueueIsNews
<1>8. SnapshotIsPresent'
  <2> SUFFICES ASSUME Delivering, phase = "connecting", NEW b \in Agents, Live(b), ~Waiting(b)
               PROVE  IF b \in DOMAIN wire[1].reports
                      THEN LET report == wire[1].reports[b]
                           IN  /\ IsPresent(b, report.activity, report.at)'
                               /\ streamAt[b] >= report.at => InTouch(b)'
                      ELSE agent[b].activity = NoActivity /\ Coming(b)' = {}
    BY <1>1, <1>2 DEF SnapshotIsPresent, IsPresent, Waiting, Live
  <2>1. CASE b \in DOMAIN wire[1].reports
    <3>1. PICK x \in MaybeActivity, t \in Nat : x = wire[1].reports[b].activity /\ t = wire[1].reports[b].at
      BY <2>1, FirstIsSnapshot
    <3>2. IsPresent(b, x, t) /\ (streamAt[b] >= t => InTouch(b))
      BY <2>1, <3>1 DEF PageInv, SnapshotIsPresent
    <3>3. IsPresent(b, x, t)' /\ (streamAt[b] >= t => InTouch(b)')
      BY <3>2, TerminalKeepsTouch
    <3> QED
      BY <1>1, <2>1, <3>1, <3>3 DEF IsPresent
  <2>2. CASE b \notin DOMAIN wire[1].reports
    BY <2>2, TerminalKeepsTouch DEF PageInv, SnapshotIsPresent
  <2> QED
    BY <2>1, <2>2
<1>9. QuietIsInTouch'
  BY <1>1, <1>2, TerminalKeepsTouch DEF PageInv, QuietIsInTouch, Waiting, Live
<1> QED
  BY <1>3, <1>4, <1>5, <1>6, <1>7, <1>8, <1>9, TerminalKeepsTouch DEF PageInv

-----------------------------------------------------------------------------
(* Steps of the page *)

LEMMA ConnectStep ==
    ASSUME PageInv, PageTypeOK', Connect
    PROVE  PageInv'
<1>1. /\ connection' = "opening" /\ phase' = "connecting" /\ channel' = <<>> /\ ~lagged' /\ wire' = <<>>
      /\ UNCHANGED <<agent, unsent, shown, shownAt, streamAt, attached, terminal>>
  BY DEF Connect, serverVars, terminalVars
<1>2. SocketOfPage' /\ ChannelIsComplete' /\ StreamIsTrue'
  BY <1>1 DEF SocketOfPage, ChannelIsComplete, StreamIsTrue
<1> QED
  BY <1>1, <1>2, IdleStep DEF Delivering

LEMMA CloseStep ==
    ASSUME PageInv, PageTypeOK', ReceiveClose
    PROVE  PageInv'
<1>1. /\ wire # <<>> /\ Head(wire).type = "close" /\ wire' = <<>> /\ phase' = "closed"
      /\ UNCHANGED <<agent, unsent, sequence, connection, channel, lagged, shown, shownAt, streamAt,
                     attached, terminal>>
  BY DEF ReceiveClose, serverVars, terminalVars
<1>2. 1 \in 1..Len(wire) /\ wire[1] = Head(wire)
  BY <1>1 DEF PageInv, PageTypeOK, ServerTypeOK
<1>3. connection = "none"
  BY <1>1, <1>2 DEF PageInv, PageTypeOK, ServerTypeOK, SocketOfPage, IsEvent
<1>4. SocketOfPage' /\ ChannelIsComplete' /\ StreamIsTrue'
  BY <1>1, <1>3 DEF PageInv, SocketOfPage, ChannelIsComplete, StreamIsTrue, EventIsTrue, Truth
<1> QED
  BY <1>1, <1>3, <1>4, IdleStep DEF Delivering

LEMMA BreakStep ==
    ASSUME PageInv, PageTypeOK', Break
    PROVE  PageInv'
<1>1. /\ phase # "closed" /\ connection' = "none" /\ channel' = <<>> /\ ~lagged'
      /\ UNCHANGED <<agent, unsent, phase, shown, shownAt, streamAt, attached, terminal>>
  BY DEF Break, serverVars, pageVars, terminalVars
<1>2. PICK n \in 0..Len(wire) : wire' = Append(SubSeq(wire, 1, n), CloseMessage)
  BY DEF Break
<1>3. SocketOfPage' /\ ChannelIsComplete'
  BY <1>1 DEF SocketOfPage, ChannelIsComplete
<1>4. wire \in Seq(Messages) /\ MessageIsTrue(CloseMessage)
  BY MessageLemma DEF PageInv, PageTypeOK, ServerTypeOK, MessageIsTrue, IsEvent
<1>5. \A i \in 1..Len(wire') : wire'[i] = CloseMessage \/ (i \in 1..Len(wire) /\ wire'[i] = wire[i])
  <2>1. /\ SubSeq(wire, 1, n) \in Seq(Messages) /\ Len(SubSeq(wire, 1, n)) = n
        /\ \A i \in 1..n : SubSeq(wire, 1, n)[i] = wire[i]
    BY <1>4
  <2> DEFINE sent == SubSeq(wire, 1, n)
  <2> HIDE DEF sent
  <2>2. wire' = Append(sent, CloseMessage) /\ sent \in Seq(Messages) /\ Len(sent) = n
        /\ \A i \in 1..n : sent[i] = wire[i]
    BY <1>2, <2>1 DEF sent
  <2> QED
    BY <2>2, <1>4
<1>6. \A i \in 1..Len(wire') : MessageIsTrue(wire'[i])
  BY <1>4, <1>5 DEF PageInv, StreamIsTrue
<1>7. StreamIsTrue'
  BY <1>1, <1>6 DEF StreamIsTrue, MessageIsTrue, EventIsTrue, Truth
<1> QED
  BY <1>1, <1>3, <1>7, IdleStep DEF Delivering

\* The page forgets an agent that is gone: of it everything is news again.
LEMMA ForgetStep ==
    ASSUME PageInv, PageTypeOK', NEW a \in Agents, Forget(a)
    PROVE  PageInv'
<1>1. /\ agent[a].stage = "deleting"
      /\ shown'[a] = NoActivity /\ shownAt'[a] = 0 /\ streamAt'[a] = 0
      /\ \A b \in Agents \ {a} : shown'[b] = shown[b] /\ shownAt'[b] = shownAt[b] /\ streamAt'[b] = streamAt[b]
      /\ UNCHANGED <<agent, unsent, sequence, connection, snapshotSequence, channel, lagged, wire,
                     phase, attached, terminal>>
  BY DEF Forget, serverVars, socketVars, terminalVars, PageInv, PageTypeOK
<1>2. Queued' = Queued /\ Delivering' = Delivering
  BY <1>1, SameQueue DEF Delivering
<1>3. \A b \in Agents : Coming(b)' = Coming(b) /\ Report(b)' = Report(b) /\ Live(b)' = Live(b)
  BY <1>1 DEF Coming, Report, Live
<1>4. ~Live(a) /\ agent[a].activity = NoActivity
  BY <1>1 DEF Live, PageInv, RemovalIsLast
<1>5. \A b \in Agents \ {a} :
         /\ InTouch(b) => InTouch(b)'
         /\ \A x \in MaybeActivity, t \in Nat : IsPresent(b, x, t) => IsPresent(b, x, t)'
  BY <1>1, <1>3, Untouched DEF Undisturbed
<1>6. StampsAreOrdered' /\ SocketOfPage' /\ ChannelIsComplete' /\ StreamIsComplete'
  BY <1>1 DEF PageInv, StampsAreOrdered, SocketOfPage, ChannelIsComplete, StreamIsComplete, Passed
<1>7. RemovalIsLast'
  BY <1>1, <1>2 DEF PageInv, RemovalIsLast
<1>8. StreamIsTrue'
  BY <1>1 DEF PageInv, StreamIsTrue, MessageIsTrue, EventIsTrue, Truth
<1>9. PageIsTrue'
  BY <1>1, <1>3, <1>4, StampLemma DEF PageInv, PageIsTrue, Truth
<1>10. ToldIsShown'
  BY <1>1, <1>3, <1>5, StampLemma DEF PageInv, ToldIsShown
<1>11. QueueIsNews'
  <2> SUFFICES ASSUME Delivering, NEW f \in Queued
               PROVE  /\ streamAt'[f.agent] < f.at
                      /\ \A g \in Queued : g.agent = f.agent /\ g.sequence > f.sequence => g.at > f.at
                      /\ phase = "connecting" /\ f.agent \in DOMAIN wire[1].reports =>
                            wire[1].reports[f.agent].at < f.at
                      /\ Live(f.agent) /\ IsLast(f) => IsPresent(f.agent, f.activity, f.at)'
    BY <1>1, <1>2, <1>3 DEF QueueIsNews, IsLast, Live
  <2>1. f.agent \in Agents /\ f.activity \in MaybeActivity /\ f.at \in Nat /\ f.at > 0
    BY QueueLemma DEF Events, EventIsTrue
  <2> QED
    BY <1>1, <1>4, <1>5, <2>1 DEF PageInv, QueueIsNews
<1>12. SnapshotIsPresent'
  <2> SUFFICES ASSUME Delivering, phase = "connecting", NEW b \in Agents, Live(b), ~Waiting(b)
               PROVE  IF b \in DOMAIN wire[1].reports
                      THEN LET report == wire[1].reports[b]
                           IN  /\ IsPresent(b, report.activity, report.at)'
                               /\ streamAt'[b] >= report.at => InTouch(b)'
                      ELSE agent[b].activity = NoActivity /\ Coming(b)' = {}
    BY <1>1, <1>2, <1>3 DEF SnapshotIsPresent, IsPresent, Waiting
  <2>1. b # a
    BY <1>4
  <2>2. CASE b \in DOMAIN wire[1].reports
    <3>1. PICK x \in MaybeActivity, t \in Nat : x = wire[1].reports[b].activity /\ t = wire[1].reports[b].at
      BY <2>2, FirstIsSnapshot
    <3>2. IsPresent(b, x, t) /\ (streamAt[b] >= t => InTouch(b))
      BY <2>2, <3>1 DEF PageInv, SnapshotIsPresent
    <3>3. IsPresent(b, x, t)' /\ (streamAt'[b] >= t => InTouch(b)')
      BY <1>1, <1>5, <2>1, <3>2
    <3> QED
      BY <1>1, <2>2, <3>1, <3>3 DEF IsPresent
  <2>3. CASE b \notin DOMAIN wire[1].reports
    BY <1>3, <2>3 DEF PageInv, SnapshotIsPresent
  <2> QED
    BY <2>2, <2>3
<1>13. QuietIsInTouch'
  BY <1>1, <1>2, <1>3, <1>4, <1>5 DEF PageInv, QuietIsInTouch, Waiting
<1> QED
  BY <1>6, <1>7, <1>8, <1>9, <1>10, <1>11, <1>12, <1>13 DEF PageInv

\* A message is taken from the wire: what was queued stays, but for its event.
LEMMA TailLemma ==
    ASSUME PageInv, wire # <<>>, wire' = Tail(wire), phase' # "closed", connection = "open" => phase' = "ready",
           UNCHANGED <<agent, sequence, connection, snapshotSequence, channel, lagged>>
    PROVE  /\ SocketOfPage' /\ ChannelIsComplete' /\ StreamIsComplete' /\ StreamIsTrue'
           /\ Delivering' = Delivering
           /\ \A e \in Queued' : e \in Queued
           /\ \A e \in Queued : e \in Queued' \/ (IsEvent(Head(wire)) /\ e = Head(wire).event)
<1>1. /\ wire \in Seq(Messages) /\ Len(wire) \in Nat \ {0} /\ Len(wire') = Len(wire) - 1
      /\ \A i \in 1..Len(wire') : wire'[i] = wire[i + 1] /\ i + 1 \in 1..Len(wire) /\ i + 1 # 1
      /\ Head(wire) = wire[1]
  BY DEF PageInv, PageTypeOK, ServerTypeOK
<1>2. SocketOfPage'
  BY <1>1 DEF PageInv, SocketOfPage
<1>3. ChannelIsComplete'
  BY DEF PageInv, ChannelIsComplete
<1>4. StreamIsComplete'
  <2> SUFFICES ASSUME connection = "open", ~lagged
               PROVE  /\ \A i \in 1..Len(channel) : channel[i].sequence = sequence - Len(channel) + i
                      /\ \A i \in 1..Len(wire') :
                            LET number == Passed - Len(wire') + i
                            IN  \/ wire'[i].type = "snapshot" /\ number = snapshotSequence
                                \/ IsEvent(wire'[i]) /\ wire'[i].event.sequence = number /\ number > snapshotSequence
    BY DEF StreamIsComplete, IsEvent, Passed
  <2>1. \A i \in 1..Len(channel) : channel[i].sequence = sequence - Len(channel) + i
    BY DEF PageInv, StreamIsComplete
  <2>2. Passed \in Int
    BY DEF Passed, PageInv, PageTypeOK, ServerTypeOK
  <2>3. ASSUME NEW i \in 1..Len(wire')
        PROVE  LET number == Passed - Len(wire') + i
               IN  \/ wire'[i].type = "snapshot" /\ number = snapshotSequence
                   \/ IsEvent(wire'[i]) /\ wire'[i].event.sequence = number /\ number > snapshotSequence
    <3>1. Passed - Len(wire') + i = Passed - Len(wire) + (i + 1)
      BY <1>1, <2>2
    <3>2. \/ wire[i + 1].type = "snapshot" /\ Passed - Len(wire) + (i + 1) = snapshotSequence
          \/ /\ IsEvent(wire[i + 1]) /\ wire[i + 1].event.sequence = Passed - Len(wire) + (i + 1)
             /\ Passed - Len(wire) + (i + 1) > snapshotSequence
      BY <1>1 DEF PageInv, StreamIsComplete
    <3> QED
      BY <1>1, <3>1, <3>2
  <2> QED
    BY <2>1, <2>3
<1>5. StreamIsTrue'
  <2>1. \A i \in 1..Len(wire') : MessageIsTrue(wire'[i])
    BY <1>1 DEF PageInv, StreamIsTrue
  <2> QED
    BY <2>1 DEF PageInv, StreamIsTrue, MessageIsTrue, EventIsTrue, Truth
<1>6. ASSUME NEW e \in Queued'
      PROVE  e \in Queued
  BY <1>1, <1>6, InQueue
<1>7. ASSUME NEW e \in Queued
      PROVE  e \in Queued' \/ (IsEvent(Head(wire)) /\ e = Head(wire).event)
  <2>1. CASE \E i \in 1..Len(wire) : IsEvent(wire[i]) /\ e = wire[i].event
    <3>1. PICK i \in 1..Len(wire) : IsEvent(wire[i]) /\ e = wire[i].event
      BY <2>1
    <3>2. CASE i = 1
      BY <1>1, <3>1, <3>2
    <3>3. CASE i # 1
      <4>1. i - 1 \in 1..Len(wire') /\ wire'[i - 1] = wire[i]
        BY <1>1, <3>3
      <4> QED
        BY <3>1, <4>1, InQueue
    <3> QED
      BY <3>2, <3>3
  <2> QED
    BY <2>1, InQueue
<1> QED
  BY <1>2, <1>3, <1>4, <1>5, <1>6, <1>7 DEF Delivering

\* The page takes a report of the stream: what it tells is known, and shown if
\* it is newer than what is shown, or its end.
Takes(a, x, t) ==
    \/ /\ shown'[a] = x /\ shownAt'[a] = t /\ streamAt'[a] = t
       /\ shownAt[a] <= t /\ streamAt[a] < t
    \/ /\ shown'[a] = shown[a] /\ shownAt'[a] = shownAt[a] /\ streamAt'[a] = t
       /\ t <= shownAt[a] /\ streamAt[a] < t
    \/ /\ shown'[a] = shown[a] /\ shownAt'[a] = shownAt[a] /\ streamAt'[a] = streamAt[a]
       /\ t <= streamAt[a]

LEMMA TakesLemma ==
    ASSUME PageInv, NEW a \in Agents, NEW x \in MaybeActivity, NEW t \in Nat, t > 0, Truth(a, x, t),
           Takes(a, x, t), UNCHANGED <<agent, unsent, terminal>>
    PROVE  /\ Truth(a, shown'[a], shownAt'[a]) /\ streamAt'[a] <= agent[a].updatedAt
           /\ streamAt'[a] >= Report(a).at => InTouch(a)'
           /\ IsPresent(a, x, t) /\ (streamAt[a] >= t => InTouch(a)) => InTouch(a)'
           /\ \A y \in MaybeActivity, s \in Nat : t < s /\ IsPresent(a, y, s) => IsPresent(a, y, s)'
           /\ \A s \in Nat : t < s /\ streamAt[a] < s => streamAt'[a] < s
<1>1. /\ agent[a].updatedAt \in Nat /\ agent[a].activityAt \in Nat
      /\ Report(a).at = IF agent[a].activity = NoActivity THEN agent[a].updatedAt ELSE agent[a].activityAt
      /\ Report(a).at > 0 /\ Report(a).at <= agent[a].updatedAt
  BY StampLemma DEF PageInv
<1>2. shownAt[a] \in Nat /\ streamAt[a] \in Nat /\ streamAt[a] <= agent[a].updatedAt
      /\ Truth(a, shown[a], shownAt[a])
  BY DEF PageInv, PageTypeOK, PageIsTrue
<1>3. Coming(a)' = Coming(a)
  BY SameComing
<1>4. \A m \in Coming(a) : m.activity # NoActivity /\ m.at \in Nat /\ Truth(a, m.activity, m.at)
  BY ComingTypes DEF PageInv, PageIsTrue, Reports
<1>5. Truth(a, shown'[a], shownAt'[a]) /\ streamAt'[a] <= agent[a].updatedAt
  BY <1>1, <1>2 DEF Takes, Truth
<1>6. ASSUME streamAt'[a] >= Report(a).at
      PROVE  InTouch(a)'
  <2>1. CASE streamAt'[a] = streamAt[a] /\ shown'[a] = shown[a] /\ shownAt'[a] = shownAt[a]
    BY <1>3, <1>6, <2>1 DEF PageInv, ToldIsShown, InTouch
  <2>2. CASE streamAt'[a] = t
    <3>1. CASE agent[a].activity = NoActivity
      <4>1. t = agent[a].updatedAt /\ x = NoActivity
        BY <1>1, <1>6, <2>2, <3>1 DEF Truth
      <4>2. \/ shown'[a] = NoActivity /\ shownAt'[a] = agent[a].updatedAt
            \/ shown'[a] = shown[a] /\ shownAt'[a] = shownAt[a] /\ streamAt'[a] = streamAt[a]
        BY <1>1, <1>2, <3>1, <4>1 DEF Takes, Truth
      <4>3. \A m \in Coming(a) : m.at <= agent[a].updatedAt
        BY <1>4 DEF Truth
      <4> QED
        BY <1>3, <2>1, <3>1, <4>2, <4>3 DEF InTouch
    <3>2. CASE agent[a].activity # NoActivity
      <4>1. t = agent[a].activityAt
        BY <1>1, <1>6, <2>2, <3>2 DEF Truth
      <4>2. \/ shownAt'[a] = agent[a].activityAt
            \/ shown'[a] = shown[a] /\ shownAt'[a] = shownAt[a] /\ streamAt'[a] = streamAt[a]
        BY <1>1, <1>2, <3>2, <4>1 DEF Takes, Truth
      <4> QED
        BY <2>1, <3>2, <4>2 DEF InTouch
    <3> QED
      BY <3>1, <3>2
  <2> QED
    BY <2>1, <2>2 DEF Takes
<1>7. ASSUME IsPresent(a, x, t), streamAt[a] >= t => InTouch(a)
      PROVE  InTouch(a)'
  <2>1. CASE streamAt[a] >= t
    <3>1. shown'[a] = shown[a] /\ shownAt'[a] = shownAt[a]
      BY <1>2, <2>1 DEF Takes
    <3> QED
      BY <1>3, <1>7, <2>1, <3>1 DEF InTouch
  <2>2. CASE ~(streamAt[a] >= t)
    <3>1. CASE agent[a].activity = NoActivity
      <4>1. x = NoActivity /\ (\A m \in Coming(a) : m.at < t) /\ (shown[a] # NoActivity => shownAt[a] < t)
        BY <1>7, <3>1 DEF IsPresent
      <4>2. shown'[a] = NoActivity /\ t <= shownAt'[a] /\ shownAt'[a] \in Nat
        BY <1>2, <2>2, <4>1 DEF Takes
      <4>3. \A m \in Coming(a) : m.at <= shownAt'[a]
        BY <1>4, <4>1, <4>2
      <4> QED
        BY <1>3, <3>1, <4>2, <4>3 DEF InTouch
    <3>2. CASE agent[a].activity # NoActivity
      <4>1. t = agent[a].activityAt
        BY <1>7, <3>2 DEF IsPresent
      <4>2. shownAt'[a] = agent[a].activityAt
        BY <1>1, <1>2, <2>2, <3>2, <4>1 DEF Takes, Truth
      <4> QED
        BY <3>2, <4>2 DEF InTouch
    <3> QED
      BY <3>1, <3>2
  <2> QED
    BY <2>1, <2>2
<1>8. ASSUME NEW y \in MaybeActivity, NEW s \in Nat, t < s, IsPresent(a, y, s)
      PROVE  IsPresent(a, y, s)'
  BY <1>2, <1>3, <1>8 DEF Takes, IsPresent
<1>9. \A s \in Nat : t < s /\ streamAt[a] < s => streamAt'[a] < s
  BY DEF Takes
<1> QED
  BY <1>5, <1>6, <1>7, <1>8, <1>9

LEMMA ReceiveSnapshotStep ==
    ASSUME PageInv, PageTypeOK', ReceiveSnapshot
    PROVE  PageInv'
<1>1. /\ wire # <<>> /\ Head(wire).type = "snapshot" /\ wire' = Tail(wire) /\ phase' = "ready"
      /\ UNCHANGED <<agent, unsent, sequence, connection, snapshotSequence, channel, lagged, attached, terminal>>
  BY DEF ReceiveSnapshot, serverVars, terminalVars
<1>2. PICK reports \in ReportMaps : reports = Head(wire).reports
  <2>1. Head(wire) \in Messages
    BY <1>1 DEF PageInv, PageTypeOK, ServerTypeOK
  <2> QED
    BY <1>1, <2>1 DEF Messages
<1>3. Head(wire) = wire[1] /\ MessageIsTrue(Head(wire)) /\ Head(wire) \in Messages
  BY <1>1 DEF PageInv, PageTypeOK, ServerTypeOK, StreamIsTrue
<1>4. /\ DOMAIN reports \subseteq Agents
      /\ \A a \in DOMAIN reports :
            /\ reports[a].activity \in MaybeActivity /\ reports[a].at \in Nat /\ reports[a].at > 0
            /\ Truth(a, reports[a].activity, reports[a].at) /\ agent[a].stage # "absent"
  BY <1>1, <1>2, <1>3, MessageLemma DEF MessageIsTrue, Reports
<1>5. \A a \in Agents : shownAt[a] \in Nat /\ streamAt[a] \in Nat
  BY DEF PageInv, PageTypeOK
<1>6. /\ \A a \in Agents \ DOMAIN reports : shown'[a] = NoActivity /\ shownAt'[a] = 0 /\ streamAt'[a] = 0
      /\ \A a \in DOMAIN reports : Takes(a, reports[a].activity, reports[a].at)
  <2> DEFINE news == {a \in DOMAIN reports : IsNewer(streamAt[a], reports[a].at)}
             visible == {a \in news : shownAt[a] = 0 \/ reports[a].at > shownAt[a]}
  <2>1. /\ shown' = [a \in Agents |->
                        IF a \in visible THEN reports[a].activity
                        ELSE IF a \in DOMAIN reports THEN shown[a] ELSE NoActivity]
        /\ shownAt' = [a \in Agents |->
                          IF a \in visible THEN reports[a].at
                          ELSE IF a \in DOMAIN reports THEN shownAt[a] ELSE 0]
        /\ streamAt' = [a \in Agents |->
                           IF a \in news THEN reports[a].at
                           ELSE IF a \in DOMAIN reports THEN streamAt[a] ELSE 0]
    BY <1>2 DEF ReceiveSnapshot
  <2>2. ASSUME NEW a \in Agents \ DOMAIN reports
        PROVE  shown'[a] = NoActivity /\ shownAt'[a] = 0 /\ streamAt'[a] = 0
    BY <2>1
  <2>3. ASSUME NEW a \in DOMAIN reports
        PROVE  Takes(a, reports[a].activity, reports[a].at)
    <3>1. /\ a \in news <=> streamAt[a] = 0 \/ reports[a].at > streamAt[a]
          /\ a \in visible <=> a \in news /\ (shownAt[a] = 0 \/ reports[a].at > shownAt[a])
      BY DEF IsNewer
    <3> HIDE DEF news, visible
    <3>2. /\ shown'[a] = IF a \in visible THEN reports[a].activity ELSE shown[a]
          /\ shownAt'[a] = IF a \in visible THEN reports[a].at ELSE shownAt[a]
          /\ streamAt'[a] = IF a \in news THEN reports[a].at ELSE streamAt[a]
      BY <1>4, <2>1, <2>3
    <3>3. a \in Agents
      BY <1>4
    <3> QED
      BY <1>4, <1>5, <3>1, <3>2, <3>3 DEF Takes
  <2> QED
    BY <2>2, <2>3
<1>7. ASSUME NEW a \in DOMAIN reports
      PROVE  /\ a \in Agents
             /\ Truth(a, shown'[a], shownAt'[a]) /\ streamAt'[a] <= agent[a].updatedAt
             /\ streamAt'[a] >= Report(a).at => InTouch(a)'
             /\ IsPresent(a, reports[a].activity, reports[a].at)
                   /\ (streamAt[a] >= reports[a].at => InTouch(a)) => InTouch(a)'
             /\ \A y \in MaybeActivity, s \in Nat :
                   reports[a].at < s /\ IsPresent(a, y, s) => IsPresent(a, y, s)'
             /\ \A s \in Nat : reports[a].at < s /\ streamAt[a] < s => streamAt'[a] < s
  <2>1. PICK x \in MaybeActivity, t \in Nat : x = reports[a].activity /\ t = reports[a].at
    BY <1>4
  <2>2. a \in Agents /\ t > 0 /\ Truth(a, x, t) /\ Takes(a, x, t)
    BY <1>4, <1>6, <2>1
  <2> QED
    BY <1>1, <2>1, <2>2, TakesLemma
<1>8. \A a \in Agents : Coming(a)' = Coming(a) /\ Report(a)' = Report(a) /\ Live(a)' = Live(a)
  BY <1>1 DEF Coming, Report, Live
<1>9. \A a \in Agents :
         /\ Report(a).at > 0 /\ Report(a).at \in Nat
         /\ agent[a].updatedAt \in Nat /\ agent[a].activityAt \in Nat
         /\ agent[a].activity # NoActivity => agent[a].activityAt > 0
  BY StampLemma DEF PageInv, StampsAreOrdered
<1>10. /\ SocketOfPage' /\ ChannelIsComplete' /\ StreamIsComplete' /\ StreamIsTrue'
       /\ Delivering' = Delivering
       /\ Queued' = Queued
  BY <1>1, TailLemma DEF IsEvent
<1>11. StampsAreOrdered'
  BY <1>1 DEF PageInv, StampsAreOrdered
<1>12. RemovalIsLast'
  BY <1>1, <1>10 DEF PageInv, RemovalIsLast
<1>13. PageIsTrue'
  <2> SUFFICES ASSUME NEW a \in Agents
               PROVE  /\ Truth(a, shown'[a], shownAt'[a]) /\ streamAt'[a] <= agent[a].updatedAt
                      /\ agent[a].stage = "absent" => shown'[a] = NoActivity
    BY <1>1, <1>8 DEF PageInv, PageIsTrue, Truth
  <2>1. CASE a \in DOMAIN reports
    BY <1>4, <1>7, <2>1
  <2>2. CASE a \notin DOMAIN reports
    BY <1>6, <1>9, <2>2 DEF Truth
  <2> QED
    BY <2>1, <2>2
<1>14. ToldIsShown'
  <2> SUFFICES ASSUME NEW a \in Agents, streamAt'[a] >= Report(a).at
               PROVE  InTouch(a)'
    BY <1>8 DEF ToldIsShown
  <2> QED
    BY <1>6, <1>7, <1>9
<1>15. Delivering => phase = "connecting" /\ wire[1].reports = reports
  <2>1. Delivering => phase # "ready"
    <3>1. 1 \in 1..Len(wire) /\ ~IsEvent(wire[1])
      BY <1>1, <1>3 DEF IsEvent, PageInv, PageTypeOK, ServerTypeOK
    <3> QED
      BY <3>1 DEF PageInv, SocketOfPage, Delivering
  <2>2. Delivering => phase # "closed"
    BY DEF PageInv, SocketOfPage, Delivering
  <2> QED
    BY <1>2, <1>3, <2>1, <2>2 DEF PageInv, PageTypeOK
<1>16. QueueIsNews'
  <2> SUFFICES ASSUME Delivering, NEW f \in Queued
               PROVE  /\ streamAt'[f.agent] < f.at
                      /\ \A g \in Queued : g.agent = f.agent /\ g.sequence > f.sequence => g.at > f.at
                      /\ Live(f.agent) /\ IsLast(f) => IsPresent(f.agent, f.activity, f.at)'
    BY <1>1, <1>10, <1>8 DEF QueueIsNews, IsLast, Live
  <2>1. f.agent \in Agents /\ f.activity \in MaybeActivity /\ f.at \in Nat /\ f.at > 0
    BY QueueLemma DEF Events, EventIsTrue
  <2>2. /\ streamAt[f.agent] < f.at
        /\ \A g \in Queued : g.agent = f.agent /\ g.sequence > f.sequence => g.at > f.at
        /\ f.agent \in DOMAIN reports => reports[f.agent].at < f.at
        /\ Live(f.agent) /\ IsLast(f) => IsPresent(f.agent, f.activity, f.at)
    BY <1>15 DEF PageInv, QueueIsNews
  <2>3. CASE f.agent \in DOMAIN reports
    BY <1>7, <2>1, <2>2, <2>3
  <2>4. CASE f.agent \notin DOMAIN reports
    <3>1. shown'[f.agent] = NoActivity /\ streamAt'[f.agent] = 0 /\ Coming(f.agent)' = Coming(f.agent)
      BY <1>6, <1>8, <2>1, <2>4
    <3>2. IsPresent(f.agent, f.activity, f.at) => IsPresent(f.agent, f.activity, f.at)'
      BY <1>1, <3>1 DEF IsPresent
    <3> QED
      BY <2>1, <2>2, <3>1, <3>2
  <2> QED
    BY <2>3, <2>4
<1>17. SnapshotIsPresent'
  BY <1>1 DEF SnapshotIsPresent
<1>18. QuietIsInTouch'
  <2> SUFFICES ASSUME Delivering, NEW a \in Agents, Live(a), ~Waiting(a)
               PROVE  InTouch(a)'
    BY <1>1, <1>8, <1>10 DEF QuietIsInTouch, Waiting
  <2>1. IF a \in DOMAIN reports
        THEN /\ IsPresent(a, reports[a].activity, reports[a].at)
             /\ streamAt[a] >= reports[a].at => InTouch(a)
        ELSE agent[a].activity = NoActivity /\ Coming(a) = {}
    BY <1>15 DEF PageInv, SnapshotIsPresent
  <2>2. CASE a \in DOMAIN reports
    BY <1>7, <2>1, <2>2
  <2>3. CASE a \notin DOMAIN reports
    BY <1>1, <1>6, <1>8, <2>1, <2>3 DEF InTouch
  <2> QED
    BY <2>2, <2>3
<1> QED
  BY <1>10, <1>11, <1>12, <1>13, <1>14, <1>16, <1>17, <1>18 DEF PageInv

\* The event on the wire is the first of the queue.
LEMMA HeadIsFirst ==
    ASSUME PageInv, Delivering, wire # <<>>, IsEvent(Head(wire)), wire' = Tail(wire),
           UNCHANGED <<snapshotSequence, channel>>
    PROVE  /\ Head(wire).event \in Queued
           /\ \A f \in Queued' : Head(wire).event.sequence < f.sequence
<1>1. /\ wire \in Seq(Messages) /\ Len(wire) \in Nat \ {0} /\ Len(wire') = Len(wire) - 1
      /\ \A i \in 1..Len(wire') : wire'[i] = wire[i + 1] /\ i + 1 \in 1..Len(wire)
      /\ Head(wire) = wire[1] /\ 1 \in 1..Len(wire)
      /\ sequence \in Nat /\ snapshotSequence \in Nat /\ Len(channel) \in Nat
  BY DEF PageInv, PageTypeOK, ServerTypeOK
<1>2. Passed \in Int /\ Passed >= snapshotSequence /\ Passed >= sequence - Len(channel)
      /\ (Passed = snapshotSequence \/ Passed = sequence - Len(channel))
  BY <1>1 DEF Passed
<1>3. \A i \in 1..Len(wire) : IsEvent(wire[i]) => wire[i].event.sequence = Passed - Len(wire) + i
  BY DEF PageInv, StreamIsComplete, Delivering, IsEvent
<1>4. \A i \in 1..Len(channel) : channel[i].sequence = sequence - Len(channel) + i
  BY DEF PageInv, StreamIsComplete, Delivering
<1>5. Head(wire).event \in Queued
  BY <1>1, InQueue
<1>6. Head(wire).event.sequence = Passed - Len(wire) + 1
  BY <1>1, <1>3
<1>7. ASSUME NEW f \in Queued'
      PROVE  Head(wire).event.sequence < f.sequence
  <2>1. CASE \E i \in 1..Len(wire') : IsEvent(wire'[i]) /\ f = wire'[i].event
    <3>1. PICK i \in 1..Len(wire') : IsEvent(wire'[i]) /\ f = wire'[i].event
      BY <2>1
    <3>2. f.sequence = Passed - Len(wire) + (i + 1)
      BY <1>1, <1>3, <3>1
    <3> QED
      BY <1>1, <1>2, <1>6, <3>2
  <2>2. CASE \E i \in 1..Len(channel) : channel[i].sequence > snapshotSequence /\ f = channel[i]
    <3>1. PICK i \in 1..Len(channel) : channel[i].sequence > snapshotSequence /\ f = channel[i]
      BY <2>2
    <3>2. f.sequence = sequence - Len(channel) + i /\ f.sequence > snapshotSequence
      BY <1>4, <3>1
    <3> QED
      BY <1>1, <1>2, <1>6, <3>2
  <2> QED
    BY <2>1, <2>2, InQueue
<1> QED
  BY <1>5, <1>7

LEMMA ReceiveEventStep ==
    ASSUME PageInv, PageTypeOK', ReceiveEvent
    PROVE  PageInv'
<1>1. /\ wire # <<>> /\ IsEvent(Head(wire)) /\ wire' = Tail(wire)
      /\ UNCHANGED <<agent, unsent, sequence, connection, snapshotSequence, channel, lagged, phase,
                     attached, terminal>>
  BY DEF ReceiveEvent, serverVars, terminalVars
<1>2. Head(wire) = wire[1] /\ 1 \in 1..Len(wire) /\ MessageIsTrue(Head(wire)) /\ Head(wire) \in Messages
  BY <1>1 DEF PageInv, PageTypeOK, ServerTypeOK, StreamIsTrue
<1>3. PICK e \in Events : e = Head(wire).event /\ EventIsTrue(e)
  BY <1>1, <1>2, MessageLemma DEF MessageIsTrue
<1>4. PICK a \in Agents, x \in MaybeActivity, t \in Nat :
         /\ a = e.agent /\ x = e.activity /\ t = e.at /\ t > 0
         /\ Truth(a, x, t) /\ agent[a].stage # "absent"
  BY <1>3 DEF Events, EventIsTrue
<1>5. Takes(a, x, t) /\ \A b \in Agents \ {a} : /\ shown'[b] = shown[b] /\ shownAt'[b] = shownAt[b]
                                                /\ streamAt'[b] = streamAt[b]
  <2> DEFINE new == IsNewer(streamAt[a], t)
             visible == new /\ IF x = NoActivity THEN EndsShown(a, t) ELSE IsNewer(shownAt[a], t)
  <2>1. /\ streamAt' = [streamAt EXCEPT ![a] = IF new THEN t ELSE @]
        /\ shown' = [shown EXCEPT ![a] = IF visible THEN x ELSE @]
        /\ shownAt' = [shownAt EXCEPT ![a] = IF visible THEN t ELSE @]
    BY <1>3, <1>4 DEF ReceiveEvent
  <2>2. /\ shown \in [Agents -> MaybeActivity]
        /\ shownAt \in [Agents -> Nat] /\ streamAt \in [Agents -> Nat]
    BY DEF PageInv, PageTypeOK
  <2>3. /\ new => streamAt[a] < t
        /\ ~new => t <= streamAt[a]
        /\ visible => new /\ shownAt[a] <= t
        /\ new /\ ~visible => t <= shownAt[a]
    BY <1>4, <2>2 DEF IsNewer, EndsShown
  <2> HIDE DEF new, visible
  <2>4. /\ streamAt'[a] = IF new THEN t ELSE streamAt[a]
        /\ shown'[a] = IF visible THEN x ELSE shown[a]
        /\ shownAt'[a] = IF visible THEN t ELSE shownAt[a]
    BY <2>1, <2>2
  <2>5. Takes(a, x, t)
    BY <2>3, <2>4 DEF Takes
  <2> QED
    BY <2>1, <2>2, <2>5
<1>6. /\ Truth(a, shown'[a], shownAt'[a]) /\ streamAt'[a] <= agent[a].updatedAt
      /\ streamAt'[a] >= Report(a).at => InTouch(a)'
      /\ IsPresent(a, x, t) /\ (streamAt[a] >= t => InTouch(a)) => InTouch(a)'
      /\ \A y \in MaybeActivity, s \in Nat : t < s /\ IsPresent(a, y, s) => IsPresent(a, y, s)'
      /\ \A s \in Nat : t < s /\ streamAt[a] < s => streamAt'[a] < s
  BY <1>1, <1>4, <1>5, TakesLemma
<1>7. \A b \in Agents : Coming(b)' = Coming(b) /\ Report(b)' = Report(b) /\ Live(b)' = Live(b)
  BY <1>1 DEF Coming, Report, Live
<1>8. \A b \in Agents \ {a} :
         /\ InTouch(b) => InTouch(b)'
         /\ \A y \in MaybeActivity, s \in Nat : IsPresent(b, y, s) => IsPresent(b, y, s)'
  BY <1>1, <1>5, <1>7, Untouched DEF Undisturbed
<1>9. phase # "closed" /\ (connection = "open" => phase = "ready")
  <2>1. phase # "closed"
    BY <1>1 DEF PageInv, SocketOfPage
  <2>2. connection = "open" => phase # "connecting"
    BY <1>1, <1>2 DEF PageInv, SocketOfPage, IsEvent
  <2> QED
    BY <2>1, <2>2 DEF PageInv, PageTypeOK
<1>10. /\ SocketOfPage' /\ ChannelIsComplete' /\ StreamIsComplete' /\ StreamIsTrue'
       /\ Delivering' = Delivering
       /\ \A f \in Queued' : f \in Queued
       /\ \A f \in Queued : f \in Queued' \/ f = e
  BY <1>1, <1>3, <1>9, TailLemma
<1>11. Delivering => e \in Queued /\ \A f \in Queued' : e.sequence < f.sequence
  BY <1>1, <1>3, HeadIsFirst
<1>12. Delivering => \A f \in Queued : /\ f.agent \in Agents /\ f.activity \in MaybeActivity /\ f.at \in Nat
                                       /\ f.sequence \in Nat
  BY QueueLemma DEF Events
<1>13. StampsAreOrdered'
  BY <1>1 DEF PageInv, StampsAreOrdered
<1>14. RemovalIsLast'
  <2> SUFFICES ASSUME NEW b \in Agents, agent[b].stage = "deleting"
               PROVE  /\ agent[b].activity = NoActivity
                      /\ Delivering => \A f \in Queued' : f.agent = b =>
                            \E last \in Queued' : /\ last.agent = b /\ last.activity = NoActivity
                                                  /\ last.sequence >= f.sequence
    BY <1>1, <1>10 DEF RemovalIsLast, Delivering
  <2>1. agent[b].activity = NoActivity
    BY DEF PageInv, RemovalIsLast
  <2>2. ASSUME Delivering, NEW f \in Queued', f.agent = b
        PROVE  \E last \in Queued' : /\ last.agent = b /\ last.activity = NoActivity
                                     /\ last.sequence >= f.sequence
    <3>1. PICK last \in Queued : last.agent = b /\ last.activity = NoActivity /\ last.sequence >= f.sequence
      BY <1>10, <2>2 DEF PageInv, RemovalIsLast, Delivering
    <3>2. last # e
      BY <1>10, <1>11, <1>12, <2>2, <3>1
    <3> QED
      BY <1>10, <3>1, <3>2
  <2> QED
    BY <2>1, <2>2
<1>15. PageIsTrue'
  <2> SUFFICES ASSUME NEW b \in Agents
               PROVE  /\ Truth(b, shown'[b], shownAt'[b]) /\ streamAt'[b] <= agent[b].updatedAt
                      /\ agent[b].stage = "absent" => shown'[b] = NoActivity
    BY <1>1, <1>7 DEF PageInv, PageIsTrue, Truth
  <2>1. CASE b = a
    BY <1>4, <1>6, <2>1
  <2>2. CASE b # a
    BY <1>5, <2>2 DEF PageInv, PageIsTrue
  <2> QED
    BY <2>1, <2>2
<1>16. ToldIsShown'
  <2> SUFFICES ASSUME NEW b \in Agents, streamAt'[b] >= Report(b).at
               PROVE  InTouch(b)'
    BY <1>7 DEF ToldIsShown
  <2> QED
    BY <1>5, <1>6, <1>8 DEF PageInv, ToldIsShown
<1>17. QueueIsNews'
  <2> SUFFICES ASSUME Delivering, NEW f \in Queued'
               PROVE  /\ streamAt'[f.agent] < f.at
                      /\ \A g \in Queued' : g.agent = f.agent /\ g.sequence > f.sequence => g.at > f.at
                      /\ Live(f.agent) /\ IsLast(f)' => IsPresent(f.agent, f.activity, f.at)'
    BY <1>1, <1>7, <1>9, <1>10 DEF QueueIsNews, Live, Delivering
  <2>1. /\ streamAt[f.agent] < f.at
        /\ \A g \in Queued : g.agent = f.agent /\ g.sequence > f.sequence => g.at > f.at
        /\ Live(f.agent) /\ IsLast(f) => IsPresent(f.agent, f.activity, f.at)
    BY <1>10 DEF PageInv, QueueIsNews
  <2>2. f.agent \in Agents /\ f.activity \in MaybeActivity /\ f.at \in Nat /\ e.sequence < f.sequence
        /\ f.sequence \in Nat /\ e.sequence \in Nat
    BY <1>10, <1>11, <1>12
  <2>3. IsLast(f)' => IsLast(f)
    BY <1>10, <2>2 DEF IsLast
  <2>4. f.agent = a => t < f.at
    BY <1>4, <1>10, <1>11, <2>2 DEF PageInv, QueueIsNews
  <2>5. streamAt'[f.agent] < f.at
    BY <1>5, <1>6, <2>1, <2>2, <2>4
  <2>6. Live(f.agent) /\ IsLast(f)' => IsPresent(f.agent, f.activity, f.at)'
    BY <1>6, <1>8, <2>1, <2>2, <2>3, <2>4
  <2> QED
    BY <1>10, <2>1, <2>5, <2>6
<1>18. SnapshotIsPresent'
  BY <1>1, <1>9 DEF SnapshotIsPresent, Delivering
<1>19. QuietIsInTouch'
  <2> SUFFICES ASSUME Delivering, NEW b \in Agents, Live(b), ~Waiting(b)'
               PROVE  InTouch(b)'
    BY <1>1, <1>7, <1>10 DEF QuietIsInTouch
  <2>1. CASE b = a
    <3>1. \A f \in Queued : f.agent = a => f = e
      BY <1>10, <2>1 DEF Waiting
    <3>2. IsLast(e)
      BY <1>4, <1>11, <1>12, <3>1 DEF IsLast
    <3>3. IsPresent(a, x, t) /\ streamAt[a] < t
      BY <1>4, <1>11, <2>1, <3>2 DEF PageInv, QueueIsNews
    <3> QED
      BY <1>6, <2>1, <3>3 DEF PageInv, PageTypeOK
  <2>2. CASE b # a
    <3>1. ~Waiting(b)
      BY <1>4, <1>10, <2>2 DEF Waiting
    <3> QED
      BY <1>8, <1>9, <2>2, <3>1 DEF PageInv, QuietIsInTouch, Delivering
  <2> QED
    BY <2>1, <2>2
<1> QED
  BY <1>10, <1>13, <1>14, <1>15, <1>16, <1>17, <1>18, <1>19 DEF PageInv

-----------------------------------------------------------------------------
(* The theorems *)

\* All that is on its way to the page is true of the past of its agent, in order,
\* and the last of it is the present, whatever is sent, lost or closed.
THEOREM PageInductive == Spec => []PageInv
<1>1. PageInv /\ [Next]_vars => PageInv'
  <2> SUFFICES ASSUME PageInv, [Next]_vars
               PROVE  PageInv'
    OBVIOUS
  <2>1. PageTypeOK'
    BY TypeStep
  <2>2. CASE UNCHANGED vars
    <3>1. UNCHANGED <<agent, unsent, sequence, connection, snapshotSequence, channel, lagged, wire,
                      phase, shown, shownAt, streamAt, attached, terminal, breaks>>
      BY <2>2 DEF vars, serverVars, socketVars, pageVars, terminalVars
    <3>2. Queued' = Queued /\ Delivering' = Delivering /\ Passed' = Passed
      BY <3>1, SameQueue DEF Delivering, Passed
    <3>3. \A a \in Agents : /\ Coming(a)' = Coming(a) /\ Report(a)' = Report(a) /\ Live(a)' = Live(a)
                            /\ Waiting(a)' = Waiting(a)
      BY <3>1, <3>2 DEF Coming, Report, Live, Waiting
    <3>4. /\ StampsAreOrdered' /\ SocketOfPage' /\ ChannelIsComplete' /\ StreamIsComplete'
          /\ RemovalIsLast' /\ StreamIsTrue'
      BY <3>1, <3>2 DEF PageInv, StampsAreOrdered, SocketOfPage, ChannelIsComplete, StreamIsComplete,
         RemovalIsLast, StreamIsTrue, MessageIsTrue, EventIsTrue, Truth
    <3>5. PageIsTrue' /\ ToldIsShown' /\ QuietIsInTouch'
      BY <3>1, <3>2, <3>3 DEF PageInv, PageIsTrue, ToldIsShown, QuietIsInTouch, Truth, InTouch
    <3>6. QueueIsNews'
      BY <3>1, <3>2, SameNews
    <3>7. SnapshotIsPresent'
      BY <3>1, <3>2, <3>3 DEF PageInv, SnapshotIsPresent, InTouch, IsPresent
    <3> QED
      BY <2>1, <3>4, <3>5, <3>6, <3>7 DEF PageInv
  <2> QED
    BY <2>1, <2>2, SessionsKeep, SocketKeeps, TerminalKeeps, ConnectStep, ReceiveSnapshotStep,
       ReceiveEventStep, CloseStep, ForgetStep, BreakStep DEF Next, PageStep
<1> QED
  BY <1>1, PageInitial, PTL DEF Spec

\* The socket passes on every event, in order and once, between its snapshot and
\* the present, and nothing about an agent after its removal.
THEOREM StreamExact == Spec => []StreamIsExact
<1>1. PageInv => StreamIsExact
  <2> SUFFICES ASSUME PageInv
               PROVE  TypeOK
    BY DEF PageInv, StreamIsExact
  <2>1. \A a \in Agents : /\ agent[a].activityAt <= agent[a].updatedAt /\ agent[a].updatedAt <= MaxUpdates[a]
                          /\ agent[a].updatedAt \in Nat /\ MaxUpdates[a] \in Nat
    BY StampLemma, ActivityAssumption DEF PageInv, StampsAreOrdered
  <2>2. Range(channel) \subseteq Events /\ \A message \in Range(wire) : message \in Messages
    BY DEF Range, PageInv, PageTypeOK, ServerTypeOK
  <2>3. AgentActivityTypeOK
    BY <2>1, <2>2, MessageLemma DEF AgentActivityTypeOK, AgentStates, PageInv, PageTypeOK, ServerTypeOK
  <2>4. \A a \in Agents : shownAt[a] \in 0..MaxUpdates[a] /\ streamAt[a] \in 0..MaxUpdates[a]
    <3> SUFFICES ASSUME NEW a \in Agents
                 PROVE  shownAt[a] \in 0..MaxUpdates[a] /\ streamAt[a] \in 0..MaxUpdates[a]
      OBVIOUS
    <3>1. shownAt[a] \in Nat /\ streamAt[a] \in Nat
      BY DEF PageInv, PageTypeOK
    <3>2. shownAt[a] <= agent[a].updatedAt /\ streamAt[a] <= agent[a].updatedAt
      BY DEF PageInv, PageIsTrue, Truth
    <3> QED
      BY <2>1, <3>1, <3>2
  <2>5. \A a \in Agents : Range(terminal[a]) \subseteq Reports
    <3> SUFFICES ASSUME NEW a \in Agents
                 PROVE  Range(terminal[a]) \subseteq Reports
      OBVIOUS
    <3>1. terminal[a] \in Seq(Reports)
      BY DEF PageInv, PageTypeOK
    <3> QED
      BY <3>1 DEF Range
  <2> QED
    BY <2>3, <2>4, <2>5, PageAssumption DEF TypeOK, PageInv, PageTypeOK
<1> QED
  BY <1>1, PageInductive, PTL

\* When nothing is under way on the activity socket, the page shows of every live
\* agent what it does, whatever its terminal sockets still bring.
THEOREM SettledStreamCurrent == Spec => []SettledStreamIsCurrent
<1>1. PageInv => SettledStreamIsCurrent
  <2> SUFFICES ASSUME PageInv, phase = "ready", connection = "open", ~lagged, channel = <<>>, wire = <<>>,
                      NEW a \in Agents, Live(a)
               PROVE  shown[a] = agent[a].activity
    BY DEF SettledStreamIsCurrent, Current
  <2>1. Queued = {}
    BY InQueue
  <2>2. InTouch(a)
    BY <2>1 DEF PageInv, QuietIsInTouch, Delivering, Waiting
  <2>3. Truth(a, shown[a], shownAt[a]) /\ agent[a].activityAt \in Nat
    BY StampLemma DEF PageInv, PageIsTrue
  <2> QED
    BY <2>2, <2>3 DEF InTouch, Truth
<1> QED
  BY <1>1, PageInductive, PTL

\* Of a live agent nothing older is shown than before, unless a snapshot of
\* before its time takes the agent back.
THEOREM ShownAdvances == Spec => ShownNeverGoesBack
<1>1. ASSUME PageInv, [Next]_vars, NEW a \in Agents
      PROVE  \/ shownAt'[a] >= shownAt[a]
             \/ ~Live(a)
             \/ wire # <<>> /\ Head(wire).type = "snapshot" /\ a \notin DOMAIN Head(wire).reports
  <2> USE <1>1
  <2>1. shownAt \in [Agents -> Nat] /\ terminal \in [Agents -> Seq(Reports)]
    BY DEF PageInv, PageTypeOK
  <2>2. CASE UNCHANGED shownAt
    BY <2>1, <2>2
  <2>3. ASSUME NEW b \in Agents, ReceiveTerminal(b)
        PROVE  shownAt'[a] >= shownAt[a]
    <3> DEFINE report == Head(terminal[b])
    <3>1. report \in Reports
      BY <2>1, <2>3 DEF ReceiveTerminal
    <3>2. report.at \in Nat
      BY <3>1 DEF Reports
    <3>3. \/ shownAt' = shownAt
          \/ IsNewer(shownAt[b], report.at) /\ shownAt' = [shownAt EXCEPT ![b] = report.at]
      BY <2>3 DEF ReceiveTerminal
    <3> HIDE DEF report
    <3>4. shownAt[a] \in Nat /\ shownAt[b] \in Nat
      BY <2>1
    <3>5. CASE shownAt' = shownAt
      BY <3>4, <3>5
    <3>6. CASE IsNewer(shownAt[b], report.at) /\ shownAt' = [shownAt EXCEPT ![b] = report.at]
      <4>1. shownAt'[a] = IF a = b THEN report.at ELSE shownAt[a]
        BY <2>1, <3>6
      <4> QED
        BY <3>2, <3>4, <3>6, <4>1 DEF IsNewer
    <3> QED
      BY <3>3, <3>5, <3>6
  <2>4. CASE ReceiveSnapshot
    <3>1. CASE a \in DOMAIN Head(wire).reports
      <4>1. Head(wire) \in Messages
        BY <2>4 DEF ReceiveSnapshot, PageInv, PageTypeOK, ServerTypeOK
      <4>2. Head(wire).reports[a].at \in Nat
        BY <2>4, <3>1, <4>1, MessageLemma DEF ReceiveSnapshot, Reports
      <4> QED
        BY <2>1, <2>4, <3>1, <4>2 DEF ReceiveSnapshot
    <3> QED
      BY <2>4, <3>1 DEF ReceiveSnapshot
  <2>5. CASE ReceiveEvent
    <3>1. Head(wire) \in Messages /\ IsEvent(Head(wire))
      BY <2>5 DEF ReceiveEvent, PageInv, PageTypeOK, ServerTypeOK
    <3>2. Head(wire).event \in Events
      BY <3>1, MessageLemma
    <3>3. Head(wire).event.at \in Nat /\ Head(wire).event.agent \in Agents
      BY <3>2 DEF Events
    <3> QED
      BY <2>1, <2>5, <3>3 DEF ReceiveEvent, IsNewer, EndsShown
  <2>6. ASSUME NEW b \in Agents, Forget(b)
        PROVE  shownAt'[a] >= shownAt[a] \/ ~Live(a)
    BY <2>1, <2>6 DEF Forget, Live
  <2>7. CASE ServerStep \/ Serve \/ Connect \/ ReceiveClose \/ Break
    BY <2>2, <2>7 DEF ServerStep, Serve, Connect, ReceiveClose, Break, pageVars
  <2>8. ASSUME NEW b \in Agents, Attach(b) \/ Notify(b) \/ Detach(b)
        PROVE  shownAt'[a] >= shownAt[a]
    BY <2>1, <2>8 DEF Attach, Notify, Detach, pageVars
  <2>9. CASE UNCHANGED vars
    BY <2>2, <2>9 DEF vars, pageVars
  <2> QED
    BY <2>3, <2>4, <2>5, <2>6, <2>7, <2>8, <2>9 DEF Next, PageStep, TerminalStep
<1>2. PageInv /\ [Next]_vars =>
         [\A a \in Agents :
            \/ shownAt'[a] >= shownAt[a]
            \/ ~Live(a)
            \/ wire # <<>> /\ Head(wire).type = "snapshot" /\ a \notin DOMAIN Head(wire).reports]_vars
  BY <1>1
<1> QED
  BY <1>2, PageInductive, PTL DEF Spec, ShownNeverGoesBack
=============================================================================
