------------------------- MODULE AgentActivityPage -------------------------
(***************************************************************************)
(* What a page shows of the agents' activities.  It learns of them from    *)
(* two sides: the activity socket of AgentActivity, and the terminal       *)
(* socket of every agent it displays, which repeats activities (and never  *)
(* their end) from another channel, at another time.  Two time stamps per  *)
(* agent decide what is new: streamAt for the activity socket, shownAt for *)
(* what is shown; 0 stands for undefined.                                  *)
(*                                                                         *)
(* At most one activity socket of a page is current; messages of the       *)
(* others are ignored and left out.  Authentication, which ends a socket   *)
(* for good, and notifications are left out.                               *)
(***************************************************************************)
EXTENDS AgentActivity

CONSTANTS MaxBreaks     \* bound on the sockets lost to the network

ASSUME PageAssumption == MaxBreaks \in Nat

VARIABLES
    phase,      \* the page's activity socket: "closed", "connecting" or "ready"
    shown,      \* agentActivities
    shownAt,    \* agentActivityDisplayUpdatedAt
    streamAt,   \* agentActivityStreamUpdatedAt
    attached,   \* agents whose terminal socket is open
    terminal,   \* what these sockets sent and the page has not received
    breaks      \* sockets lost so far

pageVars == <<phase, shown, shownAt, streamAt>>
terminalVars == <<attached, terminal>>
vars == <<serverVars, socketVars, pageVars, terminalVars, breaks>>

Init ==
    /\ AgentActivityInit
    /\ phase = "closed"
    /\ shown = [a \in Agents |-> NoActivity]
    /\ shownAt = [a \in Agents |-> 0]
    /\ streamAt = [a \in Agents |-> 0]
    /\ attached = {}
    /\ terminal = [a \in Agents |-> <<>>]
    /\ breaks = 0

-----------------------------------------------------------------------------
(* Terminal sockets *)

\* handle_socket of a session: snapshot_and_subscribe, and the activity if any.
Attach(a) ==
    /\ Live(a)
    /\ a \notin attached
    /\ attached' = attached \cup {a}
    /\ terminal' = [terminal EXCEPT ![a] =
                       IF agent[a].activity = NoActivity THEN <<>>
                       ELSE <<[activity |-> agent[a].activity, at |-> agent[a].activityAt]>>]
    /\ UNCHANGED <<serverVars, socketVars, pageVars, breaks>>

\* publish_agent_activity after the event lock: the session's own channel.
Notify(a) ==
    /\ unsent[a].activity # NoActivity
    /\ unsent' = [unsent EXCEPT ![a] = [activity |-> NoActivity, at |-> 0]]
    /\ terminal' = [terminal EXCEPT ![a] = IF a \in attached THEN Append(@, unsent[a]) ELSE @]
    /\ UNCHANGED <<agent, sequence, socketVars, pageVars, attached, breaks>>

\* The terminal is no longer displayed, or its socket is lost.
Detach(a) ==
    /\ a \in attached
    /\ attached' = attached \ {a}
    /\ terminal' = [terminal EXCEPT ![a] = <<>>]
    /\ UNCHANGED <<serverVars, socketVars, pageVars, breaks>>

\* (Mutation: what arrives last is shown.)
IsNewerAlways(known, at) == TRUE
\* isNewerAgentActivity
IsNewer(known, at) == known = 0 \/ at > known

\* setAgentActivity from the "agentActivity" message of a terminal socket.
ReceiveTerminal(a) ==
    /\ terminal[a] # <<>>
    /\ terminal' = [terminal EXCEPT ![a] = Tail(@)]
    /\ LET report == Head(terminal[a])
       IN  IF IsNewer(shownAt[a], report.at)
           THEN /\ shown' = [shown EXCEPT ![a] = report.activity]
                /\ shownAt' = [shownAt EXCEPT ![a] = report.at]
           ELSE UNCHANGED <<shown, shownAt>>
    /\ UNCHANGED <<serverVars, socketVars, phase, streamAt, attached, breaks>>

-----------------------------------------------------------------------------
(* The activity socket, seen from the page *)

\* connect(), first or from the retry timer.
Connect ==
    /\ phase = "closed"
    /\ phase' = "connecting"
    /\ connection' = "opening"
    /\ channel' = <<>>
    /\ lagged' = FALSE
    /\ wire' = <<>>
    /\ UNCHANGED <<serverVars, snapshotSequence, shown, shownAt, streamAt, terminalVars, breaks>>

\* applyAgentActivitySnapshot
ReceiveSnapshot ==
    /\ wire # <<>> /\ Head(wire).type = "snapshot"
    /\ wire' = Tail(wire)
    /\ phase' = "ready"
    /\ LET reports == Head(wire).reports
           news == {a \in DOMAIN reports : IsNewer(streamAt[a], reports[a].at)}
           visible == {a \in news : shownAt[a] = 0 \/ reports[a].at > shownAt[a]}
       IN  /\ shown' = [a \in Agents |->
                           IF a \in visible THEN reports[a].activity
                           ELSE IF a \in DOMAIN reports THEN shown[a] ELSE NoActivity]
           /\ shownAt' = [a \in Agents |->
                             IF a \in visible THEN reports[a].at
                             ELSE IF a \in DOMAIN reports THEN shownAt[a] ELSE 0]
           /\ streamAt' = [a \in Agents |->
                              IF a \in news THEN reports[a].at
                              ELSE IF a \in DOMAIN reports THEN streamAt[a] ELSE 0]
    /\ UNCHANGED <<serverVars, connection, snapshotSequence, channel, lagged, terminalVars, breaks>>

\* Whether the end of an activity reaches what is shown.
EndsShown(a, at) == shownAt[a] = 0 \/ at >= shownAt[a]

\* applyAgentActivityEvent
ReceiveEvent ==
    /\ wire # <<>> /\ IsEvent(Head(wire))
    /\ wire' = Tail(wire)
    /\ LET event == Head(wire).event
           a == event.agent
           new == IsNewer(streamAt[a], event.at)
           visible == new /\ IF event.activity = NoActivity THEN EndsShown(a, event.at)
                             ELSE IsNewer(shownAt[a], event.at)
       IN  /\ streamAt' = [streamAt EXCEPT ![a] = IF new THEN event.at ELSE @]
           /\ shown' = [shown EXCEPT ![a] = IF visible THEN event.activity ELSE @]
           /\ shownAt' = [shownAt EXCEPT ![a] = IF visible THEN event.at ELSE @]
    /\ UNCHANGED <<serverVars, connection, snapshotSequence, channel, lagged, phase,
                   terminalVars, breaks>>

\* (Mutation: the page takes the close for one of an older socket.)
CloseIgnored ==
    /\ wire # <<>> /\ Head(wire).type = "close"
    /\ wire' = <<>>
    /\ UNCHANGED <<serverVars, connection, snapshotSequence, channel, lagged,
                   pageVars, terminalVars, breaks>>

\* The close event; SocketConnection schedules a retry.
ReceiveClose ==
    /\ wire # <<>> /\ Head(wire).type = "close"
    /\ wire' = <<>>
    /\ phase' = "closed"
    /\ UNCHANGED <<serverVars, connection, snapshotSequence, channel, lagged,
                   shown, shownAt, streamAt, terminalVars, breaks>>

\* The network loses the socket, or the page gives up waiting for the snapshot:
\* some of what was sent still arrives.
Break ==
    /\ phase # "closed"
    /\ connection # "none"
    /\ breaks < MaxBreaks
    /\ breaks' = breaks + 1
    /\ connection' = "none"
    /\ channel' = <<>>
    /\ lagged' = FALSE
    /\ \E n \in 0..Len(wire) : wire' = Append(SubSeq(wire, 1, n), CloseMessage)
    /\ UNCHANGED <<serverVars, snapshotSequence, pageVars, terminalVars>>

\* deleteSession of the page, after the server answered that the agent is gone.
Forget(a) ==
    /\ agent[a].stage = "deleting"
    /\ shown' = [shown EXCEPT ![a] = NoActivity]
    /\ shownAt' = [shownAt EXCEPT ![a] = 0]
    /\ streamAt' = [streamAt EXCEPT ![a] = 0]
    /\ UNCHANGED <<serverVars, socketVars, phase, terminalVars, breaks>>

-----------------------------------------------------------------------------

ServerStep == (\E a \in Agents : SessionStep(a)) /\ UNCHANGED <<pageVars, terminalVars, breaks>>

Serve == SocketStep /\ UNCHANGED <<pageVars, terminalVars, breaks>>

PageStep == Connect \/ ReceiveSnapshot \/ ReceiveEvent \/ ReceiveClose

TerminalStep(a) == Attach(a) \/ Notify(a) \/ Detach(a) \/ ReceiveTerminal(a)

Next ==
    \/ ServerStep
    \/ Serve
    \/ PageStep
    \/ \E a \in Agents : TerminalStep(a) \/ Forget(a)
    \/ Break

Spec == Init /\ [][Next]_vars

\* The task of the socket runs, messages arrive, and the retry timer fires.
FairSpec == Spec /\ WF_vars(Serve) /\ WF_vars(PageStep)

-----------------------------------------------------------------------------

\* Type invariant.
TypeOK ==
    /\ AgentActivityTypeOK
    /\ phase \in {"closed", "connecting", "ready"}
    /\ shown \in [Agents -> MaybeActivity]
    /\ \A a \in Agents : shownAt[a] \in 0..MaxUpdates[a] /\ streamAt[a] \in 0..MaxUpdates[a]
    /\ attached \subseteq Agents
    /\ \A a \in Agents : Range(terminal[a]) \subseteq Reports
    /\ breaks \in 0..MaxBreaks

\* What the socket passes on is every event, in order and once, and of an agent
\* that is removed nothing after its removal.
StreamIsExact == TypeOK /\ RemovalIsLast /\ StreamIsComplete

Current == \A a \in Agents : Live(a) => shown[a] = agent[a].activity

\* When the activity socket has delivered everything, the page shows of every
\* live agent what it is doing, whatever its terminal socket still delivers.
SettledStreamIsCurrent ==
    phase = "ready" /\ connection = "open" /\ ~lagged /\ channel = <<>> /\ wire = <<>> => Current

\* Of a live agent whose activity the page knows, nothing older is ever shown,
\* unless a snapshot taken before the agent was inserted takes it back.
ShownNeverGoesBack ==
    [][\A a \in Agents :
          \/ shownAt'[a] >= shownAt[a]
          \/ ~Live(a)
          \/ wire # <<>> /\ Head(wire).type = "snapshot" /\ a \notin DOMAIN Head(wire).reports]_vars

\* However often the socket lags, once agents are quiet the page shows what
\* they are doing, and goes on doing so.
PageCatchesUp == <>[]Current

=============================================================================
