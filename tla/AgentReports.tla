---------------------------- MODULE AgentReports ----------------------------
(***************************************************************************)
(* How the events of an agent become the activity its session shows        *)
(* (agent/runtime/activity.rs).                                            *)
(*                                                                         *)
(* Codex and Trae start a process, a hook, for every event, many at a      *)
(* time; the hooks number their messages in a file they lock, and may be   *)
(* killed when they take long.  In OpenCode and Pi a plugin numbers them   *)
(* and sends one after the other.  The session's bridge reads each message *)
(* from a connection of its own and queues it; one task takes them from    *)
(* the queue and applies them.  Each says which conversation it is about.  *)
(*                                                                         *)
(* That task's identity lookup is one step here: it waits for a lock, but  *)
(* nothing else changes the identity of such a session (HistoryClaims has  *)
(* the steps).  The plugin's history-ready and Pi's port are left out.     *)
(***************************************************************************)
EXTENDS Naturals, Sequences, FiniteSets, FiniteSetsExt

CONSTANTS
    Ids,                \* what events call conversations: an id, a thread's name
    Resolves,           \* the conversation an id or a name stands for
    HookEvents,         \* the hooks' events that happen here
    PluginEvents,       \* the plugin's events that happen here
    PluginLimit,        \* 64 messages wait in the plugin
    ConnectionLimit,    \* CONNECTION_LIMIT
    QueueCapacity,      \* QUEUE_CAPACITY
    MaxEvents,          \* bound on the agent's events
    None

ASSUME AgentReportsAssumption ==
    /\ None \notin Ids /\ MaxEvents \in Nat
    /\ Resolves \in [Ids -> Ids] /\ \A id \in Ids : Resolves[Resolves[id]] = Resolves[id]
    /\ {PluginLimit, ConnectionLimit, QueueCapacity} \subseteq Nat \ {0}

VARIABLES
    reporter,       \* "hooks" or "plugin"
    events,         \* the agent's events so far: [name, id]
    hooks,          \* per event its hook: [stage, number]
    counter,        \* the number in the sequence file, None while it is empty
    queue,          \* the plugin's queue
    readers,        \* messages that are being read
    received,       \* the bridge's queue
    accepted,       \* the sequence number accepted last
    upstream,       \* the session's conversation
    alias,          \* identity_aliases, which has one entry: [of, is]
    shown,          \* the session's activity: [number, phase]
    bridge,         \* "open" or "stopped"
    lost            \* history: events of which no message arrived

agentVars == <<reporter, events>>
hookVars == <<hooks, counter>>
serverVars == <<accepted, upstream, alias, shown>>
vars == <<agentVars, hookVars, queue, readers, received, serverVars, bridge, lost>>

-----------------------------------------------------------------------------
(* What events mean *)

CodexEvents == {
    "SessionStart", "UserPromptSubmit", "PreToolUse", "PermissionRequest", "PostToolUse",
    "PreCompact", "PostCompact", "SubagentStart", "SubagentStop", "Stop", "SessionEnd"}
TraeEvents == CodexEvents \cup {"PostToolUseFailure", "Interrupt", "Notification"}

\* reports_for_hook; of a notification the type is meant.
HookPhases == [
    idle |-> {"SessionStart", "Stop", "SessionEnd", "Interrupt"},
    thinking |-> {"UserPromptSubmit", "PostToolUse", "PreCompact", "PostCompact", "SubagentStop"},
    tool |-> {"PreToolUse", "SubagentStart"},
    permission |-> {"PermissionRequest", "permission_prompt"},
    question |-> {"idle_prompt"},
    error |-> {"PostToolUseFailure"}]

\* Every event the hooks are set up for has a meaning, and one only.
ASSUME HooksAssumption ==
    \A e \in TraeEvents \ {"Notification"} :
        Cardinality({p \in DOMAIN HookPhases : e \in HookPhases[p]}) = 1

\* The OpenCode plugin's handleEvent, a name for each kind of event.
PluginPhases == [
    idle |-> {"session.created", "session.forked", "tui.session.select", "session.idle"},
    thinking |-> {"prompted", "replied", "tool.success", "compaction", "text", "reasoning"},
    tool |-> {"tool.called", "shell.started"},
    permission |-> {"permission.asked"},
    question |-> {"question.asked", "form.created"},
    retry |-> {"retried"},
    error |-> {"session.error", "step.failed", "tool.failed"}]

\* What the events mean that happen here is known, and None is no activity.
ASSUME EventsAssumption ==
    /\ \A name \in HookEvents : \E p \in DOMAIN HookPhases : name \in HookPhases[p]
    /\ \A name \in PluginEvents : \E p \in DOMAIN PluginPhases : name \in PluginPhases[p]
    /\ None \notin [event : Nat, number : Nat, phase : DOMAIN HookPhases \cup DOMAIN PluginPhases]

Phase(event) ==
    LET phases == IF reporter = "hooks" THEN HookPhases ELSE PluginPhases
    IN  CHOOSE p \in DOMAIN phases : event.name \in phases[p]

\* Events that make a conversation the plugin's current one.
Selects == {"session.created", "session.forked", "tui.session.select"}

Current ==
    LET chosen == {e \in DOMAIN events : events[e].name \in Selects}
    IN  IF chosen = {} THEN None ELSE events[Max(chosen)].id

-----------------------------------------------------------------------------

NoHook == [stage |-> "none", number |-> 0]

Init ==
    /\ reporter \in {"hooks", "plugin"}
    /\ events = <<>> /\ hooks = [e \in 1..MaxEvents |-> NoHook] /\ counter = 0
    /\ queue = <<>> /\ readers = {} /\ received = <<>>
    /\ accepted = 0 /\ alias = None /\ shown = None
    /\ upstream \in {None} \cup {Resolves[id] : id \in Ids}
    /\ bridge = "open" /\ lost = {}

NumberOf(e) == IF reporter = "hooks" THEN hooks[e].number ELSE e

Message(e, number) == [event |-> e, number |-> number]

(* Hooks *)

\* The agent starts a hook and goes on.
HookEvent(name, id) ==
    /\ reporter = "hooks" /\ Len(events) < MaxEvents
    /\ events' = Append(events, [name |-> name, id |-> id])
    /\ hooks' = [hooks EXCEPT ![Len(events) + 1].stage = "started"]
    /\ UNCHANGED <<reporter, counter, queue, readers, received, serverVars, bridge, lost>>

Holders == {e \in DOMAIN hooks : hooks[e].stage \in {"locked", "numbered"}}

Leave(e) == hooks' = [hooks EXCEPT ![e].stage = "gone"] /\ lost' = lost \cup {e}

\* lock_next_hook_sequence: lock, read the number and truncate the file; one
\* that is empty is not read.
Lock(e) ==
    /\ hooks[e].stage = "started" /\ Holders = {}
    /\ IF counter = None THEN Leave(e) /\ UNCHANGED counter
       ELSE /\ hooks' = [hooks EXCEPT ![e] = [stage |-> "locked", number |-> counter + 1]]
            /\ counter' = None
            /\ UNCHANGED lost
    /\ UNCHANGED <<agentVars, queue, readers, received, serverVars, bridge>>

WriteNumber(e) ==
    /\ hooks[e].stage = "locked"
    /\ hooks' = [hooks EXCEPT ![e].stage = "numbered"]
    /\ counter' = hooks[e].number
    /\ UNCHANGED <<agentVars, queue, readers, received, serverVars, bridge, lost>>

\* A connection is accepted when there is a permit for it.
Accepts == bridge = "open" /\ Cardinality(readers) < ConnectionLimit

\* send_hook_message: it does not wait for the bridge, and the lock goes.
SendHook(e) ==
    /\ hooks[e].stage = "numbered"
    /\ IF Accepts
       THEN /\ hooks' = [hooks EXCEPT ![e].stage = "gone"]
            /\ readers' = readers \cup {Message(e, hooks[e].number)}
            /\ UNCHANGED lost
       ELSE Leave(e) /\ UNCHANGED readers
    /\ UNCHANGED <<agentVars, counter, queue, received, serverVars, bridge>>

\* The agent kills a hook after a second.
KillHook(e) ==
    /\ hooks[e].stage \in {"started", "locked", "numbered"}
    /\ Leave(e)
    /\ UNCHANGED <<agentVars, counter, queue, readers, received, serverVars, bridge>>

(* The plugin *)

\* devhatchReport: a full queue gives up its newest message.
PluginEvent(name, id) ==
    /\ reporter = "plugin" /\ Len(events) < MaxEvents
    /\ name \in Selects \/ id = Current
    /\ LET number == Len(events) + 1
           full == Len(queue) >= PluginLimit
           kept == IF full THEN SubSeq(queue, 1, PluginLimit - 1) ELSE queue
       IN  /\ events' = Append(events, [name |-> name, id |-> id])
           /\ queue' = Append(kept, Message(number, number))
           /\ lost' = IF full THEN lost \cup {queue[PluginLimit].event} ELSE lost
    /\ UNCHANGED <<reporter, hookVars, readers, received, serverVars, bridge>>

\* devhatchFlush: the next when the connection of the last one is closed.
SendPlugin ==
    /\ reporter = "plugin" /\ queue # <<>> /\ readers = {}
    /\ queue' = Tail(queue)
    /\ IF Accepts THEN readers' = {Head(queue)} /\ UNCHANGED lost
       ELSE lost' = lost \cup {Head(queue).event} /\ UNCHANGED readers
    /\ UNCHANGED <<agentVars, hookVars, received, serverVars, bridge>>

-----------------------------------------------------------------------------
(* The bridge *)

\* read_message and queue_message, in whatever order the readers get there;
\* a full queue refuses.
Read(m) ==
    /\ bridge = "open"
    /\ readers' = readers \ {m}
    /\ IF Len(received) < QueueCapacity THEN received' = Append(received, m) /\ UNCHANGED lost
       ELSE lost' = lost \cup {m.event} /\ UNCHANGED received
    /\ UNCHANGED <<agentVars, hookVars, queue, serverVars, bridge>>

\* It takes longer than two seconds.
ReadFails(m) ==
    /\ bridge = "open"
    /\ readers' = readers \ {m} /\ lost' = lost \cup {m.event}
    /\ UNCHANGED <<agentVars, hookVars, queue, received, serverVars, bridge>>

\* (Mutation: the sequence number is not compared.)
IsAlwaysNew(m) == accepted >= 0 /\ m.number > 0
\* validate_envelope.
IsNew(m) == m.number > accepted

\* What the processor takes next.
Take(m) ==
    /\ bridge = "open" /\ received # <<>> /\ m = Head(received)
    /\ received' = Tail(received)
    /\ UNCHANGED <<agentVars, hookVars, queue, readers, bridge>>

Ignore(m) ==
    /\ Take(m) /\ ~IsNew(m)
    /\ lost' = lost \cup {m.event}
    /\ UNCHANGED serverVars

Activity(m) == [event |-> m.event, number |-> m.number, phase |-> Phase(events[m.event])]

\* The name by which the conversation was accepted, if it still is the current one.
IsAlias(id) == alias # None /\ alias.of = id /\ alias.is = upstream

\* The identity is known or refused: there is no such conversation, or
\* another session has it.  The activity counts if it is about the current one.
Apply(m) ==
    /\ Take(m) /\ IsNew(m) /\ accepted' = m.number
    /\ LET id == events[m.event].id
       IN  IF id = upstream \/ IsAlias(id)
           THEN shown' = Activity(m) /\ UNCHANGED lost
           ELSE lost' = lost \cup {m.event} /\ UNCHANGED shown
    /\ UNCHANGED <<upstream, alias>>

\* apply_identity: the session goes over to the conversation, or stays in it.
Identify(m) ==
    LET id == events[m.event].id
    IN  /\ Take(m) /\ IsNew(m) /\ accepted' = m.number
        /\ ~IsAlias(id)
        /\ upstream' = Resolves[id] /\ alias' = [of |-> id, is |-> Resolves[id]]
        /\ shown' = Activity(m)
        /\ UNCHANGED lost

\* The session ends or is removed: everything under way is dropped.
Stop ==
    /\ bridge = "open" /\ bridge' = "stopped"
    /\ readers' = {} /\ received' = <<>>
    /\ UNCHANGED <<agentVars, hookVars, queue, serverVars, lost>>

Process(m) == Ignore(m) \/ Apply(m) \/ Identify(m)

HookStep(e) == Lock(e) \/ WriteNumber(e) \/ SendHook(e)

Next ==
    \/ \E id \in Ids : (\E n \in HookEvents : HookEvent(n, id)) \/ (\E n \in PluginEvents : PluginEvent(n, id))
    \/ \E e \in DOMAIN hooks : HookStep(e) \/ KillHook(e)
    \/ SendPlugin
    \/ \E m \in readers : Read(m) \/ ReadFails(m)
    \/ \E m \in {received[i] : i \in DOMAIN received} : Process(m)
    \/ Stop

\* Hooks and the plugin get on, and the bridge's tasks run.
Fairness ==
    /\ \A e \in 1..MaxEvents : WF_vars(HookStep(e))
    /\ WF_vars(SendPlugin)
    /\ WF_vars(\E m \in readers : Read(m) \/ ReadFails(m))
    /\ WF_vars(received # <<>> /\ Process(Head(received)))

Spec == Init /\ [][Next]_vars /\ Fairness

-----------------------------------------------------------------------------
\* An older report never replaces a newer one, though hooks run at a time and
\* their connections are read in any order.
NeverGoesBack == [][shown # None /\ shown' # None => shown'.number >= shown.number]_vars

\* What a session shows is about the conversation it is in.
IsOfTheConversation == shown # None => Resolves[events[shown.event].id] = upstream

UnderWay == \/ \E e \in DOMAIN hooks : hooks[e].stage \in {"started", "locked", "numbered"}
            \/ queue # <<>> \/ readers # {} \/ received # <<>>

\* When nothing is under way, the session shows the newest of the events whose
\* message arrived, in the order of their numbers.
SettledIsNewest ==
    bridge = "open" /\ ~UnderWay =>
        \A e \in DOMAIN events \ lost : shown # None /\ NumberOf(e) <= shown.number

\* The last message the plugin has to send is of the last event.
PluginKeepsTheLast == queue # <<>> => queue[Len(queue)].event = Len(events)

\* All of it: what a session shows is of its conversation, the newest that
\* arrived, and never replaced by something older (validate_envelope,
\* process_messages, lock_next_hook_sequence, devhatchReport).
ReportsAreShown ==
    NeverGoesBack /\ [](IsOfTheConversation /\ SettledIsNewest /\ PluginKeepsTheLast)

\* All there is under way gets somewhere, whatever hooks are killed.
ReportsSettle == <>[]~UnderWay
=============================================================================
