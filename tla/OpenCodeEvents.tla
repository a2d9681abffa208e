--------------------------- MODULE OpenCodeEvents ---------------------------
(***************************************************************************)
(* How the server follows an OpenCode 1 runtime (agent/runtime/events.rs). *)
(*                                                                         *)
(* A task per session reads the runtime's event stream.  When it connects, *)
(* and when the session goes over to a conversation the runtime created,   *)
(* it also asks for the runtime's status, which tells less than the events *)
(* do.  Connections fail and break at any time, with what they carry; the  *)
(* task tries again every 100 ms until the session ends.                   *)
(***************************************************************************)
EXTENDS Naturals, Sequences, FiniteSets

CONSTANTS
    Ids,            \* conversations
    Names,          \* the events that happen here
    MaxEvents,      \* bound on them
    MaxFaults,      \* bound on connections that fail, break or give no answer
    None

VARIABLES
    phase,          \* what the runtime does per conversation, None before it is created
    connected,      \* whether the event stream is open at the runtime's end
    stream,         \* events on their way
    watcher,        \* what the task does next
    answer,         \* the status it was told
    upstream,       \* the session's conversation
    shown,          \* the session's activity
    untold,         \* whether no status or event came since the stream was opened
    ended,          \* whether the session has ended
    count, faults   \* events and faults so far

runtimeVars == <<phase, count>>
vars == <<runtimeVars, connected, stream, watcher, answer, upstream, shown, untold, ended, faults>>

-----------------------------------------------------------------------------
(* What events mean: parse_activity_event, activity_from_part, tool_activity *)

EventPhases == [
    idle |-> {"session.idle", "status idle"},
    thinking |-> {"status busy", "permission.replied", "question.replied", "question.rejected",
                  "message.part.delta", "part text", "part reasoning", "tool.success", "shell.ended",
                  "prompted", "step.started", "step.ended", "compaction"},
    tool |-> {"tool.called", "tool.progress", "shell.started", "part tool", "part subtask"},
    permission |-> {"permission.asked"},
    question |-> {"question.asked"},
    retry |-> {"status retry", "retried", "part retry"},
    error |-> {"session.error", "step.failed", "tool.failed", "part tool error"}]

PhaseOf(name) == CHOOSE p \in DOMAIN EventPhases : name \in EventPhases[p]

\* activity_from_status, of what the runtime says: a conversation it does not
\* name is idle, and one that waits for an answer counts as busy.
StatusOf(p) ==
    CASE p \in {"thinking", "tool", "permission", "question"} -> "thinking"
      [] p = "retry" -> "retry"
      [] OTHER -> "idle"

-----------------------------------------------------------------------------

Init ==
    /\ \E resumed \in Ids \cup {None} :
          /\ upstream = resumed
          /\ phase = [id \in Ids |-> IF id = resumed THEN "idle" ELSE None]
    /\ connected = FALSE /\ stream = <<>> /\ watcher = "connect"
    /\ answer = None /\ shown = None /\ untold = TRUE
    /\ ended = FALSE /\ count = 0 /\ faults = 0

(* The runtime *)

\* (Mutation: the status is asked before the stream is opened.)
HearsLate == connected /\ watcher = "read"
Hears == connected

Emit(event) ==
    /\ count < MaxEvents /\ count' = count + 1 /\ ~ended
    /\ stream' = IF Hears THEN Append(stream, event) ELSE stream
    /\ UNCHANGED <<connected, watcher, answer, upstream, shown, untold, ended, faults>>

Create(id) ==
    /\ phase[id] = None
    /\ phase' = [phase EXCEPT ![id] = "idle"]
    /\ Emit([name |-> "session.created", id |-> id])

Go(id, name) ==
    /\ phase[id] # None
    /\ phase' = [phase EXCEPT ![id] = PhaseOf(name)]
    /\ Emit([name |-> name, id |-> id])

\* The stream breaks, and what it carried from some point on is lost.
Break(n) ==
    /\ connected /\ faults < MaxFaults /\ faults' = faults + 1
    /\ connected' = FALSE /\ stream' = SubSeq(stream, 1, n)
    /\ UNCHANGED <<runtimeVars, watcher, answer, upstream, shown, untold, ended>>

End ==
    /\ ~ended /\ ended' = TRUE
    /\ UNCHANGED <<runtimeVars, connected, stream, watcher, answer, upstream, shown, untold, faults>>

-----------------------------------------------------------------------------
(* The watcher *)

Watcher(from, to) ==
    /\ watcher = from /\ watcher' = to
    /\ UNCHANGED <<runtimeVars, ended>>

Connect ==
    /\ Watcher("connect", "ask")
    /\ connected' = TRUE /\ untold' = TRUE
    /\ UNCHANGED <<stream, answer, upstream, shown, faults>>

\* No answer in two seconds, an error, a status that is none of success.
ConnectFails ==
    /\ Watcher("connect", "retry")
    /\ faults < MaxFaults /\ faults' = faults + 1
    /\ UNCHANGED <<connected, stream, answer, upstream, shown, untold>>

\* publish_status_snapshot: without a conversation it has nothing to ask.
Ask ==
    /\ IF upstream = None THEN Watcher("ask", "read") /\ UNCHANGED answer
       ELSE Watcher("ask", "tell") /\ answer' = StatusOf(phase[upstream])
    /\ UNCHANGED <<connected, stream, upstream, shown, untold, faults>>

AskFails ==
    /\ Watcher("ask", "read")
    /\ faults < MaxFaults /\ faults' = faults + 1
    /\ UNCHANGED <<connected, stream, answer, upstream, shown, untold>>

Tell ==
    /\ Watcher("tell", "read")
    /\ shown' = answer /\ answer' = None /\ untold' = FALSE
    /\ UNCHANGED <<connected, stream, upstream, faults>>

Take(event) == stream # <<>> /\ event = Head(stream) /\ stream' = Tail(stream)

\* update_created_session: the identity is accepted, and its status asked, or not.
Created(event) ==
    /\ Take(event) /\ event.name = "session.created"
    /\ \/ /\ Watcher("read", "ask")
          /\ upstream' = event.id /\ untold' = TRUE
          /\ shown' = IF event.id = upstream THEN shown ELSE None
       \/ Watcher("read", "read") /\ UNCHANGED <<upstream, shown, untold>>
    /\ UNCHANGED <<connected, answer, faults>>

Activity(event) ==
    /\ Take(event) /\ event.name # "session.created"
    /\ Watcher("read", "read")
    /\ IF event.id = upstream THEN shown' = PhaseOf(event.name) /\ untold' = FALSE
       ELSE UNCHANGED <<shown, untold>>
    /\ UNCHANGED <<connected, answer, upstream, faults>>

EndOfStream ==
    /\ Watcher("read", "retry")
    /\ ~connected /\ stream = <<>>
    /\ UNCHANGED <<connected, stream, answer, upstream, shown, untold, faults>>

Retry ==
    /\ Watcher("retry", "connect")
    /\ UNCHANGED <<connected, stream, answer, upstream, shown, untold, faults>>

\* It notices the end of the session wherever it waits for something else.
Stop ==
    /\ ended /\ watcher \in {"connect", "read", "retry"}
    /\ watcher' = "stopped" /\ connected' = FALSE /\ stream' = <<>>
    /\ UNCHANGED <<runtimeVars, answer, upstream, shown, untold, ended, faults>>

Read == stream # <<>> /\ (Created(Head(stream)) \/ Activity(Head(stream)))

Work ==
    Connect \/ ConnectFails \/ Ask \/ AskFails \/ Tell \/ Read \/ EndOfStream \/ Retry

Next ==
    \/ \E id \in Ids : Create(id) \/ \E name \in Names : Go(id, name)
    \/ \E n \in 0..Len(stream) : Break(n)
    \/ End \/ Work \/ Stop

\* The task runs; it waits for the stream and the end at a time.
Spec == Init /\ [][Next]_vars /\ WF_vars(Work) /\ WF_vars(Stop)

-----------------------------------------------------------------------------
\* A session whose stream is read to its end shows what the runtime does, as
\* far as the runtime told; waiting may be shown as busy after a new connection.
UpToDate == shown \in {phase[upstream], StatusOf(phase[upstream])}
SettledIsUpToDate ==
    watcher = "read" /\ connected /\ stream = <<>> /\ upstream # None /\ ~untold => UpToDate

\* In the end the session is up to date, unless it has no conversation, or the
\* status request failed and the runtime has been silent since; and the task
\* does not outlive its session.
Followed ==
    IF ended THEN watcher = "stopped"
    ELSE upstream = None \/ UpToDate \/ (watcher = "read" /\ untold)

FollowsTheRuntime == <>[]Followed
=============================================================================
