------------------------------ MODULE PiImages ------------------------------
(* Pasting an image into Pi.  The server (agent/runtime_input.rs) posts it   *)
(* to a port that Pi's extension (agent/launch/workspace.rs) listens at; the *)
(* extension reports the port, prepares the image, keeps it and puts a       *)
(* marker into Pi's editor, and the next input takes the image.  Pi changes  *)
(* its session, asks the user or ends at any time between.  An identifier is *)
(* posted once, so the answers to a repeated one do not occur.               *)
EXTENDS FiniteSets, Naturals, Sequences

CONSTANTS
    Requests,   \* the paste requests
    Limit,      \* the images that are kept or being prepared
    Queue,      \* the reports that wait for the connection before them
    Changes,    \* bound: starts and shutdowns of Pi's session
    None

VARIABLES
    at,         \* the server's stage of each request
    answer,     \* what the request answered
    lock,       \* who holds the session's runtime_input
    notified,   \* the waiter for a port: none, registered or woken
    port,       \* the port the server knows; 0 is no port
    target,     \* the port a request was sent to
    lost,       \* a report was lost
    reports,    \* the reports on their way; Other is any other report
    running,    \* Pi's session: "none", "starting", "opening" or "runs"
    generation, \* serverGeneration
    listening,  \* the generation that listens; its port is the same number
    shutting,   \* shuttingDown
    prompt,     \* uiPromptActive
    handler,    \* the extension's stage of each request
    accepted,   \* the generation that took it
    reply,      \* the status it was given; "late" after its fifteen seconds
    cut,        \* its connection is gone
    pending,    \* pendingImages
    editor,     \* the markers in the editor
    got,        \* the images that an input took, and how often
    live        \* Pi runs

serverVars == <<at, answer, lock, notified, target>>
portVars == <<port, lost, reports>>
sessionVars == <<running, generation, listening, shutting, live>>
handlerVars == <<handler, accepted, reply, cut>>
imageVars == <<pending, editor, got>>
vars == <<serverVars, portVars, sessionVars, prompt, handlerVars, imageVars>>

Ports == 0..Changes
Other == Changes + 1
TypeOK ==
    /\ at \in [Requests -> {"new", "endpoint", "check", "wait", "sent", "done"}]
    /\ answer \in [Requests -> {None, "ok", "busy", "invalid", "unavailable", "dropped"}]
    /\ lock \in Requests \cup {None}
    /\ notified \in {"none", "registered", "woken"}
    /\ port \in Ports /\ target \in [Requests -> Ports] /\ lost \in BOOLEAN
    /\ reports \in Seq(0..Other) /\ Len(reports) <= Queue
    /\ running \in {"none", "starting", "opening", "runs"}
    /\ generation \in Ports /\ listening \in Ports
    /\ shutting \in BOOLEAN /\ prompt \in BOOLEAN /\ live \in BOOLEAN
    /\ handler \in [Requests -> {"none", "body", "resize", "ended"}]
    /\ accepted \in [Requests -> Ports]
    /\ cut \in [Requests -> BOOLEAN]
    /\ reply \in [Requests -> {None, "pasted", "late", "conflict", "failed"}]
    /\ pending \subseteq Requests /\ editor \subseteq Requests
    /\ got \in [Requests -> 0..2]

Init ==
    /\ at = [r \in Requests |-> "new"] /\ answer = [r \in Requests |-> None]
    /\ lock = None /\ notified = "none"
    /\ port = 0 /\ target = [r \in Requests |-> 0] /\ lost = FALSE
    /\ reports = <<>>
    /\ running = "none" /\ generation = 0 /\ listening = 0
    /\ shutting = FALSE /\ prompt = FALSE /\ live = TRUE
    /\ handler = [r \in Requests |-> "none"] /\ accepted = [r \in Requests |-> 0]
    /\ cut = [r \in Requests |-> FALSE]
    /\ reply = [r \in Requests |-> None]
    /\ pending = {} /\ editor = {} /\ got = [r \in Requests |-> 0]

-----------------------------------------------------------------------------
(* The server.                                                               *)
Go(r, stage) == at' = [at EXCEPT ![r] = stage]
Answer(r, result) ==
    /\ Go(r, "done")
    /\ answer' = [answer EXCEPT ![r] = result]
    /\ lock' = IF lock = r THEN None ELSE lock
    /\ notified' = IF lock = r THEN "none" ELSE notified
Send(r) ==
    /\ Go(r, "sent")
    /\ target' = [target EXCEPT ![r] = port]
    /\ notified' = "none"
    /\ UNCHANGED <<answer, lock>>

\* One paste at a time.
Lock(r) ==
    /\ at[r] = "new" /\ lock = None
    /\ IF live THEN Go(r, "endpoint") /\ lock' = r /\ UNCHANGED <<answer, notified>>
       ELSE Answer(r, "unavailable")
    /\ UNCHANGED <<target, portVars, sessionVars, prompt, handlerVars, imageVars>>

\* ready_runtime_endpoint: it registers for the next port before it looks.
Register(r) == notified' = "registered"

Enable(r) ==
    /\ at[r] = "endpoint" /\ Go(r, "check") /\ Register(r)
    /\ UNCHANGED <<answer, lock, target, portVars, sessionVars, prompt, handlerVars, imageVars>>

Check(r) ==
    /\ at[r] = "check"
    /\ IF port # 0 THEN Send(r)
       ELSE Go(r, "wait") /\ UNCHANGED <<answer, lock, notified, target>>
    /\ UNCHANGED <<portVars, sessionVars, prompt, handlerVars, imageVars>>

Woken(r) ==
    /\ at[r] = "wait" /\ notified = "woken"
    /\ IF port # 0 THEN Send(r) ELSE Answer(r, "unavailable") /\ UNCHANGED target
    /\ UNCHANGED <<portVars, sessionVars, prompt, handlerVars, imageVars>>

NoPort(r) ==
    /\ at[r] = "wait" /\ notified # "woken"
    /\ Answer(r, "unavailable")
    /\ UNCHANGED <<target, portVars, sessionVars, prompt, handlerVars, imageVars>>

\* The answer of the extension; a connection that is refused or cut has none,
\* unless it was on its way.
Result(status) == CASE status = "pasted" -> "ok" [] status = "conflict" -> "busy"
                    [] status = "failed" -> "invalid" [] OTHER -> "unavailable"
Answered(r) ==
    /\ at[r] = "sent"
    /\ \/ reply[r] # None /\ Answer(r, Result(reply[r])) /\ UNCHANGED cut
       \/ /\ cut[r] \/ (~live \/ (handler[r] = "none" /\ listening # target[r]))
          /\ Answer(r, "unavailable")
          /\ cut' = [cut EXCEPT ![r] = TRUE]
    /\ UNCHANGED <<target, portVars, sessionVars, prompt, handler, accepted, reply, imageVars>>

\* Eighteen seconds without an answer, or the browser's request is gone.
Abandon(r) ==
    /\ at[r] # "done"
    /\ \/ at[r] = "sent" /\ Answer(r, "unavailable")
       \/ Answer(r, "dropped")
    /\ cut' = [cut EXCEPT ![r] = (at[r] = "sent")]
    /\ UNCHANGED <<target, portVars, sessionVars, prompt, handler, accepted, reply, imageVars>>

\* update_pi_port, report by report.
Deliver ==
    /\ reports # <<>> /\ reports' = Tail(reports)
    /\ LET report == Head(reports) IN
       IF report = Other THEN UNCHANGED <<port, notified>>
       ELSE /\ port' = report
            /\ notified' = IF report # 0 /\ notified = "registered" THEN "woken" ELSE notified
    /\ UNCHANGED <<at, answer, lock, target, lost, sessionVars, prompt, handlerVars, imageVars>>

\* Bound: one report is lost on its way.
Lose ==
    /\ reports # <<>> /\ ~lost /\ reports' = Tail(reports)
    /\ lost' = TRUE
    /\ UNCHANGED <<serverVars, port, sessionVars, prompt, handlerVars, imageVars>>

-----------------------------------------------------------------------------
(* The extension.  A report that finds the queue full replaces the last one. *)
Report(report) ==
    IF Len(reports) < Queue
    THEN reports' = Append(reports, report) /\ UNCHANGED lost
    ELSE /\ reports' = [reports EXCEPT ![Queue] = report]
         /\ lost' = (lost \/ (reports[Queue] # Other /\ report = Other))

\* (Mutation: a request is only checked when it arrives.)
ChecksOnArrival(r) == TRUE

Current(r) == accepted[r] = generation /\ ~shutting /\ ~prompt

Expired(r) == reply[r] = "late"
Handler(r, stage) == handler' = [handler EXCEPT ![r] = stage]
Reply(r, status) ==
    /\ Handler(r, "ended")
    /\ reply' = [reply EXCEPT ![r] = IF @ = None THEN status ELSE @]

\* A request may still arrive when its client is gone.
Processing == {r \in Requests : handler[r] \in {"body", "resize"}}
Arrive(r) ==
    /\ live /\ target[r] # 0 /\ target[r] = listening /\ handler[r] = "none"
    /\ at[r] = "sent" \/ cut[r]
    /\ accepted' = [accepted EXCEPT ![r] = listening]
    /\ IF \/ listening # generation \/ shutting \/ prompt
          \/ Cardinality(pending) + Cardinality(Processing) >= Limit
       THEN Reply(r, "conflict")
       ELSE Handler(r, "body") /\ UNCHANGED reply
    /\ UNCHANGED <<serverVars, portVars, sessionVars, prompt, cut, imageVars>>

Body(r) ==
    /\ live /\ handler[r] = "body"
    /\ \/ Expired(r) /\ Handler(r, "ended") /\ UNCHANGED reply
       \/ ~Expired(r) /\ ~Current(r) /\ Reply(r, "conflict")
       \/ ~Expired(r) /\ Current(r) /\ Handler(r, "resize") /\ UNCHANGED reply
       \/ (cut[r] \/ Expired(r)) /\ Reply(r, "failed")
    /\ UNCHANGED <<serverVars, portVars, sessionVars, prompt, accepted, cut, imageVars>>

Resized(r) ==
    /\ live /\ handler[r] = "resize"
    /\ \/ Reply(r, "failed") /\ UNCHANGED <<pending, editor>>
       \/ Expired(r) /\ Handler(r, "ended") /\ UNCHANGED <<reply, pending, editor>>
       \/ ~Expired(r) /\ ~Current(r) /\ Reply(r, "conflict") /\ UNCHANGED <<pending, editor>>
       \/ /\ ~Expired(r) /\ Current(r)
          /\ Reply(r, "pasted")
          /\ pending' = pending \cup {r} /\ editor' = editor \cup {r}
    /\ UNCHANGED <<serverVars, portVars, sessionVars, prompt, accepted, cut, got>>

Expire(r) ==
    /\ live /\ r \in Processing /\ ~Expired(r)
    /\ reply' = [reply EXCEPT ![r] = "late"]
    /\ UNCHANGED <<serverVars, portVars, sessionVars, prompt, handler, accepted, cut, imageVars>>

\* closeAllConnections
Close == cut' = [r \in Requests |-> cut[r] \/ (accepted[r] # 0 /\ accepted[r] = listening)]

SessionStart ==
    /\ live /\ running \in {"none", "runs"} /\ generation < Changes
    /\ running' = "starting"
    /\ generation' = generation + 1
    /\ shutting' = TRUE
    /\ Report(0)
    /\ Close /\ listening' = 0
    /\ UNCHANGED <<serverVars, port, live, prompt, handler, accepted, reply, imageVars>>

\* The server of the session before is closed.
Clear ==
    /\ live /\ running = "starting" /\ running' = "opening"
    /\ pending' = {}
    /\ shutting' = FALSE
    /\ Report(Other)
    /\ UNCHANGED <<serverVars, port, generation, listening, live, prompt, handlerVars, editor, got>>

Listen ==
    /\ live /\ running = "opening" /\ running' = "runs"
    /\ listening' = generation
    /\ Report(generation)
    /\ UNCHANGED <<serverVars, port, generation, shutting, live, prompt, handlerVars, imageVars>>

SessionShutdown ==
    /\ live /\ running = "runs" /\ generation < Changes
    /\ running' = "none"
    /\ generation' = generation + 1
    /\ shutting' = TRUE /\ prompt' = FALSE
    /\ Report(0)
    /\ pending' = {}
    /\ Close /\ listening' = 0
    /\ UNCHANGED <<serverVars, port, live, handler, accepted, reply, editor, got>>

Prompt ==
    /\ live /\ running = "runs"
    /\ prompt' = ~prompt
    /\ Report(Other)
    /\ UNCHANGED <<serverVars, port, sessionVars, handlerVars, imageVars>>

\* The user may remove a marker.  An input takes the images whose markers it
\* has, and drops the others.
Edit(r) ==
    /\ live /\ r \in editor
    /\ editor' = editor \ {r}
    /\ UNCHANGED <<serverVars, portVars, sessionVars, prompt, handlerVars, pending, got>>

Input ==
    /\ live /\ running = "runs" /\ ~prompt
    /\ got' = [r \in Requests |-> IF r \in editor \cap pending THEN got[r] + 1 ELSE got[r]]
    /\ pending' = {} /\ editor' = {}
    /\ UNCHANGED <<serverVars, portVars, sessionVars, prompt, handlerVars>>

\* Pi ends, with all it kept; reports may be on their way.
AgentEnds ==
    /\ live /\ live' = FALSE
    /\ cut' = [r \in Requests |-> cut[r] \/ at[r] = "sent"]
    /\ handler' = [r \in Requests |-> "ended"]
    /\ running' = "none" /\ listening' = 0 /\ shutting' = TRUE /\ prompt' = FALSE
    /\ pending' = {} /\ editor' = {}
    /\ UNCHANGED <<serverVars, portVars, generation, accepted, reply, got>>

Serve(r) == Lock(r) \/ Enable(r) \/ Check(r) \/ Woken(r) \/ NoPort(r) \/ Answered(r)
Handle(r) == Arrive(r) \/ Body(r) \/ Resized(r) \/ Expire(r)

Next ==
    \/ \E r \in Requests : Serve(r) \/ Handle(r) \/ Abandon(r) \/ Edit(r)
    \/ Deliver \/ Lose \/ SessionStart \/ Clear \/ Listen \/ SessionShutdown
    \/ Prompt \/ Input \/ AgentEnds

\* The server's steps go on, and its timer runs out.
Fairness == \A r \in Requests :
    WF_vars(Serve(r)) /\ WF_vars(at[r] = "sent" /\ Abandon(r))

Spec == Init /\ [][Next]_vars /\ Fairness

-----------------------------------------------------------------------------
\* What holds of the images at any moment: a pasted one is of the session that
\* Pi has, and no more than the limit are kept or prepared; a client that reads
\* success has its image in the editor or taken, one that reads a failure never
\* gets it; no image is taken twice; who waits for a port waits only while there
\* is none; the server knows the port that is open unless a report was lost.
PastedIntoTheSession ==
    /\ TypeOK
    /\ \A r \in pending : reply[r] = "pasted" /\ (accepted[r] = generation \/ running = "starting")
    /\ Cardinality(pending) + Cardinality(Processing) <= Limit
    /\ \A r \in Requests : answer[r] = "ok" => reply[r] = "pasted"
    /\ \A r \in Requests : reply[r] \notin {None, "pasted"} => r \notin editor /\ got[r] = 0
    /\ \A r \in Requests : got[r] <= 1
    /\ \A r \in Requests : at[r] = "wait" /\ notified # "woken" => port = 0
    /\ live /\ reports = <<>> /\ ~lost => port = listening

\* Every request ends.
Ended == \A r \in Requests : at[r] = "done"

\* In the end (runtime_input.rs paste_pi_image, workspace.rs PI_EXTENSION_BODY).
PastesEnd == <>[]Ended
=============================================================================
