----------------------------- MODULE ImagePaste -----------------------------
(* Pasting an image into an agent's terminal (agent/runtime_input.rs).  The  *)
(* image is written into the session's run directory by a blocking task and  *)
(* then either its path is typed into the terminal, or OpenCode's first      *)
(* generation is told to paste and reads it through a script that takes the  *)
(* place of the clipboard.  A client may go away at any await, the agent may *)
(* end at any time, and an answer of the agent may be lost.                  *)
EXTENDS FiniteSets, Naturals

CONSTANTS
    Requests,   \* the paste requests
    Ways,       \* how the agent takes images: "terminal", "clipboard"
    Limit,      \* the images that a terminal's attachment directory holds
    Tries,      \* how often a paste command is sent
    None

VARIABLES
    way,        \* how this session's agent takes images
    at,         \* the stage of each request
    dropped,    \* its client went away while the blocking task ran
    answer,     \* what it answered
    tries,      \* the paste commands it sent
    lock,       \* who holds the session's runtime_input
    file,       \* its image: not there, being written or complete
    timer,      \* the removal of its image is scheduled
    commands,   \* the paste commands the agent has not yet run
    reading,    \* the image its script has read and not yet removed
    pasted,     \* the images the agent got, and how often
    agent,      \* the agent and its run directory
    listed      \* the images seen when the directory is removed

requestVars == <<at, dropped, answer, tries, timer>>
agentVars == <<commands, reading, pasted>>
endVars == <<agent, listed>>
vars == <<way, requestVars, lock, file, agentVars, endVars>>

Stages == {"lock", "count", "write", "type", "send", "discard"}
TypeOK ==
    /\ way \in Ways
    /\ at \in [Requests -> Stages \cup {"new", "done"}]
    /\ dropped \in [Requests -> BOOLEAN] /\ timer \in [Requests -> BOOLEAN]
    /\ answer \in [Requests -> {None, "ok", "busy", "invalid", "unavailable", "dropped"}]
    /\ tries \in [Requests -> 0..Tries]
    /\ lock \in Requests \cup {None}
    /\ file \in [Requests -> {None, "image"}]
    /\ commands \in 0..(Tries * Cardinality(Requests))
    /\ reading \in Requests \cup {None}
    /\ pasted \in [Requests -> 0..2]
    /\ agent \in {"runs", "ended", "removing", "removed", "left"}
    /\ listed \subseteq Requests

Init ==
    /\ way \in Ways
    /\ at = [r \in Requests |-> "new"]
    /\ dropped = [r \in Requests |-> FALSE] /\ timer = [r \in Requests |-> FALSE]
    /\ answer = [r \in Requests |-> None]
    /\ tries = [r \in Requests |-> 0]
    /\ lock = None
    /\ file = [r \in Requests |-> None]
    /\ commands = 0 /\ reading = None
    /\ pasted = [r \in Requests |-> 0]
    /\ agent = "runs" /\ listed = {}

Images == {r \in Requests : file[r] # None}
Go(r, stage) == at' = [at EXCEPT ![r] = stage]

\* A session is live until its directory was removed and its end is reported.
Live == agent \in {"runs", "ended", "removing"}

\* The end of a request: the lock is free again, an image that is still
\* guarded is removed.
Release(r) == lock' = IF lock = r THEN None ELSE lock
Unstage(r) == file' = [file EXCEPT ![r] = None]
Answer(r, result) ==
    /\ Go(r, "done")
    /\ answer' = [answer EXCEPT ![r] = IF dropped[r] THEN "dropped" ELSE result]
    /\ Release(r)

-----------------------------------------------------------------------------
\* The image is checked before anything else.
Validate(r) ==
    /\ at[r] = "new"
    /\ \/ Go(r, "lock") /\ UNCHANGED <<answer, lock>>
       \/ Answer(r, "invalid")
    /\ UNCHANGED <<way, dropped, tries, timer, file, agentVars, endVars>>

\* One paste at a time; a terminal must be live.
Lock(r) ==
    /\ at[r] = "lock" /\ lock = None
    /\ IF way = "terminal" /\ ~Live
       THEN Answer(r, "unavailable")
       ELSE Go(r, "count") /\ lock' = r /\ UNCHANGED answer
    /\ UNCHANGED <<way, dropped, tries, timer, file, agentVars, endVars>>

\* The blocking task holds the lock itself.  It counts the images there are.
Full == IF way = "terminal" THEN Cardinality(Images) >= Limit ELSE Images # {}

Count(r) ==
    /\ at[r] = "count"
    /\ IF agent \in {"removed"} THEN Answer(r, "unavailable")
       ELSE IF Full THEN Answer(r, "busy")
       ELSE Go(r, "write") /\ UNCHANGED <<answer, lock>>
    /\ UNCHANGED <<way, dropped, tries, timer, file, agentVars, endVars>>

\* It writes the image.
Write(r) ==
    /\ at[r] = "write" /\ agent # "removed"
    /\ file' = [file EXCEPT ![r] = "image"]
    /\ Go(r, IF dropped[r] THEN "discard" ELSE IF way = "terminal" THEN "type" ELSE "send")
    /\ UNCHANGED <<way, dropped, answer, tries, timer, lock, agentVars, endVars>>

WriteFails(r) ==
    /\ at[r] = "write"
    /\ Answer(r, "unavailable")
    /\ UNCHANGED <<way, dropped, tries, timer, file, agentVars, endVars>>

\* The result of a task that nobody waits for is dropped: its image goes first,
\* then the lock.
Discard(r) ==
    /\ at[r] = "discard"
    /\ Answer(r, "unavailable")
    /\ Unstage(r)
    /\ UNCHANGED <<way, dropped, tries, timer, agentVars, endVars>>

\* write_input: the path goes to the terminal, unless the session has ended or
\* the queue of its input is full.
Type(r) ==
    /\ at[r] = "type"
    /\ \/ /\ Live
          /\ Answer(r, "ok")
          /\ pasted' = [pasted EXCEPT ![r] = @ + 1]
          /\ UNCHANGED file
       \/ Answer(r, "unavailable") /\ Unstage(r) /\ UNCHANGED pasted
    /\ UNCHANGED <<way, dropped, tries, timer, commands, reading, endVars>>

\* The paste command: the agent may get it although the answer is lost.
Heard == IF agent = "runs" THEN {0, 1} ELSE {0}
SendFails(r) ==
    /\ at[r] = "send" /\ Live /\ tries[r] < Tries
    /\ tries' = [tries EXCEPT ![r] = @ + 1]
    /\ \E n \in Heard : commands' = commands + n
    /\ UNCHANGED <<way, at, dropped, answer, timer, lock, file, reading, pasted, endVars>>

\* (Mutation: nothing removes the image when the agent does not.)
SendSucceedsUntimed(r) ==
    /\ at[r] = "send" /\ agent = "runs" /\ tries[r] < Tries
    /\ tries' = [tries EXCEPT ![r] = @ + 1]
    /\ commands' = commands + 1
    /\ Answer(r, "ok")
    /\ UNCHANGED <<way, dropped, timer, file, reading, pasted, endVars>>

\* The agent accepts it: the image stays for it, for thirty seconds.
SendSucceeds(r) ==
    /\ at[r] = "send" /\ agent = "runs" /\ tries[r] < Tries
    /\ tries' = [tries EXCEPT ![r] = @ + 1]
    /\ commands' = commands + 1
    /\ timer' = [timer EXCEPT ![r] = TRUE]
    /\ Answer(r, "ok")
    /\ UNCHANGED <<way, dropped, file, reading, pasted, endVars>>

GiveUp(r) ==
    /\ at[r] = "send" /\ (~Live \/ tries[r] = Tries)
    /\ Answer(r, "unavailable")
    /\ Unstage(r)
    /\ UNCHANGED <<way, dropped, tries, timer, agentVars, endVars>>

Expire(r) ==
    /\ timer[r]
    /\ timer' = [timer EXCEPT ![r] = FALSE]
    /\ Unstage(r)
    /\ UNCHANGED <<way, at, dropped, answer, tries, lock, agentVars, endVars>>

\* The client goes away.  A blocking task goes on without it.
Drop(r) ==
    /\ at[r] \in {"new", "lock", "send"}
    /\ Go(r, "done") /\ answer' = [answer EXCEPT ![r] = "dropped"]
    /\ Release(r)
    /\ Unstage(r)
    /\ UNCHANGED <<way, dropped, tries, timer, agentVars, endVars>>

\* The lock went into the task.
\* (Mutation: the request keeps the lock.)
ReleasesOnDrop(r) == Release(r)

KeepsOnDrop(r) == UNCHANGED lock

DropTask(r) ==
    /\ at[r] \in {"count", "write"} /\ ~dropped[r]
    /\ dropped' = [dropped EXCEPT ![r] = TRUE]
    /\ KeepsOnDrop(r)
    /\ UNCHANGED <<way, at, answer, tries, timer, file, agentVars, endVars>>

-----------------------------------------------------------------------------
(* The agent: it runs the paste commands one by one; its script prints the   *)
(* image and removes it.                                                     *)
Take ==
    /\ agent = "runs" /\ commands > 0 /\ reading = None
    /\ commands' = commands - 1
    /\ IF Images = {} \/ way = "terminal"
       THEN UNCHANGED <<reading, pasted>>
       ELSE \E r \in Images : reading' = r /\ pasted' = [pasted EXCEPT ![r] = @ + 1]
    /\ UNCHANGED <<way, requestVars, lock, file, endVars>>

Remove ==
    /\ reading # None
    /\ Unstage(reading)
    /\ reading' = None
    /\ UNCHANGED <<way, requestVars, lock, commands, pasted, endVars>>

\* The agent ends; the waiter removes the run directory, entry by entry, and
\* reports the end.  What was written after it looked keeps the directory.
AgentEnds ==
    /\ agent = "runs" /\ agent' = "ended"
    /\ commands' = 0 /\ reading' = None
    /\ UNCHANGED <<way, requestVars, lock, file, pasted, listed>>

ListDirectory ==
    /\ agent = "ended" /\ agent' = "removing"
    /\ listed' = Images
    /\ UNCHANGED <<way, requestVars, lock, file, agentVars>>

RemoveDirectory ==
    /\ agent = "removing"
    /\ file' = [r \in Requests |-> IF r \in listed THEN None ELSE file[r]]
    /\ agent' = IF Images \subseteq listed THEN "removed" ELSE "left"
    /\ UNCHANGED <<way, requestVars, lock, agentVars, listed>>

Step(r) ==
    \/ Validate(r) \/ Lock(r) \/ Count(r) \/ Write(r) \/ WriteFails(r) \/ Discard(r) \/ Type(r) \/ SendFails(r)
    \/ SendSucceeds(r) \/ GiveUp(r)

Next ==
    \/ \E r \in Requests : Step(r) \/ Expire(r) \/ Drop(r) \/ DropTask(r)
    \/ Take \/ Remove \/ AgentEnds \/ ListDirectory \/ RemoveDirectory

\* Requests go on when they can, and a removal that is scheduled happens.
Fairness ==
    /\ \A r \in Requests : WF_vars(Step(r)) /\ WF_vars(Expire(r))
    /\ WF_vars(ListDirectory) /\ WF_vars(RemoveDirectory)

Spec == Init /\ [][Next]_vars /\ Fairness

-----------------------------------------------------------------------------
\* What holds of the images at any moment: the directory never holds more than
\* its limit, the clipboard never more than one, whoever goes away; an image is
\* there for a paste that was typed as long as the agent runs and gone after a
\* request that did not succeed; an agent gets an image at most once.
StagedForOnePaste ==
    /\ TypeOK
    /\ way = "terminal" => Cardinality(Images) <= Limit
    /\ way = "clipboard" => Cardinality(Images) <= 1
    /\ \A r \in Requests : at[r] = "done" =>
          /\ answer[r] # "ok" => file[r] = None
          /\ answer[r] = "ok" /\ way = "terminal" /\ agent = "runs" => file[r] # None
    /\ \A r \in Requests : pasted[r] <= 1

\* Every request ends, and an image of the clipboard does not stay.
Ended == \A r \in Requests : at[r] = "done" /\ (way = "clipboard" => file[r] = None)

\* In the end (runtime_input.rs paste_terminal_image, paste_opencode_image).
PastesEnd == <>[]Ended
=============================================================================
