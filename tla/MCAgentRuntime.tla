--------------------------- MODULE MCAgentRuntime ---------------------------
(***************************************************************************)
(* What the server and a running agent tell each other, for TLC:           *)
(* AgentReports, OpenCodeEvents for the agent with an event stream,        *)
(* ImagePaste, and PiImages for Pi.  They share no state: `part` says      *)
(* which of them takes steps; the others rest where they began.            *)
(***************************************************************************)
EXTENDS AgentReports

CONSTANTS
    Runtimes, Names, EventLimit, FaultLimit,    \* OpenCodeEvents
    Pastes, Ways, DirectoryLimit, Tries,        \* ImagePaste
    PiPastes, Limit, Queue, Changes             \* PiImages

VARIABLES
    part,
    phase, connected, stream, watcher, answer, current, activity, untold, ended, count, faults,
    way, at, dropped, result, tries, lock, file, timer, commands, reading, pasted, agent, listed,
    stage, reply, input, notified, port, target, missed, reports, running, generation, listening,
    shutting, prompt, handler, taken, status, cut, pending, editor, got, live

\* A directory that may hold an image, and names that are no names of requests.
ASSUME StagingAssumption ==
    /\ IsFiniteSet(Pastes) /\ None \notin Pastes \cup {"image"}
    /\ Ways \subseteq {"terminal", "clipboard"}
    /\ DirectoryLimit \in Nat \ {0} /\ Tries \in Nat

(* Two conversations, one of which also goes by its thread's name. *)

MCResolves == [id \in Ids |-> IF id = "name of a" THEN "a" ELSE id]

Runtime == INSTANCE OpenCodeEvents WITH
    Ids <- Runtimes, MaxEvents <- EventLimit, MaxFaults <- FaultLimit,
    upstream <- current, shown <- activity

\* What the events are that happen here is known.
ASSUME RuntimeAssumption ==
    /\ None \notin Runtimes \cup DOMAIN Runtime!EventPhases
    /\ \A name \in Names : \E p \in DOMAIN Runtime!EventPhases : name \in Runtime!EventPhases[p]

Staging == INSTANCE ImagePaste WITH
    Requests <- Pastes, Limit <- DirectoryLimit, answer <- result

Pi == INSTANCE PiImages WITH
    Requests <- PiPastes, at <- stage, answer <- reply, lock <- input, lost <- missed,
    accepted <- taken, reply <- status

\* Pi's requests have names that are no names of others, and a report fits the queue.
ASSUME PiAssumption ==
    /\ IsFiniteSet(PiPastes) /\ None \notin PiPastes \cup {"ok", "pasted"}
    /\ Limit \in Nat /\ Queue \in Nat \ {0} /\ Changes \in Nat

runtimeVars == <<phase, connected, stream, watcher, answer, current, activity, untold, ended, count, faults>>
stagingVars == <<way, at, dropped, result, tries, lock, file, timer, commands, reading, pasted, agent, listed>>
piVars == <<stage, reply, input, notified, port, target, missed, reports, running, generation, listening,
            shutting, prompt, handler, taken, status, cut, pending, editor, got, live>>
allVars == <<part, vars, runtimeVars, stagingVars, piVars>>

\* What rests begins in one way only.
AgentInit ==
    /\ part \in {"reports", "runtime", "staging", "pi"}
    /\ IF part = "reports" THEN TRUE ELSE reporter = "plugin" /\ upstream = None
    /\ Init
    /\ IF part = "runtime" THEN TRUE ELSE current = None
    /\ Runtime!Init
    /\ IF part = "staging" THEN TRUE ELSE way = "terminal"
    /\ Staging!Init
    /\ Pi!Init

\* A step of one of them.
OfReports(step) == part = "reports" /\ step /\ UNCHANGED <<part, runtimeVars, stagingVars, piVars>>
OfRuntime(step) == part = "runtime" /\ step /\ UNCHANGED <<part, vars, stagingVars, piVars>>
OfStaging(step) == part = "staging" /\ step /\ UNCHANGED <<part, vars, runtimeVars, piVars>>
OfPi(step) == part = "pi" /\ step /\ UNCHANGED <<part, vars, runtimeVars, stagingVars>>

AgentNext == OfReports(Next) \/ OfRuntime(Runtime!Next) \/ OfStaging(Staging!Next) \/ OfPi(Pi!Next)

\* Their fairness; one condition for a request of whichever has it.
AgentFairness ==
    /\ \A e \in 1..MaxEvents : WF_allVars(OfReports(HookStep(e)))
    /\ WF_allVars(OfReports(SendPlugin) \/ OfRuntime(Runtime!Work))
    /\ WF_allVars(OfReports(\E m \in readers : Read(m) \/ ReadFails(m)) \/ OfRuntime(Runtime!Stop))
    /\ WF_allVars(OfReports(received # <<>> /\ Process(Head(received))))
    /\ \A r \in Pastes :
          /\ WF_allVars(OfStaging(Staging!Step(r)) \/ OfPi(r \in PiPastes /\ Pi!Serve(r)))
          /\ WF_allVars(\/ OfStaging(Staging!Expire(r))
                        \/ OfPi(r \in PiPastes /\ stage[r] = "sent" /\ Pi!Abandon(r)))
    /\ WF_allVars(OfStaging(Staging!ListDirectory))
    /\ WF_allVars(OfStaging(Staging!RemoveDirectory))

AgentSpec == AgentInit /\ [][AgentNext]_allVars /\ AgentFairness

-----------------------------------------------------------------------------
\* A session whose stream is read to its end shows what the runtime does
\* (OpenCodeEvents).
SettledIsUpToDate == Runtime!SettledIsUpToDate

\* An image is staged for one paste (ImagePaste).
StagedForOnePaste == Staging!StagedForOnePaste

\* An image gets into the session that Pi has, or its client is told that it
\* does not (PiImages).
PastedIntoTheSession == Pi!PastedIntoTheSession

\* In the end no report is under way (AgentReports), the session shows what the
\* runtime does or its task has ended with it (OpenCodeEvents), and the requests
\* to paste have ended and left no image of the clipboard (ImagePaste, PiImages).
EverythingArrives ==
    <>[](CASE part = "reports" -> ~UnderWay
           [] part = "runtime" -> Runtime!Followed
           [] part = "staging" -> Staging!Ended
           [] OTHER -> Pi!Ended)
=============================================================================
