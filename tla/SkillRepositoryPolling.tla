----------------------- MODULE SkillRepositoryPolling -----------------------
(***************************************************************************)
(* A browser that keeps its copy of the skill catalog current by polling   *)
(* the coordinator's snapshot                                              *)
(* (apps/web/src/features/skills/useSkillsWorkspace.ts and                 *)
(* repositoryOperation.ts), composed with SkillRepositoryOperation.        *)
(*                                                                         *)
(* The catalog is the set of requests whose add or sync has committed to   *)
(* the skill database.  A commit happens while the handler still holds its *)
(* guard, so a poll may see the operation before, during or after it.      *)
(* A refresh reads three lists at some moment between its start and the     *)
(* answer; a commit changes the lists together, and they are one read here. *)
(***************************************************************************)
EXTENDS SkillRepositoryOperation

CONSTANT NoStatus   \* null: no poll answered yet, or no poll under way

VARIABLES
    catalog,        \* requests whose change is committed in the database
    mode,           \* navigation.workspaceMode
    status,         \* repositoryOperationStatus.current
    answer,         \* the snapshot travelling back to the browser
    queued,         \* refreshQueued.current
    fetched,        \* the catalog the refresh under way has read
    refreshing,     \* refreshInFlight.current is set
    shown,          \* the catalog the browser shows
    failed          \* the last refresh failed, and the page reported it

browserVars == <<mode, status, answer, queued, fetched, refreshing, shown, failed>>
pollingVars == <<vars, catalog, browserVars>>

Snapshots == [operation : Operations \cup {NoOperation}, revision : Nat]

ASSUME NoStatusAssumption == NoStatus \notin Snapshots

\* The pages that list skills; only the skills page also polls.
ShowsSkills(m) == m \in {"skills", "terminal"}

\* The page is mounted, and loads the lists if it shows them.
PollingInit ==
    /\ Init
    /\ catalog = {}
    /\ mode \in {"skills", "terminal", "webapp"}
    /\ status = NoStatus
    /\ answer = NoStatus
    /\ queued = FALSE
    /\ fetched = {}
    /\ refreshing = ShowsSkills(mode)
    /\ shown = {}
    /\ failed = FALSE

-----------------------------------------------------------------------------
\* The add or sync commits its transaction; a preview changes nothing.
Commit(r) ==
    /\ request[r] = "operating"
    /\ operation.kind \in {"add", "sync"}
    /\ r \notin catalog
    /\ catalog' = catalog \cup {r}
    /\ UNCHANGED <<vars, browserVars>>

Server == Next /\ UNCHANGED <<catalog, browserVars>>

-----------------------------------------------------------------------------
\* current(): the snapshot the operation endpoint answers with.
Current == [operation |-> operation, revision |-> revision]

\* The operation the page shows comes from the last status.
ShownOperation == IF status = NoStatus THEN NoOperation ELSE status.operation

\* pollRepositoryOperation; the page's own mutations, which set busy, are
\* other requests here.
Polling == mode = "skills" \/ ShownOperation # NoOperation

\* shouldRefreshForRepositoryOperation.  (Mutation: only an operation the page
\* has seen can finish; one that came and went between two polls is missed.)
ShouldRefreshOnFinish(previous, current) ==
    /\ previous # NoStatus
    /\ previous.operation # NoOperation
    /\ current.operation = NoOperation

ShouldRefresh(previous, current) ==
    IF previous = NoStatus
    THEN current.operation = NoOperation /\ current.revision # 0
    ELSE /\ previous.revision # current.revision
         /\ IF previous.operation = NoOperation
            THEN current.operation = NoOperation
            ELSE \/ current.operation = NoOperation
                 \/ current.operation.id # previous.operation.id

\* refresh(): remember the wish, and start the loop unless it is running; the
\* loop's first turn takes the wish back before it reads.  (Mutation: a wish
\* made while the loop runs is forgotten.)
RequestRefreshOnce ==
    /\ refreshing' = TRUE
    /\ fetched' = IF refreshing THEN fetched ELSE catalog
    /\ UNCHANGED queued

RequestRefresh ==
    /\ refreshing' = TRUE
    /\ fetched' = IF refreshing THEN fetched ELSE catalog
    /\ queued' = refreshing

\* navigation.workspaceMode changes: reaching a page that lists skills from one
\* that does not loads them.  An answer to a poller that stops is dropped.
Navigate(m) ==
    /\ m # mode
    /\ mode' = m
    /\ answer' = IF m # "skills" /\ ShownOperation = NoOperation THEN NoStatus ELSE answer
    /\ IF ShowsSkills(m) /\ ~ShowsSkills(mode)
       THEN RequestRefresh
       ELSE UNCHANGED <<queued, fetched, refreshing>>
    /\ UNCHANGED <<vars, catalog, status, shown, failed>>

\* A poll reaches the server; the next one starts only after its answer.
PollSend ==
    /\ Polling
    /\ answer = NoStatus
    /\ answer' = Current
    /\ UNCHANGED <<vars, catalog, mode, status, queued, fetched, refreshing, shown, failed>>

\* The answer arrives.
PollReceive ==
    /\ answer # NoStatus
    /\ status' = answer
    /\ answer' = NoStatus
    /\ IF ShouldRefresh(status, answer)
       THEN RequestRefresh
       ELSE UNCHANGED <<queued, fetched, refreshing>>
    /\ UNCHANGED <<vars, catalog, mode, shown, failed>>

\* The answer is an error: the poller goes on with the status it had.
PollFail ==
    /\ answer # NoStatus
    /\ answer' = NoStatus
    /\ UNCHANGED <<vars, catalog, mode, status, queued, fetched, refreshing, shown, failed>>

\* The lists are read later than at the start of the refresh.
RefreshRead ==
    /\ refreshing
    /\ fetched # catalog
    /\ fetched' = catalog
    /\ UNCHANGED <<vars, catalog, mode, status, answer, queued, refreshing, shown, failed>>

\* The lists arrive: show them, and take another turn if one was wished for.
RefreshDone ==
    /\ refreshing
    /\ shown' = fetched
    /\ failed' = FALSE
    /\ queued' = FALSE
    /\ refreshing' = queued
    /\ fetched' = IF queued THEN catalog ELSE {}
    /\ UNCHANGED <<vars, catalog, mode, status, answer>>

\* A list request fails: the loop ends, a wish made meanwhile stays noted.
RefreshFail ==
    /\ refreshing
    /\ refreshing' = FALSE
    /\ fetched' = {}
    /\ failed' = TRUE
    /\ UNCHANGED <<vars, catalog, mode, status, answer, queued, shown>>

Browser ==
    \/ \E m \in {"skills", "terminal", "webapp"} : Navigate(m)
    \/ PollSend \/ PollReceive \/ PollFail
    \/ RefreshRead \/ RefreshDone \/ RefreshFail

PollingNext == Server \/ (\E r \in Requests : Commit(r)) \/ Browser

\* The handlers run to their end; the page's timers fire; list requests are
\* answered or fail; and a poll that is sent again and again is not answered
\* with an error every time.
Fairness ==
    /\ WF_pollingVars(\E r \in Requests :
           (Complete(r) \/ Cancel(r)) /\ UNCHANGED <<catalog, browserVars>>)
    /\ WF_pollingVars(PollSend)
    /\ SF_pollingVars(PollReceive)
    /\ WF_pollingVars(RefreshDone \/ RefreshFail)

PollingSpec == PollingInit /\ [][PollingNext]_pollingVars /\ Fairness

-----------------------------------------------------------------------------
\* A page that has seen the coordinator's latest snapshot, sees no operation,
\* is not loading and reported no failed load shows every committed change,
\* however many operations began and ended between two of its polls.
SettledPageIsCurrent ==
    /\ status # NoStatus
    /\ status.revision = revision
    /\ status.operation = NoOperation
    /\ ~refreshing
    /\ ~failed
    => catalog \subseteq shown

\* Every committed add or sync reaches the page, unless a load failed (which
\* the page reports and does not retry) or the user leaves the page for good.
CommitReachesPage ==
    \A r \in Requests :
        r \in catalog ~> (r \in shown \/ failed \/ mode # "skills")
=============================================================================
