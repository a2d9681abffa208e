---------------------- MODULE SkillRepositoryOperation ----------------------
(***************************************************************************)
(* The coordinator that keeps at most one skill-repository operation (add, *)
(* preview, sync) running in the server and keeps it apart from deletions  *)
(* of repositories and of repository skills                                *)
(* (apps/server/src/state/skill_repository_operation.rs), with the HTTP    *)
(* handlers that take and drop its guards (skillink/repositories.rs,       *)
(* skillink/skills.rs) and the task that reads git's standard error and    *)
(* reports progress, which outlives a handler whose client went away.      *)
(*                                                                         *)
(* A request is one HTTP request; its name stands for the UUID of the      *)
(* guard it obtains.  Every section under the coordinator's mutex is one   *)
(* step.  A stage together with the byte counts is one abstract Stage.     *)
(***************************************************************************)
EXTENDS Integers, FiniteSets

CONSTANTS
    Repositories,   \* ids of repositories that exist
    Requests,       \* HTTP requests, and the guard ids they obtain
    Stages,         \* progress stages, byte counts included
    MaxProgress,    \* bound of the percentage (100 in the code)
    MaxRevision,    \* bound: no report is taken once revision is this high
    NoRepository,   \* Option::None of repository_id
    NoOperation,    \* Option::None of state.operation
    Queued          \* the stage begin() stores

Kinds      == {"add", "preview", "sync"}
Updates    == [stage : Stages, progress : 0..MaxProgress]
Operations == [id         : Requests,
               kind       : Kinds,
               repository : Repositories \cup {NoRepository},
               stage      : Stages \cup {Queued},
               progress   : 0..MaxProgress]
Deletions  == [id : Requests, repository : Repositories]

ASSUME ProgressAssumption == MaxProgress \in Nat
ASSUME NoneAssumption ==
    NoRepository \notin Repositories /\ NoOperation \notin Operations

VARIABLES
    operation,  \* the operation in progress, or NoOperation
    revision,   \* bumped whenever a snapshot would differ
    deletions,  \* the deletions in progress
    request,    \* what each HTTP request is doing
    reporting   \* requests whose git-stderr task still holds a reporter

vars == <<operation, revision, deletions, request, reporting>>

TypeOK ==
    /\ operation \in Operations \cup {NoOperation}
    /\ revision \in Nat
    /\ deletions \subseteq Deletions
    /\ request \in [Requests -> {"idle", "operating", "deleting", "refused", "done"}]
    /\ reporting \subseteq Requests

Init ==
    /\ operation = NoOperation
    /\ revision = 0
    /\ deletions = {}
    /\ request = [r \in Requests |-> "idle"]
    /\ reporting = {}

-----------------------------------------------------------------------------
\* What the handlers ask for: create_repository passes (Add, None), the
\* preview and sync handlers pass their kind with the repository of the path.
Asked(kind, repository) ==
    IF kind = "add" THEN repository = NoRepository
                    ELSE kind \in Kinds /\ repository \in Repositories

\* begin() returns None.  (Mutation: the test for Add is forgotten.)
BeginRefusedForSameOnly(kind, repository) ==
    \/ operation # NoOperation
    \/ \E d \in deletions : d.repository = repository

BeginRefused(kind, repository) ==
    \/ operation # NoOperation
    \/ \E d \in deletions : kind = "add" \/ d.repository = repository

\* begin() succeeds, and the handler starts its clone with a reporter.
Begin(r, kind, repository) ==
    /\ request[r] = "idle"
    /\ Asked(kind, repository)
    /\ ~BeginRefused(kind, repository)
    /\ operation' = [id |-> r, kind |-> kind, repository |-> repository,
                     stage |-> Queued, progress |-> 0]
    /\ revision' = revision + 1
    /\ request' = [request EXCEPT ![r] = "operating"]
    /\ reporting' = reporting \cup {r}
    /\ UNCHANGED deletions

\* begin_deletion() returns None.  The deletion handlers always name a
\* repository, so the test of a missing one on that side never applies.
DeletionRefused(repository) ==
    /\ operation # NoOperation
    /\ \/ operation.repository = NoRepository
       \/ operation.repository = repository

BeginDeletion(r, repository) ==
    /\ request[r] = "idle"
    /\ ~DeletionRefused(repository)
    /\ deletions' = deletions \cup {[id |-> r, repository |-> repository]}
    /\ request' = [request EXCEPT ![r] = "deleting"]
    /\ UNCHANGED <<operation, revision, reporting>>

\* The handler answers 409 SKILL_REPOSITORY_OPERATION_IN_PROGRESS.
Refuse(r) ==
    /\ request[r] = "idle"
    /\ \/ \E kind \in Kinds, repository \in Repositories \cup {NoRepository} :
              Asked(kind, repository) /\ BeginRefused(kind, repository)
       \/ \E repository \in Repositories : DeletionRefused(repository)
    /\ request' = [request EXCEPT ![r] = "refused"]
    /\ UNCHANGED <<operation, revision, deletions, reporting>>

MaxOf(a, b) == IF a >= b THEN a ELSE b

\* What one progress report makes of the operation it addresses.
\* (Mutation: the last one simply wins.)
ReportedLast(op, update) ==
    [op EXCEPT !.stage = update.stage, !.progress = update.progress]

Reported(op, update) ==
    [op EXCEPT !.stage = update.stage,
               !.progress = MaxOf(op.progress, update.progress)]

\* A report of request r reaches the operation only while r still owns it.
\* (Mutation: the filter on the id is forgotten.)
AddressedByAnyone(r) == operation # NoOperation

Addressed(r) == operation # NoOperation /\ operation.id = r

\* The closure reporter() returns: it changes the operation it was made for,
\* and counts a revision only when something changed.
Report(r, update) ==
    /\ r \in reporting
    /\ revision < MaxRevision
    /\ IF Addressed(r)
       THEN /\ operation' = Reported(operation, update)
            /\ revision' = IF operation' # operation THEN revision + 1 ELSE revision
       ELSE UNCHANGED <<operation, revision>>
    /\ UNCHANGED <<deletions, request, reporting>>

\* Drop for SkillRepositoryOperationGuard.
ReleaseOperation(r) ==
    IF Addressed(r)
    THEN operation' = NoOperation /\ revision' = revision + 1
    ELSE UNCHANGED <<operation, revision>>

\* The handler's future completes: the clone has joined its stderr task.
Complete(r) ==
    /\ request[r] = "operating"
    /\ ReleaseOperation(r)
    /\ request' = [request EXCEPT ![r] = "done"]
    /\ reporting' = reporting \ {r}
    /\ UNCHANGED deletions

\* The client disconnects and the handler's future is dropped: the guard is
\* released, the detached stderr task keeps reading and reporting.
Cancel(r) ==
    /\ request[r] = "operating"
    /\ ReleaseOperation(r)
    /\ request' = [request EXCEPT ![r] = "done"]
    /\ UNCHANGED <<deletions, reporting>>

\* git's standard error reaches its end in a detached task.
ReporterEnds(r) ==
    /\ request[r] = "done"
    /\ r \in reporting
    /\ reporting' = reporting \ {r}
    /\ UNCHANGED <<operation, revision, deletions, request>>

\* Drop for SkillRepositoryDeletionGuard, at the end of the handler or when
\* its future is dropped.
EndDeletion(r) ==
    /\ request[r] = "deleting"
    /\ deletions' = {d \in deletions : d.id # r}
    /\ request' = [request EXCEPT ![r] = "done"]
    /\ UNCHANGED <<operation, revision, reporting>>

Next ==
    \E r \in Requests :
        \/ \E kind \in Kinds, repository \in Repositories \cup {NoRepository} :
               Begin(r, kind, repository)
        \/ \E repository \in Repositories : BeginDeletion(r, repository)
        \/ Refuse(r)
        \/ \E update \in Updates : Report(r, update)
        \/ Complete(r)
        \/ Cancel(r)
        \/ ReporterEnds(r)
        \/ EndDeletion(r)

Spec == Init /\ [][Next]_vars

-----------------------------------------------------------------------------
\* No deletion runs beside an operation that could touch what it deletes: an
\* add excludes every deletion, a preview or sync excludes deletions of its
\* own repository.  begin() and begin_deletion() each test one side only, and
\* not with the same condition; the invariant says the two tests agree.
OperationExcludesDeletion ==
    \A d \in deletions :
        operation # NoOperation =>
            operation.kind # "add" /\ operation.repository # d.repository

\* The coordinator is held by exactly the request that is operating, and the
\* deletion list by exactly the requests that are deleting: no guard leaks
\* when a request is refused, completes or is cancelled, and none is released
\* by somebody else's drop.
GuardsMatchRequests ==
    /\ \A r \in Requests : request[r] = "operating" <=> Addressed(r)
    /\ \A r \in Requests : request[r] = "deleting" <=> \E d \in deletions : d.id = r

\* Both together: who works on what, and that it works alone.
GuardsExclude == OperationExcludesDeletion /\ GuardsMatchRequests

\* A stderr task left behind by a cancelled request never changes the
\* progress shown for the operation another request runs now.
StaleReporterIsIgnored ==
    [][\A r \in Requests, update \in Updates :
           Report(r, update) /\ request[r] # "operating"
               => UNCHANGED <<operation, revision>>]_vars

\* While an operation lasts it keeps its identity, kind and repository, and
\* its percentage never goes back although git's phases are reported apart.
ProgressNeverGoesBack ==
    [][operation # NoOperation /\ operation' # NoOperation =>
           /\ operation'.id = operation.id
           /\ operation'.kind = operation.kind
           /\ operation'.repository = operation.repository
           /\ operation'.progress >= operation.progress]_vars

\* A poller may compare revisions instead of snapshots: whenever the snapshot
\* changes the revision grows, and the revision never goes back.
RevisionTracksOperation ==
    [][/\ revision' >= revision
       /\ operation' # operation => revision' > revision]_vars
=============================================================================
