---------------------------- MODULE Skills_proofs ----------------------------
(***************************************************************************)
(* Proofs about skills: the coordinator of the operations on repositories  *)
(* and the page that polls it, for every set of repositories, requests and *)
(* stages and every MaxProgress; and the library, for every set of tasks,  *)
(* commits, paths and slugs and every bound on what is given out.          *)
(***************************************************************************)
EXTENDS SkillRepositoryPolling, SkillLibrary, TLAPS

\* An operation records what was asked for: an add has no repository, every
\* other kind has one.  begin_deletion tests the repository where begin tests
\* the kind; this is the fact that makes the two tests agree.
OperationWasAsked ==
    operation # NoOperation => Asked(operation.kind, operation.repository)

IInv ==
    /\ TypeOK
    /\ OperationWasAsked
    /\ OperationExcludesDeletion
    /\ GuardsMatchRequests

\* What begin() stores is an operation.
LEMMA FreshLemma ==
    ASSUME NEW r \in Requests, NEW kind \in Kinds,
           NEW repo \in Repositories \cup {NoRepository}
    PROVE  [id |-> r, kind |-> kind, repository |-> repo,
            stage |-> Queued, progress |-> 0] \in Operations
  BY ProgressAssumption DEF Operations

\* Releasing the operation keeps its type and leaves nothing addressed to r.
LEMMA ReleaseLemma ==
    ASSUME NEW r \in Requests, TypeOK, ReleaseOperation(r)
    PROVE  /\ operation' \in Operations \cup {NoOperation}
           /\ revision' \in Nat
           /\ ~(operation' # NoOperation /\ operation'.id = r)
           /\ operation' # operation => operation' = NoOperation /\ revision' = revision + 1
           /\ operation' = operation => revision' = revision
           /\ operation # NoOperation /\ operation.id # r => operation' = operation
  BY NoneAssumption DEF TypeOK, ReleaseOperation, Addressed, Operations

\* A report yields an operation of the same identity, kind and repository.
LEMMA ReportedLemma ==
    ASSUME NEW op \in Operations, NEW update \in Updates
    PROVE  /\ Reported(op, update) \in Operations
           /\ Reported(op, update).id = op.id
           /\ Reported(op, update).kind = op.kind
           /\ Reported(op, update).repository = op.repository
           /\ Reported(op, update).progress >= op.progress
<1> DEFINE p == MaxOf(op.progress, update.progress)
<1>1. p \in 0..MaxProgress /\ p >= op.progress
  BY ProgressAssumption DEF Operations, Updates, MaxOf
<1>2. update.stage \in Stages
  BY DEF Updates
<1> HIDE DEF p
<1>3. [op EXCEPT !.stage = update.stage, !.progress = p] \in Operations
  BY <1>1, <1>2 DEF Operations
<1>4. Reported(op, update) = [op EXCEPT !.stage = update.stage, !.progress = p]
  BY DEF Reported, p
<1> QED
  BY <1>1, <1>2, <1>3, <1>4 DEF Operations

\* What any step does to the operation and the revision.
LEMMA StepLemma ==
    ASSUME TypeOK, [Next]_vars
    PROVE  /\ operation' \in Operations \cup {NoOperation}
           /\ revision' \in Nat
           /\ revision' >= revision
           /\ operation' # operation => revision' > revision
           /\ operation # NoOperation /\ operation' # NoOperation =>
                /\ operation'.id = operation.id
                /\ operation'.kind = operation.kind
                /\ operation'.repository = operation.repository
                /\ operation'.progress >= operation.progress
<1> USE DEF TypeOK
<1>0. operation # NoOperation =>
        operation \in Operations /\ operation.progress >= operation.progress
  BY ProgressAssumption DEF Operations
<1>1. CASE UNCHANGED vars
  BY <1>1, <1>0 DEF vars
<1>2. ASSUME NEW r \in Requests, NEW kind \in Kinds,
             NEW repo \in Repositories \cup {NoRepository},
             Begin(r, kind, repo)
      PROVE  /\ operation' \in Operations
             /\ operation = NoOperation
             /\ revision' = revision + 1
  BY <1>2, ProgressAssumption DEF Begin, BeginRefused, Operations
<1>3. ASSUME NEW r \in Requests, NEW update \in Updates, Report(r, update)
      PROVE  \/ UNCHANGED <<operation, revision>>
             \/ /\ operation \in Operations
                /\ operation' = Reported(operation, update)
                /\ revision' = IF operation' # operation THEN revision + 1 ELSE revision
  BY <1>3 DEF Report, Addressed
<1>4. ASSUME NEW r \in Requests, Complete(r) \/ Cancel(r)
      PROVE  ReleaseOperation(r)
  BY <1>4 DEF Complete, Cancel
<1>5. ASSUME NEW r \in Requests,
             \/ \E repo \in Repositories : BeginDeletion(r, repo)
             \/ Refuse(r)
             \/ ReporterEnds(r)
             \/ EndDeletion(r)
      PROVE  UNCHANGED <<operation, revision>>
  BY <1>5 DEF BeginDeletion, Refuse, ReporterEnds, EndDeletion
<1>6. CASE \E r \in Requests, kind \in Kinds, repo \in Repositories \cup {NoRepository} :
               Begin(r, kind, repo)
  BY <1>6, <1>2, NoneAssumption
<1>7. CASE \E r \in Requests, update \in Updates : Report(r, update)
  BY <1>7, <1>3, <1>0, ReportedLemma, NoneAssumption
<1>8. CASE \E r \in Requests : Complete(r) \/ Cancel(r)
  BY <1>8, <1>4, <1>0, ReleaseLemma
<1>9. CASE UNCHANGED <<operation, revision>>
  BY <1>9, <1>0
<1> QED
  BY <1>1, <1>5, <1>6, <1>7, <1>8, <1>9 DEF Next

LEMMA InitIInv == Init => IInv
  BY NoneAssumption
  DEF Init, IInv, TypeOK, OperationWasAsked, OperationExcludesDeletion,
      GuardsMatchRequests, Addressed

LEMMA TypeStep ==
    ASSUME TypeOK, [Next]_vars
    PROVE  TypeOK'
<1>1. operation' \in Operations \cup {NoOperation} /\ revision' \in Nat
  BY StepLemma
<1>2. deletions' \subseteq Deletions
  BY DEF TypeOK, Next, vars, Begin, BeginDeletion, Refuse, Report, Complete, Cancel,
         ReporterEnds, EndDeletion, Deletions
<1>3. request' \in [Requests -> {"idle", "operating", "deleting", "refused", "done"}]
  BY DEF TypeOK, Next, vars, Begin, BeginDeletion, Refuse, Report, Complete, Cancel,
         ReporterEnds, EndDeletion
<1>4. reporting' \subseteq Requests
  BY DEF TypeOK, Next, vars, Begin, BeginDeletion, Refuse, Report, Complete, Cancel,
         ReporterEnds, EndDeletion
<1> QED
  BY <1>1, <1>2, <1>3, <1>4 DEF TypeOK

LEMMA InvariantStep ==
    ASSUME IInv, [Next]_vars
    PROVE  /\ OperationWasAsked'
           /\ OperationExcludesDeletion'
           /\ GuardsMatchRequests'
<1> USE DEF IInv
<1>0. TypeOK'
  BY TypeStep
<1>1. CASE UNCHANGED vars
  BY <1>1 DEF vars, OperationWasAsked, OperationExcludesDeletion, GuardsMatchRequests, Addressed
<1>2. ASSUME NEW r \in Requests, NEW kind \in Kinds,
             NEW repo \in Repositories \cup {NoRepository},
             Begin(r, kind, repo)
      PROVE  OperationWasAsked' /\ OperationExcludesDeletion' /\ GuardsMatchRequests'
  <2>1. OperationWasAsked'
    BY <1>2 DEF Begin, OperationWasAsked, Asked
  <2>2. OperationExcludesDeletion'
    BY <1>2 DEF Begin, BeginRefused, OperationExcludesDeletion
  <2>3. operation = NoOperation /\ operation' # NoOperation /\ operation'.id = r
    <3>1. operation = NoOperation
      BY <1>2 DEF Begin, BeginRefused
    <3>2. operation' = [id |-> r, kind |-> kind, repository |-> repo,
                        stage |-> Queued, progress |-> 0]
      BY <1>2 DEF Begin
    <3>3. operation' \in Operations
      BY <3>2, FreshLemma
    <3> QED
      BY <3>1, <3>2, <3>3, NoneAssumption
  <2>4. GuardsMatchRequests'
    BY <1>2, <2>3 DEF Begin, GuardsMatchRequests, Addressed, TypeOK
  <2> QED BY <2>1, <2>2, <2>4
<1>3. ASSUME NEW r \in Requests, NEW repo \in Repositories,
             BeginDeletion(r, repo)
      PROVE  OperationWasAsked' /\ OperationExcludesDeletion' /\ GuardsMatchRequests'
  <2>1. OperationWasAsked'
    BY <1>3 DEF BeginDeletion, OperationWasAsked
  <2>2. OperationExcludesDeletion'
    BY <1>3 DEF BeginDeletion, DeletionRefused, OperationExcludesDeletion, OperationWasAsked, Asked
  <2>3. PICK d : d.id = r /\ deletions' = deletions \cup {d}
    <3>1. [id |-> r, repository |-> repo].id = r
      OBVIOUS
    <3> QED
      BY <1>3, <3>1 DEF BeginDeletion
  <2>4. GuardsMatchRequests'
    BY <1>3, <2>3 DEF BeginDeletion, GuardsMatchRequests, Addressed, TypeOK
  <2> QED BY <2>1, <2>2, <2>4
<1>4. ASSUME NEW r \in Requests, Refuse(r) \/ ReporterEnds(r)
      PROVE  OperationWasAsked' /\ OperationExcludesDeletion' /\ GuardsMatchRequests'
  BY <1>4 DEF Refuse, ReporterEnds, OperationWasAsked, OperationExcludesDeletion,
              GuardsMatchRequests, Addressed, TypeOK
<1>5. ASSUME NEW r \in Requests, NEW update \in Updates, Report(r, update)
      PROVE  OperationWasAsked' /\ OperationExcludesDeletion' /\ GuardsMatchRequests'
  <2>1. CASE UNCHANGED operation
    BY <1>5, <2>1 DEF Report, OperationWasAsked, OperationExcludesDeletion,
                      GuardsMatchRequests, Addressed
  <2>2. CASE operation' = Reported(operation, update) /\ operation # NoOperation
    <3>1. operation \in Operations
      BY <2>2 DEF TypeOK
    <3>2. /\ operation' \in Operations
          /\ operation'.id = operation.id
          /\ operation'.kind = operation.kind
          /\ operation'.repository = operation.repository
      BY <2>2, <3>1, ReportedLemma
    <3> QED
      BY <1>5, <2>2, <3>2, NoneAssumption
      DEF Report, OperationWasAsked, OperationExcludesDeletion, GuardsMatchRequests, Addressed
  <2> QED
    BY <1>5, <2>1, <2>2 DEF Report, Addressed
<1>6. ASSUME NEW r \in Requests, Complete(r) \/ Cancel(r)
      PROVE  OperationWasAsked' /\ OperationExcludesDeletion' /\ GuardsMatchRequests'
  <2>1. Addressed(r)
    BY <1>6 DEF Complete, Cancel, GuardsMatchRequests
  <2>2. operation' = NoOperation /\ deletions' = deletions
    BY <1>6, <2>1 DEF Complete, Cancel, ReleaseOperation
  <2>3. request' = [request EXCEPT ![r] = "done"]
    BY <1>6 DEF Complete, Cancel
  <2> QED
    BY <2>1, <2>2, <2>3, <1>6
    DEF OperationWasAsked, OperationExcludesDeletion, GuardsMatchRequests, Addressed, TypeOK,
        Complete, Cancel
<1>7. ASSUME NEW r \in Requests, EndDeletion(r)
      PROVE  OperationWasAsked' /\ OperationExcludesDeletion' /\ GuardsMatchRequests'
  BY <1>7 DEF EndDeletion, OperationWasAsked, OperationExcludesDeletion, GuardsMatchRequests,
              Addressed, TypeOK
<1> QED
  BY <1>1, <1>2, <1>3, <1>4, <1>5, <1>6, <1>7 DEF Next

\* Every reachable state of the coordinator satisfies the inductive invariant.
THEOREM Inductive == Spec => []IInv
<1>1. Init => IInv
  BY InitIInv
<1>2. IInv /\ [Next]_vars => IInv'
  BY TypeStep, InvariantStep DEF IInv
<1> QED
  BY <1>1, <1>2, PTL DEF Spec

\* Type correctness of the coordinator.
THEOREM TypeCorrect == Spec => []TypeOK
  BY Inductive, PTL DEF IInv

\* Whatever requests arrive in whatever order, no deletion of a repository or
\* of one of its skills runs beside an operation that could touch it.
THEOREM DeletionExclusion == Spec => []OperationExcludesDeletion
  BY Inductive, PTL DEF IInv

\* Guards are held by exactly the requests that run: none leaks on a refusal,
\* a completion or a disconnect.
THEOREM NoGuardLeaks == Spec => []GuardsMatchRequests
  BY Inductive, PTL DEF IInv

\* Guards are held by the requests that run, and conflicting ones by one.
THEOREM GuardsAreSound == Spec => []GuardsExclude
<1>1. OperationExcludesDeletion /\ GuardsMatchRequests => GuardsExclude
  BY DEF GuardsExclude
<1> QED
  BY <1>1, DeletionExclusion, NoGuardLeaks, PTL

\* The revision grows with every change of the snapshot.
THEOREM RevisionTracks == Spec => RevisionTracksOperation
<1>1. IInv /\ [Next]_vars =>
        [/\ revision' >= revision
         /\ operation' # operation => revision' > revision]_vars
  BY StepLemma DEF IInv
<1> QED
  BY <1>1, Inductive, PTL DEF Spec, RevisionTracksOperation

\* An operation keeps its identity and its percentage never goes back.
THEOREM ProgressMonotone == Spec => ProgressNeverGoesBack
<1>1. IInv /\ [Next]_vars =>
        [operation # NoOperation /\ operation' # NoOperation =>
           /\ operation'.id = operation.id
           /\ operation'.kind = operation.kind
           /\ operation'.repository = operation.repository
           /\ operation'.progress >= operation.progress]_vars
  BY StepLemma DEF IInv
<1> QED
  BY <1>1, Inductive, PTL DEF Spec, ProgressNeverGoesBack

\* A reporter left behind by a cancelled request changes nothing.
THEOREM StaleReporter == Spec => StaleReporterIsIgnored
<1>1. IInv /\ [Next]_vars =>
        [\A r \in Requests, update \in Updates :
           Report(r, update) /\ request[r] # "operating"
               => UNCHANGED <<operation, revision>>]_vars
  BY DEF IInv, GuardsMatchRequests, Report
<1> QED
  BY <1>1, Inductive, PTL DEF Spec, StaleReporterIsIgnored

-----------------------------------------------------------------------------
\* The polling page.  It reads the coordinator and never changes it, so every
\* theorem above holds of the composed system as well.
LEMMA PollingStep ==
    ASSUME [PollingNext]_pollingVars
    PROVE  [Next]_vars
  BY DEF PollingNext, Server, Commit, Browser, Navigate, PollSend, PollReceive, PollFail,
         RefreshRead, RefreshDone, RefreshFail, pollingVars, vars

\* The page with its server implements the coordinator's specification.
THEOREM PollingImplementsCoordinator == PollingSpec => Spec
<1>1. PollingInit => Init
  BY DEF PollingInit
<1>2. [PollingNext]_pollingVars => [Next]_vars
  BY PollingStep
<1> QED
  BY <1>1, <1>2, PTL DEF PollingSpec, Spec

PollingTypeOK ==
    /\ status \in Snapshots \cup {NoStatus}
    /\ answer \in Snapshots \cup {NoStatus}
    /\ queued \in BOOLEAN
    /\ refreshing \in BOOLEAN
    /\ failed \in BOOLEAN

\* A snapshot is never ahead of the coordinator, and one of the coordinator's
\* revision is its current snapshot.
SnapshotIsPast(snapshot) ==
    snapshot # NoStatus =>
        /\ snapshot.revision <= revision
        /\ snapshot.revision = revision => snapshot.operation = operation

\* Answers arrive in the order they were given.
AnswerFollowsStatus ==
    status # NoStatus /\ answer # NoStatus =>
        /\ status.revision <= answer.revision
        /\ status.revision = answer.revision => status.operation = answer.operation

\* Nothing has begun, so nothing is committed, before the first revision.
NothingBeforeFirstRevision ==
    revision = 0 => operation = NoOperation /\ catalog = {}

\* The catalog is shown, or the loop that runs has read it, or will read it
\* again, or a load failed.
CatalogIsCovered ==
    IF refreshing THEN queued \/ catalog \subseteq fetched
                  ELSE failed \/ catalog \subseteq shown

PollingInv ==
    /\ IInv
    /\ PollingTypeOK
    /\ SnapshotIsPast(status)
    /\ SnapshotIsPast(answer)
    /\ AnswerFollowsStatus
    /\ NothingBeforeFirstRevision
    /\ status # NoStatus /\ status.revision = revision /\ operation = NoOperation
          => CatalogIsCovered

\* A snapshot of the present stays one of the past whatever the server does.
LEMMA SnapshotAges ==
    ASSUME TypeOK, [Next]_vars,
           NEW snapshot \in Snapshots \cup {NoStatus}, SnapshotIsPast(snapshot)
    PROVE  snapshot # NoStatus =>
             /\ snapshot.revision <= revision'
             /\ snapshot.revision = revision' =>
                    snapshot.operation = operation' /\ revision = revision'
<1>1. ASSUME snapshot # NoStatus
      PROVE  snapshot.revision \in Nat
  BY <1>1 DEF Snapshots
<1>2. revision \in Nat /\ revision' \in Nat /\ revision' >= revision
      /\ (operation' # operation => revision' > revision)
  BY StepLemma DEF TypeOK
<1> QED
  BY <1>1, <1>2 DEF SnapshotIsPast

LEMMA PollingInitial == PollingInit => PollingInv
<1> SUFFICES ASSUME PollingInit
             PROVE  PollingInv
  OBVIOUS
<1>1. IInv
  BY InitIInv DEF PollingInit
<1>2. PollingTypeOK
  <2>1. refreshing = (mode \in {"skills", "terminal"})
    BY DEF PollingInit, ShowsSkills
  <2>2. refreshing \in BOOLEAN
    BY <2>1
  <2> QED
    BY <2>2 DEF PollingInit, PollingTypeOK
<1>3. NothingBeforeFirstRevision
  BY DEF PollingInit, Init, NothingBeforeFirstRevision
<1>4. status = NoStatus /\ answer = NoStatus
  BY DEF PollingInit
<1> QED
  BY <1>1, <1>2, <1>3, <1>4 DEF PollingInv, SnapshotIsPast, AnswerFollowsStatus

\* What the coordinator answers is a snapshot.
LEMMA CurrentIsSnapshot ==
    ASSUME TypeOK
    PROVE  Current \in Snapshots /\ Current # NoStatus
           /\ Current.operation = operation /\ Current.revision = revision
  BY NoStatusAssumption DEF TypeOK, Current, Snapshots

LEMMA PollingTypeStep ==
    ASSUME TypeOK, PollingTypeOK, [PollingNext]_pollingVars
    PROVE  PollingTypeOK'
<1> USE DEF PollingTypeOK
<1>1. Current \in Snapshots
  BY CurrentIsSnapshot
<1>2. status' \in Snapshots \cup {NoStatus}
  BY <1>1 DEF PollingNext, Server, Commit, Browser, Navigate, PollSend, PollReceive,
         PollFail, RefreshRead, RefreshDone, RefreshFail, pollingVars, browserVars
<1>3. answer' \in Snapshots \cup {NoStatus}
  BY <1>1 DEF PollingNext, Server, Commit, Browser, Navigate, PollSend, PollReceive,
         PollFail, RefreshRead, RefreshDone, RefreshFail, pollingVars, browserVars
<1>4. queued' \in BOOLEAN /\ refreshing' \in BOOLEAN /\ failed' \in BOOLEAN
  BY DEF PollingNext, Server, Commit, Browser, Navigate, PollSend, PollReceive, PollFail,
         RefreshRead, RefreshDone, RefreshFail, RequestRefresh, pollingVars, browserVars
<1> QED
  BY <1>2, <1>3, <1>4

\* The coordinator works and the browser does nothing.  Only a step that keeps
\* the revision can leave a current status current.
LEMMA ServerStep ==
    ASSUME PollingInv, Server
    PROVE  PollingInv'
<1> USE DEF PollingInv
<1>1. [Next]_vars /\ UNCHANGED <<catalog, browserVars>>
  BY DEF Server
<1>2. IInv' /\ TypeOK /\ TypeOK'
  BY <1>1, TypeStep, InvariantStep DEF IInv
<1>3. PollingTypeOK'
  BY <1>2, PollingTypeStep DEF PollingNext
<1>4. UNCHANGED <<status, answer, queued, refreshing, failed, fetched, shown, catalog>>
  BY <1>1 DEF browserVars
<1>5. SnapshotIsPast(status)' /\ SnapshotIsPast(answer)'
  BY <1>1, <1>2, <1>4, SnapshotAges DEF SnapshotIsPast, PollingTypeOK
<1>6. AnswerFollowsStatus'
  BY <1>4 DEF AnswerFollowsStatus
<1>7. revision \in Nat /\ revision' \in Nat /\ revision' >= revision
      /\ (operation' # operation => revision' > revision)
  BY <1>1, <1>2, StepLemma DEF TypeOK
<1>8. NothingBeforeFirstRevision'
  BY <1>4, <1>7 DEF NothingBeforeFirstRevision
<1>9. status' # NoStatus /\ status'.revision = revision' /\ operation' = NoOperation
        => CatalogIsCovered'
  <2> SUFFICES ASSUME status' # NoStatus, status'.revision = revision',
                      operation' = NoOperation
               PROVE  CatalogIsCovered'
    OBVIOUS
  <2>1. status.revision = revision /\ operation = NoOperation
    BY <1>1, <1>2, <1>4, <1>7, SnapshotAges DEF PollingTypeOK, SnapshotIsPast
  <2> QED
    BY <2>1, <1>4 DEF CatalogIsCovered
<1> QED
  BY <1>2, <1>3, <1>5, <1>6, <1>8, <1>9

\* A commit happens under an operation, which a current status shows.
LEMMA CommitStep ==
    ASSUME PollingInv, NEW r \in Requests, Commit(r)
    PROVE  PollingInv'
<1> USE DEF PollingInv
<1>1. [Next]_vars /\ UNCHANGED vars /\ UNCHANGED browserVars
  BY DEF Commit
<1>2. IInv' /\ TypeOK
  BY <1>1, TypeStep, InvariantStep DEF IInv
<1>3. operation # NoOperation
  BY DEF Commit, IInv, GuardsMatchRequests, Addressed
<1>4. PollingTypeOK'
  BY <1>2, PollingTypeStep DEF PollingNext
<1>5. SnapshotIsPast(status)' /\ SnapshotIsPast(answer)' /\ AnswerFollowsStatus'
  BY <1>1 DEF vars, browserVars, SnapshotIsPast, AnswerFollowsStatus
<1>6. NothingBeforeFirstRevision'
  BY <1>1, <1>3 DEF vars, NothingBeforeFirstRevision
<1> QED
  BY <1>1, <1>2, <1>3, <1>4, <1>5, <1>6 DEF vars

\* The browser works and the coordinator does nothing.
LEMMA BrowserStep ==
    ASSUME PollingInv, Browser
    PROVE  PollingInv'
<1> USE DEF PollingInv
<1>1. UNCHANGED <<vars, catalog>>
  BY DEF Browser, Navigate, PollSend, PollReceive, PollFail, RefreshRead, RefreshDone,
         RefreshFail
<1>2. UNCHANGED <<operation, revision, catalog>>
  BY <1>1 DEF vars
<1>3. IInv' /\ TypeOK
  BY <1>1, TypeStep, InvariantStep DEF IInv
<1>4. PollingTypeOK'
  BY <1>3, PollingTypeStep DEF PollingNext
<1>5. NothingBeforeFirstRevision'
  BY <1>2 DEF NothingBeforeFirstRevision
<1>6. /\ SnapshotIsPast(status)' /\ SnapshotIsPast(answer)' /\ AnswerFollowsStatus'
      /\ status' # NoStatus /\ status'.revision = revision' /\ operation' = NoOperation
            => CatalogIsCovered'
  <2> USE DEF PollingTypeOK
  <2>1. ASSUME UNCHANGED status, answer' \in {answer, NoStatus}
        PROVE  SnapshotIsPast(status)' /\ SnapshotIsPast(answer)' /\ AnswerFollowsStatus'
    BY <2>1, <1>2 DEF SnapshotIsPast, AnswerFollowsStatus
  <2>2. ASSUME \/ UNCHANGED <<queued, fetched, refreshing, shown, failed>>
               \/ RequestRefresh /\ UNCHANGED <<shown, failed>>,
               CatalogIsCovered
        PROVE  CatalogIsCovered'
    BY <2>2, <1>2 DEF CatalogIsCovered, RequestRefresh
  <2>3. ASSUME NEW m, Navigate(m)
        PROVE  /\ UNCHANGED status /\ answer' \in {answer, NoStatus}
               /\ CatalogIsCovered => CatalogIsCovered'
    BY <2>3, <2>2 DEF Navigate
  <2>4. CASE PollSend
    <3>1. answer' \in Snapshots /\ answer'.operation = operation /\ answer'.revision = revision
          /\ UNCHANGED status
      BY <2>4, <1>3, CurrentIsSnapshot DEF PollSend
    <3>2. SnapshotIsPast(status)' /\ SnapshotIsPast(answer)' /\ AnswerFollowsStatus'
      <4>1. revision \in Nat
        BY <1>3 DEF TypeOK
      <4> QED
        BY <3>1, <4>1, <1>2 DEF SnapshotIsPast, AnswerFollowsStatus
    <3> QED
      BY <3>1, <3>2, <2>2, <2>4, <1>2 DEF PollSend
  <2>5. CASE PollReceive
    <3>1. status' = answer /\ answer' = NoStatus /\ answer # NoStatus
      BY <2>5 DEF PollReceive
    <3>2. SnapshotIsPast(status)' /\ SnapshotIsPast(answer)' /\ AnswerFollowsStatus'
      BY <3>1, <1>2 DEF SnapshotIsPast, AnswerFollowsStatus
    <3>3. ASSUME answer.revision = revision, operation = NoOperation
          PROVE  CatalogIsCovered'
      <4>1. answer.operation = NoOperation
        BY <3>1, <3>3 DEF SnapshotIsPast
      <4>2. CASE ShouldRefresh(status, answer)
        <5>1. RequestRefresh /\ UNCHANGED <<shown, failed>>
          BY <4>2, <2>5 DEF PollReceive
        <5> QED
          BY <5>1, <1>2 DEF RequestRefresh, CatalogIsCovered
      <4>3. CASE ~ShouldRefresh(status, answer)
        <5>1. UNCHANGED <<queued, fetched, refreshing, shown, failed>>
          BY <4>3, <2>5 DEF PollReceive
        <5>2. CASE status = NoStatus
          BY <5>1, <5>2, <4>1, <4>3, <3>3, <1>2
          DEF ShouldRefresh, NothingBeforeFirstRevision, CatalogIsCovered
        <5>3. CASE status # NoStatus
          BY <5>1, <5>3, <4>1, <4>3, <3>3, <2>2 DEF ShouldRefresh, AnswerFollowsStatus
        <5> QED
          BY <5>2, <5>3
      <4> QED
        BY <4>2, <4>3
    <3> QED
      BY <3>1, <3>2, <3>3, <1>2
  <2>6. CASE PollFail
    BY <2>6, <2>1, <2>2, <1>2 DEF PollFail
  <2>7. CASE RefreshRead
    <3>1. UNCHANGED <<status, answer>> /\ CatalogIsCovered'
      BY <2>7, <1>2 DEF RefreshRead, CatalogIsCovered
    <3> QED
      BY <3>1, <2>1
  <2>8. CASE RefreshDone
    <3>1. UNCHANGED <<status, answer>> /\ (CatalogIsCovered => CatalogIsCovered')
      BY <2>8, <1>2 DEF RefreshDone, CatalogIsCovered
    <3> QED
      BY <3>1, <2>1, <1>2
  <2>9. CASE RefreshFail
    <3>1. UNCHANGED <<status, answer>> /\ CatalogIsCovered'
      BY <2>9, <1>2 DEF RefreshFail, CatalogIsCovered
    <3> QED
      BY <3>1, <2>1
  <2>10. CASE \E m \in {"skills", "terminal", "webapp"} : Navigate(m)
    BY <2>10, <2>3, <2>1, <1>2
  <2> QED
    BY <2>4, <2>5, <2>6, <2>7, <2>8, <2>9, <2>10 DEF Browser
<1> QED
  BY <1>3, <1>4, <1>5, <1>6

\* Every reachable state of the polling page satisfies its invariant.
THEOREM PollingInductive == PollingSpec => []PollingInv
<1>1. PollingInit => PollingInv
  BY PollingInitial
<1>2. PollingInv /\ [PollingNext]_pollingVars => PollingInv'
  <2>1. ASSUME PollingInv, UNCHANGED pollingVars
        PROVE  PollingInv'
    <3>1. UNCHANGED vars /\ UNCHANGED <<catalog, status, answer, queued, fetched, refreshing,
                                        shown, failed>>
      BY <2>1 DEF pollingVars, browserVars
    <3>2. IInv'
      BY <2>1, <3>1, TypeStep, InvariantStep DEF PollingInv, IInv
    <3> QED
      BY <2>1, <3>1, <3>2 DEF vars, PollingInv, PollingTypeOK, SnapshotIsPast,
         AnswerFollowsStatus, NothingBeforeFirstRevision, CatalogIsCovered
  <2> QED
    BY <2>1, ServerStep, CommitStep, BrowserStep DEF PollingNext
<1> QED
  BY <1>1, <1>2, PTL DEF PollingSpec

\* A settled page shows every committed change, however many operations began
\* and ended between two of its polls.
THEOREM SettledPage == PollingSpec => []SettledPageIsCurrent
<1>1. PollingInv => SettledPageIsCurrent
  BY DEF PollingInv, SnapshotIsPast, CatalogIsCovered, SettledPageIsCurrent
<1> QED
  BY <1>1, PollingInductive, PTL

-----------------------------------------------------------------------------
(* The skill library                                                       *)
(*                                                                         *)
(* What a task knows (Fits) is about an id which nobody else adds (Apart), *)
(* and, while the tasks belong to one server, about a repository that no   *)
(* other task changes.  A revision that a synchronisation published is a   *)
(* new directory, so no row and no link leads to it before its rows do.    *)

TaskStages == {"idle", "insert", "plan", "publish", "reconcile", "referenced", "unpublish",
               "rows", "files", "link"}
SkillIds == ((Nat \ {0}) \X PathSet) \cup ({0} \X Nat)
DirectoryNames == ((Nat \ {0}) \X Commits) \cup ({0} \X Nat)
SkillRows == [skill : SkillIds, slug : Slugs, dir : DirectoryNames]
RepositoryRows == [id : Nat \ {0}, commit : Commits, version : Nat]
TaskStates == [op : {"idle", "add", "sync", "delete", "apply", "create", "remove"}, at : TaskStages,
               id : Nat, commit : Commits \cup {None}, version : Nat,
               target : Commits \cup {None} \cup Nat,
               known : SUBSET SkillRows, remove : SUBSET SkillIds,
               published : BOOLEAN, links : SUBSET SkillRows]

WorldType ==
    /\ exclusive \in BOOLEAN /\ tree \in [Commits -> Trees] /\ head \in Commits
    /\ repository \in RepositoryRows \cup {None}
    /\ skills \in SUBSET SkillRows /\ applied \in SUBSET SkillRows
    /\ enabled \in SUBSET SkillIds /\ directories \in SUBSET DirectoryNames
    /\ ids \in Nat /\ customs \in Nat

World ==
    /\ SlugsAreUnique
    /\ repository # None => repository.id <= ids
    /\ \A s \in skills \cup applied : s.skill[1] <= ids

\* A link leads to the files of its skill, as long as its repository is there.
Leads(s) ==
    /\ s.dir[1] = s.skill[1] /\ (s.skill[1] = 0 => s.dir = s.skill)
    /\ repository # None /\ s.skill[1] = repository.id => s.dir \in directories

CustomRows ==
    \A s \in skills : s.skill[1] = 0 =>
        s.dir = s.skill /\ s.skill[2] <= customs /\ \A r \in skills : r.skill = s.skill => r = s

WorldOfOne ==
    /\ RowsFollowRepository /\ RowsHaveContent /\ CustomRows
    /\ repository # None => <<repository.id, repository.commit>> \in directories
    /\ \A e \in enabled : \E s \in skills : s.skill = e
    /\ \A s \in applied : Leads(s)

Revised == {"reconcile", "referenced", "unpublish"}
OfCustom == {"create", "remove"}

\* What a task knows, whoever is at work.
Fits(i) ==
    /\ i.id <= ids /\ \A s \in i.links : s.skill[1] <= ids
    /\ i.op \in {"add", "sync", "delete"} => i.id # 0
    /\ i.op = "add" =>
          /\ i.target \in Commits /\ \A s \in skills \cup applied : s.skill[1] # i.id
          /\ repository # None => repository.id # i.id
    /\ i.op = "sync" =>
          /\ repository # None /\ repository.id = i.id => i.version <= repository.version
          /\ i.at \in Revised \cup {"publish"} => i.target \in Commits
          /\ i.at = "plan" /\ ~Stale(i) => Rows(i.id) \subseteq i.known
          /\ i.at \in {"publish", "reconcile"} /\ ~Stale(i) =>
                \A s \in Rows(i.id) : tree[i.target][s.skill[2]] = None => s.skill \in i.remove
    /\ i.op \in OfCustom => i.id = 0 /\ i.target \in Nat

\* What it knows when all tasks belong to one server.
FitsOfOne(i) ==
    /\ \A s \in i.links : Leads(s)
    /\ i.op = "add" => <<i.id, i.target>> \in directories
    /\ i.op = "sync" => ~Stale(i)
    /\ i.op = "sync" /\ i.at \in Revised =>
          /\ <<i.id, i.target>> \in directories
          /\ i.at # "reconcile" => i.published
          /\ i.published => i.target # repository.commit /\ \A s \in applied : s.dir # <<i.id, i.target>>
    /\ i.op = "delete" /\ i.at = "files" /\ repository # None => repository.id # i.id
    /\ i.op \in OfCustom => i.target <= customs /\ \A s \in skills : s.skill # <<0, i.target>>
    /\ i.op = "create" => <<0, i.target>> \in directories

\* What two tasks have to do with each other.
Apart(i, j) == i.op = "add" => j.id # i.id /\ \A s \in j.links : s.skill[1] # i.id

ApartOfOne(i, j) ==
    /\ i.op \in Coordinated => j.op \notin Coordinated \cup {"delete"}
    /\ i.op = "sync" /\ i.at \in Revised /\ i.published => \A s \in j.links : s.dir # <<i.id, i.target>>
    /\ i.op \in OfCustom /\ j.op \in OfCustom => i.target # j.target

TaskFits(t) == Fits(task[t]) /\ (exclusive => FitsOfOne(task[t]))
TasksApart(t, u) == Apart(task[t], task[u]) /\ (exclusive => ApartOfOne(task[t], task[u]))

LibraryInv ==
    /\ WorldType /\ World /\ (exclusive => WorldOfOne)
    /\ task \in [Tasks -> TaskStates]
    /\ \A t \in Tasks : TaskFits(t)
    /\ \A t, u \in Tasks : t # u => TasksApart(t, u)

-----------------------------------------------------------------------------
(* The rows, and a task by itself                                          *)

LEMMA NoneLemma ==
    /\ None \notin RepositoryRows
    /\ \A r \in RepositoryRows : r.id \in Nat /\ r.id # 0 /\ r.commit \in Commits /\ r.version \in Nat
BY LibraryAssumption DEF LibraryConstants, RepositoryRows

LEMMA SkillRowLemma ==
    ASSUME NEW s \in SkillRows
    PROVE  /\ s.skill \in SkillIds /\ s.dir \in DirectoryNames /\ s.slug \in Slugs
           /\ s.skill = <<s.skill[1], s.skill[2]>> /\ s.skill[1] \in Nat
           /\ s.skill[1] # 0 => s.skill[2] \in PathSet
           /\ s.skill[1] = 0 => s.skill[2] \in Nat
           /\ s.dir = <<s.dir[1], s.dir[2]>> /\ s.dir[1] \in Nat
<1>1. s.skill \in SkillIds /\ s.dir \in DirectoryNames /\ s.slug \in Slugs
  BY DEF SkillRows
<1>2. /\ s.skill = <<s.skill[1], s.skill[2]>> /\ s.skill[1] \in Nat
      /\ s.skill[1] # 0 => s.skill[2] \in PathSet
      /\ s.skill[1] = 0 => s.skill[2] \in Nat
  BY <1>1 DEF SkillIds
<1>3. s.dir = <<s.dir[1], s.dir[2]>> /\ s.dir[1] \in Nat
  BY <1>1 DEF DirectoryNames
<1> QED
  BY <1>1, <1>2, <1>3

\* The rows of a commit.
LEMMA DiscoveredLemma ==
    ASSUME WorldType, NEW id \in Nat \ {0}, NEW commit \in Commits
    PROVE  /\ Discovered(id, commit) \in SUBSET SkillRows
           /\ \A r \in Discovered(id, commit) :
                 /\ r.skill[1] = id /\ r.skill[2] \in PathSet /\ r.skill = <<id, r.skill[2]>>
                 /\ r.dir = <<id, commit>> /\ r.dir[1] = id
                 /\ r.slug = tree[commit][r.skill[2]] /\ r.slug # None
           /\ \A q, r \in Discovered(id, commit) : q.slug = r.slug => q = r
           /\ \A p \in PathSet : tree[commit][p] # None =>
                 \E r \in Discovered(id, commit) : r.skill = <<id, p>> /\ r.slug = tree[commit][p]
<1> DEFINE row(p) == [skill |-> <<id, p>>, slug |-> tree[commit][p], dir |-> <<id, commit>>]
<1>1. tree[commit] \in [PathSet -> Slugs \cup {None}]
      /\ \A p, q \in PathSet : tree[commit][p] = tree[commit][q] /\ tree[commit][p] # None => p = q
  BY DEF WorldType, Trees
<1>2. \A r : r \in Discovered(id, commit) <=> \E p \in PathSet : tree[commit][p] # None /\ r = row(p)
  BY DEF Discovered
<1>3. ASSUME NEW p \in PathSet, tree[commit][p] # None
      PROVE  /\ row(p) \in SkillRows /\ row(p).skill = <<id, p>> /\ row(p).skill[1] = id /\ row(p).skill[2] = p
             /\ row(p).dir = <<id, commit>> /\ row(p).dir[1] = id /\ row(p).slug = tree[commit][p]
  <2>1. <<id, p>> \in SkillIds /\ <<id, commit>> \in DirectoryNames /\ tree[commit][p] \in Slugs
    BY <1>1, <1>3 DEF SkillIds, DirectoryNames
  <2> QED
    BY <2>1 DEF SkillRows
<1> HIDE DEF row
<1>4. \A r \in Discovered(id, commit) :
         /\ r \in SkillRows
         /\ r.skill[1] = id /\ r.skill[2] \in PathSet /\ r.skill = <<id, r.skill[2]>>
         /\ r.dir = <<id, commit>> /\ r.dir[1] = id
         /\ r.slug = tree[commit][r.skill[2]] /\ r.slug # None /\ r = row(r.skill[2])
  BY <1>2, <1>3
<1>5. \A q, r \in Discovered(id, commit) : q.slug = r.slug => q = r
  <2> SUFFICES ASSUME NEW q \in Discovered(id, commit), NEW r \in Discovered(id, commit), q.slug = r.slug
               PROVE  q = r
    OBVIOUS
  <2>1. q.skill[2] = r.skill[2]
    BY <1>1, <1>4
  <2> QED
    BY <1>4, <2>1
<1>6. \A p \in PathSet : tree[commit][p] # None =>
                 \E r \in Discovered(id, commit) : r.skill = <<id, p>> /\ r.slug = tree[commit][p]
  BY <1>2, <1>3
<1> QED
  BY <1>4, <1>5, <1>6

LEMMA IdleLemma ==
    /\ IdleTask \in TaskStates /\ IdleTask.op = "idle" /\ IdleTask.id = 0 /\ IdleTask.links = {}
BY DEF IdleTask, TaskStates, TaskStages

\* A task changes its state; the others do not.
LEMMA SetLemma ==
    ASSUME task \in [Tasks -> TaskStates], NEW t \in Tasks, NEW i \in TaskStates, Set(t, i)
    PROVE  /\ task' \in [Tasks -> TaskStates] /\ task'[t] = i
           /\ \A u \in Tasks \ {t} : task'[u] = task[u]
BY DEF Set

LEMMA EndLemma ==
    ASSUME task \in [Tasks -> TaskStates], NEW t \in Tasks, End(t)
    PROVE  /\ task' \in [Tasks -> TaskStates] /\ task'[t] = IdleTask
           /\ \A u \in Tasks \ {t} : task'[u] = task[u]
BY IdleLemma, SetLemma DEF End

\* It is enough to look at that task and at what it has to do with the others.
LEMMA OneTaskChanges ==
    ASSUME LibraryInv, NEW t \in Tasks, task' \in [Tasks -> TaskStates],
           \A u \in Tasks \ {t} : task'[u] = task[u],
           UNCHANGED exclusive,
           WorldType', World', exclusive => WorldOfOne',
           \A u \in Tasks \ {t} : TaskFits(u)',
           TaskFits(t)',
           \A u \in Tasks \ {t} : TasksApart(t, u)' /\ TasksApart(u, t)'
    PROVE  LibraryInv'
<1>1. \A u, v \in Tasks \ {t} : u # v => TasksApart(u, v)'
  BY DEF LibraryInv, TasksApart
<1>2. \A u, v \in Tasks : u # v => TasksApart(u, v)'
  BY <1>1
<1>3. \A u \in Tasks : TaskFits(u)'
  OBVIOUS
<1> QED
  BY <1>2, <1>3 DEF LibraryInv

\* A task that ends knows nothing.
LEMMA OneTaskEnds ==
    ASSUME LibraryInv, NEW t \in Tasks, End(t), UNCHANGED exclusive,
           WorldType', World', exclusive => WorldOfOne',
           \A u \in Tasks \ {t} : TaskFits(u)'
    PROVE  LibraryInv'
<1>1. /\ task' \in [Tasks -> TaskStates] /\ task'[t] = IdleTask
      /\ \A u \in Tasks \ {t} : task'[u] = task[u]
  BY EndLemma DEF LibraryInv
<1>2. TaskFits(t)'
  BY <1>1, IdleLemma DEF TaskFits, Fits, FitsOfOne, WorldType, OfCustom
<1>3. ASSUME NEW u \in Tasks \ {t} PROVE TasksApart(t, u)' /\ TasksApart(u, t)'
  <2>1. Fits(task[u])
    BY DEF LibraryInv, TaskFits
  <2> QED
    BY <1>1, <2>1, IdleLemma DEF TasksApart, Apart, ApartOfOne, Fits, Coordinated, OfCustom
<1> QED
  BY <1>1, <1>2, <1>3, OneTaskChanges

LEMMA WorldRests ==
    ASSUME LibraryInv,
           UNCHANGED <<exclusive, tree, repository, skills, enabled, directories, applied, ids, customs>>,
           head' \in Commits
    PROVE  /\ WorldType' /\ World' /\ (exclusive => WorldOfOne')
           /\ \A u \in Tasks : task'[u] = task[u] => TaskFits(u)'
<1>1. WorldType' /\ World'
  BY DEF LibraryInv, WorldType, World, SlugsAreUnique
<1>2. exclusive => WorldOfOne'
  BY DEF LibraryInv, WorldOfOne, RowsFollowRepository, RowsHaveContent, CustomRows, Leads
<1>3. \A u \in Tasks : task'[u] = task[u] => TaskFits(u)'
  BY DEF LibraryInv, TaskFits, Fits, FitsOfOne, Leads, Stale, Rows
<1> QED
  BY <1>1, <1>2, <1>3

-----------------------------------------------------------------------------
(* Steps that only read                                                    *)

\* The next operation of the server finds no other.
LEMMA MayBeginLemma ==
    ASSUME NEW op \in {"add", "sync", "delete"}, MayBegin(op), exclusive, NEW u \in Tasks
    PROVE  /\ task[u].op \notin Coordinated
           /\ op # "delete" => task[u].op # "delete"
BY DEF MayBegin, Coordinated

LEMMA SyncReadStep ==
    ASSUME LibraryInv, NEW t \in Tasks, SyncRead(t), UNCHANGED exclusive
    PROVE  LibraryInv'
<1> DEFINE i == [IdleTask EXCEPT !.op = "sync", !.at = "plan", !.id = repository.id,
                                 !.commit = repository.commit, !.version = repository.version,
                                 !.known = Rows(repository.id)]
<1>1. /\ MayBegin("sync") /\ repository # None /\ Set(t, i)
      /\ UNCHANGED <<tree, head, repository, skills, enabled, directories, applied, ids, customs>>
  BY DEF SyncRead
<1>2. repository \in RepositoryRows /\ head \in Commits /\ Rows(repository.id) \in SUBSET SkillRows
  BY <1>1 DEF LibraryInv, WorldType, Rows
<1>3. /\ i \in TaskStates /\ i.op = "sync" /\ i.at = "plan" /\ i.id = repository.id
      /\ i.commit = repository.commit /\ i.version = repository.version /\ i.links = {}
      /\ i.known = Rows(i.id)
  BY <1>2, NoneLemma DEF IdleTask, TaskStates, TaskStages
<1> HIDE DEF i
<1>4. task' \in [Tasks -> TaskStates] /\ task'[t] = i /\ \A u \in Tasks \ {t} : task'[u] = task[u]
  BY <1>1, <1>3, SetLemma DEF LibraryInv
<1>5. /\ WorldType' /\ World' /\ (exclusive => WorldOfOne')
      /\ \A u \in Tasks \ {t} : TaskFits(u)'
  BY <1>1, <1>2, <1>4, WorldRests
<1>6. TaskFits(t)'
  <2>1. Fits(i)
    BY <1>1, <1>2, <1>3, NoneLemma DEF Fits, LibraryInv, World, Revised, OfCustom
  <2>2. FitsOfOne(i)
    BY <1>1, <1>2, <1>3 DEF FitsOfOne, Stale, Revised, OfCustom
  <2> QED
    BY <1>1, <1>4, <2>1, <2>2 DEF TaskFits, Fits, FitsOfOne, Stale, Rows, Leads
<1>7. ASSUME NEW u \in Tasks \ {t} PROVE TasksApart(t, u)' /\ TasksApart(u, t)'
  <2>1. Fits(task[u])
    BY DEF LibraryInv, TaskFits
  <2>2. exclusive => task[u].op \notin Coordinated /\ task[u].op # "delete"
    BY <1>1, MayBeginLemma
  <2> QED
    BY <1>1, <1>3, <1>4, <2>1, <2>2 DEF TasksApart, Apart, ApartOfOne, Fits, Revised, Coordinated, OfCustom
<1> QED
  BY <1>4, <1>5, <1>6, <1>7, OneTaskChanges

LEMMA SyncPlanStep ==
    ASSUME LibraryInv, NEW t \in Tasks, SyncPlan(t), UNCHANGED exclusive
    PROVE  LibraryInv'
<1> DEFINE old == task[t]
           remove == Removed(old.known, tree[head])
           i == [old EXCEPT !.at = "publish", !.target = head, !.known = {}, !.remove = remove]
<1>1. /\ old.op = "sync" /\ old.at = "plan" /\ old \in TaskStates /\ head \in Commits
      /\ UNCHANGED <<tree, head, repository, skills, enabled, directories, applied, ids, customs>>
  BY DEF SyncPlan, At, LibraryInv, WorldType
<1>2. \/ End(t)
      \/ Set(t, i)
  BY DEF SyncPlan, End, Cloned
<1>3. \A u \in Tasks : task'[u] = task[u] => TaskFits(u)'
  BY <1>1, WorldRests
<1>4. WorldType' /\ World' /\ (exclusive => WorldOfOne')
  BY <1>1, WorldRests
<1>5. CASE End(t)
  <2>1. \A u \in Tasks \ {t} : task'[u] = task[u]
    BY <1>5, EndLemma DEF LibraryInv
  <2> QED
    BY <1>3, <1>4, <1>5, <2>1, OneTaskEnds
<1>6. CASE Set(t, i)
  <2>1. remove \in SUBSET SkillIds
    BY <1>1, SkillRowLemma DEF Removed, TaskStates
  <2>2. \A s \in old.known : tree[head][s.skill[2]] = None => s.skill \in remove
    BY DEF Removed
  <2> HIDE DEF remove
  <2>3. i \in TaskStates
    BY <1>1, <2>1 DEF TaskStates, TaskStages
  <2>4. /\ i.op = "sync" /\ i.at = "publish" /\ i.target = head /\ i.remove = remove
        /\ i.id = old.id /\ i.commit = old.commit /\ i.version = old.version
        /\ i.links = old.links /\ i.published = old.published
    BY <1>1 DEF TaskStates
  <2> HIDE DEF i
  <2>5. task' \in [Tasks -> TaskStates] /\ task'[t] = i /\ \A u \in Tasks \ {t} : task'[u] = task[u]
    BY <1>6, <2>3, SetLemma DEF LibraryInv
  <2>6. Fits(old) /\ (exclusive => FitsOfOne(old))
    BY DEF LibraryInv, TaskFits
  <2>7. Fits(i)
    BY <1>1, <2>2, <2>4, <2>6 DEF Fits, Stale
  <2>8. exclusive => FitsOfOne(i)
    BY <1>1, <2>4, <2>6 DEF FitsOfOne, Stale, Revised, OfCustom
  <2>9. TaskFits(t)'
    BY <1>1, <2>5, <2>7, <2>8 DEF TaskFits, Fits, FitsOfOne, Stale, Rows, Leads
  <2>10. ASSUME NEW u \in Tasks \ {t} PROVE TasksApart(t, u)' /\ TasksApart(u, t)'
    <3>1. TasksApart(t, u) /\ TasksApart(u, t)
      BY DEF LibraryInv
    <3> QED
      BY <1>1, <2>4, <2>5, <3>1 DEF TasksApart, Apart, ApartOfOne, Revised, OfCustom
  <2> QED
    BY <1>3, <1>4, <2>5, <2>9, <2>10, OneTaskChanges
<1> QED
  BY <1>2, <1>5, <1>6

LEMMA SyncReferencedStep ==
    ASSUME LibraryInv, NEW t \in Tasks, SyncReferenced(t), UNCHANGED exclusive
    PROVE  LibraryInv'
<1> DEFINE old == task[t]
           i == [old EXCEPT !.at = "unpublish"]
<1>1. /\ old.op = "sync" /\ old.at = "referenced" /\ old \in TaskStates /\ head \in Commits
      /\ UNCHANGED <<tree, head, repository, skills, enabled, directories, applied, ids, customs>>
      /\ End(t) \/ Set(t, i)
  BY DEF SyncReferenced, At, End, LibraryInv, WorldType
<1>2. \A u \in Tasks : task'[u] = task[u] => TaskFits(u)'
  BY <1>1, WorldRests
<1>3. WorldType' /\ World' /\ (exclusive => WorldOfOne')
  BY <1>1, WorldRests
<1>4. CASE End(t)
  <2>1. \A u \in Tasks \ {t} : task'[u] = task[u]
    BY <1>4, EndLemma DEF LibraryInv
  <2> QED
    BY <1>2, <1>3, <1>4, <2>1, OneTaskEnds
<1>5. CASE Set(t, i)
  <2>1. /\ i \in TaskStates /\ i.op = "sync" /\ i.at = "unpublish" /\ i.target = old.target
        /\ i.remove = old.remove /\ i.id = old.id /\ i.commit = old.commit /\ i.version = old.version
        /\ i.links = old.links /\ i.published = old.published
    BY <1>1 DEF TaskStates, TaskStages
  <2> HIDE DEF i
  <2>2. task' \in [Tasks -> TaskStates] /\ task'[t] = i /\ \A u \in Tasks \ {t} : task'[u] = task[u]
    BY <1>5, <2>1, SetLemma DEF LibraryInv
  <2>3. Fits(old) /\ (exclusive => FitsOfOne(old))
    BY DEF LibraryInv, TaskFits
  <2>4. Fits(i)
    BY <1>1, <2>1, <2>3 DEF Fits, Stale, Revised
  <2>5. exclusive => FitsOfOne(i)
    BY <1>1, <2>1, <2>3 DEF FitsOfOne, Stale, Revised
  <2>6. TaskFits(t)'
    BY <1>1, <2>2, <2>4, <2>5 DEF TaskFits, Fits, FitsOfOne, Stale, Rows, Leads
  <2>7. ASSUME NEW u \in Tasks \ {t} PROVE TasksApart(t, u)' /\ TasksApart(u, t)'
    <3>1. TasksApart(t, u) /\ TasksApart(u, t)
      BY DEF LibraryInv
    <3> QED
      BY <1>1, <2>1, <2>2, <3>1 DEF TasksApart, Apart, ApartOfOne, Revised
  <2> QED
    BY <1>2, <1>3, <2>2, <2>6, <2>7, OneTaskChanges
<1> QED
  BY <1>1, <1>4, <1>5

LEMMA RemoveBeginStep ==
    ASSUME LibraryInv, NEW t \in Tasks, RemoveBegin(t), UNCHANGED exclusive
    PROVE  LibraryInv'
<1> DEFINE i == [IdleTask EXCEPT !.op = "delete", !.at = "rows", !.id = repository.id]
<1>1. /\ MayBegin("delete") /\ repository # None /\ Set(t, i)
      /\ UNCHANGED <<tree, head, repository, skills, enabled, directories, applied, ids, customs>>
  BY DEF RemoveBegin
<1>2. repository \in RepositoryRows /\ head \in Commits
  BY <1>1 DEF LibraryInv, WorldType
<1>3. /\ i \in TaskStates /\ i.op = "delete" /\ i.at = "rows" /\ i.id = repository.id /\ i.links = {}
  BY <1>2, NoneLemma DEF IdleTask, TaskStates, TaskStages
<1> HIDE DEF i
<1>4. task' \in [Tasks -> TaskStates] /\ task'[t] = i /\ \A u \in Tasks \ {t} : task'[u] = task[u]
  BY <1>1, <1>3, SetLemma DEF LibraryInv
<1>5. /\ WorldType' /\ World' /\ (exclusive => WorldOfOne')
      /\ \A u \in Tasks \ {t} : TaskFits(u)'
  BY <1>1, <1>2, <1>4, WorldRests
<1>6. TaskFits(t)'
  BY <1>1, <1>2, <1>3, <1>4, NoneLemma DEF TaskFits, Fits, FitsOfOne, LibraryInv, World, OfCustom
<1>7. ASSUME NEW u \in Tasks \ {t} PROVE TasksApart(t, u)' /\ TasksApart(u, t)'
  <2>1. Fits(task[u])
    BY DEF LibraryInv, TaskFits
  <2>2. exclusive => task[u].op \notin Coordinated
    BY <1>1, MayBeginLemma
  <2> QED
    BY <1>1, <1>3, <1>4, <2>1, <2>2 DEF TasksApart, Apart, ApartOfOne, Fits, Revised, Coordinated, OfCustom
<1> QED
  BY <1>4, <1>5, <1>6, <1>7, OneTaskChanges

\* What is linked is what the rows lead to when they are read.
LEMMA ApplyReadStep ==
    ASSUME LibraryInv, NEW t \in Tasks, ApplyRead(t), UNCHANGED exclusive
    PROVE  LibraryInv'
<1> DEFINE links == {s \in skills : s.skill \in enabled}
           i == [IdleTask EXCEPT !.op = "apply", !.at = "link", !.links = links]
<1>1. /\ Set(t, i)
      /\ UNCHANGED <<tree, head, repository, skills, enabled, directories, applied, ids, customs>>
  BY DEF ApplyRead
<1>2. links \in SUBSET SkillRows /\ head \in Commits
  BY DEF LibraryInv, WorldType
<1>3. links \subseteq skills
  OBVIOUS
<1> HIDE DEF links
<1>4. i \in TaskStates /\ i.op = "apply" /\ i.at = "link" /\ i.id = 0 /\ i.links = links
  BY <1>2 DEF IdleTask, TaskStates, TaskStages
<1> HIDE DEF i
<1>5. task' \in [Tasks -> TaskStates] /\ task'[t] = i /\ \A u \in Tasks \ {t} : task'[u] = task[u]
  BY <1>1, <1>4, SetLemma DEF LibraryInv
<1>6. /\ WorldType' /\ World' /\ (exclusive => WorldOfOne')
      /\ \A u \in Tasks \ {t} : TaskFits(u)'
  BY <1>1, <1>2, <1>5, WorldRests
<1>7. ASSUME exclusive, NEW s \in skills
      PROVE  Leads(s) /\ (s.skill[1] # 0 => repository # None /\ s.dir = <<repository.id, repository.commit>>)
             /\ (s.skill[1] = 0 => s.dir[1] = 0)
  <2>1. s \in SkillRows
    BY DEF LibraryInv, WorldType
  <2> QED
    BY <1>7, <2>1, SkillRowLemma DEF LibraryInv, WorldOfOne, RowsFollowRepository, RowsHaveContent, CustomRows, Leads
<1>8. TaskFits(t)'
  <2>1. Fits(i)
    BY <1>3, <1>4 DEF LibraryInv, WorldType, World, Fits, OfCustom
  <2>2. exclusive => FitsOfOne(i)
    BY <1>3, <1>4, <1>7 DEF FitsOfOne, OfCustom
  <2> QED
    BY <1>1, <1>5, <2>1, <2>2 DEF TaskFits, Fits, FitsOfOne, Stale, Rows, Leads
<1>9. ASSUME NEW u \in Tasks \ {t} PROVE TasksApart(t, u)' /\ TasksApart(u, t)'
  <2>1. Fits(task[u]) /\ (exclusive => FitsOfOne(task[u]))
    BY DEF LibraryInv, TaskFits
  <2>2. Apart(task[u], i)
    BY <1>3, <1>4, <2>1 DEF Apart, Fits
  <2>3. ASSUME exclusive PROVE ApartOfOne(task[u], i)
    <3>1. ASSUME task[u].op = "sync", task[u].at \in Revised, task[u].published, NEW s \in links,
                 s.dir = <<task[u].id, task[u].target>>
          PROVE  FALSE
      <4>1. s.skill[1] # 0
        BY <1>3, <1>7, <2>1, <2>3, <3>1 DEF Fits
      <4>2. s.dir = <<repository.id, repository.commit>>
        BY <1>3, <1>7, <2>3, <3>1, <4>1
      <4> QED
        BY <2>1, <2>3, <3>1, <4>2 DEF FitsOfOne
    <3> QED
      BY <1>4, <3>1 DEF ApartOfOne, Coordinated, OfCustom
  <2> QED
    BY <1>1, <1>4, <1>5, <2>2, <2>3 DEF TasksApart, Apart, ApartOfOne, Coordinated
<1> QED
  BY <1>5, <1>6, <1>8, <1>9, OneTaskChanges

LEMMA DropStep ==
    ASSUME LibraryInv, NEW t \in Tasks, Drop(t), UNCHANGED exclusive
    PROVE  LibraryInv'
<1>1. /\ End(t) /\ head' \in Commits
      /\ UNCHANGED <<tree, repository, skills, enabled, directories, applied, ids, customs>>
  BY DEF Drop, LibraryInv, WorldType
<1>2. \A u \in Tasks \ {t} : task'[u] = task[u]
  BY <1>1, EndLemma DEF LibraryInv
<1> QED
  BY <1>1, <1>2, WorldRests, OneTaskEnds

LEMMA PushStep ==
    ASSUME LibraryInv, NEW c \in Commits, Push(c), UNCHANGED exclusive
    PROVE  LibraryInv'
<1>1. /\ head' \in Commits /\ task' = task
      /\ UNCHANGED <<tree, repository, skills, enabled, directories, applied, ids, customs>>
  BY DEF Push
<1>2. /\ WorldType' /\ World' /\ (exclusive => WorldOfOne')
      /\ \A u \in Tasks : TaskFits(u)'
  BY <1>1, WorldRests
<1>3. \A u, v \in Tasks : u # v => TasksApart(u, v)'
  BY <1>1 DEF LibraryInv, TasksApart
<1> QED
  BY <1>1, <1>2, <1>3 DEF LibraryInv

LEMMA ReplaceSkillsStep ==
    ASSUME LibraryInv, NEW chosen \in SUBSET skills, ReplaceSkills(chosen), UNCHANGED exclusive
    PROVE  LibraryInv'
<1>1. /\ enabled' = {s.skill : s \in chosen} /\ task' = task
      /\ UNCHANGED <<tree, head, repository, skills, directories, applied, ids, customs>>
  BY DEF ReplaceSkills
<1>2. enabled' \in SUBSET SkillIds /\ \A e \in enabled' : \E s \in skills : s.skill = e
  BY <1>1, SkillRowLemma DEF LibraryInv, WorldType
<1>3. WorldType' /\ World'
  BY <1>1, <1>2 DEF LibraryInv, WorldType, World, SlugsAreUnique
<1>4. exclusive => WorldOfOne'
  BY <1>1, <1>2 DEF LibraryInv, WorldOfOne, RowsFollowRepository, RowsHaveContent, CustomRows, Leads
<1>5. \A u \in Tasks : TaskFits(u)'
  BY <1>1 DEF LibraryInv, TaskFits, Fits, FitsOfOne, Leads, Stale, Rows
<1>6. \A u, v \in Tasks : u # v => TasksApart(u, v)'
  BY <1>1 DEF LibraryInv, TasksApart
<1> QED
  BY <1>1, <1>3, <1>4, <1>5, <1>6 DEF LibraryInv

-----------------------------------------------------------------------------
(* Steps that write files                                                  *)

\* The rows lead somewhere, and so do the links, as long as what they need stays.
LEMMA FilesLemma ==
    ASSUME WorldType, exclusive => WorldOfOne, NEW rest \in SUBSET DirectoryNames,
           UNCHANGED <<exclusive, repository, skills, enabled, applied, customs>>, directories' = rest,
           exclusive => /\ repository # None => <<repository.id, repository.commit>> \in rest
                        /\ \A s \in skills : s.skill[1] = 0 => s.dir \in rest
                        /\ \A s \in applied : repository # None /\ s.skill[1] = repository.id => s.dir \in rest
    PROVE  exclusive => WorldOfOne'
<1> SUFFICES ASSUME exclusive PROVE WorldOfOne'
  OBVIOUS
<1>1. RowsFollowRepository' /\ CustomRows'
  BY DEF WorldOfOne, RowsFollowRepository, CustomRows
<1>2. RowsHaveContent'
  BY DEF WorldOfOne, RowsFollowRepository, RowsHaveContent
<1>3. \A s \in applied' : Leads(s)'
  BY DEF WorldOfOne, Leads
<1> QED
  BY <1>1, <1>2, <1>3 DEF WorldOfOne

LEMMA AddPublishStep ==
    ASSUME LibraryInv, NEW t \in Tasks, AddPublish(t), UNCHANGED exclusive
    PROVE  LibraryInv'
<1> DEFINE i == [IdleTask EXCEPT !.op = "add", !.at = "insert", !.id = ids', !.target = head]
<1>1. /\ MayBegin("add") /\ ids' = ids + 1 /\ directories' = directories \cup {<<ids', head>>} /\ Set(t, i)
      /\ UNCHANGED <<tree, head, repository, skills, enabled, applied, customs>>
  BY DEF AddPublish, Cloned
<1>2. head \in Commits /\ ids \in Nat /\ ids' \in Nat \ {0}
  BY <1>1 DEF LibraryInv, WorldType
<1>3. /\ i \in TaskStates /\ i.op = "add" /\ i.id = ids + 1 /\ i.target = head /\ i.links = {}
  BY <1>1, <1>2 DEF IdleTask, TaskStates, TaskStages
<1> HIDE DEF i
<1>4. task' \in [Tasks -> TaskStates] /\ task'[t] = i /\ \A u \in Tasks \ {t} : task'[u] = task[u]
  BY <1>1, <1>3, SetLemma DEF LibraryInv
<1>5. directories' \in SUBSET DirectoryNames /\ directories \subseteq directories' /\ <<i.id, head>> \in directories'
  BY <1>1, <1>2, <1>3 DEF LibraryInv, WorldType, DirectoryNames
<1>6. WorldType' /\ World'
  <2>1. \A s \in skills \cup applied : s.skill[1] \in Nat
    BY SkillRowLemma DEF LibraryInv, WorldType
  <2>2. WorldType'
    BY <1>1, <1>2, <1>5 DEF LibraryInv, WorldType
  <2>3. World'
    BY <1>1, <1>2, <2>1, NoneLemma DEF LibraryInv, WorldType, World, SlugsAreUnique
  <2> QED
    BY <2>2, <2>3
<1>7. exclusive => WorldOfOne'
  BY <1>1, <1>5, FilesLemma DEF LibraryInv, WorldOfOne, RowsHaveContent, Leads
<1>8. ASSUME NEW u \in Tasks \ {t} PROVE TaskFits(u)'
  <2>1. Fits(task[u]) /\ (exclusive => FitsOfOne(task[u])) /\ task[u] \in TaskStates
    BY DEF LibraryInv, TaskFits
  <2>2. task[u].id \in Nat /\ \A s \in task[u].links : s.skill[1] \in Nat
    BY <2>1, SkillRowLemma DEF TaskStates
  <2>3. Fits(task[u])'
    BY <1>1, <1>2, <1>4, <2>1, <2>2 DEF Fits, Stale, Rows
  <2>4. exclusive => FitsOfOne(task[u])'
    BY <1>1, <1>4, <1>5, <2>1 DEF FitsOfOne, Leads, Stale
  <2> QED
    BY <1>4, <2>3, <2>4 DEF TaskFits
<1>9. TaskFits(t)'
  <2>1. \A s \in skills \cup applied : s.skill[1] \in Nat /\ s.skill[1] <= ids
    BY SkillRowLemma DEF LibraryInv, WorldType, World
  <2>2. repository # None => repository.id \in Nat /\ repository.id <= ids
    BY NoneLemma DEF LibraryInv, WorldType, World
  <2> QED
    BY <1>1, <1>2, <1>3, <1>4, <1>5, <2>1, <2>2 DEF TaskFits, Fits, FitsOfOne, OfCustom
<1>10. ASSUME NEW u \in Tasks \ {t} PROVE TasksApart(t, u)' /\ TasksApart(u, t)'
  <2>1. Fits(task[u]) /\ task[u] \in TaskStates
    BY DEF LibraryInv, TaskFits
  <2>2. task[u].id \in Nat /\ \A s \in task[u].links : s.skill[1] \in Nat
    BY <2>1, SkillRowLemma DEF TaskStates
  <2>3. exclusive => task[u].op \notin Coordinated /\ task[u].op # "delete"
    BY <1>1, MayBeginLemma
  <2> QED
    BY <1>1, <1>2, <1>3, <1>4, <2>1, <2>2, <2>3 DEF TasksApart, Apart, ApartOfOne, Fits, Coordinated, OfCustom
<1> QED
  BY <1>4, <1>6, <1>7, <1>8, <1>9, <1>10, OneTaskChanges

\* Nothing leads to a revision that was not there.
LEMMA SyncPublishStep ==
    ASSUME LibraryInv, NEW t \in Tasks, SyncPublish(t), UNCHANGED exclusive
    PROVE  LibraryInv'
<1> DEFINE old == task[t]
           dir == <<old.id, old.target>>
           published == dir \notin directories
           i == [old EXCEPT !.at = "reconcile", !.published = published]
<1>1. /\ old.op = "sync" /\ old.at = "publish" /\ Set(t, i) /\ directories' = directories \cup {dir}
      /\ UNCHANGED <<tree, head, repository, skills, enabled, applied, ids, customs>>
  BY DEF SyncPublish, At
<1>2. Fits(old) /\ (exclusive => FitsOfOne(old)) /\ old \in TaskStates
  BY DEF LibraryInv, TaskFits
<1>3. old.target \in Commits /\ old.id \in Nat \ {0}
  BY <1>1, <1>2 DEF Fits, TaskStates
<1>4. published \in BOOLEAN
  OBVIOUS
<1> HIDE DEF published
<1>5. /\ i \in TaskStates /\ i.op = "sync" /\ i.at = "reconcile" /\ i.target = old.target
      /\ i.remove = old.remove /\ i.id = old.id /\ i.commit = old.commit /\ i.version = old.version
      /\ i.links = old.links /\ i.published = published
  BY <1>1, <1>2, <1>4 DEF TaskStates, TaskStages
<1> HIDE DEF i
<1>6. task' \in [Tasks -> TaskStates] /\ task'[t] = i /\ \A u \in Tasks \ {t} : task'[u] = task[u]
  BY <1>1, <1>5, SetLemma DEF LibraryInv
<1>7. directories' \in SUBSET DirectoryNames /\ directories \subseteq directories' /\ dir \in directories'
  BY <1>1, <1>3 DEF LibraryInv, WorldType, DirectoryNames
<1>8. WorldType' /\ World'
  BY <1>1, <1>7 DEF LibraryInv, WorldType, World, SlugsAreUnique
<1>9. exclusive => WorldOfOne'
  BY <1>1, <1>7, FilesLemma DEF LibraryInv, WorldOfOne, RowsHaveContent, Leads
<1>10. ASSUME exclusive, published
       PROVE  /\ old.target # repository.commit
              /\ \A s \in SkillRows : Leads(s) => s.dir # dir
  <2>1. repository # None /\ repository.id = old.id /\ repository.commit = old.commit
    BY <1>1, <1>2, <1>10 DEF FitsOfOne, Stale
  <2>2. dir \notin directories
    BY <1>10 DEF published
  <2>3. <<repository.id, repository.commit>> \in directories
    BY <1>10, <2>1 DEF LibraryInv, WorldOfOne
  <2> QED
    BY <2>1, <2>2, <2>3 DEF Leads
<1>11. ASSUME NEW u \in Tasks \ {t} PROVE TaskFits(u)'
  <2>1. Fits(task[u]) /\ (exclusive => FitsOfOne(task[u])) /\ task[u] \in TaskStates
    BY DEF LibraryInv, TaskFits
  <2>2. Fits(task[u])'
    BY <1>1, <1>6, <2>1 DEF Fits, Stale, Rows
  <2>3. exclusive => FitsOfOne(task[u])'
    BY <1>1, <1>6, <1>7, <2>1 DEF FitsOfOne, Leads, Stale
  <2> QED
    BY <1>6, <2>2, <2>3 DEF TaskFits
<1>12. TaskFits(t)'
  <2>1. Fits(i)
    BY <1>1, <1>2, <1>5 DEF Fits, Stale, Revised
  <2>2. Fits(task[t])'
    BY <1>1, <1>6, <2>1 DEF Fits, Stale, Rows
  <2>3. ASSUME exclusive PROVE FitsOfOne(task[t])'
    <3>1. \A s \in applied : s \in SkillRows /\ Leads(s)
      BY <2>3 DEF LibraryInv, WorldType, WorldOfOne
    <3>2. \A s \in i.links : Leads(s)'
      BY <1>1, <1>2, <1>5, <1>7, <2>3 DEF FitsOfOne, Leads
    <3> QED
      BY <1>1, <1>2, <1>5, <1>6, <1>7, <1>10, <2>3, <3>1, <3>2 DEF FitsOfOne, Stale, Revised
  <2> QED
    BY <2>2, <2>3 DEF TaskFits
<1>13. ASSUME NEW u \in Tasks \ {t} PROVE TasksApart(t, u)' /\ TasksApart(u, t)'
  <2>1. TasksApart(t, u) /\ TasksApart(u, t)
    BY DEF LibraryInv
  <2>2. exclusive => \A s \in task[u].links : s \in SkillRows /\ Leads(s)
    BY DEF LibraryInv, TaskFits, FitsOfOne, TaskStates
  <2>3. exclusive /\ published => \A s \in task[u].links : s.dir # dir
    BY <1>10, <2>2
  <2>4. exclusive => task[u].op \notin Coordinated
    BY <1>1, <2>1 DEF TasksApart, ApartOfOne, Coordinated
  <2> QED
    BY <1>1, <1>5, <1>6, <2>1, <2>3, <2>4 DEF TasksApart, Apart, ApartOfOne, Coordinated
<1> QED
  BY <1>6, <1>8, <1>9, <1>11, <1>12, <1>13, OneTaskChanges

\* A revision in vain is not the one of the rows, nor of any link.
LEMMA SyncUnpublishStep ==
    ASSUME LibraryInv, NEW t \in Tasks, SyncUnpublish(t), UNCHANGED exclusive
    PROVE  LibraryInv'
<1> DEFINE old == task[t]
           dir == <<old.id, old.target>>
           rest == directories \ {dir}
<1>1. /\ old.op = "sync" /\ old.at = "unpublish" /\ End(t) /\ directories' = rest
      /\ UNCHANGED <<tree, head, repository, skills, enabled, applied, ids, customs>>
  BY DEF SyncUnpublish, At
<1>2. Fits(old) /\ (exclusive => FitsOfOne(old)) /\ old \in TaskStates
  BY DEF LibraryInv, TaskFits
<1>3. \A u \in Tasks \ {t} : task'[u] = task[u]
  BY <1>1, EndLemma DEF LibraryInv
<1>4. rest \in SUBSET DirectoryNames
  BY DEF LibraryInv, WorldType
<1>5. exclusive => /\ old.target # repository.commit /\ \A s \in applied : s.dir # dir
                   /\ repository # None /\ repository.id = old.id /\ old.id # 0
  BY <1>1, <1>2 DEF Fits, FitsOfOne, Stale, Revised
<1>6. exclusive => \A s \in skills : s.skill[1] = 0 => s.dir \in rest
  BY <1>5, SkillRowLemma DEF LibraryInv, WorldType, WorldOfOne, RowsHaveContent, CustomRows
<1>7. exclusive => /\ repository # None => <<repository.id, repository.commit>> \in rest
                   /\ \A s \in applied : repository # None /\ s.skill[1] = repository.id => s.dir \in rest
  BY <1>5 DEF LibraryInv, WorldOfOne, Leads
<1>8. WorldType' /\ World'
  BY <1>1, <1>4 DEF LibraryInv, WorldType, World, SlugsAreUnique
<1>9. exclusive => WorldOfOne'
  BY <1>1, <1>4, <1>6, <1>7, FilesLemma DEF LibraryInv
<1>10. ASSUME NEW u \in Tasks \ {t} PROVE TaskFits(u)'
  <2>1. Fits(task[u]) /\ (exclusive => FitsOfOne(task[u])) /\ task[u] \in TaskStates
    BY DEF LibraryInv, TaskFits
  <2>2. Fits(task[u])'
    BY <1>1, <1>3, <2>1 DEF Fits, Stale, Rows
  <2>3. exclusive => task[u].op \notin Coordinated /\ \A s \in task[u].links : s.dir # dir
    BY <1>1, <1>2 DEF LibraryInv, TasksApart, ApartOfOne, Coordinated, FitsOfOne, Revised
  <2>4. exclusive => FitsOfOne(task[u])'
    BY <1>1, <1>3, <1>5, <2>1, <2>3 DEF FitsOfOne, Leads, Stale, Coordinated, OfCustom
  <2> QED
    BY <1>3, <2>2, <2>4 DEF TaskFits
<1> QED
  BY <1>1, <1>8, <1>9, <1>10, OneTaskEnds

LEMMA RemoveFilesStep ==
    ASSUME LibraryInv, NEW t \in Tasks, RemoveFiles(t), UNCHANGED exclusive
    PROVE  LibraryInv'
<1> DEFINE old == task[t]
           rest == {d \in directories : d[1] # old.id}
<1>1. /\ old.op = "delete" /\ old.at = "files" /\ End(t) /\ directories' = rest
      /\ UNCHANGED <<tree, head, repository, skills, enabled, applied, ids, customs>>
  BY DEF RemoveFiles, At
<1>2. Fits(old) /\ (exclusive => FitsOfOne(old)) /\ old \in TaskStates
  BY DEF LibraryInv, TaskFits
<1>3. \A u \in Tasks \ {t} : task'[u] = task[u]
  BY <1>1, EndLemma DEF LibraryInv
<1>4. rest \in SUBSET DirectoryNames
  BY DEF LibraryInv, WorldType
<1>5. old.id # 0 /\ (exclusive /\ repository # None => repository.id # old.id)
  BY <1>1, <1>2 DEF Fits, FitsOfOne
<1>6. exclusive => \A s \in skills : s.skill[1] = 0 => s.dir \in rest
  BY <1>5, SkillRowLemma DEF LibraryInv, WorldType, WorldOfOne, RowsHaveContent, CustomRows
<1>7. exclusive => /\ repository # None => <<repository.id, repository.commit>> \in rest
                   /\ \A s \in applied : repository # None /\ s.skill[1] = repository.id => s.dir \in rest
  BY <1>5 DEF LibraryInv, WorldOfOne, Leads
<1>8. WorldType' /\ World'
  BY <1>1, <1>4 DEF LibraryInv, WorldType, World, SlugsAreUnique
<1>9. exclusive => WorldOfOne'
  BY <1>1, <1>4, <1>6, <1>7, FilesLemma DEF LibraryInv
<1>10. ASSUME NEW u \in Tasks \ {t} PROVE TaskFits(u)'
  <2>1. Fits(task[u]) /\ (exclusive => FitsOfOne(task[u])) /\ task[u] \in TaskStates
    BY DEF LibraryInv, TaskFits
  <2>2. Fits(task[u])'
    BY <1>1, <1>3, <2>1 DEF Fits, Stale, Rows
  <2>3. exclusive => task[u].op \notin Coordinated
    BY <1>1 DEF LibraryInv, TasksApart, ApartOfOne, Coordinated
  <2>4. exclusive => FitsOfOne(task[u])'
    BY <1>1, <1>3, <1>5, <2>1, <2>3 DEF FitsOfOne, Leads, Stale, Coordinated
  <2> QED
    BY <1>3, <2>2, <2>4 DEF TaskFits
<1> QED
  BY <1>1, <1>8, <1>9, <1>10, OneTaskEnds

LEMMA ApplyLinkStep ==
    ASSUME LibraryInv, NEW t \in Tasks, ApplyLink(t), UNCHANGED exclusive
    PROVE  LibraryInv'
<1>1. /\ End(t) /\ applied' \in {task[t].links, applied}
      /\ UNCHANGED <<tree, head, repository, skills, enabled, directories, ids, customs>>
  BY DEF ApplyLink
<1>2. Fits(task[t]) /\ (exclusive => FitsOfOne(task[t])) /\ task[t].links \in SUBSET SkillRows
  BY DEF LibraryInv, TaskFits, TaskStates
<1>3. \A u \in Tasks \ {t} : task'[u] = task[u]
  BY <1>1, EndLemma DEF LibraryInv
<1>4. WorldType' /\ World'
  BY <1>1, <1>2 DEF LibraryInv, WorldType, World, SlugsAreUnique, Fits
<1>5. exclusive => WorldOfOne'
  BY <1>1, <1>2 DEF LibraryInv, WorldOfOne, RowsFollowRepository, RowsHaveContent, CustomRows, Leads, FitsOfOne
<1>6. ASSUME NEW u \in Tasks \ {t} PROVE TaskFits(u)'
  <2>1. Fits(task[u]) /\ (exclusive => FitsOfOne(task[u])) /\ TasksApart(u, t)
    BY DEF LibraryInv, TaskFits
  <2>2. Fits(task[u])'
    BY <1>1, <1>3, <2>1 DEF Fits, Stale, Rows, TasksApart, Apart
  <2>3. exclusive => FitsOfOne(task[u])'
    BY <1>1, <1>3, <2>1 DEF FitsOfOne, Leads, Stale, TasksApart, ApartOfOne
  <2> QED
    BY <1>3, <2>2, <2>3 DEF TaskFits
<1> QED
  BY <1>1, <1>4, <1>5, <1>6, OneTaskEnds

-----------------------------------------------------------------------------
(* Steps that write rows                                                   *)

LEMMA AddInsertStep ==
    ASSUME LibraryInv, NEW t \in Tasks, AddInsert(t), UNCHANGED exclusive
    PROVE  LibraryInv'
<1> DEFINE old == task[t]
           new == Discovered(old.id, old.target)
           row == [id |-> old.id, commit |-> old.target, version |-> 0]
           rest == {d \in directories : d[1] # old.id}
<1>1. /\ old.op = "add" /\ old.at = "insert" /\ End(t)
      /\ UNCHANGED <<tree, head, enabled, applied, ids, customs>>
      /\ \/ /\ repository = None /\ \A s \in new : SlugFree(s.slug, skills)
            /\ repository' = row /\ skills' = skills \cup new /\ UNCHANGED directories
         \/ directories' = rest /\ UNCHANGED <<repository, skills>>
  BY DEF AddInsert, At
<1>2. Fits(old) /\ (exclusive => FitsOfOne(old)) /\ old \in TaskStates
  BY DEF LibraryInv, TaskFits
<1>3. \A u \in Tasks \ {t} : task'[u] = task[u]
  BY <1>1, EndLemma DEF LibraryInv
<1>4. old.id \in Nat \ {0} /\ old.target \in Commits
  BY <1>1, <1>2 DEF Fits, TaskStates
<1>5. \A s \in skills \cup applied : s.skill[1] # old.id /\ s \in SkillRows
  BY <1>1, <1>2 DEF Fits, LibraryInv, WorldType
<1>6. ASSUME NEW u \in Tasks \ {t}
      PROVE  /\ Fits(task[u]) /\ (exclusive => FitsOfOne(task[u])) /\ task[u] \in TaskStates
             /\ task[u].id # old.id /\ \A s \in task[u].links : s.skill[1] # old.id
             /\ exclusive => task[u].op \notin Coordinated
  BY <1>1 DEF LibraryInv, TaskFits, TasksApart, Apart, ApartOfOne, Coordinated
<1>7. CASE /\ repository = None /\ \A s \in new : SlugFree(s.slug, skills)
           /\ repository' = row /\ skills' = skills \cup new /\ UNCHANGED directories
  <2>1. /\ new \in SUBSET SkillRows
        /\ \A r \in new : r.skill[1] = old.id /\ r.dir = <<old.id, old.target>>
        /\ \A q, r \in new : q.slug = r.slug => q = r
    BY <1>4, DiscoveredLemma DEF LibraryInv
  <2>2. row \in RepositoryRows /\ row.id = old.id /\ row.commit = old.target
    BY <1>4 DEF RepositoryRows
  <2> HIDE DEF new, row
  <2>3. WorldType'
    BY <1>1, <1>7, <2>1, <2>2 DEF LibraryInv, WorldType
  <2>4. World'
    <3>1. SlugsAreUnique'
      BY <1>7, <2>1 DEF LibraryInv, World, SlugsAreUnique, SlugFree
    <3> QED
      BY <1>1, <1>2, <1>7, <2>1, <2>2, <3>1 DEF LibraryInv, World, Fits
  <2>5. exclusive => WorldOfOne'
    <3> SUFFICES ASSUME exclusive PROVE WorldOfOne'
      OBVIOUS
    <3>1. \A s \in skills : s.skill[1] = 0
      BY <1>7 DEF LibraryInv, WorldOfOne, RowsFollowRepository
    <3>2. RowsFollowRepository'
      BY <1>7, <2>1, <2>2, <3>1, NoneLemma DEF RowsFollowRepository
    <3>3. RowsHaveContent'
      BY <1>1, <1>2, <1>7, <2>1 DEF RowsHaveContent, LibraryInv, WorldOfOne, FitsOfOne
    <3>4. CustomRows'
      <4>1. \A s \in skills' : s.skill[1] = 0 => s \in skills
        BY <1>4, <1>7, <2>1
      <4>2. \A r \in skills', s \in skills : r.skill = s.skill => r \in skills
        BY <1>5, <1>7, <2>1
      <4> QED
        BY <1>1, <4>1, <4>2 DEF CustomRows, LibraryInv, WorldOfOne
    <3>5. \A s \in applied' : Leads(s)'
      BY <1>1, <1>5, <1>7, <2>2 DEF Leads, LibraryInv, WorldOfOne
    <3>6. \A e \in enabled' : \E s \in skills' : s.skill = e
      BY <1>1, <1>7 DEF LibraryInv, WorldOfOne
    <3>7. <<repository'.id, repository'.commit>> \in directories'
      BY <1>1, <1>2, <1>7, <2>2 DEF FitsOfOne
    <3> QED
      BY <3>2, <3>3, <3>4, <3>5, <3>6, <3>7 DEF WorldOfOne
  <2>6. ASSUME NEW u \in Tasks \ {t} PROVE TaskFits(u)'
    <3>1. repository'.id # task[u].id /\ Stale(task[u])'
      BY <1>3, <1>6, <1>7, <2>2 DEF Stale
    <3>2. Fits(task[u])'
      BY <1>1, <1>3, <1>6, <1>7, <2>1, <3>1 DEF Fits
    <3>3. exclusive => FitsOfOne(task[u])'
      BY <1>1, <1>3, <1>4, <1>6, <1>7, <2>1, <2>2, <3>1 DEF FitsOfOne, Leads, Coordinated, OfCustom
    <3> QED
      BY <1>3, <3>2, <3>3 DEF TaskFits
  <2> QED
    BY <1>1, <2>3, <2>4, <2>5, <2>6, OneTaskEnds
<1>8. CASE directories' = rest /\ UNCHANGED <<repository, skills>>
  <2>1. rest \in SUBSET DirectoryNames
    BY DEF LibraryInv, WorldType
  <2>2. repository # None => repository.id # old.id
    BY <1>1, <1>2 DEF Fits
  <2>3. exclusive => \A s \in skills : s.skill[1] = 0 => s.dir \in rest
    BY <1>4, SkillRowLemma DEF LibraryInv, WorldType, WorldOfOne, RowsHaveContent, CustomRows
  <2>4. exclusive => /\ repository # None => <<repository.id, repository.commit>> \in rest
                     /\ \A s \in applied : repository # None /\ s.skill[1] = repository.id => s.dir \in rest
    BY <2>2 DEF LibraryInv, WorldOfOne, Leads
  <2>5. WorldType' /\ World'
    BY <1>1, <1>8, <2>1 DEF LibraryInv, WorldType, World, SlugsAreUnique
  <2>6. exclusive => WorldOfOne'
    BY <1>1, <1>8, <2>1, <2>3, <2>4, FilesLemma DEF LibraryInv
  <2>7. ASSUME NEW u \in Tasks \ {t} PROVE TaskFits(u)'
    <3>1. Fits(task[u])'
      BY <1>1, <1>3, <1>6, <1>8 DEF Fits, Stale, Rows
    <3>2. exclusive => FitsOfOne(task[u])'
      BY <1>1, <1>3, <1>4, <1>6, <1>8, <2>2 DEF FitsOfOne, Leads, Stale, Coordinated, OfCustom
    <3> QED
      BY <1>3, <3>1, <3>2 DEF TaskFits
  <2> QED
    BY <1>1, <2>5, <2>6, <2>7, OneTaskEnds
<1> QED
  BY <1>1, <1>7, <1>8

\* The rows after a synchronisation: those of other paths that stay, and those
\* of the commit.
LEMMA ReconciledLemma ==
    ASSUME WorldType, SlugsAreUnique, NEW i \in TaskStates, i.id # 0, i.target \in Commits,
           \A row \in Discovered(i.id, i.target) : ~Taken(i, row)
    PROVE  /\ Reconciled(i) \in SUBSET SkillRows
           /\ \A s \in Reconciled(i) :
                 \/ s \in Discovered(i.id, i.target)
                 \/ s \in skills /\ s.skill \notin i.remove /\ ~Overwritten(s, Discovered(i.id, i.target))
           /\ Discovered(i.id, i.target) \subseteq Reconciled(i)
           /\ \A s \in skills : s.skill \notin i.remove => \E r \in Reconciled(i) : r.skill = s.skill
           /\ \A s \in skills : s.skill[1] # i.id /\ s.skill \notin i.remove => s \in Reconciled(i)
           /\ \A r, s \in Reconciled(i) : r.slug = s.slug => r = s
<1> DEFINE new == Discovered(i.id, i.target)
           stay == {s \in Kept(i) : ~Overwritten(s, new)}
<1>1. i.id \in Nat \ {0}
  BY DEF TaskStates
<1>2. /\ new \in SUBSET SkillRows
      /\ \A r \in new : r.skill[1] = i.id
      /\ \A q, r \in new : q.slug = r.slug => q = r
  BY <1>1, DiscoveredLemma
<1>3. Reconciled(i) = stay \cup new
  BY DEF Reconciled
<1>4. \A s : s \in stay <=> s \in skills /\ s.skill \notin i.remove /\ ~Overwritten(s, new)
  BY DEF Kept
<1>5. ASSUME NEW r \in new, NEW s \in stay PROVE r.slug # s.slug
  <2> DEFINE earlier == {q \in new : Before(q.skill[2], r.skill[2])}
             others == {k \in Kept(i) : k.skill # r.skill /\ ~Overwritten(k, earlier)}
  <2>1. SlugFree(r.slug, others)
    BY DEF Taken
  <2>2. s \in others
    BY DEF Overwritten
  <2> HIDE DEF others
  <2> QED
    BY <2>1, <2>2 DEF SlugFree
<1>6. stay \in SUBSET skills /\ skills \in SUBSET SkillRows
  BY <1>4 DEF WorldType
<1>7. \A s \in skills : s.skill \notin i.remove => \E r \in stay \cup new : r.skill = s.skill
  BY <1>4 DEF Overwritten
<1>8. \A s \in skills : s.skill[1] # i.id /\ s.skill \notin i.remove => s \in stay
  BY <1>2, <1>4 DEF Overwritten
<1>9. \A r, s \in stay \cup new : r.slug = s.slug => r = s
  BY <1>2, <1>5, <1>6 DEF SlugsAreUnique
<1> HIDE DEF new, stay
<1>10. \A s \in stay : s \in skills /\ s.skill \notin i.remove /\ ~Overwritten(s, new)
  BY <1>4
<1>11. new = Discovered(i.id, i.target)
  BY DEF new
<1> QED
  BY <1>2, <1>3, <1>6, <1>7, <1>8, <1>9, <1>10, <1>11

\* Of the repository's rows none is left but those of the commit.
LEMMA ReconciledIsExact ==
    ASSUME LibraryInv, NEW t \in Tasks, task[t].op = "sync", task[t].at = "reconcile", ~Stale(task[t]),
           \A row \in Discovered(task[t].id, task[t].target) : ~Taken(task[t], row)
    PROVE  \A s \in Reconciled(task[t]) :
              s.skill[1] = task[t].id => s \in Discovered(task[t].id, task[t].target)
<1> DEFINE i == task[t]
           new == Discovered(i.id, i.target)
<1>1. Fits(i) /\ i \in TaskStates
  BY DEF LibraryInv, TaskFits
<1>2. i.id \in Nat \ {0} /\ i.target \in Commits
  BY <1>1 DEF Fits, TaskStates, Revised
<1> SUFFICES ASSUME NEW s \in Reconciled(i), s.skill[1] = i.id, s \notin new
             PROVE  FALSE
  OBVIOUS
<1>3. s \in skills /\ s.skill \notin i.remove /\ ~Overwritten(s, new)
  BY <1>1, <1>2, ReconciledLemma DEF LibraryInv, World
<1>4. s \in SkillRows /\ s.skill = <<i.id, s.skill[2]>> /\ s.skill[2] \in PathSet
  BY <1>2, <1>3, SkillRowLemma DEF LibraryInv, WorldType
<1>5. tree[i.target][s.skill[2]] # None
  BY <1>1, <1>3 DEF Fits, Rows
<1>6. \E r \in new : r.skill = <<i.id, s.skill[2]>>
  BY <1>2, <1>4, <1>5, DiscoveredLemma DEF LibraryInv
<1> QED
  BY <1>3, <1>4, <1>6 DEF Overwritten

LEMMA SyncReconcileStep ==
    ASSUME LibraryInv, NEW t \in Tasks, SyncReconcile(t), UNCHANGED exclusive
    PROVE  LibraryInv'
<1> DEFINE old == task[t]
           new == Discovered(old.id, old.target)
           row == [id |-> old.id, commit |-> old.target, version |-> repository.version + 1]
           i == [old EXCEPT !.at = "referenced"]
<1>1. /\ old.op = "sync" /\ old.at = "reconcile"
      /\ UNCHANGED <<tree, head, enabled, directories, applied, ids, customs>>
      /\ \/ /\ ~Stale(old) /\ old.remove \cap enabled = {}
            /\ \A r \in new : ~Taken(old, r)
            /\ repository' = row /\ skills' = Reconciled(old) /\ End(t)
         \/ End(t) /\ UNCHANGED <<repository, skills>>
         \/ old.published /\ Set(t, i) /\ UNCHANGED <<repository, skills>>
  BY DEF SyncReconcile, At, End
<1>2. Fits(old) /\ (exclusive => FitsOfOne(old)) /\ old \in TaskStates
  BY DEF LibraryInv, TaskFits
<1>3. old.id \in Nat \ {0} /\ old.target \in Commits /\ head \in Commits
  BY <1>1, <1>2 DEF Fits, TaskStates, Revised, LibraryInv, WorldType
<1>4. CASE /\ ~Stale(old) /\ old.remove \cap enabled = {}
           /\ \A r \in new : ~Taken(old, r)
           /\ repository' = row /\ skills' = Reconciled(old) /\ End(t)
  <2>1. \A u \in Tasks \ {t} : task'[u] = task[u]
    BY <1>4, EndLemma DEF LibraryInv
  <2>2. /\ repository # None /\ repository \in RepositoryRows
        /\ repository.id = old.id /\ repository.commit = old.commit /\ repository.version = old.version
    BY <1>4 DEF Stale, LibraryInv, WorldType
  <2>3. /\ row \in RepositoryRows /\ row.id = old.id /\ row.commit = old.target
        /\ row.version = repository.version + 1
    BY <1>3, <2>2, NoneLemma DEF RepositoryRows
  <2>4. /\ new \in SUBSET SkillRows
        /\ \A r \in new : r.skill[1] = old.id /\ r.dir = <<old.id, old.target>>
    BY <1>3, DiscoveredLemma DEF LibraryInv
  <2>5. /\ skills' \in SUBSET SkillRows
        /\ \A s \in skills' : s \in new \/ s \in skills
        /\ \A s \in skills : s.skill \notin old.remove => \E r \in skills' : r.skill = s.skill
        /\ \A r, s \in skills' : r.slug = s.slug => r = s
    BY <1>2, <1>3, <1>4, ReconciledLemma DEF LibraryInv, World
  <2>6. \A s \in skills' : s.skill[1] = old.id => s \in new
    BY <1>1, <1>4, ReconciledIsExact
  <2> HIDE DEF new, row
  <2>7. WorldType'
    BY <1>1, <1>4, <2>3, <2>5 DEF LibraryInv, WorldType
  <2>8. World'
    BY <1>1, <1>2, <1>4, <2>3, <2>4, <2>5 DEF LibraryInv, World, SlugsAreUnique, Fits
  <2>9. exclusive => WorldOfOne'
    <3> SUFFICES ASSUME exclusive PROVE WorldOfOne'
      OBVIOUS
    <3>1. <<old.id, old.target>> \in directories
      BY <1>1, <1>2 DEF FitsOfOne, Revised
    <3>2. RowsFollowRepository'
      BY <1>3, <1>4, <2>2, <2>3, <2>4, <2>5, <2>6, NoneLemma DEF RowsFollowRepository, LibraryInv, WorldOfOne
    <3>3. RowsHaveContent'
      BY <1>1, <2>4, <2>5, <3>1 DEF RowsHaveContent, LibraryInv, WorldOfOne
    <3>4. CustomRows'
      <4>1. \A s \in skills' : s.skill[1] # old.id => s \in skills
        BY <2>4, <2>5
      <4> QED
        BY <1>1, <1>3, <4>1 DEF CustomRows, LibraryInv, WorldOfOne
    <3>5. \A s \in applied' : Leads(s)'
      BY <1>1, <1>4, <2>2, <2>3 DEF Leads, LibraryInv, WorldOfOne
    <3>6. \A e \in enabled' : \E s \in skills' : s.skill = e
      BY <1>1, <1>4, <2>5 DEF LibraryInv, WorldOfOne
    <3>7. <<repository'.id, repository'.commit>> \in directories'
      BY <1>1, <1>4, <2>3, <3>1
    <3> QED
      BY <3>2, <3>3, <3>4, <3>5, <3>6, <3>7 DEF WorldOfOne
  <2>10. ASSUME NEW u \in Tasks \ {t} PROVE TaskFits(u)'
    <3>1. /\ Fits(task[u]) /\ (exclusive => FitsOfOne(task[u])) /\ task[u] \in TaskStates
          /\ task[u].op = "add" => task[u].id # old.id
          /\ exclusive => task[u].op \notin Coordinated
      BY <1>1 DEF LibraryInv, TaskFits, TasksApart, Apart, ApartOfOne, Coordinated
    <3>2. task[u].version \in Nat /\ repository.version \in Nat
      BY <2>2, <3>1, NoneLemma DEF TaskStates
    <3>3. task[u].op = "sync" => Stale(task[u])'
      BY <1>4, <2>1, <2>2, <2>3, <3>1, <3>2 DEF Stale, Fits
    <3>4. task[u].op = "sync" /\ repository'.id = task[u].id => task[u].version <= repository'.version
      BY <1>4, <2>2, <2>3, <3>1, <3>2 DEF Fits
    <3>5. task[u].op = "add" => (\A s \in skills' : s.skill[1] # task[u].id) /\ repository'.id # task[u].id
      BY <1>4, <2>3, <2>4, <2>5, <3>1 DEF Fits
    <3>6. Fits(task[u])'
      BY <1>1, <2>1, <3>1, <3>3, <3>4, <3>5 DEF Fits
    <3>7. exclusive => FitsOfOne(task[u])'
      BY <1>1, <1>3, <1>4, <2>1, <2>2, <2>3, <2>4, <2>5, <3>1 DEF FitsOfOne, Leads, Coordinated, OfCustom
    <3> QED
      BY <2>1, <3>6, <3>7 DEF TaskFits
  <2> QED
    BY <1>4, <2>7, <2>8, <2>9, <2>10, OneTaskEnds
<1>5. CASE End(t) /\ UNCHANGED <<repository, skills>>
  <2>1. \A u \in Tasks \ {t} : task'[u] = task[u]
    BY <1>5, EndLemma DEF LibraryInv
  <2> QED
    BY <1>1, <1>3, <1>5, <2>1, WorldRests, OneTaskEnds
<1>6. CASE old.published /\ Set(t, i) /\ UNCHANGED <<repository, skills>>
  <2>1. /\ i \in TaskStates /\ i.op = "sync" /\ i.at = "referenced" /\ i.target = old.target
        /\ i.remove = old.remove /\ i.id = old.id /\ i.commit = old.commit /\ i.version = old.version
        /\ i.links = old.links /\ i.published = old.published
    BY <1>1, <1>2 DEF TaskStates, TaskStages
  <2> HIDE DEF i
  <2>2. task' \in [Tasks -> TaskStates] /\ task'[t] = i /\ \A u \in Tasks \ {t} : task'[u] = task[u]
    BY <1>6, <2>1, SetLemma DEF LibraryInv
  <2>3. Fits(i)
    BY <1>1, <1>2, <2>1 DEF Fits, Stale, Revised
  <2>4. exclusive => FitsOfOne(i)
    BY <1>1, <1>2, <1>6, <2>1 DEF FitsOfOne, Stale, Revised
  <2>5. TaskFits(t)'
    BY <1>1, <1>6, <2>2, <2>3, <2>4 DEF TaskFits, Fits, FitsOfOne, Stale, Rows, Leads
  <2>6. ASSUME NEW u \in Tasks \ {t} PROVE TasksApart(t, u)' /\ TasksApart(u, t)'
    <3>1. TasksApart(t, u) /\ TasksApart(u, t)
      BY DEF LibraryInv
    <3> QED
      BY <1>1, <2>1, <2>2, <3>1 DEF TasksApart, Apart, ApartOfOne, Revised
  <2> QED
    BY <1>1, <1>3, <1>6, <2>2, <2>5, <2>6, WorldRests, OneTaskChanges
<1> QED
  BY <1>1, <1>4, <1>5, <1>6

LEMMA RemoveRowsStep ==
    ASSUME LibraryInv, NEW t \in Tasks, RemoveRows(t), UNCHANGED exclusive
    PROVE  LibraryInv'
<1> DEFINE old == task[t]
           i == [old EXCEPT !.at = "files"]
<1>1. /\ old.op = "delete" /\ old.at = "rows" /\ head \in Commits
      /\ UNCHANGED <<tree, head, enabled, directories, applied, ids, customs>>
      /\ \/ /\ \A s \in Rows(old.id) : s.skill \notin enabled
            /\ skills' = skills \ Rows(old.id)
            /\ repository' = IF repository # None /\ repository.id = old.id THEN None ELSE repository
            /\ Set(t, i)
         \/ End(t) /\ UNCHANGED <<skills, repository>>
  BY DEF RemoveRows, At, LibraryInv, WorldType
<1>2. Fits(old) /\ (exclusive => FitsOfOne(old)) /\ old \in TaskStates
  BY DEF LibraryInv, TaskFits
<1>3. CASE End(t) /\ UNCHANGED <<skills, repository>>
  <2>1. \A u \in Tasks \ {t} : task'[u] = task[u]
    BY <1>3, EndLemma DEF LibraryInv
  <2> QED
    BY <1>1, <1>3, <2>1, WorldRests, OneTaskEnds
<1>4. CASE /\ \A s \in Rows(old.id) : s.skill \notin enabled
           /\ skills' = skills \ Rows(old.id)
           /\ repository' = IF repository # None /\ repository.id = old.id THEN None ELSE repository
           /\ Set(t, i)
  <2>1. /\ i \in TaskStates /\ i.op = "delete" /\ i.at = "files" /\ i.id = old.id /\ i.links = old.links
    BY <1>1, <1>2 DEF TaskStates, TaskStages
  <2> HIDE DEF i
  <2>2. task' \in [Tasks -> TaskStates] /\ task'[t] = i /\ \A u \in Tasks \ {t} : task'[u] = task[u]
    BY <1>4, <2>1, SetLemma DEF LibraryInv
  <2>3. /\ skills' \subseteq skills /\ \A s \in skills : s.skill[1] # old.id => s \in skills'
        /\ \A s \in skills' : s.skill[1] # old.id
    BY <1>4 DEF Rows
  <2>4. repository' # None => repository' = repository /\ repository.id # old.id
    BY <1>4
  <2>5. WorldType' /\ World'
    BY <1>1, <1>4, <2>3, <2>4 DEF LibraryInv, WorldType, World, SlugsAreUnique
  <2>6. ASSUME exclusive PROVE WorldOfOne'
    <3>1. RowsFollowRepository'
      BY <1>4, <2>3, <2>6 DEF RowsFollowRepository, LibraryInv, WorldOfOne
    <3>2. RowsHaveContent' /\ CustomRows'
      BY <1>1, <2>3, <2>6 DEF RowsHaveContent, CustomRows, LibraryInv, WorldOfOne
    <3>3. \A s \in applied' : Leads(s)'
      BY <1>1, <2>4, <2>6 DEF Leads, LibraryInv, WorldOfOne
    <3>4. \A e \in enabled' : \E s \in skills' : s.skill = e
      BY <1>1, <1>4, <2>6 DEF LibraryInv, WorldOfOne
    <3> QED
      BY <1>1, <2>4, <2>6, <3>1, <3>2, <3>3, <3>4 DEF WorldOfOne, LibraryInv
  <2>7. ASSUME NEW u \in Tasks \ {t} PROVE TaskFits(u)'
    <3>1. Fits(task[u]) /\ (exclusive => FitsOfOne(task[u]) /\ task[u].op \notin Coordinated)
      BY <1>1 DEF LibraryInv, TaskFits, TasksApart, ApartOfOne, Coordinated
    <3>2. Fits(task[u])'
      BY <1>1, <2>2, <2>3, <2>4, <3>1 DEF Fits, Stale, Rows
    <3>3. exclusive => FitsOfOne(task[u])'
      BY <1>1, <2>2, <2>4, <3>1 DEF FitsOfOne, Leads, Coordinated
    <3> QED
      BY <2>2, <3>2, <3>3 DEF TaskFits
  <2>8. TaskFits(t)'
    <3>1. Fits(task[t])'
      BY <1>1, <1>2, <2>1, <2>2 DEF Fits
    <3>2. exclusive => FitsOfOne(task[t])'
      BY <1>1, <1>2, <2>1, <2>2, <2>4 DEF FitsOfOne, Leads, OfCustom
    <3> QED
      BY <3>1, <3>2 DEF TaskFits
  <2>9. ASSUME NEW u \in Tasks \ {t} PROVE TasksApart(t, u)' /\ TasksApart(u, t)'
    <3>1. TasksApart(t, u) /\ TasksApart(u, t)
      BY DEF LibraryInv
    <3> QED
      BY <1>1, <2>1, <2>2, <3>1 DEF TasksApart, Apart, ApartOfOne, Revised, Coordinated, OfCustom
  <2> QED
    BY <2>2, <2>5, <2>6, <2>7, <2>8, <2>9, OneTaskChanges
<1> QED
  BY <1>1, <1>3, <1>4

\* A row that nobody enabled goes; nothing that is known becomes false by it.
LEMMA FewerRows ==
    ASSUME LibraryInv, NEW s \in skills, s.skill \notin enabled, skills' = skills \ {s},
           UNCHANGED <<exclusive, tree, head, repository, enabled, directories, applied, ids, customs>>
    PROVE  /\ WorldType' /\ World' /\ (exclusive => WorldOfOne')
           /\ \A u \in Tasks : task'[u] = task[u] => TaskFits(u)'
<1>1. WorldType' /\ World'
  BY DEF LibraryInv, WorldType, World, SlugsAreUnique
<1>2. exclusive => WorldOfOne'
  <2> SUFFICES ASSUME exclusive PROVE WorldOfOne'
    OBVIOUS
  <2>1. RowsFollowRepository' /\ RowsHaveContent' /\ CustomRows'
    BY DEF RowsFollowRepository, RowsHaveContent, CustomRows, LibraryInv, WorldOfOne
  <2>2. \A e \in enabled' : \E r \in skills' : r.skill = e
    BY DEF LibraryInv, WorldOfOne
  <2>3. \A r \in applied' : Leads(r)'
    BY DEF LibraryInv, WorldOfOne, Leads
  <2> QED
    BY <2>1, <2>2, <2>3 DEF LibraryInv, WorldOfOne
<1>3. ASSUME NEW u \in Tasks, task'[u] = task[u] PROVE TaskFits(u)'
  BY <1>3 DEF LibraryInv, TaskFits, Fits, FitsOfOne, Leads, Stale, Rows
<1> QED
  BY <1>1, <1>2, <1>3

LEMMA RemoveSkillStep ==
    ASSUME LibraryInv, NEW s \in skills, RemoveSkill(s), UNCHANGED exclusive
    PROVE  LibraryInv'
<1>1. /\ s.skill \notin enabled /\ skills' = skills \ {s} /\ task' = task
      /\ UNCHANGED <<tree, head, repository, enabled, directories, applied, ids, customs>>
  BY DEF RemoveSkill
<1>2. WorldType' /\ World' /\ (exclusive => WorldOfOne')
  BY <1>1, FewerRows DEF LibraryInv
<1>3. ASSUME NEW u \in Tasks PROVE TaskFits(u)'
  BY <1>1, FewerRows DEF LibraryInv
<1>4. \A u, v \in Tasks : u # v => TasksApart(u, v)'
  BY <1>1 DEF LibraryInv, TasksApart
<1> QED
  BY <1>1, <1>2, <1>3, <1>4 DEF LibraryInv

\* Of a custom skill there is one row, so that none is left.
LEMMA RemoveCustomStep ==
    ASSUME LibraryInv, NEW t \in Tasks, NEW s \in skills, RemoveCustom(t, s), UNCHANGED exclusive
    PROVE  LibraryInv'
<1> DEFINE i == [IdleTask EXCEPT !.op = "remove", !.at = "files", !.target = s.skill[2]]
<1>1. /\ s.skill[1] = 0 /\ s.skill \notin enabled /\ skills' = skills \ {s} /\ Set(t, i)
      /\ UNCHANGED <<tree, head, repository, enabled, directories, applied, ids, customs>>
  BY DEF RemoveCustom
<1>2. s.skill = <<0, s.skill[2]>> /\ s.skill[2] \in Nat
  BY <1>1, SkillRowLemma DEF LibraryInv, WorldType
<1>3. /\ i \in TaskStates /\ i.op = "remove" /\ i.at = "files" /\ i.id = 0 /\ i.links = {}
      /\ i.target = s.skill[2]
  BY <1>2 DEF IdleTask, TaskStates, TaskStages
<1> HIDE DEF i
<1>4. task' \in [Tasks -> TaskStates] /\ task'[t] = i /\ \A u \in Tasks \ {t} : task'[u] = task[u]
  BY <1>1, <1>3, SetLemma DEF LibraryInv
<1>5. WorldType' /\ World' /\ (exclusive => WorldOfOne')
  BY <1>1, FewerRows
<1>6. ASSUME NEW u \in Tasks \ {t} PROVE TaskFits(u)'
  BY <1>1, <1>4, FewerRows
<1>7. TaskFits(t)'
  <2>1. Fits(task[t])'
    BY <1>1, <1>2, <1>3, <1>4 DEF Fits, OfCustom, LibraryInv, WorldType
  <2>2. ASSUME exclusive PROVE FitsOfOne(task[t])'
    <3>1. i.target <= customs /\ \A r \in skills' : r.skill # <<0, i.target>>
      BY <1>1, <1>2, <1>3, <2>2 DEF LibraryInv, WorldOfOne, CustomRows
    <3> QED
      BY <1>1, <1>3, <1>4, <3>1 DEF FitsOfOne, OfCustom
  <2> QED
    BY <1>1, <2>1, <2>2 DEF TaskFits
<1>8. ASSUME NEW u \in Tasks \ {t} PROVE TasksApart(t, u)' /\ TasksApart(u, t)'
  <2>1. Fits(task[u])
    BY DEF LibraryInv, TaskFits
  <2>2. exclusive /\ task[u].op \in OfCustom => task[u].target # i.target
    BY <1>2, <1>3 DEF LibraryInv, TaskFits, FitsOfOne
  <2> QED
    BY <1>1, <1>3, <1>4, <2>1, <2>2 DEF TasksApart, Apart, ApartOfOne, Fits, Coordinated, OfCustom
<1> QED
  BY <1>4, <1>5, <1>6, <1>7, <1>8, OneTaskChanges

\* The directory of a custom skill that has no row, or no row yet.
LEMMA CustomFilesLemma ==
    ASSUME LibraryInv, NEW t \in Tasks, task[t].op \in OfCustom, End(t),
           directories' = directories \ {<<0, task[t].target>>},
           UNCHANGED <<exclusive, tree, head, repository, skills, enabled, applied, ids, customs>>
    PROVE  LibraryInv'
<1> DEFINE old == task[t]
           rest == directories \ {<<0, old.target>>}
<1>1. Fits(old) /\ (exclusive => FitsOfOne(old)) /\ old \in TaskStates
  BY DEF LibraryInv, TaskFits
<1>2. \A u \in Tasks \ {t} : task'[u] = task[u]
  BY EndLemma DEF LibraryInv
<1>3. rest \in SUBSET DirectoryNames
  BY DEF LibraryInv, WorldType
<1>4. repository # None => repository.id # 0
  BY NoneLemma DEF LibraryInv, WorldType
<1>5. exclusive => \A s \in skills : s.skill[1] = 0 => s.dir \in rest
  BY <1>1 DEF LibraryInv, WorldOfOne, RowsHaveContent, CustomRows, FitsOfOne
<1>6. exclusive => /\ repository # None => <<repository.id, repository.commit>> \in rest
                   /\ \A s \in applied : repository # None /\ s.skill[1] = repository.id => s.dir \in rest
  BY <1>4 DEF LibraryInv, WorldOfOne, Leads
<1>7. WorldType' /\ World'
  BY <1>3 DEF LibraryInv, WorldType, World, SlugsAreUnique
<1>8. exclusive => WorldOfOne'
  BY <1>3, <1>5, <1>6, FilesLemma DEF LibraryInv
<1>9. ASSUME NEW u \in Tasks \ {t} PROVE TaskFits(u)'
  <2>1. Fits(task[u]) /\ (exclusive => FitsOfOne(task[u])) /\ task[u] \in TaskStates
    BY DEF LibraryInv, TaskFits
  <2>2. Fits(task[u])'
    BY <1>2, <2>1 DEF Fits, Stale, Rows
  <2>3. exclusive /\ task[u].op = "create" => task[u].target # old.target
    BY DEF LibraryInv, TasksApart, ApartOfOne, OfCustom
  <2>4. exclusive => FitsOfOne(task[u])'
    <3> SUFFICES ASSUME exclusive PROVE FitsOfOne(task[u])'
      OBVIOUS
    <3>1. \A s \in task[u].links : Leads(s)'
      BY <1>4, <2>1 DEF FitsOfOne, Leads
    <3>2. \A d \in directories : d # <<0, old.target>> => d \in directories'
      OBVIOUS
    <3>3. task[u].op \in {"add", "sync"} => task[u].id # 0
      BY <2>1 DEF Fits
    <3> QED
      BY <1>2, <2>1, <2>3, <3>1, <3>2, <3>3 DEF FitsOfOne, Stale
  <2> QED
    BY <1>2, <2>2, <2>4 DEF TaskFits
<1> QED
  BY <1>7, <1>8, <1>9, OneTaskEnds

LEMMA RemoveCustomFilesStep ==
    ASSUME LibraryInv, NEW t \in Tasks, RemoveCustomFiles(t), UNCHANGED exclusive
    PROVE  LibraryInv'
BY CustomFilesLemma DEF RemoveCustomFiles, At, OfCustom

\* The directory of a custom skill is new.
LEMMA CreatePublishStep ==
    ASSUME LibraryInv, NEW t \in Tasks, CreatePublish(t), UNCHANGED exclusive
    PROVE  LibraryInv'
<1> DEFINE dir == <<0, customs + 1>>
           i == [IdleTask EXCEPT !.op = "create", !.at = "insert", !.target = customs']
<1>1. /\ exclusive /\ customs' = customs + 1 /\ directories' = directories \cup {dir} /\ Set(t, i)
      /\ UNCHANGED <<tree, head, repository, skills, enabled, applied, ids>>
  BY DEF CreatePublish
<1>2. customs \in Nat /\ customs' \in Nat /\ dir \in DirectoryNames /\ directories' \in SUBSET DirectoryNames
      /\ directories \subseteq directories'
  BY <1>1 DEF LibraryInv, WorldType, DirectoryNames
<1>3. /\ i \in TaskStates /\ i.op = "create" /\ i.id = 0 /\ i.links = {} /\ i.target = customs'
  BY <1>2 DEF IdleTask, TaskStates, TaskStages
<1> HIDE DEF i
<1>4. task' \in [Tasks -> TaskStates] /\ task'[t] = i /\ \A u \in Tasks \ {t} : task'[u] = task[u]
  BY <1>1, <1>3, SetLemma DEF LibraryInv
<1>5. WorldType' /\ World'
  BY <1>1, <1>2 DEF LibraryInv, WorldType, World, SlugsAreUnique
<1>6. \A s \in skills : s.skill[1] = 0 => s.skill[2] \in Nat /\ s.skill[2] <= customs
  BY <1>1, SkillRowLemma DEF LibraryInv, WorldType, WorldOfOne, CustomRows
<1>7. \A s : Leads(s) => Leads(s)'
  BY <1>1, <1>2 DEF Leads
<1>8. WorldOfOne'
  <2>1. RowsFollowRepository' /\ RowsHaveContent'
    BY <1>1, <1>2 DEF RowsFollowRepository, RowsHaveContent, LibraryInv, WorldOfOne
  <2>2. CustomRows'
    BY <1>1, <1>2, <1>6 DEF CustomRows, LibraryInv, WorldOfOne
  <2> QED
    BY <1>1, <1>2, <1>7, <2>1, <2>2 DEF WorldOfOne, LibraryInv
<1>9. ASSUME NEW u \in Tasks \ {t} PROVE TaskFits(u)'
  <2>1. Fits(task[u]) /\ FitsOfOne(task[u])
    BY <1>1 DEF LibraryInv, TaskFits
  <2>2. Fits(task[u])'
    BY <1>1, <1>4, <2>1 DEF Fits, Stale, Rows
  <2>3. task[u].op \in OfCustom => task[u].target <= customs'
    BY <1>1, <1>2, <2>1 DEF Fits, FitsOfOne
  <2>4. FitsOfOne(task[u])'
    BY <1>1, <1>2, <1>4, <1>7, <2>1, <2>3 DEF FitsOfOne, Stale
  <2> QED
    BY <1>1, <2>2, <2>4 DEF TaskFits
<1>10. TaskFits(t)'
  <2>1. \A s \in skills' : s.skill # <<0, i.target>>
    BY <1>1, <1>2, <1>3, <1>6
  <2> QED
    BY <1>1, <1>2, <1>3, <1>4, <1>5, <2>1 DEF TaskFits, Fits, FitsOfOne, OfCustom, WorldType
<1>11. ASSUME NEW u \in Tasks \ {t} PROVE TasksApart(t, u)' /\ TasksApart(u, t)'
  <2>1. Fits(task[u]) /\ FitsOfOne(task[u])
    BY <1>1 DEF LibraryInv, TaskFits
  <2>2. task[u].op \in OfCustom => task[u].target # i.target
    BY <1>1, <1>2, <1>3, <2>1 DEF Fits, FitsOfOne
  <2> QED
    BY <1>1, <1>3, <1>4, <2>1, <2>2 DEF TasksApart, Apart, ApartOfOne, Fits, Coordinated, OfCustom
<1> QED
  BY <1>1, <1>4, <1>5, <1>8, <1>9, <1>10, <1>11, OneTaskChanges

\* Its row has a name that is free, and no other row leads to the directory.
LEMMA CreateInsertStep ==
    ASSUME LibraryInv, NEW t \in Tasks, NEW slug \in Slugs, CreateInsert(t, slug), UNCHANGED exclusive
    PROVE  LibraryInv'
<1> DEFINE old == task[t]
           dir == <<0, old.target>>
           row == [skill |-> dir, slug |-> slug, dir |-> dir]
<1>1. /\ old.op = "create" /\ End(t)
      /\ UNCHANGED <<tree, head, repository, enabled, applied, ids, customs>>
      /\ \/ SlugFree(slug, skills) /\ skills' = skills \cup {row} /\ directories' = directories
         \/ directories' = directories \ {dir} /\ skills' = skills
  BY DEF CreateInsert, At
<1>2. CASE directories' = directories \ {dir} /\ skills' = skills
  BY <1>1, <1>2, CustomFilesLemma DEF OfCustom
<1>3. CASE SlugFree(slug, skills) /\ skills' = skills \cup {row} /\ directories' = directories
  <2>1. Fits(old) /\ (exclusive => FitsOfOne(old)) /\ old.target \in Nat
    BY <1>1 DEF LibraryInv, TaskFits, Fits, OfCustom
  <2>2. dir \in SkillIds /\ dir \in DirectoryNames /\ dir[1] = 0 /\ dir[2] = old.target
    BY <2>1 DEF SkillIds, DirectoryNames
  <2>3. row \in SkillRows /\ row.skill = dir /\ row.dir = dir /\ row.slug = slug
    BY <2>2 DEF SkillRows
  <2>4. exclusive => /\ dir \in directories /\ old.target <= customs
                     /\ \A s \in skills : s.skill # dir
    BY <1>1, <2>1 DEF FitsOfOne, OfCustom
  <2>5. \A u \in Tasks \ {t} : task'[u] = task[u]
    BY <1>1, EndLemma DEF LibraryInv
  <2> HIDE DEF row
  <2>6. WorldType'
    BY <1>1, <1>3, <2>3 DEF LibraryInv, WorldType
  <2>7. World'
    <3>1. SlugsAreUnique'
      BY <1>3, <2>3 DEF LibraryInv, World, SlugsAreUnique, SlugFree
    <3>2. 0 <= ids
      BY DEF LibraryInv, WorldType
    <3> QED
      BY <1>1, <1>3, <2>2, <2>3, <3>1, <3>2 DEF LibraryInv, World
  <2>8. \A s : Leads(s) => Leads(s)'
    BY <1>1, <1>3 DEF Leads
  <2>9. exclusive => WorldOfOne'
    <3> SUFFICES ASSUME exclusive PROVE WorldOfOne'
      OBVIOUS
    <3>1. RowsFollowRepository' /\ RowsHaveContent'
      BY <1>1, <1>3, <2>2, <2>3, <2>4 DEF RowsFollowRepository, RowsHaveContent, LibraryInv, WorldOfOne
    <3>2. CustomRows'
      BY <1>1, <1>3, <2>2, <2>3, <2>4 DEF CustomRows, LibraryInv, WorldOfOne
    <3>3. \A s \in applied' : Leads(s)'
      BY <1>1, <2>8 DEF LibraryInv, WorldOfOne
    <3>4. \A e \in enabled' : \E s \in skills' : s.skill = e
      BY <1>1, <1>3 DEF LibraryInv, WorldOfOne
    <3> QED
      BY <1>1, <1>3, <3>1, <3>2, <3>3, <3>4 DEF WorldOfOne, LibraryInv
  <2>10. ASSUME NEW u \in Tasks \ {t} PROVE TaskFits(u)'
    <3>1. Fits(task[u]) /\ (exclusive => FitsOfOne(task[u]))
      BY DEF LibraryInv, TaskFits
    <3>2. Fits(task[u])'
      BY <1>1, <1>3, <2>2, <2>3, <2>5, <3>1 DEF Fits, Stale, Rows
    <3>3. exclusive /\ task[u].op \in OfCustom => task[u].target # old.target
      BY <1>1 DEF LibraryInv, TasksApart, ApartOfOne, OfCustom
    <3>4. exclusive => FitsOfOne(task[u])'
      <4> SUFFICES ASSUME exclusive PROVE FitsOfOne(task[u])'
        OBVIOUS
      <4>1. task[u].op \in OfCustom => \A s \in skills' : s.skill # <<0, task[u].target>>
        BY <1>3, <2>3, <3>1, <3>3 DEF FitsOfOne
      <4> QED
        BY <1>1, <1>3, <2>5, <2>8, <3>1, <4>1 DEF FitsOfOne, Stale
    <3> QED
      BY <1>1, <3>2, <3>4 DEF TaskFits
  <2> QED
    BY <1>1, <2>6, <2>7, <2>9, <2>10, OneTaskEnds
<1> QED
  BY <1>1, <1>2, <1>3

-----------------------------------------------------------------------------

LEMMA LibraryInitial == LibraryInit => LibraryInv
<1> SUFFICES ASSUME LibraryInit PROVE LibraryInv
  OBVIOUS
<1>1. WorldType /\ World
  BY DEF LibraryInit, WorldType, World, SlugsAreUnique
<1>2. WorldOfOne
  BY DEF LibraryInit, WorldOfOne, RowsFollowRepository, RowsHaveContent, CustomRows
<1>3. task \in [Tasks -> TaskStates] /\ \A t \in Tasks : task[t] = IdleTask
  BY IdleLemma DEF LibraryInit
<1>4. \A t \in Tasks : TaskFits(t)
  BY <1>3, IdleLemma DEF TaskFits, Fits, FitsOfOne, LibraryInit, OfCustom
<1>5. \A t, u \in Tasks : t # u => TasksApart(t, u)
  BY <1>3, IdleLemma DEF TasksApart, Apart, ApartOfOne, Coordinated, OfCustom
<1> QED
  BY <1>1, <1>2, <1>3, <1>4, <1>5 DEF LibraryInv

LEMMA LibraryStep == LibraryInv /\ [LibraryNext]_libraryVars => LibraryInv'
<1> SUFFICES ASSUME LibraryInv, [LibraryNext]_libraryVars PROVE LibraryInv'
  OBVIOUS
<1>1. CASE UNCHANGED libraryVars
  <2>1. /\ UNCHANGED <<exclusive, tree, repository, skills, enabled, directories, applied, ids, customs>>
        /\ head' \in Commits /\ task' = task
    BY <1>1 DEF libraryVars, LibraryInv, WorldType
  <2>2. \A u, v \in Tasks : u # v => TasksApart(u, v)'
    BY <2>1 DEF LibraryInv, TasksApart
  <2> QED
    BY <2>1, <2>2, WorldRests DEF LibraryInv
<1>2. CASE LibraryNext
  <2> USE <1>2 DEF LibraryNext
  <2>1. ASSUME NEW t \in Tasks,
               \/ AddPublish(t) \/ AddInsert(t)
               \/ SyncRead(t) \/ SyncPlan(t) \/ SyncPublish(t) \/ SyncReconcile(t)
               \/ SyncReferenced(t) \/ SyncUnpublish(t)
               \/ RemoveBegin(t) \/ RemoveRows(t) \/ RemoveFiles(t)
               \/ RemoveCustomFiles(t) \/ CreatePublish(t)
               \/ ApplyRead(t) \/ ApplyLink(t) \/ Drop(t)
        PROVE  LibraryInv'
    BY <2>1, AddPublishStep, AddInsertStep, SyncReadStep, SyncPlanStep, SyncPublishStep, SyncReconcileStep,
       SyncReferencedStep, SyncUnpublishStep, RemoveBeginStep, RemoveRowsStep, RemoveFilesStep,
       RemoveCustomFilesStep, CreatePublishStep, ApplyReadStep, ApplyLinkStep, DropStep
  <2>2. ASSUME NEW s \in skills, RemoveSkill(s) PROVE LibraryInv'
    BY <2>2, RemoveSkillStep
  <2>3. ASSUME NEW t \in Tasks, NEW slug \in Slugs, CreateInsert(t, slug) PROVE LibraryInv'
    BY <2>3, CreateInsertStep
  <2>4. ASSUME NEW chosen \in SUBSET skills, ReplaceSkills(chosen) PROVE LibraryInv'
    BY <2>4, ReplaceSkillsStep
  <2>5. ASSUME NEW c \in Commits, Push(c) PROVE LibraryInv'
    BY <2>5, PushStep
  <2>6. ASSUME NEW t \in Tasks, NEW s \in skills, RemoveCustom(t, s) PROVE LibraryInv'
    BY <2>6, RemoveCustomStep
  <2> QED
    BY <2>1, <2>2, <2>3, <2>4, <2>5, <2>6 DEF Step
<1> QED
  BY <1>1, <1>2

\* The invariant of the library, for any tasks, commits and skills: what a task
\* of repository/sync.rs has read is still so, as far as it builds on it, when it
\* writes.
THEOREM LibraryInductive == LibrarySpec => []LibraryInv
<1> QED
  BY LibraryInitial, LibraryStep, PTL DEF LibrarySpec

\* No two skills have one name (the unique slug of repository/store.rs), whatever
\* processes are at work; and while the tasks belong to one server, each row leads
\* to files that are there, the rows of the repository are at its commit, and what
\* was applied for an enabled skill is not taken away by a synchronisation.
THEOREM LibraryConsistent == LibrarySpec => []LibraryIsConsistent
<1>1. LibraryInv => LibraryIsConsistent
  <2> SUFFICES ASSUME LibraryInv PROVE LibraryIsConsistent
    OBVIOUS
  <2>1. SlugsAreUnique
    BY DEF LibraryInv, World
  <2>2. ASSUME exclusive PROVE RowsHaveContent /\ RowsFollowRepository
    BY <2>2 DEF LibraryInv, WorldOfOne
  <2>3. ASSUME exclusive, NEW s \in applied, s.skill \in enabled PROVE s.dir \in directories
    <3>1. PICK r \in skills : r.skill = s.skill
      BY <2>3 DEF LibraryInv, WorldOfOne
    <3>2. Leads(s) /\ r.dir \in directories
      BY <2>3 DEF LibraryInv, WorldOfOne, RowsHaveContent
    <3>3. CASE s.skill[1] = 0
      BY <2>3, <3>1, <3>2, <3>3 DEF Leads, LibraryInv, WorldOfOne, CustomRows
    <3>4. CASE s.skill[1] # 0
      BY <2>3, <3>1, <3>2, <3>4 DEF Leads, LibraryInv, WorldOfOne, RowsFollowRepository
    <3> QED
      BY <3>3, <3>4
  <2> QED
    BY <2>1, <2>2, <2>3 DEF LibraryIsConsistent, AppliedSkillsStay
<1> QED
  BY <1>1, LibraryInductive, PTL

\* A synchronisation that changes the revision (reconcile_repository in
\* repository/store.rs) leaves the skills of the new commit and no other, though
\* its plan was made from rows and a clone that it read before.
THEOREM SyncExact == LibrarySpec => SyncIsExact
<1> DEFINE exact == (repository # None /\ repository' # None /\ repository'.version # repository.version)
                      => Unchanged({s \in skills' : s.skill[1] = repository'.id}, tree[repository'.commit], repository'.id)
<1>1. LibraryInv /\ [LibraryNext]_libraryVars => [exact]_libraryVars
  <2> SUFFICES ASSUME LibraryInv, LibraryNext, repository # None, repository' # None,
                      repository'.version # repository.version
               PROVE  Unchanged({s \in skills' : s.skill[1] = repository'.id}, tree[repository'.commit], repository'.id)
    OBVIOUS
  <2>1. ASSUME NEW t \in Tasks, AddPublish(t) \/ AddInsert(t) PROVE FALSE
    BY <2>1 DEF AddPublish, AddInsert
  <2>2. ASSUME NEW t \in Tasks,
               \/ SyncRead(t) \/ SyncPlan(t) \/ SyncPublish(t) \/ SyncReferenced(t) \/ SyncUnpublish(t)
        PROVE  FALSE
    BY <2>2 DEF SyncRead, SyncPlan, SyncPublish, SyncReferenced, SyncUnpublish
  <2>3. ASSUME NEW t \in Tasks,
               \/ RemoveBegin(t) \/ RemoveRows(t) \/ RemoveFiles(t)
               \/ RemoveCustomFiles(t) \/ CreatePublish(t)
               \/ ApplyRead(t) \/ ApplyLink(t) \/ Drop(t)
        PROVE  FALSE
    BY <2>3 DEF RemoveBegin, RemoveRows, RemoveFiles, RemoveCustomFiles, CreatePublish, ApplyRead, ApplyLink, Drop
  <2>4. \E t \in Tasks : SyncReconcile(t)
    BY <2>1, <2>2, <2>3 DEF LibraryNext, Step, RemoveSkill, RemoveCustom, CreateInsert, ReplaceSkills, Push
  <2>5. PICK t \in Tasks : SyncReconcile(t)
    BY <2>4
  <2> DEFINE i == task[t]
             new == Discovered(i.id, i.target)
  <2>6. /\ i.op = "sync" /\ i.at = "reconcile" /\ ~Stale(i)
        /\ \A row \in new : ~Taken(i, row)
        /\ repository' = [id |-> i.id, commit |-> i.target, version |-> repository.version + 1]
        /\ skills' = Reconciled(i)
    BY <2>5 DEF SyncReconcile, At
  <2>7. repository'.id = i.id /\ repository'.commit = i.target
    BY <2>6
  <2>8. Fits(i) /\ i \in TaskStates
    BY DEF LibraryInv, TaskFits
  <2>9. i.id \in Nat \ {0} /\ i.target \in Commits
    BY <2>6, <2>8 DEF Fits, TaskStates, Revised
  <2>10. new \subseteq skills' /\ \A s \in skills' : s.skill[1] = i.id => s \in new
    BY <2>5, <2>6, <2>8, <2>9, ReconciledLemma, ReconciledIsExact DEF LibraryInv, World
  <2>11. /\ \A r \in new : /\ r.skill[1] = i.id /\ r.skill[2] \in PathSet /\ r.skill = <<i.id, r.skill[2]>>
                           /\ r.slug = tree[i.target][r.skill[2]] /\ r.slug # None
         /\ \A p \in PathSet : tree[i.target][p] # None =>
               \E r \in new : r.skill = <<i.id, p>> /\ r.slug = tree[i.target][p]
    BY <2>9, DiscoveredLemma DEF LibraryInv
  <2> HIDE DEF new
  <2>12. {s \in skills' : s.skill[1] = i.id} = new
    BY <2>10, <2>11
  <2>13. Unchanged(new, tree[i.target], i.id)
    <3>1. \A r \in new : \E p \in {q \in PathSet : tree[i.target][q] # None} :
             <<r.skill, r.slug>> = <<<<i.id, p>>, tree[i.target][p]>>
      BY <2>11
    <3>2. \A p \in {q \in PathSet : tree[i.target][q] # None} : \E r \in new :
             <<<<i.id, p>>, tree[i.target][p]>> = <<r.skill, r.slug>>
      BY <2>11
    <3> QED
      BY <3>1, <3>2 DEF Unchanged
  <2> QED
    BY <2>7, <2>12, <2>13
<1> QED
  BY <1>1, LibraryInductive, PTL DEF LibrarySpec, SyncIsExact
=============================================================================
