------------------------- MODULE StaticPublish_proofs -------------------------
(***************************************************************************)
(* Proofs about StaticPublish for every number of jobs, pages, kept        *)
(* releases, open jobs and faults.                                         *)
(***************************************************************************)
EXTENDS StaticPublish, TLAPS

-----------------------------------------------------------------------------
(* What the helpers do to the rows.                                        *)

\* A row keeps what it was created with.
Keeps == /\ job' \in [Jobs -> Row]
         /\ \A k \in Jobs : /\ job'[k].goal = job[k].goal
                            /\ job'[k].scope = job[k].scope

\* A status that is written keeps the other fields of the row.
LEMMA SetStatusKeeps ==
    ASSUME job \in [Jobs -> Row], NEW j \in Jobs, NEW s \in Statuses,
           SetStatus(j, s)
    PROVE  Keeps
BY DEF SetStatus, Row, Keeps

\* So does the start of a job.
LEMMA MarkRunningKeeps ==
    ASSUME job \in [Jobs -> Row], manifests \in Seq(Jobs), NEW j \in Jobs,
           MarkRunning(j)
    PROVE  Keeps
<1> DEFINE n == Len(manifests)
<1>1. n \in Nat
  OBVIOUS
<1>2. job' = [job EXCEPT ![j].status = "running", ![j].started = n]
  BY DEF MarkRunning
<1> HIDE DEF n
<1> QED
  BY <1>1, <1>2 DEF Row, Statuses, Keeps

\* So does a step that writes no row.
LEMMA UnchangedKeeps ==
    ASSUME job \in [Jobs -> Row], UNCHANGED job
    PROVE  Keeps
BY DEF Keeps

\* The absent row is a row.
LEMMA NoRowType == NoRow \in Row
BY DEF NoRow, Row, Statuses, Scopes, Versions

\* Every request has a release to build or to return to, and a build builds
\* its own.
LEMMA RequestRow ==
    ASSUME TypeOK, NEW j \in Jobs, Requests(j)
    PROVE  \E row \in Row :
              /\ Request(j, row)
              /\ row.goal \in Jobs
              /\ row.scope # "rollback" => row.goal = j
              /\ row.scope = "rollback" => row.goal \in Recorded
<1> USE DEF Scopes, Versions
<1>1. ASSUME NEW paths \in SUBSET Pages, CreatePublish(j, paths)
      PROVE  \E row \in Row :
              /\ Request(j, row)
              /\ row.goal = j
              /\ row.scope # "rollback"
  <2>1. PICK scope \in {"full", "journal", "selective"} :
            Request(j, [NoRow EXCEPT !.scope = scope,
                                     !.requested = paths,
                                     !.goal = j])
    BY <1>1 DEF CreatePublish
  <2> DEFINE row == [NoRow EXCEPT !.scope = scope,
                                  !.requested = paths,
                                  !.goal = j]
  <2>2. row \in Row /\ row.goal = j /\ row.scope # "rollback"
    BY NoRowType DEF Row
  <2> QED
    BY <2>1, <2>2
<1>2. ASSUME NEW k \in Jobs, CreateRetry(j, k)
      PROVE  \E row \in Row :
              /\ Request(j, row)
              /\ row.goal = j
              /\ row.scope # "rollback"
  <2>1. RetryPaths(k) \subseteq SUBSET Pages
    BY DEF RetryPaths, Row, TypeOK
  <2>2. PICK paths \in RetryPaths(k) :
            Request(j, [NoRow EXCEPT !.scope = IF paths = {} THEN "full"
                                                             ELSE "retry",
                                     !.requested = paths,
                                     !.goal = j,
                                     !.retryOf = k])
    BY <1>2 DEF CreateRetry
  <2> DEFINE row == [NoRow EXCEPT !.scope = IF paths = {} THEN "full"
                                                          ELSE "retry",
                                  !.requested = paths,
                                  !.goal = j,
                                  !.retryOf = k]
  <2>3. row \in Row /\ row.goal = j /\ row.scope # "rollback"
    BY <2>1, NoRowType DEF Row
  <2> QED
    BY <2>2, <2>3
<1>3. ASSUME NEW v \in Jobs, CreateRollback(j, v)
      PROVE  \E row \in Row :
              /\ Request(j, row)
              /\ row.goal = v
              /\ row.scope = "rollback"
              /\ v \in Recorded
  <2> DEFINE row == [NoRow EXCEPT !.scope = "rollback", !.goal = v]
  <2>1. row \in Row /\ row.goal = v /\ row.scope = "rollback"
    BY NoRowType DEF Row
  <2> QED
    BY <1>3, <2>1 DEF CreateRollback
<1> QED
  BY <1>1, <1>2, <1>3 DEF Requests

\* A request adds its own row and touches no other.
LEMMA RequestKeepsOthers ==
    ASSUME job \in [Jobs -> Row], NEW j \in Jobs, NEW row \in Row,
           Request(j, row)
    PROVE  /\ job' \in [Jobs -> Row]
           /\ job'[j].goal = row.goal
           /\ job'[j].scope = row.scope
           /\ \A k \in Jobs \ {j} : job'[k] = job[k]
BY DEF Request, Row, Statuses

\* Every step but a request keeps the rows and moves one job that is not idle.
LEMMA WorkerKeeps ==
    ASSUME TypeOK, NEW j \in Jobs, Worker(j) \/ Crash(j)
    PROVE  /\ Keeps
           /\ pc[j] # "idle"
           /\ \A k \in Jobs \ {j} : pc'[k] = pc[k]
<1> USE DEF TypeOK, Goto, Unwind, Exposed, Working, Building, Activating,
            Cleaning
<1> DEFINE Moves == pc[j] # "idle" /\ \A k \in Jobs \ {j} : pc'[k] = pc[k]
<1>1. CASE DenyJob(j)
  BY <1>1, SetStatusKeeps DEF DenyJob, Statuses
<1>2. CASE RefuseBuild(j)
  BY <1>2, SetStatusKeeps, UnchangedKeeps DEF RefuseBuild, Statuses
<1>3. CASE StartBuild(j)
  BY <1>3, MarkRunningKeeps DEF StartBuild
<1>4. CASE StartRollback(j)
  BY <1>4, MarkRunningKeeps DEF StartRollback
<1>5. CASE Commit(j)
  BY <1>5, SetStatusKeeps DEF Commit, Statuses
<1>6. CASE Fail(j)
  BY <1>6, SetStatusKeeps DEF Fail, Statuses
<1>7. CASE PrepareStaging(j) \/ RenderTargets(j) \/ PromoteRelease(j)
           \/ RecordCandidateManifest(j) \/ WaitForProtectedRelease(j)
  BY <1>7, UnchangedKeeps
  DEF PrepareStaging, RenderTargets, PromoteRelease, RecordCandidateManifest,
      WaitForProtectedRelease
<1>8. CASE PruneOne(j) \/ PruneDone(j) \/ PruneFails(j) \/ BuildError(j)
  BY <1>8, UnchangedKeeps DEF PruneOne, PruneDone, PruneFails, BuildError
<1>9. CASE CheckRollback(j) \/ LockRollback(j) \/ RollbackRefused(j)
  BY <1>9, UnchangedKeeps DEF CheckRollback, LockRollback, RollbackRefused
<1>10. CASE CopyRelease(j) \/ MoveCurrentAside(j) \/ MoveCandidateIn(j)
            \/ MoveCandidateFails(j) \/ CommitFails(j)
  BY <1>10, UnchangedKeeps
  DEF CopyRelease, MoveCurrentAside, MoveCandidateIn, MoveCandidateFails,
      CommitFails
<1>11. CASE MoveFailedAside(j) \/ RestorePrevious(j) \/ CompensationFails(j)
            \/ FinalizeActivation(j) \/ Crash(j)
  BY <1>11, UnchangedKeeps
  DEF MoveFailedAside, RestorePrevious, CompensationFails, FinalizeActivation,
      Crash
<1> QED
  BY <1>1, <1>2, <1>3, <1>4, <1>5, <1>6, <1>7, <1>8, <1>9, <1>10, <1>11
  DEF Worker, Build, Rollback, Activate

-----------------------------------------------------------------------------
(* Type correctness.                                                       *)

\* A job that was requested has a release to build or to return to, and a
\* build builds its own.
GoalOK == \A j \in Jobs : pc[j] # "idle" =>
             Goal(j) \in Jobs /\ (~IsRollback(j) => Goal(j) = j)

\* The release a job is for does not change.
LEMMA GoalNext == TypeOK /\ GoalOK /\ [Next]_vars => GoalOK'
<1> SUFFICES ASSUME TypeOK, GoalOK, [Next]_vars PROVE GoalOK'
  OBVIOUS
<1> USE DEF GoalOK, Goal, IsRollback
<1>1. ASSUME NEW j \in Jobs, Requests(j) PROVE GoalOK'
  <2>1. PICK row \in Row : /\ Request(j, row)
                           /\ row.goal \in Jobs
                           /\ row.scope # "rollback" => row.goal = j
    BY <1>1, RequestRow
  <2>2. /\ job'[j].goal = row.goal
        /\ job'[j].scope = row.scope
        /\ \A k \in Jobs \ {j} : job'[k] = job[k]
    BY <2>1, RequestKeepsOthers DEF TypeOK
  <2>3. \A k \in Jobs \ {j} : pc'[k] = pc[k]
    BY <2>1 DEF Request, Goto, TypeOK
  <2> QED
    BY <2>1, <2>2, <2>3
<1>2. ASSUME NEW j \in Jobs, Worker(j) \/ Crash(j) PROVE GoalOK'
  BY <1>2, WorkerKeeps DEF Keeps
<1>3. CASE UNCHANGED vars
  BY <1>3 DEF vars
<1> QED
  BY <1>1, <1>2, <1>3 DEF Next

\* The types hold initially.
LEMMA TypeInit == Init => TypeOK /\ GoalOK
<1> SUFFICES ASSUME Init PROVE TypeOK /\ GoalOK
  OBVIOUS
<1>1. job \in [Jobs -> Row]
  BY NoRowType DEF Init
<1>2. pc \in [Jobs -> Stages]
  BY DEF Init, Stages
<1>3. content \in [Jobs -> Site]
  BY DEF Init, Site, Empty, Versions
<1>4. {current, next, previous} \subseteq Directory
  BY DEF Init, Directory, Missing, Versions
<1>5. manifests \in Seq(Jobs)
  BY DEF Init
<1>6. GoalOK
  BY DEF Init, GoalOK
<1> QED
  BY <1>1, <1>2, <1>3, <1>4, <1>5, <1>6 DEF Init, TypeOK, Versions

\* Every step keeps the types.
LEMMA TypeNext == TypeOK /\ GoalOK /\ [Next]_vars => TypeOK'
<1> SUFFICES ASSUME TypeOK, GoalOK, [Next]_vars PROVE TypeOK'
  OBVIOUS
<1> USE DEF TypeOK, Versions, Statuses, Directory, Missing, Site,
            Goto, IsRollback, Goal, Unwind, Exists,
            Building, Activating, Cleaning, Working, Stages, Exposed,
            disk, database, history
<1>1. ASSUME NEW j \in Jobs, Requests(j) PROVE TypeOK'
  <2>1. PICK row \in Row : Request(j, row)
    BY <1>1, RequestRow
  <2>2. job' \in [Jobs -> Row]
    BY <2>1, RequestKeepsOthers
  <2>3. pc' \in [Jobs -> Stages]
    BY <2>1 DEF Request
  <2> QED
    BY <2>1, <2>2, <2>3 DEF Request
<1>2. ASSUME NEW j \in Jobs, DenyJob(j) PROVE TypeOK'
  <2>1. job' \in [Jobs -> Row]
    BY <1>2, WorkerKeeps DEF Keeps, Worker
  <2> QED
    BY <1>2, <2>1 DEF DenyJob
<1>3. ASSUME NEW j \in Jobs, RefuseBuild(j) PROVE TypeOK'
  <2>1. job' \in [Jobs -> Row]
    BY <1>3, WorkerKeeps DEF Keeps, Worker, Build
  <2> QED
    BY <1>3, <2>1 DEF RefuseBuild
<1>4. ASSUME NEW j \in Jobs, StartBuild(j) PROVE TypeOK'
  <2>1. job' \in [Jobs -> Row]
    BY <1>4, WorkerKeeps DEF Keeps, Worker, Build
  <2> QED
    BY <1>4, <2>1 DEF StartBuild
<1>5. ASSUME NEW j \in Jobs, PrepareStaging(j) PROVE TypeOK'
  <2>1. content' \in [Jobs -> Site]
    <3>1. CASE job[j].scope = "full"
      BY <1>5, <3>1 DEF PrepareStaging
    <3>2. CASE job[j].scope # "full"
      <4>1. current.version \in Jobs
        BY <1>5, <3>2 DEF PrepareStaging
      <4> QED
        BY <1>5, <3>2, <4>1 DEF PrepareStaging
    <3> QED
      BY <3>1, <3>2
  <2> QED
    BY <1>5, <2>1 DEF PrepareStaging
<1>6. ASSUME NEW j \in Jobs, RenderTargets(j) PROVE TypeOK'
  <2>1. \A targets \in Targets(j) : targets \subseteq Pages
    BY PagesAssumption DEF Targets, StaleArticles, Row
  <2>2. PICK targets \in Targets(j) : \E broken \in SUBSET targets :
            /\ failed' = [failed EXCEPT ![j] = broken]
            /\ content' = [content EXCEPT ![j] =
                  [p \in Pages |-> IF p \in targets \ broken
                                   THEN j ELSE content[j][p]]]
            /\ Goto(j, CASE broken = {} -> "promote"
                         [] broken # {} /\ broken = targets -> "failing"
                         [] OTHER -> "failingPartly")
    BY <1>6 DEF RenderTargets
  <2>3. failed' \in [Jobs -> SUBSET Pages] /\ content' \in [Jobs -> Site]
    BY <2>1, <2>2
  <2>4. pc' \in [Jobs -> Stages]
    BY <2>2
  <2> QED
    BY <1>6, <2>3, <2>4 DEF RenderTargets
<1>7. ASSUME NEW j \in Jobs, PromoteRelease(j) PROVE TypeOK'
  BY <1>7 DEF PromoteRelease
<1>8. ASSUME NEW j \in Jobs, RecordCandidateManifest(j) PROVE TypeOK'
  BY <1>8 DEF RecordCandidateManifest
<1>9. ASSUME NEW j \in Jobs, WaitForProtectedRelease(j) PROVE TypeOK'
  BY <1>9 DEF WaitForProtectedRelease
<1>10. ASSUME NEW j \in Jobs, PruneOne(j) PROVE TypeOK'
  BY <1>10 DEF PruneOne
<1>11. ASSUME NEW j \in Jobs, PruneDone(j) PROVE TypeOK'
  BY <1>11 DEF PruneDone
<1>12. ASSUME NEW j \in Jobs, PruneFails(j) PROVE TypeOK'
  BY <1>12 DEF PruneFails
<1>13. ASSUME NEW j \in Jobs, BuildError(j) PROVE TypeOK'
  BY <1>13 DEF BuildError
<1>14. ASSUME NEW j \in Jobs, StartRollback(j) PROVE TypeOK'
  <2>1. job' \in [Jobs -> Row]
    BY <1>14, WorkerKeeps DEF Keeps, Worker, Rollback
  <2> QED
    BY <1>14, <2>1 DEF StartRollback
<1>15. ASSUME NEW j \in Jobs, CheckRollback(j) PROVE TypeOK'
  BY <1>15 DEF CheckRollback
<1>16. ASSUME NEW j \in Jobs, LockRollback(j) PROVE TypeOK'
  BY <1>16 DEF LockRollback
<1>17. ASSUME NEW j \in Jobs, RollbackRefused(j) PROVE TypeOK'
  BY <1>17 DEF RollbackRefused
<1>18. ASSUME NEW j \in Jobs, CopyRelease(j) PROVE TypeOK'
  <2>1. Goal(j) \in Jobs
    BY <1>18 DEF CopyRelease, GoalOK
  <2>2. (release[Goal(j)] = "whole") \in BOOLEAN
    OBVIOUS
  <2>3. next' \in Directory /\ previous' \in Directory
    BY <1>18, <2>1, <2>2 DEF CopyRelease
  <2>4. pc' \in [Jobs -> Stages]
    BY <1>18 DEF CopyRelease
  <2> QED
    BY <1>18, <2>3, <2>4 DEF CopyRelease
<1>19. ASSUME NEW j \in Jobs, MoveCurrentAside(j) PROVE TypeOK'
  BY <1>19 DEF MoveCurrentAside
<1>20. ASSUME NEW j \in Jobs, MoveCandidateIn(j) PROVE TypeOK'
  BY <1>20 DEF MoveCandidateIn
<1>21. ASSUME NEW j \in Jobs, MoveCandidateFails(j) PROVE TypeOK'
  BY <1>21 DEF MoveCandidateFails
<1>22. ASSUME NEW j \in Jobs, Commit(j) PROVE TypeOK'
  <2>1. job' \in [Jobs -> Row]
    BY <1>22, WorkerKeeps DEF Keeps, Worker, Activate
  <2>2. Goal(j) \in Jobs
    BY <1>22 DEF Commit, GoalOK
  <2> QED
    BY <1>22, <2>1, <2>2 DEF Commit
<1>23. ASSUME NEW j \in Jobs, CommitFails(j) PROVE TypeOK'
  BY <1>23 DEF CommitFails
<1>24. ASSUME NEW j \in Jobs, MoveFailedAside(j) PROVE TypeOK'
  BY <1>24 DEF MoveFailedAside
<1>25. ASSUME NEW j \in Jobs, RestorePrevious(j) PROVE TypeOK'
  <2>1. current' \in {current, previous} /\ previous' \in {previous, Missing}
    BY <1>25, Zenon DEF RestorePrevious
  <2>2. Missing \in Directory
    OBVIOUS
  <2>3. {current', next', previous'} \subseteq Directory
    BY <1>25, <2>1, <2>2 DEF RestorePrevious
  <2>4. pc' \in [Jobs -> Stages] /\ lock' \in Versions
    BY <1>25 DEF RestorePrevious
  <2> QED
    BY <1>25, <2>3, <2>4 DEF RestorePrevious
<1>26. ASSUME NEW j \in Jobs, CompensationFails(j) PROVE TypeOK'
  BY <1>26 DEF CompensationFails
<1>27. ASSUME NEW j \in Jobs, FinalizeActivation(j) PROVE TypeOK'
  <2>1. CASE IsRollback(j)
    BY <1>27, <2>1 DEF FinalizeActivation, Forget
  <2>2. CASE ~IsRollback(j)
    BY <1>27, <2>2 DEF FinalizeActivation, Forget
  <2> QED
    BY <2>1, <2>2
<1>28. ASSUME NEW j \in Jobs, Fail(j) PROVE TypeOK'
  <2>1. job' \in [Jobs -> Row]
    BY <1>28, WorkerKeeps DEF Keeps, Worker
  <2>2. content' \in [Jobs -> Site]
    BY <1>28 DEF Fail, Empty
  <2> QED
    BY <1>28, <2>1, <2>2 DEF Fail, Forget
<1>29. ASSUME NEW j \in Jobs, Crash(j) PROVE TypeOK'
  BY <1>29 DEF Crash, Forget
<1>30. CASE UNCHANGED vars
  BY <1>30 DEF vars
<1> QED
  BY <1>1, <1>2, <1>3, <1>4, <1>5, <1>6, <1>7, <1>8, <1>9, <1>10, <1>11, <1>12, <1>13, <1>14, <1>15, <1>16, <1>17, <1>18, <1>19, <1>20, <1>21, <1>22, <1>23, <1>24, <1>25, <1>26, <1>27, <1>28, <1>29, <1>30
  DEF Next, Worker, Build, Rollback, Activate

\* Every variable keeps its type, for all values of the constants.
THEOREM TypeCorrect == Spec => []TypeOK
BY TypeInit, TypeNext, GoalNext, PTL DEF Spec

-----------------------------------------------------------------------------
(* The release the public reads and the active manifest.                   *)

Swapping == {"swapOut", "swapIn", "commit", "restoreOut", "restoreIn"}

\* Only the holder of .publish.lock is past the locking point.
Exclusive ==
    \A j \in Jobs : pc[j] \in Building \cup Activating \cup Cleaning => lock = j

Version(directory) == IF Exists(directory) THEN {directory.version} ELSE {}

\* What a worker inside _activate and its compensation relies on: the candidate
\* is the release it copied, and what it put aside is the active release.
SwapOK ==
    \A j \in Jobs :
       /\ pc[j] = "swapOut" => ~Exists(previous)
       /\ pc[j] \in {"swapOut", "swapIn"} => next.version = Goal(j)
       /\ pc[j] \in {"swapIn", "restoreIn"} => ~Exists(current)
       /\ pc[j] = "commit" => current.version = Goal(j)
       /\ pc[j] \in Exposed => hadPrevious[j] = Exists(previous)
       /\ pc[j] \in Exposed /\ ~torn => Version(previous) = active

SInv == TypeOK /\ GoalOK /\ Exclusive /\ SwapOK /\ ServedIsActive

RollbackStages == {"check", "acquire"}

\* What pruning relies on: its own manifest is the newest one and the active
\* one, and a release that is being activated is on disk.
KeptOK ==
    \A j \in Jobs :
       /\ pc[j] \in Swapping => release[Goal(j)] # "absent"
       /\ pc[j] \in {"pdf"} \cup Activating \cup Cleaning /\ ~IsRollback(j) =>
             Len(manifests) > 0 /\ manifests[Len(manifests)] = j
       /\ pc[j] \in Cleaning => active = {Goal(j)}
       /\ pc[j] = "prune" => ~IsRollback(j)
       /\ pc[j] \in RollbackStages => IsRollback(j)

KInv == SInv /\ KeptOK /\ ActiveIsKept

\* Nobody passes the publish lock beside its holder.
LEMMA ExclusiveNext == TypeOK /\ Exclusive /\ [Next]_vars => Exclusive'
<1> SUFFICES ASSUME TypeOK, Exclusive, [Next]_vars PROVE Exclusive'
  OBVIOUS
<1> USE NoJobAssumption
    DEF TypeOK, Exclusive, Building, Activating, Cleaning, Goto, Unwind
<1>1. ASSUME NEW j \in Jobs, Requests(j) PROVE Exclusive'
  BY <1>1, RequestRow DEF Request
<1>2. ASSUME NEW j \in Jobs, StartBuild(j) \/ LockRollback(j) PROVE Exclusive'
  BY <1>2 DEF StartBuild, LockRollback
<1>3. ASSUME NEW j \in Jobs, PruneDone(j) PROVE Exclusive'
  BY <1>3 DEF PruneDone
<1>4. ASSUME NEW j \in Jobs, FinalizeActivation(j) PROVE Exclusive'
  <2>1. CASE IsRollback(j)
    BY <1>4, <2>1 DEF FinalizeActivation
  <2>2. CASE ~IsRollback(j)
    BY <1>4, <2>2 DEF FinalizeActivation
  <2> QED
    BY <2>1, <2>2
<1>5. ASSUME NEW j \in Jobs, BuildError(j) PROVE Exclusive'
  BY <1>5 DEF BuildError
<1>6. ASSUME NEW j \in Jobs, MoveCandidateFails(j) \/ CompensationFails(j)
      PROVE  Exclusive'
  BY <1>6 DEF MoveCandidateFails, CompensationFails, Exposed
<1>7. ASSUME NEW j \in Jobs, RestorePrevious(j) PROVE Exclusive'
  BY <1>7 DEF RestorePrevious
<1>8. ASSUME NEW j \in Jobs, Fail(j) \/ Crash(j) PROVE Exclusive'
  BY <1>8 DEF Fail, Crash
<1>9. ASSUME NEW j \in Jobs, RenderTargets(j) PROVE Exclusive'
  <2>1. PICK s \in {"promote", "failing", "failingPartly"} : Goto(j, s)
    BY <1>9 DEF RenderTargets
  <2> QED
    BY <1>9, <2>1 DEF RenderTargets
<1>10. ASSUME NEW j \in Jobs,
              \/ DenyJob(j) \/ RefuseBuild(j) \/ StartRollback(j)
              \/ CheckRollback(j) \/ RollbackRefused(j)
       PROVE  Exclusive'
  BY <1>10 DEF DenyJob, RefuseBuild, StartRollback, CheckRollback,
               RollbackRefused
<1>11. ASSUME NEW j \in Jobs,
              \/ PrepareStaging(j) \/ PromoteRelease(j)
              \/ RecordCandidateManifest(j) \/ WaitForProtectedRelease(j)
              \/ PruneOne(j) \/ PruneFails(j)
       PROVE  Exclusive'
  BY <1>11 DEF PrepareStaging, PromoteRelease, RecordCandidateManifest,
               WaitForProtectedRelease, PruneOne, PruneFails
<1>12. ASSUME NEW j \in Jobs,
              \/ CopyRelease(j) \/ MoveCurrentAside(j) \/ MoveCandidateIn(j)
              \/ Commit(j) \/ CommitFails(j) \/ MoveFailedAside(j)
       PROVE  Exclusive'
  BY <1>12 DEF CopyRelease, MoveCurrentAside, MoveCandidateIn, Commit,
               CommitFails, MoveFailedAside
<1>13. CASE UNCHANGED vars
  BY <1>13 DEF vars
<1> QED
  BY <1>1, <1>2, <1>3, <1>4, <1>5, <1>6, <1>7, <1>8, <1>9, <1>10, <1>11,
     <1>12, <1>13
  DEF Next, Worker, Build, Rollback, Activate

\* A step of j that leaves the directories alone, outside an activation.
Quiet(j) ==
    /\ UNCHANGED <<current, next, previous, active, torn>>
    /\ pc[j] \notin Swapping
    /\ pc'[j] \notin Swapping
    /\ \A k \in Jobs \ {j} : /\ pc'[k] = pc[k] /\ job'[k].goal = job[k].goal
                             /\ hadPrevious'[k] = hadPrevious[k]

\* A step that moves no directory and no manifest keeps what is served.
LEMMA QuietStep ==
    ASSUME NEW j \in Jobs, Quiet(j), SwapOK, ServedIsActive
    PROVE  SwapOK' /\ ServedIsActive'
<1> USE DEF Quiet, Swapping, Exposed
<1>1. SwapOK'
  BY DEF SwapOK, Exists, Version, Goal
<1>2. ServedIsActive'
  BY DEF ServedIsActive, Settled, Served, Exists
<1> QED
  BY <1>1, <1>2

\* Every step of the swap, and of its compensation, keeps what is served.
LEMMA SwapNext == SInv /\ [Next]_vars => SwapOK' /\ ServedIsActive'
<1> SUFFICES ASSUME SInv, [Next]_vars PROVE SwapOK' /\ ServedIsActive'
  OBVIOUS
<1> USE DEF SInv
<1>1. ASSUME NEW j \in Jobs, Requests(j) PROVE Quiet(j)
  <2>1. PICK row \in Row : Request(j, row)
    BY <1>1, RequestRow
  <2>2. \A k \in Jobs \ {j} : job'[k] = job[k]
    BY <2>1, RequestKeepsOthers DEF TypeOK
  <2> QED
    BY <2>1, <2>2 DEF Request, Goto, Quiet, Swapping, TypeOK, disk, database, history
<1>2. ASSUME NEW j \in Jobs, Worker(j) \/ Crash(j)
      PROVE  /\ \A k \in Jobs : Goal(k)' = Goal(k)
             /\ \A k \in Jobs \ {j} : pc'[k] = pc[k]
  BY <1>2, WorkerKeeps DEF Keeps, Goal
<1>3. ASSUME NEW j \in Jobs, pc[j] \in Activating \cup Cleaning
      PROVE  \A k \in Jobs \ {j} : pc[k] \notin Activating \cup Cleaning
  BY <1>3 DEF Exclusive
<1>4. ASSUME NEW j \in Jobs,
             \/ DenyJob(j) \/ RefuseBuild(j) \/ StartBuild(j) \/ StartRollback(j)
             \/ CheckRollback(j) \/ LockRollback(j) \/ RollbackRefused(j)
             \/ PrepareStaging(j) \/ PromoteRelease(j)
             \/ RecordCandidateManifest(j) \/ WaitForProtectedRelease(j)
             \/ PruneOne(j) \/ PruneDone(j) \/ PruneFails(j) \/ Fail(j)
      PROVE  Quiet(j)
  <2>1. Worker(j)
    BY <1>4 DEF Worker, Build, Rollback
  <2> USE DEF Quiet, Swapping, Goto, TypeOK, disk, database, history
  <2>2. CASE \/ DenyJob(j) \/ RefuseBuild(j) \/ StartBuild(j) \/ StartRollback(j)
             \/ CheckRollback(j) \/ LockRollback(j) \/ RollbackRefused(j)
    BY <2>1, <2>2, <1>2
    DEF DenyJob, RefuseBuild, StartBuild, StartRollback, CheckRollback,
        LockRollback, RollbackRefused, Goal
  <2>3. CASE \/ PrepareStaging(j) \/ PromoteRelease(j)
             \/ RecordCandidateManifest(j) \/ WaitForProtectedRelease(j)
    BY <2>1, <2>3, <1>2
    DEF PrepareStaging, PromoteRelease, RecordCandidateManifest,
        WaitForProtectedRelease, Goal
  <2>4. CASE PruneOne(j) \/ PruneDone(j) \/ PruneFails(j) \/ Fail(j)
    BY <2>1, <2>4, <1>2 DEF PruneOne, PruneDone, PruneFails, Fail, Forget, Goal
  <2> QED
    BY <1>4, <2>2, <2>3, <2>4
<1>5. ASSUME NEW j \in Jobs, RenderTargets(j) PROVE Quiet(j)
  <2>1. PICK s \in {"promote", "failing", "failingPartly"} : Goto(j, s)
    BY <1>5 DEF RenderTargets
  <2>2. Worker(j)
    BY <1>5 DEF Worker, Build
  <2> QED
    BY <1>5, <1>2, <2>1, <2>2
    DEF RenderTargets, Quiet, Swapping, Goto, Goal, TypeOK, database, history
<1>6. ASSUME NEW j \in Jobs, CopyRelease(j) PROVE SwapOK' /\ ServedIsActive'
  <2>1. Worker(j)
    BY <1>6 DEF Worker, Activate
  <2>2. SwapOK'
    BY <1>6, <1>2, <1>3, <2>1, NoJobAssumption
    DEF CopyRelease, SwapOK, Goto, Exists, Missing, Exposed, Activating, Goal,
        TypeOK, database, history
  <2>3. ServedIsActive'
    BY <1>6, <2>1, <1>2
    DEF CopyRelease, ServedIsActive, Settled, Served, Exists, Exposed, Goto,
        TypeOK, database, history
  <2> QED
    BY <2>2, <2>3
<1>7. ASSUME NEW j \in Jobs, MoveCurrentAside(j)
      PROVE  SwapOK' /\ ServedIsActive'
  <2>1. Worker(j) /\ pc[j] = "swapOut" /\ pc'[j] = "swapIn"
    BY <1>7 DEF Worker, Activate, MoveCurrentAside, Goto, TypeOK
  <2>2. \A k \in Jobs \ {j} : pc'[k] = pc[k] /\ pc[k] \notin Activating
    BY <1>2, <1>3, <2>1 DEF Activating
  <2>3. ~torn => Version(current) = active
    BY <2>1, <2>2
    DEF ServedIsActive, Settled, Served, Version, Exposed, Activating
  <2>4. /\ next.version = Goal(j) /\ next' = next /\ Goal(j)' = Goal(j)
        /\ ~Exists(current)' /\ torn' = torn /\ active' = active
    BY <1>7, <1>2, <2>1
    DEF SwapOK, MoveCurrentAside, Exists, Missing, database, history
  <2>5. hadPrevious'[j] = Exists(previous)'
    BY <1>7, <2>1 DEF SwapOK, MoveCurrentAside, Exists, TypeOK
  <2>6. Version(previous)' = Version(current)
    BY <1>7, <2>1 DEF SwapOK, MoveCurrentAside, Version, Exists
  <2>7. SwapOK'
    BY <2>1, <2>2, <2>3, <2>4, <2>5, <2>6
    DEF SwapOK, Exposed, Activating
  <2>8. ServedIsActive'
    BY <2>1 DEF ServedIsActive, Settled, Exposed
  <2> QED
    BY <2>7, <2>8
<1>8. ASSUME NEW j \in Jobs, MoveCandidateIn(j)
      PROVE  SwapOK' /\ ServedIsActive'
  <2>1. Worker(j) /\ pc[j] = "swapIn" /\ pc'[j] = "commit"
    BY <1>8 DEF Worker, Activate, MoveCandidateIn, Goto, TypeOK
  <2>2. \A k \in Jobs \ {j} : pc'[k] = pc[k] /\ pc[k] \notin Activating
    BY <1>2, <1>3, <2>1 DEF Activating
  <2>3. SwapOK'
    BY <1>8, <1>2, <2>1, <2>2
    DEF SwapOK, MoveCandidateIn, Exposed, Activating, Exists, Version,
        database, history
  <2>4. ServedIsActive'
    BY <2>1 DEF ServedIsActive, Settled, Exposed
  <2> QED
    BY <2>3, <2>4
<1>9. ASSUME NEW j \in Jobs, CommitFails(j) \/ MoveFailedAside(j)
      PROVE  SwapOK' /\ ServedIsActive'
  <2>1. /\ Worker(j)
        /\ pc[j] \in {"commit", "restoreOut"}
        /\ pc'[j] \in {"restoreOut", "restoreIn"}
    BY <1>9 DEF Worker, Activate, CommitFails, MoveFailedAside, Goto, TypeOK
  <2>2. \A k \in Jobs \ {j} : pc'[k] = pc[k] /\ pc[k] \notin Activating
    BY <1>2, <1>3, <2>1 DEF Activating
  <2>3. /\ hadPrevious' = hadPrevious /\ previous' = previous
        /\ active' = active /\ torn' = torn
        /\ pc'[j] = "restoreIn" => ~Exists(current)'
    BY <1>9, <2>1
    DEF CommitFails, MoveFailedAside, Exists, Missing, Goto, TypeOK, disk,
        database, history
  <2>4. SwapOK'
    BY <2>1, <2>2, <2>3
    DEF SwapOK, Exposed, Activating, Exists, Version
  <2>5. ServedIsActive'
    BY <2>1 DEF ServedIsActive, Settled, Exposed
  <2> QED
    BY <2>4, <2>5
<1>10. ASSUME NEW j \in Jobs,
              MoveCandidateFails(j) \/ RestorePrevious(j) \/ CompensationFails(j)
              \/ Commit(j) \/ FinalizeActivation(j) \/ BuildError(j) \/ Crash(j)
       PROVE  SwapOK' /\ ServedIsActive'
  <2>1. Worker(j) \/ Crash(j)
    BY <1>10 DEF Worker, Activate, Build
  <2>2. pc'[j] \notin Swapping
    BY <1>10
    DEF MoveCandidateFails, RestorePrevious, CompensationFails, Commit,
        FinalizeActivation, BuildError, Crash, Unwind, Goto, Swapping, TypeOK
  <2>3. CASE pc[j] \in Activating \cup Cleaning
    <3>1. \A k \in Jobs \ {j} : pc'[k] = pc[k] /\ pc[k] \notin Swapping
      BY <1>2, <1>3, <2>1, <2>3 DEF Activating, Swapping
    <3>2. SwapOK'
      BY <2>2, <3>1 DEF SwapOK, Swapping, Exposed
    <3>3. SUFFICES ASSUME ~torn' PROVE Version(current)' = active'
      BY <3>2 DEF ServedIsActive, Settled, Served, Version
    <3>4. CASE MoveCandidateFails(j)
      BY <3>3, <3>4
      DEF MoveCandidateFails, SwapOK, Exposed, Version, Exists, database, history
    <3>5. CASE RestorePrevious(j)
      <4>1. /\ pc[j] = "restoreIn" /\ ~torn /\ active' = active
            /\ current' = IF Exists(previous) THEN previous ELSE current
        BY <3>3, <3>5 DEF RestorePrevious, SwapOK, Exposed, database, history
      <4> QED
        BY <4>1 DEF SwapOK, Exposed, Version, Exists
    <3>6. CASE CompensationFails(j)
      BY <3>3, <3>6 DEF CompensationFails
    <3>7. CASE Commit(j)
      <4>1. current.version = Goal(j) /\ Goal(j) \in Jobs
        BY <3>7 DEF Commit, SwapOK, GoalOK
      <4>2. current' = current /\ active' = {Goal(j)}
        BY <3>7 DEF Commit, disk
      <4> QED
        BY <4>1, <4>2, NoJobAssumption DEF Version, Exists
    <3>8. CASE FinalizeActivation(j) \/ BuildError(j) \/ Crash(j)
      <4>1. pc[j] \notin Exposed /\ ~torn
        <5>1. CASE FinalizeActivation(j) \/ BuildError(j)
          BY <3>3, <5>1
          DEF FinalizeActivation, BuildError, Exposed, Building, Cleaning,
              history
        <5>2. CASE Crash(j)
          BY <3>3, <5>2, Zenon DEF Crash
        <5> QED
          BY <3>8, <5>1, <5>2
      <4>2. current' = current /\ active' = active
        BY <3>8
        DEF FinalizeActivation, BuildError, Crash, disk, database
      <4>3. Settled
        BY <3>1, <4>1 DEF Settled, Swapping, Exposed
      <4> QED
        BY <4>2, <4>3 DEF ServedIsActive, Served, Version, Exists
    <3> QED
      BY <1>10, <3>4, <3>5, <3>6, <3>7, <3>8
  <2>4. CASE pc[j] \notin Activating \cup Cleaning
    <3>1. BuildError(j) \/ Crash(j)
      BY <1>10, <2>4
      DEF MoveCandidateFails, RestorePrevious, CompensationFails, Commit,
          FinalizeActivation, Activating, Cleaning, Exposed
    <3>2. Quiet(j)
      BY <1>2, <2>1, <2>2, <2>4, <3>1
      DEF BuildError, Crash, Forget, Quiet, Activating, Swapping, Exposed, Goal,
          TypeOK, disk, database, history
    <3> QED
      BY <3>2, QuietStep
  <2> QED
    BY <2>3, <2>4
<1>11. CASE UNCHANGED vars
  BY <1>11
  DEF vars, disk, database, history, SwapOK, ServedIsActive, Settled, Served,
      Exists, Version, Goal
<1> QED
  BY <1>1, <1>4, <1>5, <1>6, <1>7, <1>8, <1>9, <1>10, <1>11, QuietStep
  DEF Next, Worker, Build, Rollback, Activate

\* The invariant of what is served holds initially.
LEMMA SInvInit == Init => SInv
BY TypeInit
DEF Init, SInv, Exclusive, SwapOK, ServedIsActive, Settled, Served, Exists,
    Missing, Building, Activating, Cleaning, Exposed

\* It is inductive.
LEMMA SInvNext == SInv /\ [Next]_vars => SInv'
BY TypeNext, GoalNext, ExclusiveNext, SwapNext DEF SInv

\* Outside an activation that is in progress or was cut short, the public
\* directory is the release of the active manifest.
THEOREM ServedCorrect == Spec => []ServedIsActive
<1>1. SInv => ServedIsActive
  BY DEF SInv
<1> QED
  BY SInvInit, SInvNext, <1>1, PTL DEF Spec

-----------------------------------------------------------------------------
(* The active release survives pruning.                                    *)

\* A step of j that changes neither releases nor manifests and does not bring
\* it to a stage that relies on more.
Idle(j) ==
    /\ UNCHANGED <<release, manifests, active>>
    /\ \A k \in Jobs \ {j} : pc'[k] = pc[k]
    /\ \A k \in Jobs : pc[k] # "idle" =>
          job'[k].goal = job[k].goal /\ job'[k].scope = job[k].scope
    /\ pc'[j] \in RollbackStages => IsRollback(j) /\ pc[j] # "idle"
    /\ \/ pc'[j] \notin {"pdf"} \cup Activating \cup Cleaning
       \/ pc[j] \in Swapping /\ pc'[j] \in Swapping
       \/ pc[j] \in {"pdf"} /\ pc'[j] = "copy"

\* A step that touches no release and no manifest keeps what pruning relies on.
LEMMA IdleStep ==
    ASSUME NEW j \in Jobs, Idle(j), KeptOK, ActiveIsKept
    PROVE  KeptOK' /\ ActiveIsKept'
<1>1. ActiveIsKept'
  BY DEF Idle, ActiveIsKept
<1>2. ASSUME NEW k \in Jobs, pc'[k] = pc[k], pc[k] # "idle"
      PROVE  /\ pc'[k] \in Swapping => release'[Goal(k)'] # "absent"
             /\ pc'[k] \in {"pdf"} \cup Activating \cup Cleaning
                   /\ ~IsRollback(k)' =>
                   Len(manifests') > 0 /\ manifests'[Len(manifests')] = k
             /\ pc'[k] \in Cleaning => active' = {Goal(k)'}
             /\ pc'[k] = "prune" => ~IsRollback(k)'
             /\ pc'[k] \in RollbackStages => IsRollback(k)'
  BY <1>2 DEF Idle, KeptOK, Goal, IsRollback
<1>3. /\ pc'[j] \in Swapping => release'[Goal(j)'] # "absent"
      /\ pc'[j] \in {"pdf"} \cup Activating \cup Cleaning /\ ~IsRollback(j)' =>
            Len(manifests') > 0 /\ manifests'[Len(manifests')] = j
      /\ pc'[j] \in Cleaning => active' = {Goal(j)'}
      /\ pc'[j] = "prune" => ~IsRollback(j)'
      /\ pc'[j] \in RollbackStages => IsRollback(j)'
  BY DEF RollbackStages, Idle, KeptOK, Goal, IsRollback, Swapping, Activating, Cleaning
<1>4. \A k \in Jobs \ {j} :
         /\ pc'[k] \in Swapping => release'[Goal(k)'] # "absent"
         /\ pc'[k] \in {"pdf"} \cup Activating \cup Cleaning
               /\ ~IsRollback(k)' =>
               Len(manifests') > 0 /\ manifests'[Len(manifests')] = k
         /\ pc'[k] \in Cleaning => active' = {Goal(k)'}
         /\ pc'[k] = "prune" => ~IsRollback(k)'
         /\ pc'[k] \in RollbackStages => IsRollback(k)'
  BY <1>2 DEF RollbackStages, Idle, Swapping, Activating, Cleaning
<1> QED
  BY <1>1, <1>3, <1>4 DEF KeptOK

\* Every step, pruning included, keeps the release of the active manifest.
LEMMA KeptNext == KInv /\ [Next]_vars => KeptOK' /\ ActiveIsKept'
<1> SUFFICES ASSUME KInv, [Next]_vars PROVE KeptOK' /\ ActiveIsKept'
  OBVIOUS
<1> USE DEF KInv, SInv
<1>1. ASSUME NEW j \in Jobs, Requests(j) PROVE Idle(j)
  <2>1. PICK row \in Row : Request(j, row)
    BY <1>1, RequestRow
  <2>2. \A k \in Jobs \ {j} : job'[k] = job[k]
    BY <2>1, RequestKeepsOthers DEF TypeOK
  <2>3. pc[j] = "idle" /\ pc'[j] \in {"queued", "done"}
    BY <2>1 DEF Request, Goto, TypeOK
  <2>4. \A k \in Jobs \ {j} : pc'[k] = pc[k]
    BY <2>1 DEF Request, Goto, TypeOK
  <2> QED
    BY <2>1, <2>2, <2>3, <2>4
    DEF Request, Idle, RollbackStages, Activating, Cleaning, disk, database
<1>2. ASSUME NEW j \in Jobs, Worker(j) \/ Crash(j)
      PROVE  /\ \A k \in Jobs : Goal(k)' = Goal(k) /\ (IsRollback(k)' <=> IsRollback(k))
             /\ \A k \in Jobs : job'[k].goal = job[k].goal
                                 /\ job'[k].scope = job[k].scope
             /\ \A k \in Jobs \ {j} : pc'[k] = pc[k]
  BY <1>2, WorkerKeeps DEF Keeps, Goal, IsRollback
<1>3. ASSUME NEW j \in Jobs, pc[j] \in Building \cup Activating \cup Cleaning
      PROVE  \A k \in Jobs \ {j} :
                pc[k] \notin Building \cup Activating \cup Cleaning
  BY <1>3 DEF Exclusive
<1> USE DEF TypeOK, Goto
<1>4. ASSUME NEW j \in Jobs,
             \/ DenyJob(j) \/ RefuseBuild(j) \/ StartBuild(j) \/ StartRollback(j)
             \/ CheckRollback(j) \/ RollbackRefused(j)
             \/ PrepareStaging(j) \/ WaitForProtectedRelease(j) \/ PruneDone(j)
      PROVE  Idle(j)
  <2>1. Worker(j)
    BY <1>4 DEF Worker, Build, Rollback
  <2> USE DEF Idle, RollbackStages, Activating, Cleaning, disk, database
  <2>2. CASE DenyJob(j) \/ RefuseBuild(j) \/ StartBuild(j) \/ RollbackRefused(j)
    BY <2>1, <2>2, <1>2 DEF DenyJob, RefuseBuild, StartBuild, RollbackRefused
  <2>4. CASE StartRollback(j)
    BY <2>1, <2>4, <1>2 DEF StartRollback
  <2>5. CASE CheckRollback(j)
    BY <2>1, <2>5, <1>2 DEF CheckRollback, KeptOK
  <2>3. CASE PrepareStaging(j) \/ WaitForProtectedRelease(j) \/ PruneDone(j)
    BY <2>1, <2>3, <1>2
    DEF PrepareStaging, WaitForProtectedRelease, PruneDone
  <2> QED
    BY <1>4, <2>2, <2>3, <2>4, <2>5
<1>5. ASSUME NEW j \in Jobs, RenderTargets(j) PROVE Idle(j)
  <2>1. PICK s \in {"promote", "failing", "failingPartly"} : Goto(j, s)
    BY <1>5 DEF RenderTargets
  <2>2. Worker(j)
    BY <1>5 DEF Worker, Build
  <2> QED
    BY <1>5, <1>2, <2>1, <2>2
    DEF RenderTargets, Idle, RollbackStages, Activating, Cleaning, database
<1>6. ASSUME NEW j \in Jobs,
             \/ MoveCurrentAside(j) \/ MoveCandidateIn(j) \/ CommitFails(j)
             \/ MoveFailedAside(j)
      PROVE  Idle(j)
  <2>1. Worker(j)
    BY <1>6 DEF Worker, Activate
  <2> QED
    BY <1>6, <1>2, <2>1
    DEF MoveCurrentAside, MoveCandidateIn, CommitFails, MoveFailedAside, Idle,
        RollbackStages, Swapping, Activating, Cleaning, disk, database
<1>7. ASSUME NEW j \in Jobs,
             \/ MoveCandidateFails(j) \/ RestorePrevious(j)
             \/ CompensationFails(j) \/ BuildError(j) \/ Fail(j) \/ Crash(j)
      PROVE  Idle(j)
  <2>1. Worker(j) \/ Crash(j)
    BY <1>7 DEF Worker, Activate, Build
  <2>2. pc'[j] \in {"failing", "done", "crashed"}
    BY <1>7 DEF MoveCandidateFails, RestorePrevious, CompensationFails,
                BuildError, Fail, Crash, Unwind
  <2>3. UNCHANGED <<release, manifests, active>>
    BY <1>7 DEF MoveCandidateFails, RestorePrevious, CompensationFails,
                BuildError, Fail, Crash, disk, database
  <2> QED
    BY <1>2, <2>1, <2>2, <2>3 DEF Idle, RollbackStages, Activating, Cleaning
<1>8. ASSUME NEW j \in Jobs, LockRollback(j) PROVE KeptOK' /\ ActiveIsKept'
  <2>1. Worker(j)
    BY <1>8 DEF Worker, Rollback
  <2>2. IsRollback(j)
    BY <1>8 DEF LockRollback, KeptOK, RollbackStages
  <2> QED
    BY <1>8, <1>2, <2>1, <2>2
    DEF LockRollback, KeptOK, ActiveIsKept, RollbackStages, Swapping, Cleaning, disk, database
<1>9. ASSUME NEW j \in Jobs, PromoteRelease(j) PROVE KeptOK' /\ ActiveIsKept'
  <2>1. Worker(j) /\ pc[j] = "promote" /\ pc'[j] = "record"
    BY <1>9 DEF Worker, Build, PromoteRelease
  <2>2. \A k \in Jobs : release'[k] = release[k] \/ release'[k] = "whole"
    BY <1>9 DEF PromoteRelease
  <2>3. manifests' = manifests /\ active' = active
    BY <1>9 DEF PromoteRelease, database
  <2>4. ActiveIsKept'
    BY <2>2, <2>3 DEF ActiveIsKept
  <2>5. KeptOK'
    BY <1>2, <2>1, <2>2, <2>3
    DEF KeptOK, GoalOK, RollbackStages, Swapping, Activating, Cleaning
  <2> QED
    BY <2>4, <2>5
<1>10. ASSUME NEW j \in Jobs, RecordCandidateManifest(j)
       PROVE  KeptOK' /\ ActiveIsKept'
  <2>1. /\ Worker(j) /\ pc[j] = "record" /\ pc'[j] \in {"pdf", "copy"}
        /\ release' = release /\ active' = active
    BY <1>10 DEF Worker, Build, RecordCandidateManifest, disk
  <2>2. Len(manifests') > 0 /\ manifests'[Len(manifests')] = j
    BY <1>10 DEF RecordCandidateManifest
  <2>3. \A k \in Jobs \ {j} : /\ pc'[k] = pc[k]
                              /\ pc[k] \notin Building \cup Activating \cup Cleaning
    BY <1>2, <1>3, <2>1 DEF Building
  <2>4. KeptOK'
    BY <1>2, <2>1, <2>2, <2>3
    DEF KeptOK, RollbackStages, Swapping, Building, Activating, Cleaning
  <2> QED
    BY <2>1, <2>4 DEF ActiveIsKept
<1>11. ASSUME NEW j \in Jobs, CopyRelease(j) PROVE KeptOK' /\ ActiveIsKept'
  <2>1. /\ Worker(j) /\ pc[j] = "copy" /\ pc'[j] = "swapOut"
        /\ release[Goal(j)] # "absent"
        /\ release' = release /\ active' = active /\ manifests' = manifests
    BY <1>11 DEF Worker, Activate, CopyRelease, database
  <2>2. KeptOK'
    BY <1>2, <2>1 DEF KeptOK, RollbackStages, Swapping, Activating, Cleaning
  <2> QED
    BY <2>1, <2>2 DEF ActiveIsKept
<1>12. ASSUME NEW j \in Jobs, Commit(j) PROVE KeptOK' /\ ActiveIsKept'
  <2>1. /\ Worker(j) /\ pc[j] = "commit" /\ pc'[j] = "finalize"
        /\ release[Goal(j)] # "absent"
        /\ release' = release /\ active' = {Goal(j)} /\ manifests' = manifests
    BY <1>12 DEF Worker, Activate, Commit, KeptOK, Swapping, disk
  <2>2. \A k \in Jobs \ {j} : /\ pc'[k] = pc[k]
                              /\ pc[k] \notin Building \cup Activating \cup Cleaning
    BY <1>2, <1>3, <2>1 DEF Activating
  <2>3. KeptOK'
    BY <1>2, <2>1, <2>2
    DEF KeptOK, RollbackStages, Swapping, Building, Activating, Cleaning
  <2> QED
    BY <2>1, <2>3 DEF ActiveIsKept
<1>13. ASSUME NEW j \in Jobs, FinalizeActivation(j)
       PROVE  KeptOK' /\ ActiveIsKept'
  <2>1. /\ Worker(j) /\ pc[j] = "finalize"
        /\ pc'[j] = IF IsRollback(j) THEN "done" ELSE "prune"
        /\ release' = release /\ active' = active /\ manifests' = manifests
    BY <1>13 DEF Worker, Activate, FinalizeActivation, database
  <2>2. KeptOK'
    BY <1>2, <2>1 DEF KeptOK, RollbackStages, Swapping, Activating, Cleaning
  <2> QED
    BY <2>1, <2>2 DEF ActiveIsKept
<1>14. ASSUME NEW j \in Jobs, PruneOne(j) \/ PruneFails(j)
       PROVE  KeptOK' /\ ActiveIsKept'
  <2>1. /\ Worker(j) /\ pc[j] = "prune" /\ pc'[j] \in {"prune", "failing"}
        /\ active' = active /\ manifests' = manifests
    BY <1>14 DEF Worker, Build, PruneOne, PruneFails, database
  <2>2. PICK v \in Present \ Newest :
            release' = [release EXCEPT ![v] = release'[v]]
    BY <1>14 DEF PruneOne, PruneFails, Present
  <2>3. active = {j} /\ Len(manifests) > 0 /\ manifests[Len(manifests)] = j
    BY <2>1 DEF KeptOK, GoalOK, Cleaning
  <2>4. j \in Newest
    BY <2>3, KeepAssumption DEF Newest
  <2>5. ActiveIsKept'
    <3>1. release'[j] = release[j]
      BY <2>2, <2>4
    <3> QED
      BY <2>1, <2>3, <3>1 DEF ActiveIsKept
  <2>6. \A k \in Jobs \ {j} : /\ pc'[k] = pc[k]
                              /\ pc[k] \notin Building \cup Activating \cup Cleaning
    BY <1>2, <1>3, <2>1 DEF Cleaning
  <2>7. \A k \in Jobs \ {j} :
           pc[k] \notin {"pdf", "prune"} \cup Swapping \cup Activating \cup Cleaning
    BY <2>6 DEF Swapping, Building, Activating, Cleaning
  <2>8. \A k \in Jobs : pc'[k] \in RollbackStages => IsRollback(k)'
    BY <1>2, <2>1, <2>6 DEF KeptOK, RollbackStages
  <2>9. ~IsRollback(j) /\ Goal(j) = j
    BY <2>1 DEF KeptOK, GoalOK
  <2>10. KeptOK'
    BY <1>2, <2>1, <2>3, <2>6, <2>7, <2>8, <2>9
    DEF KeptOK, Swapping, Activating, Cleaning
  <2> QED
    BY <2>5, <2>10
<1>15. CASE UNCHANGED vars
  BY <1>15
  DEF vars, disk, database, KeptOK, ActiveIsKept, Goal, IsRollback
<1> QED
  BY <1>1, <1>4, <1>5, <1>6, <1>7, <1>8, <1>9, <1>10, <1>11, <1>12, <1>13,
     <1>14, <1>15, IdleStep
  DEF Next, Worker, Build, Rollback, Activate

\* The invariant of what is kept holds initially.
LEMMA KInvInit == Init => KInv
BY SInvInit
DEF Init, KInv, KeptOK, ActiveIsKept, Swapping, Activating, Cleaning,
    RollbackStages

\* It is inductive.
LEMMA KInvNext == KInv /\ [Next]_vars => KInv'
BY SInvNext, KeptNext DEF KInv

\* Pruning never removes the release of the active manifest.
THEOREM ActiveKeptCorrect == Spec => []ActiveIsKept
<1>1. KInv => ActiveIsKept
  BY DEF KInv
<1> QED
  BY KInvInit, KInvNext, <1>1, PTL DEF Spec

-----------------------------------------------------------------------------
(* What a build activates is complete, and carries the served pages over.  *)

Promoted == {"record", "pdf", "copy"}

Rendered == {"render", "promote"} \cup Promoted \cup {"swapOut"}

Based == Rendered \cup {"swapIn", "commit"}

\* A build activates a whole copy of the release it promoted.
WholeOK(j) ==
    ~IsRollback(j) =>
       /\ pc[j] \in Promoted => release[j] = "whole"
       /\ pc[j] \in {"swapOut", "swapIn"} => next.whole
       /\ pc[j] = "commit" => current.whole

\* Every page of j was rendered by j or is the one of the directory's release.
CarriedFrom(j, directory) ==
    /\ Exists(directory)
    /\ \A p \in Pages : content[j][p] \in {j, content[directory.version][p]}

\* The base of a build that is not full stays what it was copied from: first it
\* is served, then it is aside.
CarryOK(j) ==
    ~torn /\ ~IsRollback(j) /\ job[j].scope # "full" =>
       /\ pc[j] \in Rendered /\ current.whole => CarriedFrom(j, current)
       /\ pc[j] = "swapOut" => ~previous.whole
       /\ pc[j] \in {"swapIn", "commit"} /\ previous.whole =>
             CarriedFrom(j, previous)

BInv == KInv /\ \A j \in Jobs : WholeOK(j) /\ CarryOK(j)

\* While k holds the lock, a step of another job leaves the directories and the
\* releases alone, and empties at most staging of its own.
LEMMA OthersStandBack ==
    ASSUME KInv, NEW j \in Jobs, NEW k \in Jobs \ {j}, pc[k] \in Based,
           Requests(j) \/ Worker(j) \/ Crash(j)
    PROVE  /\ UNCHANGED <<current, next, previous, release, torn, active>>
           /\ pc'[k] = pc[k] /\ job'[k].scope = job[k].scope
           /\ \A v \in Jobs : content'[v] = content[v] \/ release[v] = "absent"
           /\ content'[k] = content[k]
<1> USE DEF KInv, SInv, TypeOK
<1>1. lock = k /\ pc[j] \notin Building \cup Activating \cup Cleaning
  BY DEF Exclusive, Based, Rendered, Promoted, Building, Activating
<1>2. CASE Requests(j)
  <2>1. PICK row \in Row : Request(j, row)
    BY <1>2, RequestRow
  <2>2. job'[k] = job[k]
    BY <2>1, RequestKeepsOthers
  <2> QED
    BY <2>1, <2>2 DEF Request, Goto, disk, database, history
<1>3. CASE Worker(j) \/ Crash(j)
  <2>1. pc'[k] = pc[k] /\ job'[k].scope = job[k].scope
    BY <1>3, WorkerKeeps DEF Keeps
  <2>2. \/ DenyJob(j) \/ RefuseBuild(j) \/ StartRollback(j) \/ CheckRollback(j)
        \/ RollbackRefused(j) \/ Fail(j) \/ Crash(j)
    <3>1. ~Activate(j)
      BY <1>1
      DEF Activate, CopyRelease, MoveCurrentAside, MoveCandidateIn,
          MoveCandidateFails, Commit, CommitFails, MoveFailedAside,
          RestorePrevious, CompensationFails, FinalizeActivation, Activating,
          Cleaning, Exposed
    <3>2. Build(j) => RefuseBuild(j)
      BY <1>1, NoJobAssumption
      DEF Build, StartBuild, PrepareStaging, RenderTargets, PromoteRelease,
          RecordCandidateManifest, WaitForProtectedRelease, PruneOne,
          PruneDone, PruneFails, BuildError, Building, Activating, Cleaning
    <3>3. Rollback(j) => \/ StartRollback(j) \/ CheckRollback(j)
                         \/ RollbackRefused(j)
      BY <1>1, NoJobAssumption DEF Rollback, LockRollback
    <3> QED
      BY <1>3, <3>1, <3>2, <3>3 DEF Worker
  <2>3. CASE \/ DenyJob(j) \/ RefuseBuild(j) \/ StartRollback(j)
             \/ CheckRollback(j) \/ RollbackRefused(j)
    BY <2>1, <2>3
    DEF DenyJob, RefuseBuild, StartRollback, CheckRollback, RollbackRefused,
        disk, database, history
  <2>4. CASE Fail(j)
    BY <2>1, <2>4 DEF Fail, database, history
  <2>5. CASE Crash(j)
    <3>1. torn' = torn
      <4>1. pc[j] \notin Exposed
        BY <1>1 DEF Exposed, Activating
      <4>2. torn' = (torn \/ pc[j] \in Exposed)
        BY <2>5 DEF Crash
      <4> QED
        BY <4>1, <4>2
    <3> QED
      BY <2>1, <2>5, <3>1 DEF Crash, disk, database
  <2> QED
    BY <2>2, <2>3, <2>4, <2>5
<1> QED
  BY <1>2, <1>3

\* The release a build is based on is the active one, so it is on disk.
LEMMA BaseIsActive ==
    ASSUME KInv, NEW k \in Jobs, ~torn
    PROVE  /\ pc[k] \in Rendered /\ Exists(current) =>
                 release[current.version] # "absent"
           /\ pc[k] \in {"swapIn", "commit"} /\ Exists(previous) =>
                 release[previous.version] # "absent"
<1> USE DEF KInv, SInv
<1>1. CASE pc[k] \in Rendered
  <2>1. pc[k] \in Building \cup Activating \cup Cleaning /\ pc[k] \notin Exposed
    BY <1>1 DEF Rendered, Promoted, Building, Activating, Exposed
  <2>2. \A i \in Jobs : pc[i] \notin Exposed
    BY <2>1 DEF Exclusive, Exposed, Activating
  <2>3. Served = active
    BY <2>2 DEF ServedIsActive, Settled
  <2> QED
    BY <1>1, <2>3 DEF Served, ActiveIsKept, Rendered, Promoted
<1>2. CASE pc[k] \in {"swapIn", "commit"}
  <2>1. Version(previous) = active
    BY <1>2 DEF SwapOK, Exposed
  <2> QED
    BY <1>2, <2>1 DEF Version, ActiveIsKept, Rendered, Promoted
<1> QED
  BY <1>1, <1>2

\* So no other job disturbs a build.
LEMMA OthersKeepBuild ==
    ASSUME BInv, NEW j \in Jobs, NEW k \in Jobs \ {j},
           Requests(j) \/ Worker(j) \/ Crash(j), pc'[k] = pc[k],
           IsRollback(k)' = IsRollback(k)
    PROVE  WholeOK(k)' /\ CarryOK(k)'
<1>1. CASE pc[k] \notin Based
  BY <1>1 DEF WholeOK, CarryOK, Based, Rendered
<1>2. CASE pc[k] \in Based
  <2>1. /\ UNCHANGED <<current, next, previous, release, torn, active>>
        /\ job'[k].scope = job[k].scope
        /\ \A v \in Jobs : content'[v] = content[v] \/ release[v] = "absent"
        /\ content'[k] = content[k]
    BY <1>2, OthersStandBack DEF BInv
  <2>2. WholeOK(k) /\ CarryOK(k) /\ KInv
    BY DEF BInv
  <2>3. WholeOK(k)'
    BY <2>1, <2>2 DEF WholeOK
  <2>4. CarryOK(k)'
    <3>1. ASSUME NEW v \in Jobs, release[v] # "absent",
                 \A p \in Pages : content[k][p] \in {k, content[v][p]}
          PROVE  \A p \in Pages : content'[k][p] \in {k, content'[v][p]}
      BY <2>1, <3>1
    <3>2. /\ Exists(current) => current.version \in Jobs
          /\ Exists(previous) => previous.version \in Jobs
      BY DEF BInv, KInv, SInv, TypeOK, Directory, Missing, Exists
    <3>3. ASSUME ~torn, pc[k] \in Rendered, CarriedFrom(k, current)
          PROVE  CarriedFrom(k, current)'
      BY <2>1, <2>2, <3>1, <3>2, <3>3, BaseIsActive DEF CarriedFrom, Exists
    <3>4. ASSUME ~torn, pc[k] \in {"swapIn", "commit"}, CarriedFrom(k, previous)
          PROVE  CarriedFrom(k, previous)'
      BY <2>1, <2>2, <3>1, <3>2, <3>4, BaseIsActive DEF CarriedFrom, Exists
    <3> QED
      BY <2>1, <2>2, <3>3, <3>4 DEF CarryOK, IsRollback
  <2> QED
    BY <2>3, <2>4
<1> QED
  BY <1>1, <1>2

\* A step that brings j to no stage of a build past staging.
Ends(j) == IsRollback(j)' \/ pc'[j] \notin Based

\* It leaves nothing to rely on.
LEMMA EndsOK == ASSUME NEW j \in Jobs, Ends(j) PROVE WholeOK(j)' /\ CarryOK(j)'
BY DEF Ends, WholeOK, CarryOK, Based, Rendered

\* Every step of a build keeps what it is based on.
LEMMA BuildKeeps ==
    ASSUME BInv, NEW j \in Jobs, Requests(j) \/ Worker(j) \/ Crash(j)
    PROVE  WholeOK(j)' /\ CarryOK(j)'
<1> USE DEF BInv, KInv, SInv, TypeOK, Goto
<1>1. CASE Requests(j)
  <2>1. PICK row \in Row : Request(j, row)
    BY <1>1, RequestRow
  <2>2. pc'[j] \in {"queued", "done"}
    BY <2>1 DEF Request
  <2> QED
    BY <2>2, EndsOK DEF Ends, Based, Rendered, Promoted
<1>2. ASSUME Worker(j) \/ Crash(j)
      PROVE  (IsRollback(j)' <=> IsRollback(j)) /\ job'[j].scope = job[j].scope
             /\ Goal(j)' = Goal(j)
  BY <1>2, WorkerKeeps DEF Keeps, IsRollback, Goal
<1>3. ASSUME \/ DenyJob(j) \/ RefuseBuild(j) \/ StartBuild(j) \/ StartRollback(j)
             \/ CheckRollback(j) \/ RollbackRefused(j) \/ LockRollback(j)
             \/ PruneOne(j) \/ PruneDone(j) \/ PruneFails(j)
      PROVE  Ends(j)
  <2>1. Worker(j)
    BY <1>3 DEF Worker, Build, Rollback
  <2>2. CASE LockRollback(j)
    BY <1>2, <2>1, <2>2 DEF LockRollback, KeptOK, RollbackStages, Ends
  <2>3. CASE ~LockRollback(j)
    <3>1. pc'[j] \in {"done", "staging", "check", "acquire", "failing", "prune"}
      BY <1>3, <2>3
      DEF DenyJob, RefuseBuild, StartBuild, StartRollback, CheckRollback,
          RollbackRefused, PruneOne, PruneDone, PruneFails
    <3> QED
      BY <3>1 DEF Ends, Based, Rendered, Promoted
  <2> QED
    BY <2>2, <2>3
<1>4. ASSUME \/ MoveCandidateFails(j) \/ Commit(j) \/ CommitFails(j)
             \/ MoveFailedAside(j) \/ RestorePrevious(j) \/ CompensationFails(j)
             \/ FinalizeActivation(j) \/ BuildError(j) \/ Fail(j) \/ Crash(j)
      PROVE  Ends(j)
  <2>1. pc'[j] \in {"failing", "finalize", "restoreOut", "restoreIn", "done",
                    "prune", "crashed"}
    BY <1>4
    DEF MoveCandidateFails, Commit, CommitFails, MoveFailedAside,
        RestorePrevious, CompensationFails, FinalizeActivation, BuildError,
        Fail, Crash, Unwind
  <2> QED
    BY <2>1 DEF Ends, Based, Rendered, Promoted
<1>5. ASSUME PrepareStaging(j) PROVE WholeOK(j)' /\ CarryOK(j)'
  <2>1. Worker(j) /\ pc'[j] = "render"
    BY <1>5 DEF Worker, Build, PrepareStaging
  <2>2. WholeOK(j)'
    BY <2>1 DEF WholeOK, Promoted
  <2>3. CarryOK(j)'
    <3>1. SUFFICES ASSUME job[j].scope # "full", current.whole
                   PROVE  CarriedFrom(j, current)'
      BY <1>2, <1>5, <2>1 DEF CarryOK, PrepareStaging
    <3>2. /\ Exists(current) /\ current' = current
          /\ content' = [content EXCEPT ![j] =
                [p \in Pages |-> content[current.version][p]]]
      BY <1>5, <3>1 DEF PrepareStaging
    <3>3. current.version \in Jobs
      BY <3>2 DEF Exists, Directory, Missing
    <3> QED
      BY <3>2, <3>3 DEF CarriedFrom, Exists
  <2> QED
    BY <2>2, <2>3
<1>6. ASSUME RenderTargets(j) PROVE WholeOK(j)' /\ CarryOK(j)'
  <2>1. Worker(j) /\ pc[j] = "render"
    BY <1>6 DEF Worker, Build, RenderTargets
  <2>2. pc'[j] \in {"promote", "failing", "failingPartly"}
    BY <1>6 DEF RenderTargets
  <2>3. PICK S : content' = [content EXCEPT ![j] =
                    [p \in Pages |-> IF p \in S THEN j ELSE content[j][p]]]
    BY <1>6 DEF RenderTargets
  <2>4. WholeOK(j)'
    BY <2>2 DEF WholeOK, Promoted
  <2>5. CarryOK(j)'
    <3>1. ASSUME CarriedFrom(j, current) PROVE CarriedFrom(j, current)'
      <4>1. current.version \in Jobs /\ current' = current
        BY <1>6, <3>1
        DEF RenderTargets, CarriedFrom, Exists, Directory, Missing
      <4> QED
        BY <2>3, <3>1, <4>1 DEF CarriedFrom, Exists, Site
    <3>2. torn' = torn /\ current' = current
      BY <1>6 DEF RenderTargets, history
    <3> QED
      BY <1>2, <2>1, <2>2, <3>1, <3>2 DEF CarryOK, Rendered
  <2> QED
    BY <2>4, <2>5
<1>7. ASSUME PromoteRelease(j) \/ RecordCandidateManifest(j)
             \/ WaitForProtectedRelease(j) \/ CopyRelease(j)
      PROVE  WholeOK(j)' /\ CarryOK(j)'
  <2>1. /\ Worker(j)
        /\ pc[j] \in Rendered /\ pc'[j] \in Rendered
        /\ content' = content /\ current' = current /\ torn' = torn
    BY <1>7
    DEF Worker, Build, Activate, PromoteRelease, RecordCandidateManifest,
        WaitForProtectedRelease, CopyRelease, Rendered, Promoted, disk, history
  <2>2. CarryOK(j)'
    <3>1. pc'[j] = "swapOut" => ~previous'.whole
      BY <1>7
      DEF PromoteRelease, RecordCandidateManifest, WaitForProtectedRelease,
          CopyRelease, Missing
    <3> QED
      BY <1>2, <2>1, <3>1 DEF CarryOK, CarriedFrom, Exists, Rendered, Promoted
  <2>3. WholeOK(j)'
    <3>1. CASE PromoteRelease(j)
      BY <3>1 DEF PromoteRelease, WholeOK, Promoted
    <3>2. CASE RecordCandidateManifest(j) \/ WaitForProtectedRelease(j)
      BY <1>2, <2>1, <3>2
      DEF RecordCandidateManifest, WaitForProtectedRelease, WholeOK, Promoted,
          disk
    <3>3. CASE CopyRelease(j)
      <4>1. ~IsRollback(j) => Goal(j) = j
        BY <3>3 DEF CopyRelease, GoalOK
      <4> QED
        BY <1>2, <2>1, <3>3, <4>1 DEF CopyRelease, WholeOK, Promoted
    <3> QED
      BY <1>7, <3>1, <3>2, <3>3
  <2> QED
    BY <2>2, <2>3
<1>8. ASSUME MoveCurrentAside(j) PROVE WholeOK(j)' /\ CarryOK(j)'
  <2>1. /\ Worker(j) /\ pc[j] = "swapOut" /\ pc'[j] = "swapIn"
        /\ content' = content /\ torn' = torn /\ next' = next
        /\ previous' = IF Exists(current) THEN current ELSE previous
    BY <1>8 DEF Worker, Activate, MoveCurrentAside, history
  <2>2. WholeOK(j)'
    BY <1>2, <2>1 DEF WholeOK, Promoted
  <2>3. CarryOK(j)'
    BY <1>2, <2>1 DEF CarryOK, CarriedFrom, Exists, Rendered, Promoted
  <2> QED
    BY <2>2, <2>3
<1>9. ASSUME MoveCandidateIn(j) PROVE WholeOK(j)' /\ CarryOK(j)'
  <2>1. /\ Worker(j) /\ pc[j] = "swapIn" /\ pc'[j] = "commit"
        /\ content' = content /\ torn' = torn /\ current' = next
        /\ previous' = previous
    BY <1>9 DEF Worker, Activate, MoveCandidateIn, history
  <2>2. WholeOK(j)'
    BY <1>2, <2>1 DEF WholeOK, Promoted
  <2>3. CarryOK(j)'
    BY <1>2, <2>1 DEF CarryOK, CarriedFrom, Exists, Rendered, Promoted
  <2> QED
    BY <2>2, <2>3
<1> QED
  BY <1>1, <1>3, <1>4, <1>5, <1>6, <1>7, <1>8, <1>9, EndsOK
  DEF Worker, Build, Rollback, Activate

\* What builds rely on holds initially.
LEMMA BInvInit == Init => BInv
BY KInvInit
DEF Init, BInv, WholeOK, CarryOK, Promoted, Rendered

\* It is inductive.
LEMMA BInvNext == BInv /\ [Next]_vars => BInv'
<1> SUFFICES ASSUME BInv, [Next]_vars PROVE \A k \in Jobs : WholeOK(k)' /\ CarryOK(k)'
  BY KInvNext DEF BInv
<1>1. ASSUME NEW j \in Jobs, Requests(j) \/ Worker(j) \/ Crash(j),
             NEW k \in Jobs
      PROVE  WholeOK(k)' /\ CarryOK(k)'
  <2>1. CASE k = j
    BY <1>1, <2>1, BuildKeeps
  <2>2. CASE k # j
    <3>1. CASE Requests(j)
      <4>1. PICK row \in Row : Request(j, row)
        BY <3>1, RequestRow DEF BInv, KInv, SInv
      <4>2. job'[k] = job[k]
        BY <2>2, <4>1, RequestKeepsOthers DEF BInv, KInv, SInv, TypeOK
      <4>3. pc'[k] = pc[k]
        BY <2>2, <4>1 DEF Request, Goto, BInv, KInv, SInv, TypeOK
      <4> QED
        BY <2>2, <3>1, <4>2, <4>3, OthersKeepBuild DEF IsRollback
    <3>2. CASE Worker(j) \/ Crash(j)
      <4>1. pc'[k] = pc[k] /\ IsRollback(k)' = IsRollback(k)
        BY <2>2, <3>2, WorkerKeeps DEF BInv, KInv, SInv, Keeps, IsRollback
      <4> QED
        BY <2>2, <3>2, <4>1, OthersKeepBuild
    <3> QED
      BY <1>1, <3>1, <3>2
  <2> QED
    BY <2>1, <2>2
<1>2. CASE UNCHANGED vars
  BY <1>2
  DEF vars, disk, database, history, BInv, WholeOK, CarryOK, CarriedFrom,
      Exists, IsRollback
<1> QED
  BY <1>1, <1>2 DEF Next

-----------------------------------------------------------------------------
(* What the commit of a build activates.                                   *)

\* A job becomes succeeded, and a version active, by the commit only.
LEMMA OnlyTheCommit ==
    ASSUME TypeOK, NEW j \in Jobs, Requests(j) \/ Worker(j) \/ Crash(j)
    PROVE  /\ active' # active => Commit(j)
           /\ \A k \in Jobs : Succeeds(k) =>
                 k = j /\ Commit(j) /\ ~IsRollback(j)
<1> USE DEF TypeOK, Succeeds, Becomes
<1>1. CASE Requests(j)
  <2>1. PICK row \in Row : Request(j, row)
    BY <1>1, RequestRow
  <2>2. job'[j].status \in {"pending", "failed"}
    BY <2>1 DEF Request, Row
  <2> QED
    BY <2>1, <2>2, RequestKeepsOthers DEF Request, database
<1>2. CASE Commit(j)
  BY <1>2 DEF Commit, SetStatus, Row
<1>3. CASE (Worker(j) \/ Crash(j)) /\ ~Commit(j)
  <2>1. ASSUME NEW s \in Statuses \ {"succeeded"}, SetStatus(j, s)
        PROVE  \A k \in Jobs : ~Succeeds(k)
    BY <2>1 DEF SetStatus, Row
  <2>2. ASSUME UNCHANGED job PROVE \A k \in Jobs : ~Succeeds(k)
    BY <2>2
  <2>3. ASSUME MarkRunning(j) PROVE \A k \in Jobs : ~Succeeds(k)
    BY <2>3 DEF MarkRunning, Row
  <2>4. CASE DenyJob(j) \/ RefuseBuild(j) \/ StartBuild(j) \/ StartRollback(j)
             \/ Fail(j)
    BY <2>1, <2>2, <2>3, <2>4
    DEF DenyJob, RefuseBuild, StartBuild, StartRollback, Fail, Statuses,
        database
  <2>5. CASE \/ PrepareStaging(j) \/ RenderTargets(j) \/ PromoteRelease(j)
             \/ RecordCandidateManifest(j) \/ WaitForProtectedRelease(j)
             \/ PruneOne(j) \/ PruneDone(j) \/ PruneFails(j) \/ BuildError(j)
    BY <2>2, <2>5
    DEF PrepareStaging, RenderTargets, PromoteRelease, RecordCandidateManifest,
        WaitForProtectedRelease, PruneOne, PruneDone, PruneFails, BuildError,
        database
  <2>6. CASE \/ CheckRollback(j) \/ LockRollback(j) \/ RollbackRefused(j)
             \/ CopyRelease(j) \/ MoveCurrentAside(j) \/ MoveCandidateIn(j)
             \/ MoveCandidateFails(j) \/ CommitFails(j) \/ MoveFailedAside(j)
    BY <2>2, <2>6
    DEF CheckRollback, LockRollback, RollbackRefused, CopyRelease,
        MoveCurrentAside, MoveCandidateIn, MoveCandidateFails, CommitFails,
        MoveFailedAside, database
  <2>7. CASE \/ RestorePrevious(j) \/ CompensationFails(j)
             \/ FinalizeActivation(j) \/ Crash(j)
    BY <2>2, <2>7
    DEF RestorePrevious, CompensationFails, FinalizeActivation, Crash, database
  <2> QED
    BY <1>3, <2>4, <2>5, <2>6, <2>7 DEF Worker, Build, Rollback, Activate
<1> QED
  BY <1>1, <1>2, <1>3

\* The database never names a release active that is not served, and a build
\* activates a complete one.
THEOREM ActivationCorrect == Spec => ActivatesWhatIsServed
<1> DEFINE A == /\ active' # active => active' = Served
                /\ \A j \in Jobs : Succeeds(j) => current.whole
<1>1. BInv /\ [Next]_vars => [A]_vars
  <2> SUFFICES ASSUME BInv, NEW j \in Jobs, Requests(j) \/ Worker(j) \/ Crash(j)
               PROVE  A
    BY DEF Next
  <2>1. KInv /\ SInv /\ TypeOK
    BY DEF BInv, KInv, SInv
  <2>2. ASSUME Commit(j)
        PROVE  active' = Served /\ (~IsRollback(j) => current.whole)
    <3>1. current.version = Goal(j) /\ Goal(j) \in Jobs /\ active' = {Goal(j)}
      BY <2>1, <2>2 DEF Commit, SInv, SwapOK, GoalOK
    <3>2. WholeOK(j)
      BY DEF BInv
    <3> QED
      BY <2>2, <3>1, <3>2, NoJobAssumption DEF Commit, WholeOK, Served, Exists
  <2> QED
    BY <2>1, <2>2, OnlyTheCommit
<1> QED
  BY <1>1, BInvInit, BInvNext, PTL DEF Spec, ActivatesWhatIsServed

\* A build that is not full loses no page of the release it replaces.
THEOREM CarriesForwardCorrect == Spec => CarriesForward
<1> DEFINE Carries(j) ==
       Succeeds(j) /\ job[j].scope # "full" /\ ~torn /\ previous.whole =>
          \A p \in Pages :
              \/ content[j][p] = j
              \/ \E v \in active : content[j][p] = content[v][p]
<1>1. BInv /\ [Next]_vars => [\A j \in Jobs : Carries(j)]_vars
  <2> SUFFICES ASSUME BInv, NEW i \in Jobs, Requests(i) \/ Worker(i) \/ Crash(i),
                      NEW j \in Jobs, Succeeds(j), job[j].scope # "full",
                      ~torn, previous.whole
               PROVE  \A p \in Pages :
                         \/ content[j][p] = j
                         \/ \E v \in active : content[j][p] = content[v][p]
    BY DEF Next
  <2>1. KInv /\ SInv /\ TypeOK /\ CarryOK(j)
    BY DEF BInv, KInv, SInv
  <2>2. Commit(j) /\ ~IsRollback(j)
    BY <2>1, OnlyTheCommit
  <2>3. CarriedFrom(j, previous) /\ Version(previous) = active
    BY <2>1, <2>2 DEF Commit, CarryOK, SInv, SwapOK, Exposed
  <2> QED
    BY <2>3 DEF CarriedFrom, Version
<1> QED
  BY <1>1, BInvInit, BInvNext, PTL DEF Spec, CarriesForward

-----------------------------------------------------------------------------
(* The publisher implements PublishedSite.                                 *)

\* What _activate is about to put up is partial only if the stored release is.
CopyOK ==
    \A j \in Jobs : pc[j] \in {"swapOut", "swapIn"} =>
       next.whole \/ release[next.version] = "damaged"

RInv == KInv /\ CopyOK

\* It stays so: the releases are only touched under the publish lock.
LEMMA CopyNext == RInv /\ [Next]_vars => CopyOK'
<1> SUFFICES ASSUME RInv, [Next]_vars, NEW k \in Jobs,
                    pc'[k] \in {"swapOut", "swapIn"}
             PROVE  next'.whole \/ release'[next'.version] = "damaged"
  BY DEF CopyOK
<1> USE DEF RInv, KInv, SInv, CopyOK
<1>1. CASE UNCHANGED vars
  BY <1>1 DEF vars, disk
<1>2. ASSUME NEW j \in Jobs, Requests(j) \/ Worker(j) \/ Crash(j), j # k
      PROVE  UNCHANGED <<next, release>> /\ pc'[k] = pc[k]
  <2>1. pc'[k] = pc[k]
    <3>1. CASE Requests(j)
      BY <1>2, <3>1, RequestRow DEF Request, Goto, TypeOK
    <3>2. CASE Worker(j) \/ Crash(j)
      BY <1>2, <3>2, WorkerKeeps
    <3> QED
      BY <1>2, <3>1, <3>2
  <2>2. k \in Jobs \ {j} /\ pc[k] \in Based
    BY <1>2, <2>1 DEF Based, Rendered
  <2>3. RInv => KInv
    BY DEF RInv
  <2> QED
    BY <1>2, <2>1, <2>2, <2>3, OthersStandBack
<1>3. ASSUME Requests(k) \/ Worker(k) \/ Crash(k)
      PROVE  CopyRelease(k) \/ MoveCurrentAside(k)
  <2> USE DEF TypeOK, Goto, Unwind
  <2>1. ~Requests(k)
    BY RequestRow DEF Request
  <2>2. ~Crash(k) /\ ~DenyJob(k) /\ ~Fail(k) /\ ~Rollback(k)
    BY DEF Crash, DenyJob, Fail, Rollback, StartRollback, CheckRollback,
           LockRollback, RollbackRefused
  <2>3. ~RenderTargets(k)
    <3> SUFFICES ASSUME RenderTargets(k) PROVE FALSE
      OBVIOUS
    <3>1. PICK s \in {"promote", "failing", "failingPartly"} : Goto(k, s)
      BY DEF RenderTargets
    <3> QED
      BY <3>1
  <2>4. ~Build(k)
    BY <2>3
    DEF Build, StartBuild, RefuseBuild, PrepareStaging, PromoteRelease,
        RecordCandidateManifest, WaitForProtectedRelease, PruneOne, PruneDone,
        PruneFails, BuildError
  <2>5. Activate(k)
    BY <1>3, <2>1, <2>2, <2>4 DEF Worker
  <2> QED
    BY <2>5
    DEF Activate, MoveCandidateIn, MoveCandidateFails, Commit, CommitFails,
        MoveFailedAside, RestorePrevious, CompensationFails,
        FinalizeActivation
<1>4. CASE CopyRelease(k)
  <2>1. next'.version = Goal(k) /\ release' = release
        /\ next'.whole = (release[Goal(k)] = "whole")
        /\ release[Goal(k)] # "absent" /\ Goal(k) \in Jobs
    BY <1>4 DEF CopyRelease, GoalOK
  <2> QED
    BY <2>1 DEF TypeOK
<1>5. CASE MoveCurrentAside(k)
  BY <1>5 DEF MoveCurrentAside
<1> QED
  BY <1>1, <1>2, <1>3, <1>4, <1>5 DEF Next

\* The invariant of the refinement holds initially.
LEMMA RInvInit == Init => RInv
BY KInvInit DEF Init, RInv, CopyOK

\* It is inductive.
LEMMA RInvNext == RInv /\ [Next]_vars => RInv'
BY KInvNext, CopyNext DEF RInv

\* A step of j outside the exposed part of an activation: readers and
\* operators see nothing of it.
Hidden(j) ==
    /\ UNCHANGED <<current, active, torn>>
    /\ pc[j] \notin Exposed /\ pc'[j] \notin Exposed
    /\ \A k \in Jobs \ {j} : pc'[k] = pc[k]

\* Readers and operators see the same: the phase, the active version, and what
\* was put aside unless a switch is on.
LEMMA HiddenKeeps ==
    ASSUME NEW j \in Jobs, Hidden(j)
    PROVE  /\ Phase' = Phase /\ ActiveVersion' = ActiveVersion
           /\ Phase # "switching" \/ previous' = previous => Kept' = Kept
<1>1. Phase' = Phase
  BY DEF Hidden, Phase
<1>2. ActiveVersion' = ActiveVersion
  BY DEF Hidden, ActiveVersion
<1> QED
  BY <1>1, <1>2 DEF Kept

\* A hidden step that touches no release, and nothing put aside in a switch.
Stutters(j) ==
    /\ Hidden(j)
    /\ UNCHANGED release
    /\ Phase # "switching" \/ previous' = previous

\* It stutters in PublishedSite.
LEMMA HiddenStutters ==
    ASSUME NEW j \in Jobs, Stutters(j)
    PROVE  UNCHANGED Abstract!vars
BY HiddenKeeps DEF Stutters, Hidden, Damaged, Abstract!vars

\* The holder of the lock is the only job whose activation can be exposed.
LEMMA AloneExposed ==
    ASSUME Exclusive, NEW j \in Jobs,
           pc[j] \in Building \cup Activating \cup Cleaning
    PROVE  \A k \in Jobs \ {j} : pc[k] \notin Exposed
BY DEF Exclusive, Activating, Exposed

\* What was put aside names the active version.
LEMMA ActiveVersionIs ==
    ASSUME NEW directory \in Directory, Version(directory) = active
    PROVE  ActiveVersion = directory.version
BY DEF Version, ActiveVersion, Exists

\* A job promotes or prunes a release while no switch is on, and never damages
\* the active one.
LEMMA StoreSteps ==
    ASSUME RInv, NEW j \in Jobs, Hidden(j),
           PromoteRelease(j) \/ PruneOne(j) \/ PruneFails(j)
    PROVE  Abstract!Store
<1> USE DEF RInv, KInv, SInv
<1>1. pc[j] \in Building \cup Cleaning /\ previous' = previous
  BY DEF PromoteRelease, PruneOne, PruneFails, Building, Cleaning
<1>2. Phase # "switching"
  BY <1>1, AloneExposed DEF Phase, Exposed, Building, Cleaning
<1>3. ASSUME ActiveVersion \in Damaged' PROVE ActiveVersion \in Damaged
  <2>1. CASE PromoteRelease(j)
    BY <1>3, <2>1 DEF PromoteRelease, Damaged, TypeOK
  <2>2. CASE PruneOne(j) \/ PruneFails(j)
    <3>1. active = {j} /\ manifests # <<>> /\ manifests[Len(manifests)] = j
          /\ Len(manifests) > 0
      BY <2>2 DEF PruneOne, PruneFails, KeptOK, GoalOK, Cleaning
    <3>2. j \in Newest
      BY <3>1, KeepAssumption DEF Newest, TypeOK
    <3>3. release'[j] = release[j]
      BY <2>2, <3>2 DEF PruneOne, PruneFails, TypeOK
    <3>4. ActiveVersion = j
      BY <3>1 DEF ActiveVersion
    <3> QED
      BY <1>3, <3>3, <3>4 DEF Damaged
  <2> QED
    BY <2>1, <2>2
<1>4. current' = current
  BY DEF Hidden
<1> QED
  BY <1>1, <1>2, <1>3, <1>4, HiddenKeeps DEF Abstract!Store, Damaged

\* The commit makes active the version that is served.
LEMMA CommitCompletes ==
    ASSUME RInv, NEW j \in Jobs, Commit(j)
    PROVE  Abstract!Complete
<1> USE DEF RInv, KInv, SInv
<1>1. pc[j] = "commit" /\ pc'[j] = "finalize" /\ current' = current
      /\ active' = {Goal(j)} /\ torn' = FALSE /\ release' = release
      /\ \A k \in Jobs \ {j} : pc'[k] = pc[k]
  BY DEF Commit, Goto, disk, TypeOK
<1>2. current.version = Goal(j) /\ Goal(j) \in Jobs
  BY <1>1 DEF SwapOK, GoalOK
<1>3. Phase = "switching"
  BY <1>1 DEF Phase, Exposed
<1>4. Phase' = "settled"
  BY <1>1, AloneExposed DEF Phase, Exposed, Activating
<1>5. ActiveVersion' = Goal(j)
  BY <1>1 DEF ActiveVersion
<1>6. current # Missing
  BY <1>2, NoJobAssumption DEF Missing
<1> QED
  BY <1>1, <1>2, <1>3, <1>4, <1>5, <1>6
  DEF Abstract!Complete, Abstract!Nothing, Missing, Kept, Damaged

\* Moving the served directory aside begins a switch.
LEMMA MoveAsideBegins ==
    ASSUME RInv, NEW j \in Jobs, MoveCurrentAside(j)
    PROVE  Abstract!Begin
<1> USE DEF RInv, KInv, SInv
<1>1. pc[j] = "swapOut" /\ pc'[j] = "swapIn" /\ current' = Missing
      /\ active' = active /\ release' = release
      /\ previous' = IF Exists(current) THEN current ELSE previous
  BY DEF MoveCurrentAside, Goto, database, TypeOK
<1>2. Phase # "switching"
  BY <1>1, AloneExposed DEF Phase, Exposed, Activating
<1>3. Phase' = "switching"
  BY <1>1 DEF Phase, Exposed
<1>4. previous' = current
  <2>1. ~Exists(previous)
    BY <1>1 DEF SwapOK
  <2>2. ASSUME NEW d \in Directory, ~Exists(d) PROVE d = Missing
    BY <2>2, NoJobAssumption DEF Directory, Exists
  <2> QED
    BY <1>1, <2>1, <2>2 DEF TypeOK
<1> QED
  BY <1>1, <1>2, <1>3, <1>4
  DEF Abstract!Begin, Abstract!Nothing, ActiveVersion, Missing, Kept, Damaged

\* Putting the candidate up swings the site.
LEMMA CandidateSwings ==
    ASSUME RInv, NEW j \in Jobs, MoveCandidateIn(j)
    PROVE  Abstract!Swing
<1> USE DEF RInv, KInv, SInv
<1>1. pc[j] = "swapIn" /\ pc'[j] = "commit" /\ current' = next
      /\ UNCHANGED <<active, release, previous>>
  BY DEF MoveCandidateIn, Goto, database, TypeOK
<1>2. Phase = "switching" /\ Phase' = "switching"
  BY <1>1 DEF Phase, Exposed
<1>3. next.version \in Jobs
  BY <1>1 DEF SwapOK, GoalOK
<1>4. next \in Abstract!Copies
  BY <1>3, NoJobAssumption DEF TypeOK, Directory, Missing, Abstract!Copies
<1>5. next.whole \/ next.version \in Damaged
  BY <1>1, <1>3 DEF CopyOK, Damaged
<1> QED
  BY <1>1, <1>2, <1>4, <1>5 DEF Abstract!Swing, ActiveVersion, Kept, Damaged

\* Taking it down again swings the site too, unless there is nothing to see.
LEMMA ExposedSwings ==
    ASSUME RInv, NEW j \in Jobs, CommitFails(j) \/ MoveFailedAside(j)
    PROVE  Abstract!Swing \/ UNCHANGED Abstract!vars
<1> USE DEF RInv, KInv, SInv
<1>1. pc[j] \in Exposed /\ pc'[j] \in Exposed
      /\ UNCHANGED <<active, release, previous>>
  BY DEF CommitFails, MoveFailedAside, Goto, database, disk, TypeOK, Exposed
<1>2. Phase = "switching" /\ Phase' = "switching"
  BY <1>1 DEF Phase
<1>3. UNCHANGED <<Phase, ActiveVersion, Kept, Damaged>>
  BY <1>1, <1>2 DEF ActiveVersion, Kept, Damaged
<1>4. CASE CommitFails(j)
  <2>1. current' = current
    BY <1>4 DEF CommitFails, disk
  <2> QED
    BY <1>3, <2>1 DEF Abstract!vars
<1>5. CASE MoveFailedAside(j)
  <2>1. current' = Missing
    BY <1>5 DEF MoveFailedAside
  <2> QED
    BY <1>2, <1>3, <2>1 DEF Abstract!Swing, Abstract!Nothing, Missing
<1> QED
  BY <1>4, <1>5

\* A step that leaves the exposed part without a commit, cleanly or not.
Leaves(j) ==
    /\ pc[j] \in Exposed /\ pc'[j] \notin Exposed
    /\ UNCHANGED <<active, release>>
    /\ \A k \in Jobs \ {j} : pc'[k] = pc[k]
    /\ current' \in {current, previous}
    /\ ~torn' => ~torn /\ current' = previous

\* The copy of the active version is back, or the switch was cut short.
LEMMA LeavingEnds ==
    ASSUME RInv, NEW j \in Jobs, Leaves(j)
    PROVE  Abstract!Cancel \/ Abstract!Break
<1> USE DEF RInv, KInv, SInv
<1>1. Phase = "switching"
  BY DEF Leaves, Phase
<1>2. Phase' = IF torn' THEN "broken" ELSE "settled"
  BY AloneExposed DEF Leaves, Phase, Exposed, Activating
<1>3. ActiveVersion' = ActiveVersion /\ Damaged' = Damaged
  BY DEF Leaves, ActiveVersion, Damaged
<1>4. Kept = previous /\ Kept' = Missing
  BY <1>1, <1>2 DEF Kept
<1>5. CASE torn'
  BY <1>1, <1>2, <1>3, <1>4, <1>5
  DEF Leaves, Abstract!Break, Abstract!Nothing, Missing
<1>6. CASE ~torn'
  <2>1. Version(previous) = active /\ current' = previous
    BY <1>6 DEF Leaves, SwapOK
  <2>2. previous.version = ActiveVersion
    BY <2>1, ActiveVersionIs DEF TypeOK
  <2> QED
    BY <1>1, <1>2, <1>3, <1>4, <1>6, <2>1, <2>2
    DEF Abstract!Cancel, Abstract!Nothing, Missing
<1> QED
  BY <1>5, <1>6

\* Every step of the publisher is a step of PublishedSite, or none.
LEMMA RefineNext == RInv /\ [Next]_vars => [Abstract!Next]_(Abstract!vars)
<1> SUFFICES ASSUME RInv, [Next]_vars PROVE [Abstract!Next]_(Abstract!vars)
  OBVIOUS
<1> USE DEF Exposed
<1>0. SInv
  BY DEF RInv, KInv
<1> USE <1>0
<1>1. ASSUME NEW j \in Jobs, Requests(j) PROVE Stutters(j)
  <2>1. PICK row \in Row : Request(j, row)
    BY <1>1, RequestRow DEF SInv
  <2> QED
    BY <2>1 DEF Request, Goto, Hidden, Stutters, SInv, TypeOK, disk, database, history
<1>2. ASSUME NEW j \in Jobs, Worker(j) \/ Crash(j)
      PROVE  \A k \in Jobs \ {j} : pc'[k] = pc[k]
  BY <1>2, WorkerKeeps DEF SInv
<1> USE DEF Goto, Unwind
<1>3. ASSUME NEW j \in Jobs,
             \/ DenyJob(j) \/ RefuseBuild(j) \/ StartBuild(j) \/ StartRollback(j)
             \/ CheckRollback(j) \/ LockRollback(j) \/ RollbackRefused(j)
             \/ PrepareStaging(j) \/ RecordCandidateManifest(j)
             \/ WaitForProtectedRelease(j)
      PROVE  Stutters(j)
  <2>1. Worker(j)
    BY <1>3 DEF Worker, Build, Rollback
  <2> QED
    BY <1>2, <1>3, <2>1
    DEF DenyJob, RefuseBuild, StartBuild, StartRollback, CheckRollback,
        LockRollback, RollbackRefused, PrepareStaging,
        RecordCandidateManifest, WaitForProtectedRelease, Hidden, Stutters,
        SInv, TypeOK, disk, database, history
<1>4. ASSUME NEW j \in Jobs, RenderTargets(j) PROVE Stutters(j)
  <2>1. PICK s \in {"promote", "failing", "failingPartly"} : Goto(j, s)
    BY <1>4 DEF RenderTargets
  <2>2. Worker(j)
    BY <1>4 DEF Worker, Build
  <2> QED
    BY <1>2, <1>4, <2>1, <2>2
    DEF RenderTargets, Hidden, Stutters, SInv, TypeOK, database, history
<1>5. ASSUME NEW j \in Jobs,
             \/ PruneDone(j) \/ Fail(j) \/ BuildError(j) \/ CopyRelease(j)
             \/ FinalizeActivation(j)
      PROVE  Stutters(j)
  <2>1. Worker(j)
    BY <1>5 DEF Worker, Build, Activate
  <2>2. UNCHANGED <<current, active, torn, release>>
    BY <1>5
    DEF PruneDone, Fail, BuildError, CopyRelease, FinalizeActivation, disk,
        database, history
  <2>3. pc[j] \notin Exposed /\ pc'[j] \notin Exposed
    BY <1>5
    DEF PruneDone, Fail, BuildError, CopyRelease, FinalizeActivation, SInv,
        TypeOK, Building, Cleaning
  <2>4. Phase # "switching" \/ previous' = previous
    <3>1. CASE CopyRelease(j) \/ FinalizeActivation(j)
      <4>1. pc[j] \in Activating \cup Cleaning
        BY <3>1 DEF CopyRelease, FinalizeActivation, Activating, Cleaning
      <4> QED
        BY <2>3, <4>1, AloneExposed DEF Phase, SInv
    <3>2. CASE PruneDone(j) \/ Fail(j) \/ BuildError(j)
      BY <3>2 DEF PruneDone, Fail, BuildError, disk
    <3> QED
      BY <1>5, <3>1, <3>2
  <2> QED
    BY <1>2, <2>1, <2>2, <2>3, <2>4 DEF Hidden, Stutters
<1>12. ASSUME NEW j \in Jobs, PromoteRelease(j) \/ PruneOne(j) \/ PruneFails(j)
       PROVE  Abstract!Store
  <2>1. Worker(j)
    BY <1>12 DEF Worker, Build
  <2>2. Hidden(j)
    BY <1>2, <1>12, <2>1
    DEF PromoteRelease, PruneOne, PruneFails, Hidden, SInv, TypeOK, database,
        history
  <2> QED
    BY <1>12, <2>2, StoreSteps
<1>6. ASSUME NEW j \in Jobs, MoveCandidateFails(j) \/ RestorePrevious(j)
      PROVE  Leaves(j)
  <2>1. Worker(j)
    BY <1>6 DEF Worker, Activate
  <2>2. pc[j] \in Exposed /\ pc'[j] \notin Exposed
        /\ UNCHANGED <<active, torn, release>>
    BY <1>6
    DEF MoveCandidateFails, RestorePrevious, SInv, TypeOK, database, history
  <2>3. CASE MoveCandidateFails(j)
    BY <1>2, <2>1, <2>2, <2>3 DEF MoveCandidateFails, Leaves
  <2>4. CASE RestorePrevious(j)
    <3>1. hadPrevious[j] = Exists(previous) /\ ~Exists(current)
      BY <2>4 DEF RestorePrevious, SInv, SwapOK
    <3>2. current' = IF Exists(previous) THEN previous ELSE current
      BY <2>4, <3>1 DEF RestorePrevious
    <3>3. ~Exists(previous) => previous = Missing
      BY NoJobAssumption DEF SInv, TypeOK, Directory, Exists
    <3>4. current = Missing
      BY <3>1, NoJobAssumption DEF SInv, TypeOK, Directory, Exists
    <3> QED
      BY <1>2, <2>1, <2>2, <3>2, <3>3, <3>4 DEF Leaves
  <2> QED
    BY <1>6, <2>3, <2>4
<1>7. ASSUME NEW j \in Jobs, CompensationFails(j) PROVE Leaves(j)
  <2>1. Worker(j)
    BY <1>7 DEF Worker, Activate
  <2> QED
    BY <1>2, <1>7, <2>1
    DEF CompensationFails, Leaves, SInv, TypeOK, disk, database
<1>8. ASSUME NEW j \in Jobs, Crash(j) PROVE Leaves(j) \/ Stutters(j)
  <2>1. /\ pc'[j] \notin Exposed
        /\ UNCHANGED <<current, previous, active, release>>
        /\ torn' = (torn \/ pc[j] \in Exposed)
    BY <1>8 DEF Crash, SInv, TypeOK, disk, database
  <2>2. CASE pc[j] \in Exposed
    BY <1>2, <1>8, <2>1, <2>2, Zenon DEF Leaves
  <2>3. CASE pc[j] \notin Exposed
    <3>1. torn' = torn
      BY <2>1, <2>3 DEF SInv, TypeOK
    <3> QED
      BY <1>2, <1>8, <2>1, <2>3, <3>1 DEF Hidden, Stutters
  <2> QED
    BY <2>2, <2>3
<1>9. CASE UNCHANGED vars
  BY <1>9
  DEF vars, disk, database, history, Phase, ActiveVersion, Kept, Damaged,
      Abstract!vars
<1>10. ASSUME NEW j \in Jobs, Stutters(j) \/ Leaves(j)
       PROVE  [Abstract!Next]_(Abstract!vars)
  BY <1>10, HiddenStutters, LeavingEnds DEF Abstract!Next, Abstract!End
<1>11. ASSUME NEW j \in Jobs,
              \/ MoveCurrentAside(j) \/ MoveCandidateIn(j) \/ CommitFails(j)
              \/ MoveFailedAside(j) \/ Commit(j)
       PROVE  [Abstract!Next]_(Abstract!vars)
  BY <1>11, MoveAsideBegins, CandidateSwings, ExposedSwings, CommitCompletes
  DEF Abstract!Next, Abstract!End
<1> QED
  BY <1>1, <1>3, <1>4, <1>5, <1>6, <1>7, <1>8, <1>9, <1>10, <1>11, <1>12
  DEF Next, Worker, Abstract!Next, Build, Rollback, Activate

\* The publisher, its two stores, its compensations and its crashes implement
\* the site that is switched from copy to copy.
THEOREM Refinement == Spec => ImplementsPublishedSite
<1>1. Init => Abstract!Init
  BY DEF Init, Abstract!Init, Abstract!Nothing, Missing, ActiveVersion, Phase,
         Exposed, Kept, Damaged
<1> QED
  BY <1>1, RInvInit, RInvNext, RefineNext, PTL
  DEF Spec, ImplementsPublishedSite, Abstract!Spec

=============================================================================
