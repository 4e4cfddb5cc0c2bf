--------------------------- MODULE StaticPublish ---------------------------
(***************************************************************************)
(* The static publisher of static_publish/services.py: Celery workers run  *)
(* publish, retry and rollback jobs that build immutable releases and swap *)
(* them into the directory the public web server reads.  The swap touches  *)
(* two stores that share no transaction: the directory `current` and the   *)
(* StaticManifest row marked active.                                       *)
(*                                                                         *)
(* A release is built by exactly one job, so a job's name doubles as the   *)
(* version `_version` gives its release.  A page is the version that       *)
(* rendered it; readiness, asset and integrity checks are nondeterministic *)
(* refusals (BuildError).  A directory copy or removal that is interrupted *)
(* leaves a `damaged` directory, which is what the integrity check detects.*)
(***************************************************************************)
EXTENDS Naturals, Sequences, FiniteSets

CONSTANTS
    Jobs,          \* StaticPublishJob rows, and the versions they build
    Pages,         \* output paths of the site
    ArticlePages,  \* those of target type article_page
    NoJob,         \* no job, no version, no directory
    Keep,          \* max(2, STATIC_PUBLISH_KEEP_RELEASES)
    PdfGrants,     \* READER_PDF_GRANTS_ENABLED
    MaxOpen,       \* bound: jobs requested and not finished at the same time
    MaxFaults      \* bound: workers killed and failed compensations

ASSUME NoJobAssumption == NoJob \notin Jobs
ASSUME PagesAssumption == ArticlePages \subseteq Pages
ASSUME KeepAssumption  == Keep \in Nat /\ Keep >= 2
ASSUME FlagAssumption  == PdfGrants \in BOOLEAN
ASSUME BoundAssumption == MaxOpen \in Nat /\ MaxFaults \in Nat

VARIABLES
    job,          \* the StaticPublishJob rows
    pc,           \* where the worker executing a job is
    hadPrevious,  \* activation["had_previous"] of a job's _activate
    failed,       \* pages of a job whose StaticPublishTarget is FAILED
    content,      \* the pages in a job's staging directory, then its release
    release,      \* the directories under releases/
    current,      \* the directory the web server reads
    next,         \* .current-next
    previous,     \* .current-previous
    manifests,    \* StaticManifest rows, oldest first
    active,       \* versions whose manifest has is_active
    paired,       \* versions whose protected manifest is ACTIVATED
    lock,         \* holder of .publish.lock
    torn,         \* an activation was cut short and none has completed since
    faults        \* workers killed and failed compensations so far

disk == <<content, release, current, next, previous>>
database == <<manifests, active, paired>>
history == <<torn, faults>>
vars == <<job, pc, hadPrevious, failed, disk, database, lock, history>>

-----------------------------------------------------------------------------

Scopes   == {"full", "journal", "selective", "retry", "rollback"}
Statuses == {"none", "pending", "running", "succeeded", "partial", "failed",
             "rolled_back"}
Versions == Jobs \cup {NoJob}
Site     == [Pages -> Versions]
Empty    == [p \in Pages |-> NoJob]

\* A directory holding a copy of one release, if there is one.
Missing   == [version |-> NoJob, whole |-> FALSE]
Directory == [version : Jobs, whole : BOOLEAN] \cup {Missing}
Exists(directory) == directory.version # NoJob

Row == [status : Statuses, scope : Scopes, requested : SUBSET Pages,
        goal : Versions, retryOf : Versions, started : Nat]

NoRow == [status |-> "none", scope |-> "full", requested |-> {},
          goal |-> NoJob, retryOf |-> NoJob, started |-> 0]

IsRollback(j) == job[j].scope = "rollback"
Goal(j)       == job[j].goal

Building   == {"staging", "render", "promote", "record", "pdf"}
Activating == {"copy", "swapOut", "swapIn", "commit", "restoreOut",
               "restoreIn"}
Cleaning   == {"finalize", "prune"}
Working    == Building \cup Activating \cup Cleaning
                \cup {"check", "acquire", "failing", "failingPartly"}
Stages     == Working \cup {"idle", "queued", "done", "crashed"}

\* The file system and the database disagree while a job is at these stages.
Exposed == {"swapIn", "commit", "restoreOut", "restoreIn"}

Goto(j, stage) == pc' = [pc EXCEPT ![j] = stage]

SetStatus(j, status) == job' = [job EXCEPT ![j].status = status]

\* started_at, as the number of manifests created before it.
MarkRunning(j) == job' = [job EXCEPT ![j].status = "running",
                                     ![j].started = Len(manifests)]

\* The activation record is a local variable: it ends with its _activate.
Forget(j) == hadPrevious' = [hadPrevious EXCEPT ![j] = FALSE]

\* Mutant of Newest: keeps the oldest manifests.
OldestManifests == {manifests[i] : i \in {i \in DOMAIN manifests :
                                    i <= Keep}}

\* The newest manifests, which _prune protects.
Newest == {manifests[i] : i \in {i \in DOMAIN manifests :
                                    i + Keep > Len(manifests)}}

Recorded == {manifests[i] : i \in DOMAIN manifests}

Present == {v \in Jobs : release[v] # "absent"}

-----------------------------------------------------------------------------

Init ==
    /\ job = [j \in Jobs |-> NoRow]
    /\ pc = [j \in Jobs |-> "idle"]
    /\ hadPrevious = [j \in Jobs |-> FALSE]
    /\ failed = [j \in Jobs |-> {}]
    /\ content = [j \in Jobs |-> Empty]
    /\ release = [j \in Jobs |-> "absent"]
    /\ current = Missing
    /\ next = Missing
    /\ previous = Missing
    /\ manifests = <<>>
    /\ active = {}
    /\ paired = {}
    /\ lock = NoJob
    /\ torn = FALSE
    /\ faults = 0

-----------------------------------------------------------------------------
(* Requests: a row is created, then its task is sent to the broker.  When  *)
(* the broker refuses it, mark_publish_job_queue_failure fails the row.    *)

Open == {j \in Jobs : pc[j] = "queued" \/ pc[j] \in Working}

Request(j, row) ==
    /\ pc[j] = "idle"
    /\ Cardinality(Open) < MaxOpen
    /\ \E sent \in BOOLEAN :
          /\ job' = [job EXCEPT ![j] =
                [row EXCEPT !.status = IF sent THEN "pending" ELSE "failed"]]
          /\ Goto(j, IF sent THEN "queued" ELSE "done")
    /\ UNCHANGED <<hadPrevious, failed, disk, database, lock, history>>

\* A publish without paths is a full one.
CreatePublish(j, paths) ==
    \E scope \in IF paths = {} THEN {"full"} ELSE {"journal", "selective"} :
        Request(j, [NoRow EXCEPT !.scope = scope,
                                 !.requested = paths,
                                 !.goal = j])

\* Failed targets if there are any, else what the source job was asked for.
RetryPaths(k) == IF failed[k] # {} THEN SUBSET failed[k] \ {{}}
                                   ELSE {job[k].requested}

\* The view retries any job that leaves it something to publish.
CreateRetry(j, k) ==
    /\ job[k].status # "none"
    /\ \E paths \in RetryPaths(k) :
          /\ paths # {} \/ job[k].scope = "full"
          /\ Request(j, [NoRow EXCEPT !.scope = IF paths = {} THEN "full"
                                                             ELSE "retry",
                                      !.requested = paths,
                                      !.goal = j,
                                      !.retryOf = k])

\* The form offers every manifest, the active one and failed candidates too.
CreateRollback(j, v) ==
    /\ v \in Recorded
    /\ Request(j, [NoRow EXCEPT !.scope = "rollback", !.goal = v])

-----------------------------------------------------------------------------
(* A worker takes the task.                                                *)

\* The permission recheck in the worker fails: worker preflight failure.
DenyJob(j) ==
    /\ pc[j] = "queued"
    /\ SetStatus(j, "failed")
    /\ Goto(j, "done")
    /\ UNCHANGED <<hadPrevious, failed, disk, database, lock, history>>

\* Mutant of RefuseBuild: the refused job keeps its status.
RefuseBuildSilently(j) ==
    /\ pc[j] = "queued"
    /\ ~IsRollback(j)
    /\ lock # NoJob
    /\ Goto(j, "done")
    /\ UNCHANGED <<job, hadPrevious, failed, disk, database, lock, history>>

\* The file lock has timeout 0.  run_static_publish turns the refusal into a
\* failed job; retry_static_publish lets it escape and the row stays pending.
RefuseBuild(j) ==
    /\ pc[j] = "queued"
    /\ ~IsRollback(j)
    /\ lock # NoJob
    /\ Goto(j, "done")
    /\ IF job[j].retryOf = NoJob THEN SetStatus(j, "failed")
                                 ELSE UNCHANGED job
    /\ UNCHANGED <<hadPrevious, failed, disk, database, lock, history>>

\* Mutant of StartBuild: does not try the lock.
StartBuildUnlocked(j) ==
    /\ pc[j] = "queued"
    /\ ~IsRollback(j)
    /\ lock' = j
    /\ MarkRunning(j)
    /\ Goto(j, "staging")
    /\ UNCHANGED <<hadPrevious, failed, disk, database, history>>

StartBuild(j) ==
    /\ pc[j] = "queued"
    /\ ~IsRollback(j)
    /\ lock = NoJob
    /\ lock' = j
    /\ MarkRunning(j)
    /\ Goto(j, "staging")
    /\ UNCHANGED <<hadPrevious, failed, disk, database, history>>

-----------------------------------------------------------------------------
(* _build_locked, up to the candidate manifest.                            *)

\* A build that is not full starts from a copy of the served release.  What
\* is missing from a damaged copy is missing from the new release as well.
PrepareStaging(j) ==
    /\ pc[j] = "staging"
    /\ IF job[j].scope = "full"
       THEN UNCHANGED content
       ELSE /\ Exists(current)
            /\ \E lost \in IF current.whole THEN {{}} ELSE SUBSET Pages :
                  content' = [content EXCEPT ![j] =
                      [p \in Pages |-> IF p \in lost THEN NoJob
                                       ELSE content[current.version][p]]]
    /\ Goto(j, "render")
    /\ UNCHANGED <<job, hadPrevious, failed, release, current, next,
                   previous, database, lock, history>>

\* Article pages embed the version they were rendered for: in this release,
\* every one carried forward is stale.
StaleArticles == IF Exists(current)
                 THEN {p \in ArticlePages : content[current.version][p] # NoJob}
                 ELSE {}

\* Requested pages, and the stale article pages; a journal publish refreshes
\* those of its own journal only.
Targets(j) ==
    IF job[j].requested = {}
    THEN {Pages}
    ELSE {job[j].requested \cup refreshed : refreshed \in
             IF job[j].scope = "journal" THEN SUBSET StaleArticles
                                         ELSE {StaleArticles}}

RenderTargets(j) ==
    /\ pc[j] = "render"
    /\ \E targets \in Targets(j) : \E broken \in SUBSET targets :
          /\ failed' = [failed EXCEPT ![j] = broken]
          /\ content' = [content EXCEPT ![j] =
                [p \in Pages |-> IF p \in targets \ broken
                                 THEN j ELSE content[j][p]]]
          /\ Goto(j, CASE broken = {} -> "promote"
                       [] broken # {} /\ broken = targets -> "failing"
                       [] OTHER -> "failingPartly")
    /\ UNCHANGED <<job, hadPrevious, release, current, next, previous,
                   database, lock, history>>

\* Validated staging becomes releases/<version>.
PromoteRelease(j) ==
    /\ pc[j] = "promote"
    /\ release' = [release EXCEPT ![j] = "whole"]
    /\ Goto(j, "record")
    /\ UNCHANGED <<job, hadPrevious, failed, content, current, next,
                   previous, database, lock, history>>

RecordCandidateManifest(j) ==
    /\ pc[j] = "record"
    /\ manifests' = Append(manifests, j)
    /\ Goto(j, IF PdfGrants THEN "pdf" ELSE "copy")
    /\ UNCHANGED <<job, hadPrevious, failed, disk, active, paired,
                   lock, history>>

\* Every required PDF is READY and the protected manifest VALIDATED.
WaitForProtectedRelease(j) ==
    /\ pc[j] = "pdf"
    /\ Goto(j, "copy")
    /\ UNCHANGED <<job, hadPrevious, failed, disk, database, lock,
                   history>>

-----------------------------------------------------------------------------
(* run_rollback, up to the activation.  Everything it checks is checked    *)
(* before it takes the lock.                                               *)

StartRollback(j) ==
    /\ pc[j] = "queued"
    /\ IsRollback(j)
    /\ MarkRunning(j)
    /\ Goto(j, "check")
    /\ UNCHANGED <<hadPrevious, failed, disk, database, lock, history>>

\* The release directory exists and passes the integrity check against its
\* manifest; with PDF grants its protected pair has been activated.
CheckRollback(j) ==
    /\ pc[j] = "check"
    /\ release[Goal(j)] = "whole"
    /\ Goal(j) \in Recorded
    /\ PdfGrants => Goal(j) \in paired
    /\ Goto(j, "acquire")
    /\ UNCHANGED <<job, hadPrevious, failed, disk, database, lock,
                   history>>

LockRollback(j) ==
    /\ pc[j] = "acquire"
    /\ lock = NoJob
    /\ lock' = j
    /\ Goto(j, "copy")
    /\ UNCHANGED <<job, hadPrevious, failed, disk, database, history>>

-----------------------------------------------------------------------------
(* _activate, the database transaction, and the compensation.              *)

\* Mutant of CopyRelease: takes a leftover candidate for its copy.
CopyReleaseOnce(j) ==
    /\ pc[j] = "copy"
    /\ release[Goal(j)] # "absent"
    /\ next' = IF Exists(next)
               THEN next
               ELSE [version |-> Goal(j), whole |-> release[Goal(j)] = "whole"]
    /\ previous' = Missing
    /\ Goto(j, "swapOut")
    /\ UNCHANGED <<job, hadPrevious, failed, content, release,
                   current, database, lock, history>>

\* A leftover candidate is removed, the release copied, and then the backup
\* of an earlier activation removed.
CopyRelease(j) ==
    /\ pc[j] = "copy"
    /\ release[Goal(j)] # "absent"
    /\ next' = [version |-> Goal(j), whole |-> release[Goal(j)] = "whole"]
    /\ previous' = Missing
    /\ Goto(j, "swapOut")
    /\ UNCHANGED <<job, hadPrevious, failed, content, release,
                   current, database, lock, history>>

MoveCurrentAside(j) ==
    /\ pc[j] = "swapOut"
    /\ hadPrevious' = [hadPrevious EXCEPT ![j] = Exists(current)]
    /\ previous' = IF Exists(current) THEN current ELSE previous
    /\ current' = Missing
    /\ Goto(j, "swapIn")
    /\ UNCHANGED <<job, failed, content, release, next, database,
                   lock, history>>

MoveCandidateIn(j) ==
    /\ pc[j] = "swapIn"
    /\ current' = next
    /\ next' = Missing
    /\ Goto(j, "commit")
    /\ UNCHANGED <<job, hadPrevious, failed, content, release,
                   previous, database, lock, history>>

\* An exception leaves `with self.lock` in a rollback before it is handled; a
\* build handles it under the lock.
Unwind(j) ==
    /\ Goto(j, "failing")
    /\ lock' = IF IsRollback(j) THEN NoJob ELSE lock

\* Mutant of MoveCandidateFails: does not put the previous directory back.
MoveCandidateFailsOnly(j) ==
    /\ pc[j] = "swapIn"
    /\ current' = Missing
    /\ previous' = Missing
    /\ Unwind(j)
    /\ UNCHANGED <<job, hadPrevious, failed, content, release, next,
                   database, history>>

\* The rename fails: _activate puts the previous directory back.
MoveCandidateFails(j) ==
    /\ pc[j] = "swapIn"
    /\ current' = previous
    /\ previous' = Missing
    /\ Unwind(j)
    /\ UNCHANGED <<job, hadPrevious, failed, content, release, next,
                   database, history>>

\* One transaction: the protected manifest, the active marker, the articles,
\* the terminal status and the success audit.
Commit(j) ==
    /\ pc[j] = "commit"
    /\ active' = {Goal(j)}
    /\ paired' = IF PdfGrants THEN paired \cup {Goal(j)} ELSE paired
    /\ SetStatus(j, IF IsRollback(j) THEN "rolled_back" ELSE "succeeded")
    /\ torn' = FALSE
    /\ Goto(j, "finalize")
    /\ UNCHANGED <<hadPrevious, failed, disk, manifests, lock, faults>>

CommitFails(j) ==
    /\ pc[j] = "commit"
    /\ Goto(j, "restoreOut")
    /\ UNCHANGED <<job, hadPrevious, failed, disk, database, lock,
                   history>>

\* Mutant of MoveFailedAside: waits for a previous directory.
MoveFailedAsideOverPrevious(j) ==
    /\ pc[j] = "restoreOut"
    /\ hadPrevious[j]
    /\ current' = Missing
    /\ Goto(j, "restoreIn")
    /\ UNCHANGED <<job, hadPrevious, failed, content, release, next,
                   previous, database, lock, history>>

\* _restore_activation, first half: current is moved to .current-failed.
MoveFailedAside(j) ==
    /\ pc[j] = "restoreOut"
    /\ current' = Missing
    /\ Goto(j, "restoreIn")
    /\ UNCHANGED <<job, hadPrevious, failed, content, release, next,
                   previous, database, lock, history>>

\* Mutant of RestorePrevious: leaves the previous directory where it is.
RestoreNothing(j) ==
    /\ pc[j] = "restoreIn"
    /\ UNCHANGED <<current, previous>>
    /\ Unwind(j)
    /\ UNCHANGED <<job, hadPrevious, failed, content, release, next,
                   database, history>>

RestorePrevious(j) ==
    /\ pc[j] = "restoreIn"
    /\ IF hadPrevious[j] THEN current' = previous /\ previous' = Missing
                         ELSE UNCHANGED <<current, previous>>
    /\ Unwind(j)
    /\ UNCHANGED <<job, hadPrevious, failed, content, release, next,
                   database, history>>

-----------------------------------------------------------------------------
(* After the commit.                                                       *)

FinalizeActivation(j) ==
    /\ pc[j] = "finalize"
    /\ previous' = Missing
    /\ IF IsRollback(j) THEN Goto(j, "done") /\ lock' = NoJob
                        ELSE Goto(j, "prune") /\ UNCHANGED lock
    /\ Forget(j)
    /\ UNCHANGED <<job, failed, content, release,
                   current, next, database, history>>

PruneOne(j) ==
    /\ pc[j] = "prune"
    /\ \E v \in Present \ Newest : release' = [release EXCEPT ![v] = "absent"]
    /\ UNCHANGED <<job, pc, hadPrevious, failed, content, current,
                   next, previous, database, lock, history>>

PruneDone(j) ==
    /\ pc[j] = "prune"
    /\ Present \subseteq Newest
    /\ lock' = NoJob
    /\ Goto(j, "done")
    /\ UNCHANGED <<job, hadPrevious, failed, disk, database, history>>

\* rmtree fails half way through a release.
PruneFails(j) ==
    /\ pc[j] = "prune"
    /\ \E v \in Present \ Newest : release' = [release EXCEPT ![v] = "damaged"]
    /\ Goto(j, "failing")
    /\ UNCHANGED <<job, hadPrevious, failed, content, current, next,
                   previous, database, lock, history>>

-----------------------------------------------------------------------------
(* Exceptions and faults.                                                  *)

\* An exception before the effect of a stage: a refused check, an I/O or
\* database error, a release that is not there, a lock that is taken.
BuildError(j) ==
    /\ pc[j] \in Building \cup {"copy", "swapOut"} \cup Cleaning
    /\ Unwind(j)
    /\ UNCHANGED <<job, hadPrevious, failed, disk, database, history>>

RollbackRefused(j) ==
    /\ pc[j] \in {"check", "acquire"}
    /\ Goto(j, "failing")
    /\ UNCHANGED <<job, hadPrevious, failed, disk, database, lock,
                   history>>

\* Mutant of Fail: stores the stage as the status.
FailNamingStage(j) ==
    /\ pc[j] \in {"failing", "failingPartly"}
    /\ SetStatus(j, pc[j])
    /\ content' = IF release[j] = "absent" THEN [content EXCEPT ![j] = Empty]
                                           ELSE content
    /\ lock' = IF lock = j THEN NoJob ELSE lock
    /\ Goto(j, "done")
    /\ UNCHANGED <<hadPrevious, failed, release, current, next, previous,
                   database, history>>

\* The outer handler: the status is overwritten whatever it was, and a
\* staging directory that was not promoted is removed.
Fail(j) ==
    /\ pc[j] \in {"failing", "failingPartly"}
    /\ SetStatus(j, IF pc[j] = "failing" THEN "failed" ELSE "partial")
    /\ content' = IF release[j] = "absent" THEN [content EXCEPT ![j] = Empty]
                                           ELSE content
    /\ lock' = IF lock = j THEN NoJob ELSE lock
    /\ Goto(j, "done")
    /\ Forget(j)
    /\ UNCHANGED <<failed, release, current, next, previous,
                   database, history>>

\* A rename inside _activate or _restore_activation fails and the move that
\* should make up for it fails as well: the activation is left as it is.
CompensationFails(j) ==
    /\ pc[j] \in Exposed \ {"commit"}
    /\ faults < MaxFaults
    /\ faults' = faults + 1
    /\ torn' = TRUE
    /\ Unwind(j)
    /\ UNCHANGED <<job, hadPrevious, failed, disk, database>>

\* The worker process dies; the operating system drops its file lock.
Crash(j) ==
    /\ pc[j] \in Working
    /\ faults < MaxFaults
    /\ faults' = faults + 1
    /\ torn' = (torn \/ pc[j] \in Exposed)
    /\ lock' = IF lock = j THEN NoJob ELSE lock
    /\ Goto(j, "crashed")
    /\ Forget(j)
    /\ UNCHANGED <<job, failed, disk, database>>

-----------------------------------------------------------------------------

Requests(j) ==
    \/ \E paths \in SUBSET Pages : CreatePublish(j, paths)
    \/ \E k \in Jobs : CreateRetry(j, k)
    \/ \E v \in Jobs : CreateRollback(j, v)

Build(j) ==
    \/ StartBuild(j) \/ RefuseBuild(j) \/ PrepareStaging(j) \/ RenderTargets(j)
    \/ PromoteRelease(j) \/ RecordCandidateManifest(j)
    \/ WaitForProtectedRelease(j) \/ PruneOne(j) \/ PruneDone(j)
    \/ PruneFails(j) \/ BuildError(j)

Rollback(j) ==
    StartRollback(j) \/ CheckRollback(j) \/ LockRollback(j) \/ RollbackRefused(j)

Activate(j) ==
    \/ CopyRelease(j) \/ MoveCurrentAside(j) \/ MoveCandidateIn(j)
    \/ MoveCandidateFails(j) \/ Commit(j) \/ CommitFails(j)
    \/ MoveFailedAside(j) \/ RestorePrevious(j) \/ CompensationFails(j)
    \/ FinalizeActivation(j)

\* What a live worker does with job j.
Worker(j) == DenyJob(j) \/ Build(j) \/ Rollback(j) \/ Activate(j) \/ Fail(j)

Next == \E j \in Jobs : Requests(j) \/ Worker(j) \/ Crash(j)

Spec == Init /\ [][Next]_vars

\* A Celery worker that is not killed runs its task to the end.
FairSpec == Spec /\ \A j \in Jobs : WF_vars(Worker(j))

-----------------------------------------------------------------------------

\* The types of the variables.
TypeOK ==
    /\ job \in [Jobs -> Row]
    /\ pc \in [Jobs -> Stages]
    /\ hadPrevious \in [Jobs -> BOOLEAN]
    /\ failed \in [Jobs -> SUBSET Pages]
    /\ content \in [Jobs -> Site]
    /\ release \in [Jobs -> {"absent", "whole", "damaged"}]
    /\ {current, next, previous} \subseteq Directory
    /\ manifests \in Seq(Jobs)
    /\ active \in SUBSET Jobs
    /\ paired \in SUBSET Jobs
    /\ lock \in Versions
    /\ torn \in BOOLEAN
    /\ faults \in Nat

\* Unless an activation was cut short and no later one has repaired it, the
\* directory the public reads is the release the database calls active
\* whenever no activation is exposed: after a build, a rollback, or any of
\* their failures and compensations (_activate, _restore_activation).
Served == IF Exists(current) THEN {current.version} ELSE {}

Settled == ~torn /\ \A j \in Jobs : pc[j] \notin Exposed

ServedIsActive == Settled => Served = active

\* _prune keeps the newest manifests rather than the active one, and yet the
\* directory of the active release survives it, also after a rollback to an
\* old version and after candidates that were recorded and then failed.
ActiveIsKept == \A v \in active : release[v] # "absent"

Becomes(j, statuses) ==
    job[j].status \notin statuses /\ job'[j].status \in statuses

Succeeds(j)  == Becomes(j, {"succeeded"})
RollsBack(j) == Becomes(j, {"rolled_back"})
Fails(j)     == Becomes(j, {"failed", "partial"})

\* The database never names a release active that is not already served, and
\* a build only ever activates a complete one.
ActivatesWhatIsServed ==
    [][ /\ active' # active => active' = Served
        /\ \A j \in Jobs : Succeeds(j) => current.whole ]_vars

\* A publish that is not full changes only what it rendered: every other page
\* is the one of the release that was active until then, so no publish that
\* succeeded in between is lost.
CarriesForward ==
    [][ \A j \in Jobs :
          Succeeds(j) /\ job[j].scope # "full" /\ ~torn /\ previous.whole =>
             \A p \in Pages :
                 \/ content[j][p] = j
                 \/ \E v \in active : content[j][p] = content[v][p] ]_vars

\* The task of every accepted job brings it to a terminal status, except when
\* its worker dies and when the lock refuses a retry (see RefuseBuild).
Terminal == {"succeeded", "partial", "failed", "rolled_back"}

EveryJobSettles ==
    \A j \in Jobs :
        pc[j] = "queued" ~>
            \/ job[j].status \in Terminal
            \/ pc[j] = "crashed"
            \/ pc[j] = "done" /\ job[j].retryOf # NoJob

\* Readers and operators see a site that is switched from copy to copy.
Phase == IF \E j \in Jobs : pc[j] \in Exposed THEN "switching"
         ELSE IF torn THEN "broken" ELSE "settled"

ActiveVersion == IF active = {} THEN NoJob ELSE CHOOSE v \in active : TRUE

\* What _activate put aside, until the switch is over.
Kept == IF Phase = "switching" THEN previous ELSE Missing

Damaged == {v \in Jobs : release[v] = "damaged"}

Abstract == INSTANCE PublishedSite
    WITH Versions <- Jobs, None <- NoJob, served <- current, kept <- Kept,
         active <- ActiveVersion, damaged <- Damaged, phase <- Phase

\* The publisher, its two stores, its compensations and its crashes implement
\* PublishedSite: readers see a partial copy only where a rollback took it from
\* a release that an interrupted pruning had left damaged.
ImplementsPublishedSite == Abstract!Spec

\* Every switch of the site that begins also ends, if only by being cut short:
\* the window in which readers see nothing closes.
EverySwitchEnds == Abstract!FairSpec

-----------------------------------------------------------------------------
(* What documents and comments say of the publisher, and it does not do.   *)

\* docs/static-publishing-operations.zh-CN.md:75, a failed build does not
\* replace `current`.  Logging, cleaning up or pruning after the commit may
\* fail, and the outer handler then calls the activated release FAILED.
FailedBuildIsNotServed ==
    [][ \A j \in Jobs : Fails(j) /\ ~IsRollback(j) => j \notin active' ]_vars

\* docs/cms-development/05-...md:99, the version rolled back to is not one
\* that failed or is being built.  The form and run_rollback accept every
\* recorded candidate unless PDF grants are on.
RollbackTargetIsSound ==
    [][ \A j \in Jobs : RollsBack(j) => job[Goal(j)].status = "succeeded" ]_vars

\* services.py:163, a retry supersedes the failed publish attempt of the batch
\* that initiated it: once the retry of everything that failed has succeeded,
\* each page the attempt wanted was rendered by it, by its retry, or by a
\* later publish.  The retry starts from the old release, without the pages
\* its source rendered before it failed.
Wanted(k) == IF job[k].requested = {} THEN Pages ELSE job[k].requested

RenderedSince(k, v) ==
    \/ v \in {k} \cup {j \in Jobs : job[j].retryOf = k}
    \/ \E i \in DOMAIN manifests : i > job[k].started /\ manifests[i] = v

RetryPublishesTheAttempt ==
    [][ \A j \in Jobs : \A k \in Jobs :
          /\ Succeeds(j) /\ job[j].retryOf = k
          /\ failed[k] # {} => job[j].requested = failed[k]
          => \A p \in Wanted(k) : RenderedSince(k, content[j][p]) ]_vars

=============================================================================
