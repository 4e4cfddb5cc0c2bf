-------------------------- MODULE CoalescedPublish --------------------------
(***************************************************************************)
(* Automatic publishes after placement changes (static_publish/automatic.py*)
(* and run_coalesced_static_publish): the on-commit hooks of the changes   *)
(* one actor makes share a pending job until its merge window closes, and  *)
(* every hook sends its own delayed message for it.  Web workers, the      *)
(* broker and Celery workers interleave; the row lock on the job and the   *)
(* partial unique index on its coalesce key are all they share.            *)
(*                                                                         *)
(* One actor, hence one coalesce key: jobs with different keys never meet  *)
(* before the publisher, where only the publish lock relates them.         *)
(***************************************************************************)
EXTENDS Naturals, FiniteSets

CONSTANTS
    Changes,    \* placement changes that commit
    Jobs,       \* StaticPublishJob rows of this coalesce key
    NoJob,      \* no job
    MaxFaults   \* bound: processes killed and messages lost

ASSUME NoJobAssumption == NoJob \notin Jobs
ASSUME BoundAssumption == MaxFaults \in Nat

VARIABLES
    hook,      \* where the on-commit hook of a change is
    attempt,   \* its attempts to find or create the job
    target,    \* the job it merged its change into
    job,       \* the rows
    messages,  \* delayed messages of a job, in the broker
    worker,    \* what a worker does with a claimed job
    built,     \* times the publisher has built a job
    orphaned,  \* jobs one of whose messages a fault took
    faults     \* faults so far

hooks == <<hook, attempt, target>>
vars == <<hooks, job, messages, worker, built, orphaned, faults>>

-----------------------------------------------------------------------------

Statuses == {"none", "pending", "running", "succeeded", "failed"}

\* A row: the changes merged into it, and whether scheduled_at has passed.
Row == [status : Statuses, changes : SUBSET Changes, due : BOOLEAN]

NoRow == [status |-> "none", changes |-> {}, due |-> FALSE]

\* The rows `_queue_placement_publish` may lock; the index allows one.
Pending == {j \in Jobs : job[j].status = "pending"}

SetStatus(j, status) == job' = [job EXCEPT ![j].status = status]

Goto(c, stage) == hook' = [hook EXCEPT ![c] = stage]

Init ==
    /\ hook = [c \in Changes |-> "idle"]
    /\ attempt = [c \in Changes |-> 0]
    /\ target = [c \in Changes |-> NoJob]
    /\ job = [j \in Jobs |-> NoRow]
    /\ messages = [j \in Jobs |-> 0]
    /\ worker = [j \in Jobs |-> "none"]
    /\ built = [j \in Jobs |-> 0]
    /\ orphaned = {}
    /\ faults = 0

-----------------------------------------------------------------------------
(* _queue_placement_publish, in the web worker whose transaction committed *)

CommitChange(c) ==
    /\ hook[c] = "idle"
    /\ Goto(c, "look")
    /\ UNCHANGED <<attempt, target, job, messages, worker, built, orphaned,
                   faults>>

\* Mutant of MergeChange: uses the row it read before it had the lock.
MergeChangeStale(c) ==
    /\ hook[c] = "look"
    /\ \E j \in {j \in Jobs : job[j].status \in {"pending", "running"}} :
          /\ job' = [job EXCEPT ![j].changes = @ \cup {c},
                                ![j].due = FALSE]
          /\ target' = [target EXCEPT ![c] = j]
    /\ Goto(c, "notify")
    /\ UNCHANGED <<attempt, messages, worker, built, orphaned, faults>>

\* The row lock makes the reader wait for a claim and read its outcome.  A
\* merge recomputes the paths and moves scheduled_at.
MergeChange(c) ==
    /\ hook[c] = "look"
    /\ \E j \in Pending :
          /\ job' = [job EXCEPT ![j].changes = @ \cup {c},
                                ![j].due = FALSE]
          /\ target' = [target EXCEPT ![c] = j]
    /\ Goto(c, "notify")
    /\ UNCHANGED <<attempt, messages, worker, built, orphaned, faults>>

FindNone(c) ==
    /\ hook[c] = "look"
    /\ Pending = {}
    /\ Goto(c, "create")
    /\ UNCHANGED <<attempt, target, job, messages, worker, built, orphaned,
                   faults>>

CreateJob(c) ==
    /\ hook[c] = "create"
    /\ Pending = {}
    /\ \E j \in Jobs :
          /\ job[j].status = "none"
          /\ job' = [job EXCEPT ![j] = [status |-> "pending",
                                        changes |-> {c}, due |-> FALSE]]
          /\ target' = [target EXCEPT ![c] = j]
    /\ Goto(c, "notify")
    /\ UNCHANGED <<attempt, messages, worker, built, orphaned, faults>>

\* IntegrityError: another hook won the race.  Look once more; a second time
\* the error escapes, and the robust hook drops the change.
CreateConflict(c) ==
    /\ hook[c] = "create"
    /\ Pending # {}
    /\ attempt' = [attempt EXCEPT ![c] = @ + 1]
    /\ Goto(c, IF attempt[c] = 0 THEN "look" ELSE "dropped")
    /\ UNCHANGED <<target, job, messages, worker, built, orphaned, faults>>

Notify(c) ==
    /\ hook[c] = "notify"
    /\ messages' = [messages EXCEPT ![target[c]] = @ + 1]
    /\ Goto(c, "done")
    /\ UNCHANGED <<attempt, target, job, worker, built, orphaned, faults>>

\* The broker refuses: mark_publish_job_queue_failure saves FAILED over
\* whatever the row says by now, other hooks' changes included.
NotifyFails(c) ==
    /\ hook[c] = "notify"
    /\ SetStatus(target[c], "failed")
    /\ Goto(c, "done")
    /\ UNCHANGED <<attempt, target, messages, worker, built, orphaned, faults>>

\* The web worker is killed between its commit and the end of its hook, or the
\* hook fails: nobody runs it again.
HookDies(c) ==
    /\ hook[c] \in {"look", "create", "notify"}
    /\ faults < MaxFaults
    /\ faults' = faults + 1
    /\ orphaned' = IF hook[c] = "notify" THEN orphaned \cup {target[c]}
                                         ELSE orphaned
    /\ Goto(c, "dropped")
    /\ UNCHANGED <<attempt, target, job, messages, worker, built>>

-----------------------------------------------------------------------------
(* run_coalesced_static_publish                                            *)

\* scheduled_at passes.
CloseWindow(j) ==
    /\ job[j].status = "pending" /\ ~job[j].due
    /\ job' = [job EXCEPT ![j].due = TRUE]
    /\ UNCHANGED <<hooks, messages, worker, built, orphaned, faults>>

Consume(j) == messages' = [messages EXCEPT ![j] = @ - 1]

\* A message of a job that is no longer pending.
SkipMessage(j) ==
    /\ messages[j] > 0
    /\ job[j].status # "pending"
    /\ Consume(j)
    /\ UNCHANGED <<hooks, job, worker, built, orphaned, faults>>

\* Mutant of DeferMessage: leaves it to the message of the latest merge.
DeferMessageNever(j) ==
    /\ messages[j] > 0
    /\ job[j].status = "pending" /\ ~job[j].due
    /\ Consume(j)
    /\ UNCHANGED <<hooks, job, worker, built, orphaned, faults>>

\* Too early: the message is sent again for the new scheduled_at.
DeferMessage(j) ==
    /\ messages[j] > 0
    /\ job[j].status = "pending" /\ ~job[j].due
    /\ UNCHANGED vars

\* Mutant of Claim: the check of the status is made without the row lock.
ClaimAgain(j) ==
    /\ messages[j] > 0
    /\ job[j].status \in {"pending", "running"}
    /\ job[j].due
    /\ SetStatus(j, "running")
    /\ worker' = [worker EXCEPT ![j] = "claimed"]
    /\ Consume(j)
    /\ UNCHANGED <<hooks, built, orphaned, faults>>

\* RUNNING is written under the row lock, before the publisher is called.
Claim(j) ==
    /\ messages[j] > 0
    /\ job[j].status = "pending" /\ job[j].due
    /\ SetStatus(j, "running")
    /\ worker' = [worker EXCEPT ![j] = "claimed"]
    /\ Consume(j)
    /\ UNCHANGED <<hooks, built, orphaned, faults>>

\* Mutant of BuildRefused: stores the reason as the status.
BuildRefusedLocked(j) ==
    /\ worker[j] = "claimed"
    /\ IF job[j].status = "running" THEN SetStatus(j, "locked")
                                    ELSE UNCHANGED job
    /\ worker' = [worker EXCEPT ![j] = "none"]
    /\ UNCHANGED <<hooks, messages, built, orphaned, faults>>

\* Mutant of BuildRefused: forgets that the claim left the row RUNNING.
BuildRefusedSilently(j) ==
    /\ worker[j] = "claimed"
    /\ worker' = [worker EXCEPT ![j] = "none"]
    /\ UNCHANGED <<hooks, job, messages, built, orphaned, faults>>

\* The permission recheck or the publish lock refuses the build; a row still
\* RUNNING becomes FAILED.
BuildRefused(j) ==
    /\ worker[j] = "claimed"
    /\ IF job[j].status = "running" THEN SetStatus(j, "failed")
                                    ELSE UNCHANGED job
    /\ worker' = [worker EXCEPT ![j] = "none"]
    /\ UNCHANGED <<hooks, messages, built, orphaned, faults>>

BuildStarts(j) ==
    /\ worker[j] = "claimed"
    /\ SetStatus(j, "running")
    /\ built' = [built EXCEPT ![j] = @ + 1]
    /\ worker' = [worker EXCEPT ![j] = "building"]
    /\ UNCHANGED <<hooks, messages, orphaned, faults>>

\* The publisher's own terminal status; see StaticPublish.
BuildEnds(j) ==
    /\ worker[j] = "building"
    /\ \E status \in {"succeeded", "failed"} : SetStatus(j, status)
    /\ worker' = [worker EXCEPT ![j] = "none"]
    /\ UNCHANGED <<hooks, messages, built, orphaned, faults>>

\* A message is acknowledged before its task runs: it is lost with a worker
\* killed before the claim, or when it cannot be sent again.
LoseMessage(j) ==
    /\ messages[j] > 0
    /\ faults < MaxFaults
    /\ faults' = faults + 1
    /\ orphaned' = orphaned \cup {j}
    /\ Consume(j)
    /\ UNCHANGED <<hooks, job, worker, built>>

\* A worker is killed after the claim.
WorkerDies(j) ==
    /\ worker[j] # "none"
    /\ faults < MaxFaults
    /\ faults' = faults + 1
    /\ orphaned' = orphaned \cup {j}
    /\ worker' = [worker EXCEPT ![j] = "none"]
    /\ UNCHANGED <<hooks, job, messages, built>>

-----------------------------------------------------------------------------

Hook(c) == MergeChange(c) \/ FindNone(c) \/ CreateJob(c) \/ CreateConflict(c)
              \/ Notify(c) \/ NotifyFails(c)

Task(j) == SkipMessage(j) \/ Claim(j)

Work(j) == BuildRefused(j) \/ BuildStarts(j) \/ BuildEnds(j)

Next ==
    \/ \E c \in Changes : CommitChange(c) \/ Hook(c) \/ HookDies(c)
    \/ \E j \in Jobs : CloseWindow(j) \/ Task(j) \/ DeferMessage(j) \/ Work(j)
                           \/ LoseMessage(j) \/ WorkerDies(j)

Spec == Init /\ [][Next]_vars

\* A process that is not killed goes on, the broker delivers a message whose
\* time has come, and time passes.
FairSpec ==
    /\ Spec
    /\ \A c \in Changes : WF_vars(Hook(c))
    /\ \A j \in Jobs : WF_vars(CloseWindow(j)) /\ WF_vars(Task(j))
                           /\ WF_vars(Work(j))

-----------------------------------------------------------------------------

\* The types of the variables.
TypeOK ==
    /\ hook \in [Changes -> {"idle", "look", "create", "notify", "done",
                             "dropped"}]
    /\ attempt \in [Changes -> 0 .. 2]
    /\ target \in [Changes -> Jobs \cup {NoJob}]
    /\ job \in [Jobs -> Row]
    /\ messages \in [Jobs -> Nat]
    /\ worker \in [Jobs -> {"none", "claimed", "building"}]
    /\ built \in [Jobs -> Nat]
    /\ orphaned \in SUBSET Jobs
    /\ faults \in Nat

\* A pending job never waits in vain: a message for it is in the broker, or a
\* hook is about to send one, whatever was merged, deferred or skipped; only a
\* fault that takes a message breaks this.
PendingIsScheduled ==
    \A j \in Pending \ orphaned :
        \/ messages[j] > 0
        \/ \E c \in Changes : hook[c] = "notify" /\ target[c] = j

\* static-publishing-operations.zh-CN.md:165: old delayed messages give way,
\* so that one batch is built only once, however many messages its merges and
\* deferrals have left in the broker.
BuiltOnce == \A j \in Jobs : built[j] <= 1

\* A job that has left PENDING is closed: no later change is merged into a
\* batch whose paths the worker has already read, and a change that a hook
\* merged is in that batch.
ClaimedBatchIsClosed ==
    [][ /\ \A j \in Jobs : job[j].status \notin {"none", "pending"} =>
                               job'[j].changes = job[j].changes
        /\ \A c \in Changes : hook'[c] = "notify" =>
               target'[c] \in Jobs /\ c \in job'[target'[c]].changes ]_vars

\* Every change is reported: unless its hook was dropped or a fault hit its
\* job, the job that holds it reaches a terminal status.
EveryChangeSettles ==
    \A c \in Changes :
        hook[c] = "look" ~>
            \/ hook[c] = "dropped"
            \/ target[c] # NoJob
               /\ \/ job[target[c]].status \in {"succeeded", "failed"}
                  \/ target[c] \in orphaned

=============================================================================
