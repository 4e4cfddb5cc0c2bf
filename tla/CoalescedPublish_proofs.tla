----------------------- MODULE CoalescedPublish_proofs -----------------------
(***************************************************************************)
(* Proofs about CoalescedPublish for any number of changes, jobs, merges   *)
(* and faults.  That a batch is built once needs the claim: a row that has *)
(* left PENDING never returns to it, so no second message can claim it.    *)
(* That a pending job is scheduled and that a claimed batch is closed need *)
(* what a hook about to send its message knows of the job it merged into.  *)
(***************************************************************************)
EXTENDS CoalescedPublish, TLAPS

\* A hook tries at most twice, and one about to notify has a job.
HookOK ==
    \A c \in Changes :
        /\ hook[c] \in {"idle", "look", "create"} => attempt[c] \in 0 .. 1
        /\ hook[c] = "notify" => target[c] \in Jobs

\* Before the claim nobody works on a job; before the build starts it has
\* never been built.
ClaimOK ==
    \A j \in Jobs :
        /\ job[j].status \in {"none", "pending"} =>
               worker[j] = "none" /\ built[j] = 0
        /\ worker[j] = "claimed" => built[j] = 0

IInv == TypeOK /\ HookOK /\ ClaimOK /\ BuiltOnce

\* A hook about to notify has merged its change into a row that exists.
MergedOK ==
    \A c \in Changes :
        hook[c] = "notify" => /\ target[c] \in Jobs
                              /\ job[target[c]].status # "none"
                              /\ c \in job[target[c]].changes

Scheduled == MergedOK /\ PendingIsScheduled

\* A row that has left PENDING keeps its changes.
Closed ==
    \A j \in Jobs : job[j].status \notin {"none", "pending"} =>
                       job'[j].changes = job[j].changes

-----------------------------------------------------------------------------

\* Changing one row's status to a status keeps the rows' type and its changes.
LEMMA SetStatusType ==
    ASSUME TypeOK, NEW j \in Jobs, NEW status \in Statuses, SetStatus(j, status)
    PROVE  /\ job' \in [Jobs -> Row]
           /\ job'[j].status = status
           /\ \A k \in Jobs : job'[k].changes = job[k].changes
           /\ \A k \in Jobs : k # j => job'[k] = job[k]
  BY DEF SetStatus, TypeOK, Row

\* The invariant holds initially.
LEMMA IInvInit == Init => IInv
  <1> SUFFICES ASSUME Init PROVE IInv
    OBVIOUS
  <1> USE DEF Init
  <1>1. job \in [Jobs -> Row]
    BY DEF Row, NoRow, Statuses
  <1>2. TypeOK
    BY <1>1, BoundAssumption DEF TypeOK
  <1>3. HookOK /\ ClaimOK /\ BuiltOnce
    BY DEF HookOK, ClaimOK, BuiltOnce, NoRow
  <1> QED BY <1>2, <1>3 DEF IInv

\* A step of a hook keeps the invariant.
LEMMA HookKeeps ==
    ASSUME IInv, NEW c \in Changes,
           CommitChange(c) \/ Hook(c) \/ HookDies(c)
    PROVE  IInv'
  <1> USE DEF IInv
  <1>1. CASE CommitChange(c)
    BY <1>1 DEF CommitChange, Goto, TypeOK, HookOK, ClaimOK, BuiltOnce
  <1>2. CASE MergeChange(c)
    <2>1. PICK j \in Jobs :
            /\ job[j].status = "pending"
            /\ job' = [job EXCEPT ![j].changes = @ \cup {c}, ![j].due = FALSE]
            /\ target' = [target EXCEPT ![c] = j]
      BY <1>2 DEF MergeChange, Pending
    <2>2. job' \in [Jobs -> Row]
      BY <2>1 DEF TypeOK, Row
    <2>3. \A k \in Jobs : job'[k].status = job[k].status
      BY <2>1 DEF TypeOK, Row
    <2>4. TypeOK'
      BY <1>2, <2>1, <2>2 DEF MergeChange, Goto, TypeOK
    <2>5. HookOK'
      BY <1>2, <2>1 DEF MergeChange, Goto, TypeOK, HookOK
    <2> QED BY <1>2, <2>3, <2>4, <2>5 DEF MergeChange, ClaimOK, BuiltOnce
  <1>3. CASE FindNone(c)
    BY <1>3 DEF FindNone, Goto, TypeOK, HookOK, ClaimOK, BuiltOnce
  <1>4. CASE CreateJob(c)
    <2>1. PICK j \in Jobs :
            /\ job[j].status = "none"
            /\ job' = [job EXCEPT ![j] = [status |-> "pending",
                                          changes |-> {c}, due |-> FALSE]]
            /\ target' = [target EXCEPT ![c] = j]
      BY <1>4 DEF CreateJob
    <2>2. job' \in [Jobs -> Row]
      BY <2>1 DEF TypeOK, Row, Statuses
    <2>3. TypeOK'
      BY <1>4, <2>1, <2>2 DEF CreateJob, Goto, TypeOK
    <2>4. HookOK'
      BY <1>4, <2>1 DEF CreateJob, Goto, TypeOK, HookOK
    <2>5. ClaimOK'
      BY <1>4, <2>1 DEF CreateJob, TypeOK, ClaimOK
    <2> QED BY <1>4, <2>3, <2>4, <2>5 DEF CreateJob, BuiltOnce
  <1>5. CASE CreateConflict(c)
    <2>1. attempt[c] \in 0 .. 1
      BY <1>5 DEF CreateConflict, HookOK
    <2> QED BY <1>5, <2>1 DEF CreateConflict, Goto, TypeOK, HookOK, ClaimOK,
                              BuiltOnce
  <1>6. CASE Notify(c)
    <2>1. target[c] \in Jobs
      BY <1>6 DEF Notify, HookOK
    <2> QED BY <1>6, <2>1 DEF Notify, Goto, TypeOK, HookOK, ClaimOK, BuiltOnce
  <1>7. CASE NotifyFails(c)
    <2>1. target[c] \in Jobs /\ SetStatus(target[c], "failed")
      BY <1>7 DEF NotifyFails, HookOK
    <2>2. TypeOK' /\ HookOK'
      BY <1>7, <2>1, SetStatusType
         DEF NotifyFails, Goto, TypeOK, HookOK, Statuses
    <2>3. ClaimOK'
      BY <1>7, <2>1, SetStatusType DEF NotifyFails, ClaimOK, Statuses
    <2> QED BY <1>7, <2>2, <2>3 DEF NotifyFails, BuiltOnce
  <1>8. CASE HookDies(c)
    BY <1>8 DEF HookDies, Goto, TypeOK, HookOK, ClaimOK, BuiltOnce
  <1> QED BY <1>1, <1>2, <1>3, <1>4, <1>5, <1>6, <1>7, <1>8 DEF Hook

\* A step of a task or of its messages keeps the invariant.
LEMMA TaskKeeps ==
    ASSUME IInv, NEW j \in Jobs,
           CloseWindow(j) \/ Task(j) \/ DeferMessage(j) \/ Work(j)
               \/ LoseMessage(j) \/ WorkerDies(j)
    PROVE  IInv'
  <1> USE DEF IInv
  <1>1. CASE CloseWindow(j)
    <2>1. job' \in [Jobs -> Row] /\ \A k \in Jobs : job'[k].status = job[k].status
      BY <1>1 DEF CloseWindow, TypeOK, Row
    <2> QED BY <1>1, <2>1 DEF CloseWindow, hooks, TypeOK, HookOK, ClaimOK,
                              BuiltOnce
  <1>2. CASE SkipMessage(j)
    BY <1>2 DEF SkipMessage, Consume, hooks, TypeOK, HookOK, ClaimOK, BuiltOnce
  <1>3. CASE Claim(j)
    <2>1. SetStatus(j, "running") /\ built[j] = 0
      BY <1>3 DEF Claim, ClaimOK
    <2>2. TypeOK' /\ HookOK'
      BY <1>3, <2>1, SetStatusType
         DEF Claim, Consume, hooks, TypeOK, HookOK, Statuses
    <2>3. ClaimOK'
      BY <1>3, <2>1, SetStatusType DEF Claim, TypeOK, ClaimOK, Statuses
    <2> QED BY <1>3, <2>2, <2>3 DEF Claim, BuiltOnce
  <1>4. CASE DeferMessage(j)
    BY <1>4 DEF DeferMessage, vars, hooks, TypeOK, HookOK, ClaimOK, BuiltOnce
  <1>5. CASE BuildRefused(j)
    <2>1. /\ job' \in [Jobs -> Row]
          /\ \A k \in Jobs : job'[k].status \in {"none", "pending"} =>
                                 job'[k].status = job[k].status
      BY <1>5, SetStatusType DEF BuildRefused, TypeOK, Statuses
    <2> QED BY <1>5, <2>1 DEF BuildRefused, hooks, TypeOK, HookOK, ClaimOK,
                              BuiltOnce
  <1>6. CASE BuildStarts(j)
    <2>1. SetStatus(j, "running") /\ built[j] = 0
      BY <1>6 DEF BuildStarts, ClaimOK
    <2>2. TypeOK' /\ HookOK'
      BY <1>6, <2>1, SetStatusType
         DEF BuildStarts, hooks, TypeOK, HookOK, Statuses
    <2>3. ClaimOK'
      BY <1>6, <2>1, SetStatusType DEF BuildStarts, TypeOK, ClaimOK, Statuses
    <2> QED BY <1>6, <2>1, <2>2, <2>3 DEF BuildStarts, TypeOK, BuiltOnce
  <1>7. CASE BuildEnds(j)
    <2>1. PICK status \in {"succeeded", "failed"} : SetStatus(j, status)
      BY <1>7 DEF BuildEnds
    <2>2. TypeOK' /\ HookOK'
      BY <1>7, <2>1, SetStatusType
         DEF BuildEnds, hooks, TypeOK, HookOK, Statuses
    <2>3. ClaimOK'
      BY <1>7, <2>1, SetStatusType DEF BuildEnds, TypeOK, ClaimOK, Statuses
    <2> QED BY <1>7, <2>2, <2>3 DEF BuildEnds, BuiltOnce
  <1>8. CASE LoseMessage(j)
    BY <1>8 DEF LoseMessage, Consume, hooks, TypeOK, HookOK, ClaimOK, BuiltOnce
  <1>9. CASE WorkerDies(j)
    BY <1>9 DEF WorkerDies, hooks, TypeOK, HookOK, ClaimOK, BuiltOnce
  <1> QED BY <1>1, <1>2, <1>3, <1>4, <1>5, <1>6, <1>7, <1>8, <1>9
          DEF Task, Work

\* The invariant is inductive.
LEMMA IInvNext == IInv /\ [Next]_vars => IInv'
  <1>1. IInv /\ UNCHANGED vars => IInv'
    BY DEF IInv, vars, hooks, TypeOK, HookOK, ClaimOK, BuiltOnce
  <1> QED BY <1>1, HookKeeps, TaskKeeps DEF Next

-----------------------------------------------------------------------------
(* Pending jobs are scheduled, and claimed ones are closed.                *)

\* A status is written that is neither none nor pending, no message and no
\* other hook is touched.
LEMMA StatusSchedules ==
    ASSUME IInv, Scheduled, NEW j \in Jobs,
           NEW status \in Statuses \ {"none", "pending"},
           SetStatus(j, status), target' = target, orphaned' = orphaned,
           \A k \in Jobs : k # j => messages'[k] = messages[k],
           \A c \in Changes : hook'[c] = "notify" => hook[c] = "notify",
           \A c \in Changes : hook[c] = "notify" /\ hook'[c] # "notify" =>
                                  target[c] = j
    PROVE  Scheduled' /\ Closed
  <1>1. /\ job'[j].status = status
        /\ \A k \in Jobs : job'[k].changes = job[k].changes
        /\ \A k \in Jobs : k # j => job'[k] = job[k]
    BY SetStatusType DEF IInv
  <1>2. MergedOK'
    BY <1>1 DEF Scheduled, MergedOK
  <1>3. PendingIsScheduled'
    BY <1>1 DEF Scheduled, PendingIsScheduled, Pending
  <1> QED BY <1>1, <1>2, <1>3 DEF Scheduled, Closed

\* A merge, or the row of a new job, announces a message.
LEMMA HookSchedules ==
    ASSUME IInv, Scheduled, NEW c \in Changes,
           CommitChange(c) \/ Hook(c) \/ HookDies(c)
    PROVE  Scheduled' /\ Closed
  <1> USE DEF IInv
  <1>1. CASE CommitChange(c) \/ FindNone(c) \/ CreateConflict(c)
    BY <1>1 DEF CommitChange, FindNone, CreateConflict, Goto, TypeOK,
                Scheduled, MergedOK, PendingIsScheduled, Pending, Closed
  <1>2. CASE MergeChange(c)
    <2>1. PICK j \in Jobs :
            /\ job[j].status = "pending"
            /\ job' = [job EXCEPT ![j].changes = @ \cup {c}, ![j].due = FALSE]
            /\ target' = [target EXCEPT ![c] = j]
      BY <1>2 DEF MergeChange, Pending
    <2>2. /\ hook' = [hook EXCEPT ![c] = "notify"] /\ hook[c] = "look"
          /\ messages' = messages /\ orphaned' = orphaned
      BY <1>2 DEF MergeChange, Goto
    <2>3. /\ \A k \in Jobs : job'[k].status = job[k].status
          /\ \A k \in Jobs, d \in Changes :
                 d \in job[k].changes => d \in job'[k].changes
          /\ \A k \in Jobs : k # j => job'[k] = job[k]
          /\ j \in Jobs /\ job[j].status = "pending"
          /\ c \in job'[j].changes
      BY <2>1 DEF TypeOK, Row
    <2>4. /\ hook'[c] = "notify" /\ target'[c] = j
          /\ \A d \in Changes : d # c =>
                 hook'[d] = hook[d] /\ target'[d] = target[d]
      BY <2>1, <2>2 DEF TypeOK
    <2>5. MergedOK'
      BY <2>3, <2>4 DEF Scheduled, MergedOK
    <2>6. PendingIsScheduled'
      BY <2>2, <2>3, <2>4 DEF Scheduled, PendingIsScheduled, Pending
    <2> QED BY <2>1, <2>3, <2>5, <2>6 DEF Scheduled, Closed
  <1>3. CASE CreateJob(c)
    <2>1. PICK j \in Jobs :
            /\ job[j].status = "none"
            /\ job' = [job EXCEPT ![j] = [status |-> "pending",
                                          changes |-> {c}, due |-> FALSE]]
            /\ target' = [target EXCEPT ![c] = j]
      BY <1>3 DEF CreateJob
    <2>2. /\ hook' = [hook EXCEPT ![c] = "notify"] /\ hook[c] = "create"
          /\ messages' = messages /\ orphaned' = orphaned
      BY <1>3 DEF CreateJob, Goto
    <2>3. /\ \A k \in Jobs : k # j => job'[k] = job[k]
          /\ job'[j].status = "pending" /\ c \in job'[j].changes
      BY <2>1 DEF TypeOK
    <2>4. /\ hook'[c] = "notify" /\ target'[c] = j
          /\ \A d \in Changes : d # c =>
                 hook'[d] = hook[d] /\ target'[d] = target[d]
      BY <2>1, <2>2 DEF TypeOK
    <2>5. MergedOK'
      BY <2>1, <2>3, <2>4 DEF Scheduled, MergedOK
    <2>6. PendingIsScheduled'
      BY <2>1, <2>2, <2>3, <2>4 DEF Scheduled, PendingIsScheduled, Pending
    <2> QED BY <2>1, <2>3, <2>5, <2>6 DEF Scheduled, Closed
  <1>4. CASE Notify(c)
    <2>1. /\ hook[c] = "notify" /\ hook' = [hook EXCEPT ![c] = "done"]
          /\ messages' = [messages EXCEPT ![target[c]] = @ + 1]
          /\ target[c] \in Jobs
          /\ UNCHANGED <<job, target, orphaned>>
      BY <1>4 DEF Notify, Goto, HookOK
    <2>2. /\ messages'[target[c]] > 0
          /\ \A k \in Jobs : messages[k] > 0 => messages'[k] > 0
          /\ \A d \in Changes : d # c => hook'[d] = hook[d]
          /\ \A d \in Changes : hook'[d] = "notify" => hook[d] = "notify"
      BY <2>1 DEF TypeOK
    <2>3. MergedOK' /\ Closed
      BY <2>1, <2>2 DEF Scheduled, MergedOK, Closed
    <2>4. PendingIsScheduled'
      BY <2>1, <2>2 DEF Scheduled, PendingIsScheduled, Pending
    <2> QED BY <2>3, <2>4 DEF Scheduled
  <1>5. CASE NotifyFails(c)
    <2>1. /\ target[c] \in Jobs /\ SetStatus(target[c], "failed")
          /\ \A d \in Changes : d # c => hook'[d] = hook[d]
          /\ hook'[c] # "notify"
          /\ UNCHANGED <<target, orphaned, messages>>
      BY <1>5 DEF NotifyFails, Goto, HookOK, TypeOK
    <2> QED BY <2>1, StatusSchedules DEF Statuses
  <1>6. CASE HookDies(c)
    <2>1. /\ hook' = [hook EXCEPT ![c] = "dropped"]
          /\ orphaned' = IF hook[c] = "notify" THEN orphaned \cup {target[c]}
                                               ELSE orphaned
          /\ UNCHANGED <<target, job, messages>>
      BY <1>6 DEF HookDies, Goto
    <2>2. /\ \A d \in Changes : d # c => hook'[d] = hook[d]
          /\ \A d \in Changes : hook'[d] = "notify" => hook[d] = "notify"
      BY <2>1 DEF TypeOK
    <2> QED BY <2>1, <2>2 DEF Scheduled, MergedOK, PendingIsScheduled, Pending,
                              Closed
  <1> QED BY <1>1, <1>2, <1>3, <1>4, <1>5, <1>6 DEF Hook

\* A message is consumed only of a job that is not pending, or by a fault.
LEMMA TaskSchedules ==
    ASSUME IInv, Scheduled, NEW j \in Jobs,
           CloseWindow(j) \/ Task(j) \/ DeferMessage(j) \/ Work(j)
               \/ LoseMessage(j) \/ WorkerDies(j)
    PROVE  Scheduled' /\ Closed
  <1> USE DEF IInv
  <1>1. CASE CloseWindow(j)
    <2>1. /\ job' = [job EXCEPT ![j].due = TRUE]
          /\ UNCHANGED <<hook, target, messages, orphaned>>
      BY <1>1 DEF CloseWindow, hooks
    <2>2. \A k \in Jobs : /\ job'[k].status = job[k].status
                          /\ job'[k].changes = job[k].changes
      BY <2>1 DEF TypeOK, Row
    <2> QED BY <2>1, <2>2 DEF Scheduled, MergedOK, PendingIsScheduled, Pending,
                              Closed
  <1>2. CASE SkipMessage(j)
    <2>1. /\ job[j].status # "pending"
          /\ UNCHANGED <<hook, target, job, orphaned>>
          /\ \A k \in Jobs : k # j => messages'[k] = messages[k]
      BY <1>2 DEF SkipMessage, Consume, hooks, TypeOK
    <2> QED BY <2>1 DEF Scheduled, MergedOK, PendingIsScheduled, Pending, Closed
  <1>3. CASE Claim(j)
    <2>1. /\ SetStatus(j, "running")
          /\ UNCHANGED <<hook, target, orphaned>>
          /\ \A k \in Jobs : k # j => messages'[k] = messages[k]
      BY <1>3 DEF Claim, Consume, hooks, TypeOK
    <2> QED BY <2>1, StatusSchedules DEF Statuses
  <1>4. CASE DeferMessage(j) \/ WorkerDies(j)
    <2>1. /\ UNCHANGED <<hook, target, job, messages>>
          /\ orphaned \subseteq orphaned'
      BY <1>4 DEF DeferMessage, WorkerDies, vars, hooks
    <2> QED BY <2>1 DEF Scheduled, MergedOK, PendingIsScheduled, Pending, Closed
  <1>5. CASE Work(j)
    <2>1. UNCHANGED <<hook, target, messages, orphaned>>
      BY <1>5 DEF Work, BuildRefused, BuildStarts, BuildEnds, hooks
    <2>2. \/ job' = job
          \/ \E s \in {"running", "succeeded", "failed"} : SetStatus(j, s)
      BY <1>5 DEF Work, BuildRefused, BuildStarts, BuildEnds
    <2>3. CASE job' = job
      BY <2>1, <2>3 DEF Scheduled, MergedOK, PendingIsScheduled, Pending, Closed
    <2>4. CASE \E s \in {"running", "succeeded", "failed"} : SetStatus(j, s)
      <3>1. PICK s \in {"running", "succeeded", "failed"} : SetStatus(j, s)
        BY <2>4
      <3> QED BY <2>1, <3>1, StatusSchedules DEF Statuses
    <2> QED BY <2>2, <2>3, <2>4
  <1>6. CASE LoseMessage(j)
    <2>1. /\ orphaned' = orphaned \cup {j}
          /\ UNCHANGED <<hook, target, job>>
          /\ \A k \in Jobs : k # j => messages'[k] = messages[k]
      BY <1>6 DEF LoseMessage, Consume, hooks, TypeOK
    <2> QED BY <2>1 DEF Scheduled, MergedOK, PendingIsScheduled, Pending, Closed
  <1> QED BY <1>1, <1>2, <1>3, <1>4, <1>5, <1>6 DEF Task

\* Both invariants together are inductive.
LEMMA ScheduledNext ==
    IInv /\ Scheduled /\ [Next]_vars => Scheduled' /\ Closed
  <1>1. Scheduled /\ UNCHANGED vars => Scheduled' /\ Closed
    BY DEF vars, hooks, Scheduled, MergedOK, PendingIsScheduled, Pending, Closed
  <1> QED BY <1>1, HookSchedules, TaskSchedules DEF Next

\* Initially no job is pending and no hook runs.
LEMMA ScheduledInit == Init => Scheduled
  BY DEF Init, Scheduled, MergedOK, PendingIsScheduled, Pending, NoRow

-----------------------------------------------------------------------------

\* Every reachable state is well typed.
THEOREM TypeCorrect == Spec => []TypeOK
  <1>1. IInv => TypeOK
    BY DEF IInv
  <1> QED BY <1>1, IInvInit, IInvNext, PTL DEF Spec

\* However many messages merges, deferrals and races leave in the broker, the
\* publisher builds a batch at most once.
THEOREM BuiltOnceCorrect == Spec => []BuiltOnce
  <1>1. IInv => BuiltOnce
    BY DEF IInv
  <1> QED BY <1>1, IInvInit, IInvNext, PTL DEF Spec

\* A pending job has a message in the broker or a hook that is about to send
\* one, for any number of merges, unless a fault took one of its messages.
THEOREM PendingIsScheduledCorrect == Spec => []PendingIsScheduled
  <1>1. Scheduled => PendingIsScheduled
    BY DEF Scheduled
  <1> QED BY <1>1, IInvInit, IInvNext, ScheduledInit, ScheduledNext, PTL
          DEF Spec

\* No change is merged into a batch that a worker has claimed, and a hook that
\* goes to notify has merged its change.
THEOREM ClaimedBatchIsClosedCorrect == Spec => ClaimedBatchIsClosed
  <1> DEFINE Kept ==
        /\ \A j \in Jobs : job[j].status \notin {"none", "pending"} =>
                               job'[j].changes = job[j].changes
        /\ \A c \in Changes : hook'[c] = "notify" =>
               target'[c] \in Jobs /\ c \in job'[target'[c]].changes
  <1>1. IInv /\ Scheduled /\ [Next]_vars => [Kept]_vars
    <2> SUFFICES ASSUME IInv, Scheduled, [Next]_vars PROVE Kept
      OBVIOUS
    <2>1. Scheduled' /\ Closed
      BY ScheduledNext
    <2> QED BY <2>1 DEF Scheduled, MergedOK, Closed
  <1> QED BY <1>1, IInvInit, IInvNext, ScheduledInit, ScheduledNext, PTL
          DEF Spec, ClaimedBatchIsClosed

=============================================================================
