-------------------------- MODULE CommentModeration --------------------------
(***************************************************************************)
(* One reader's comment and the moderators' commands about it.             *)
(*                                                                         *)
(* A command is a row of the default database (reader_access/moderation.py)*)
(* and takes effect in the interactions database, where the author also    *)
(* withdraws and readers report (reader_interactions/comments.py).  The    *)
(* task that applies a command reads it, commits in the one database and   *)
(* only then notes the outcome in the other, without looking again; it is  *)
(* retried from the start, killed, or overtaken by the reconciliation.     *)
(*                                                                         *)
(* Left out: replies, whose creation also wants a published parent, the    *)
(* snapshots (CommentSnapshots), rate limits, and repeated requests with   *)
(* an idempotency key, which return the first result under the reader's    *)
(* row.  Whether comments are open is CapabilityProjection's matter.       *)
(***************************************************************************)
EXTENDS Naturals, Absent

CONSTANTS
    Commands,        \* moderation commands
    MaxVersion,      \* bound: changes of the comment
    MaxModerationFaults  \* bound: failures and kills

ASSUME ModerationAssumption ==
    /\ None \notin Commands
    /\ MaxVersion \in Nat \ {0} /\ MaxModerationFaults \in Nat

VARIABLES
    comment,       \* the Comment row
    report,        \* a reader's CommentReport of it
    history,       \* CommentModerationEvent rows
    command,       \* the ModerationCommand rows
    task,          \* where apply_moderation_command is for each command
    reconciling,   \* commands a reconciliation has listed
    mishaps        \* failures and kills so far

moderationVars ==
    <<comment, report, history, command, task, reconciling, mishaps>>

-----------------------------------------------------------------------------

Actions == {"approve", "reject", "hide", "restore", "spam"}

CommentStates == {"none", "pending", "published", "hidden", "rejected",
                  "spam", "withdrawn"}

Reports == {"none", "open", "resolved", "dismissed"}

CommandStatuses == {"pending", "applied", "failed", "unknown"}

CommandRows == [action : Actions, expected : 1..MaxVersion,
                status : CommandStatuses]

ASSUME CommandAssumption == None \notin CommandRows

\* "stale", "error" and "done" are what is to be noted in the command.
Stages == {"idle", "queued", "loaded", "stale", "error", "done", "lost"}

\* `version` is that of the comment with the change, `by` the command.
ModerationEvents == [version : 1..MaxVersion, from : CommentStates,
                     to : CommentStates, by : Commands \cup {None}]

\* _TRANSITIONS
Transitions ==
    {<<"approve", "pending", "published">>, <<"reject", "pending", "rejected">>,
     <<"hide", "pending", "hidden">>, <<"hide", "published", "hidden">>,
     <<"restore", "hidden", "published">>}
    \cup ({"spam"} \X {"pending", "published", "hidden"} \X {"spam"})

HasEvent(k) == \E e \in history : e.by = k

ModerationInit ==
    /\ comment = [state |-> "none", version |-> 0]
    /\ report = "none"
    /\ history = {}
    /\ command = [k \in Commands |-> None]
    /\ task = [k \in Commands |-> "idle"]
    /\ reconciling = {}
    /\ mishaps = 0

Mishap == mishaps < MaxModerationFaults /\ mishaps' = mishaps + 1

\* A change of the comment with its event.
ChangeComment(state, by) ==
    /\ comment.version < MaxVersion
    /\ comment' = [state |-> state, version |-> comment.version + 1]
    /\ history' = history \cup
           {[version |-> comment.version + 1, from |-> comment.state,
             to |-> state, by |-> by]}

-----------------------------------------------------------------------------
(* Readers: comments.py                                                    *)

\* create_comment: the risk assessment decides.
CreateComment ==
    /\ comment.state = "none"
    /\ \E s \in {"pending", "published"} : ChangeComment(s, None)
    /\ UNCHANGED <<report, command, task, reconciling, mishaps>>

\* withdraw_comment, from a page that shows the version it has.
WithdrawComment ==
    /\ comment.state \in {"published", "hidden"}
    /\ ChangeComment("withdrawn", None)
    /\ UNCHANGED <<report, command, task, reconciling, mishaps>>

\* report_comment: one open report at a time.
ReportComment ==
    /\ comment.state = "published"
    /\ report # "open"
    /\ report' = "open"
    /\ UNCHANGED <<comment, history, command, task, reconciling, mishaps>>

-----------------------------------------------------------------------------
(* Moderators: moderation.py                                               *)

\* create_moderation_command, from a page that may be old.  on_commit queues
\* the task; a broker that fails then leaves the command pending.
CreateCommand(k) ==
    /\ command[k] = None
    /\ \E a \in Actions, v \in 1..comment.version :
          command' = [command EXCEPT ![k] = [action |-> a, expected |-> v,
                                             status |-> "pending"]]
    /\ \/ task' = [task EXCEPT ![k] = "queued"] /\ UNCHANGED mishaps
       \/ task' = [task EXCEPT ![k] = "lost"] /\ Mishap
    /\ UNCHANGED <<comment, report, history, reconciling>>

\* apply_moderation_command reads the command without a lock.
LoadCommand(k) ==
    /\ task[k] = "queued"
    /\ task' = [task EXCEPT ![k] =
                    IF command[k].status = "applied" THEN "idle" ELSE "loaded"]
    /\ UNCHANGED <<comment, report, history, command, reconciling, mishaps>>

\* Mutant of Current: the version is not compared.
CurrentAny(k) == TRUE

Current(k) == comment.version = command[k].expected

\* Mutant of Reported: spam is forgotten.
ReportedKept(action) ==
    IF report = "open" /\ action \in {"hide", "reject"} THEN "resolved"
    ELSE report

Reported(action) ==
    IF report # "open" THEN report
    ELSE IF action \in {"hide", "reject", "spam"} THEN "resolved"
    ELSE "dismissed"

\* _apply_interaction_command, under the comment's row.
Take(k, stage) ==
    /\ Current(k)
    /\ \E t \in Transitions : /\ t[1] = command[k].action
                              /\ t[2] = comment.state
                              /\ ChangeComment(t[3], k)
    /\ report' = Reported(command[k].action)
    /\ task' = [task EXCEPT ![k] = stage]

Allowed(k) == \E t \in Transitions : /\ t[1] = command[k].action
                                    /\ t[2] = comment.state

ApplyCommand(k) ==
    /\ task[k] = "loaded"
    /\ \/ Take(k, "done")
       \/ /\ ~Current(k)
          /\ task' = [task EXCEPT ![k] = "stale"]
          /\ UNCHANGED <<comment, report, history>>
       \/ /\ Current(k) /\ ~Allowed(k)
          /\ task' = [task EXCEPT ![k] = "error"]
          /\ UNCHANGED <<comment, report, history>>
    /\ UNCHANGED <<command, reconciling, mishaps>>

\* The interactions database fails: before the commit, or after it but before
\* the answer.
ApplyFails(k) ==
    /\ task[k] = "loaded"
    /\ Mishap
    /\ \/ Take(k, "error")
       \/ /\ task' = [task EXCEPT ![k] = "error"]
          /\ UNCHANGED <<comment, report, history>>
    /\ UNCHANGED <<command, reconciling>>

\* Mutant of Outcome: a command that cannot be applied any more has been.
OutcomeApplied(stage) == IF stage = "error" THEN "unknown" ELSE "applied"

\* Mutant of Outcome: a stale command is left to the reconciliation.
OutcomePending(stage) == CASE stage = "done"  -> "applied"
                           [] stage = "stale" -> "pending"
                           [] stage = "error" -> "unknown"

Outcome(stage) == CASE stage = "done"  -> "applied"
                    [] stage = "stale" -> "failed"
                    [] stage = "error" -> "unknown"

\* _finish_command overwrites whatever is there.
FinishCommand(k) ==
    /\ task[k] \in {"stale", "error", "done"}
    /\ command' = [command EXCEPT ![k].status = Outcome(task[k])]
    /\ task' = [task EXCEPT ![k] = "idle"]
    /\ UNCHANGED <<comment, report, history, reconciling, mishaps>>

\* The default database fails, or the audit after the outcome is noted: the
\* task is retried from the start.
FinishFails(k) ==
    /\ task[k] \in {"stale", "error", "done"}
    /\ Mishap
    /\ \/ UNCHANGED command
       \/ command' = [command EXCEPT ![k].status = Outcome(task[k])]
    /\ task' = [task EXCEPT ![k] = "queued"]
    /\ UNCHANGED <<comment, report, history, reconciling>>

\* The worker is killed; its message was acknowledged when it was taken.
KillTask(k) ==
    /\ task[k] \in {"queued", "loaded", "stale", "error", "done"}
    /\ Mishap
    /\ task' = [task EXCEPT ![k] = "lost"]
    /\ UNCHANGED <<comment, report, history, command, reconciling>>

\* reconcile_moderation_commands lists first and looks for events then.
ListUnfinished ==
    /\ reconciling = {}
    /\ reconciling' = {k \in Commands :
                           /\ command[k] # None
                           /\ command[k].status \in {"pending", "unknown"}}
    /\ UNCHANGED <<comment, report, history, command, task, mishaps>>

\* Mutant of ReconciledStatus: what was listed is taken to have been applied.
ReconciledBlindly(k) == "applied"

ReconciledStatus(k) == IF HasEvent(k) THEN "applied" ELSE command[k].status

ReconcileCommand(k) ==
    /\ k \in reconciling
    /\ reconciling' = reconciling \ {k}
    /\ command' = [command EXCEPT ![k].status = ReconciledStatus(k)]
    /\ UNCHANGED <<comment, report, history, task, mishaps>>

-----------------------------------------------------------------------------

ModerationNext ==
    \/ CreateComment \/ WithdrawComment \/ ReportComment
    \/ \E k \in Commands :
          \/ CreateCommand(k) \/ LoadCommand(k)
          \/ ApplyCommand(k) \/ ApplyFails(k)
          \/ FinishCommand(k) \/ FinishFails(k) \/ KillTask(k)
    \/ ListUnfinished
    \/ \E k \in Commands : ReconcileCommand(k)

\* A queued task is run to its end by some worker.
ModerationFairness ==
    \A k \in Commands :
        WF_moderationVars(LoadCommand(k) \/ ApplyCommand(k) \/ FinishCommand(k))

ModerationSpec ==
    ModerationInit /\ [][ModerationNext]_moderationVars /\ ModerationFairness

-----------------------------------------------------------------------------
(* Properties                                                              *)

ModerationTypeOK ==
    /\ comment \in [state : CommentStates, version : 0..MaxVersion]
    /\ report \in Reports
    /\ history \subseteq ModerationEvents
    /\ command \in [Commands -> CommandRows \cup {None}]
    /\ task \in [Commands -> Stages]
    /\ reconciling \subseteq Commands
    /\ mishaps \in 0..MaxModerationFaults

\* A command takes effect once at most, and on the version the moderator had
\* on the screen: retries, other commands and the author's withdrawal in
\* between make it stale instead.
DecidesOnWhatWasSeen ==
    \A k \in Commands, e, f \in history :
        e.by = k => /\ e.version = command[k].expected + 1
                    /\ f.by = k => f = e

\* A command that is called applied has left its event, whoever noted it.
AppliedHasEvent ==
    \A k \in Commands :
        command[k] # None /\ command[k].status = "applied" => HasEvent(k)

\* What its author has withdrawn no command in flight brings back.
WithdrawnStays ==
    [][comment.state = "withdrawn" => comment'.state = "withdrawn"]_moderationVars

\* A decision on a comment settles the reports of it: an open report is about
\* a comment that readers see, as a text or as withdrawn.
OpenReportIsVisible ==
    report = "open" => comment.state \in {"published", "withdrawn"}

\* Every command is decided unless its message was lost.
CommandsSettle ==
    <>[](\A k \in Commands :
            command[k] # None /\ command[k].status = "pending"
            => task[k] = "lost")
=============================================================================
