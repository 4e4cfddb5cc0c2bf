-------------------------- MODULE Comments_proofs ---------------------------
(***************************************************************************)
(* Proofs about CommentModeration and CommentSnapshots, for any values of  *)
(* their constants.                                                        *)
(*                                                                         *)
(* DecidesOnWhatWasSeen rests on every change of the comment taking a new  *)
(* version: a command that has acted is never current again, however often *)
(* it is delivered. AppliedHasEvent rests on a task that calls its command *)
(* applied having seen its event committed. A row of a snapshot has its    *)
(* file because the file is written before the row, and because no other   *)
(* worker can have the row locked meanwhile.                               *)
(***************************************************************************)
EXTENDS CommentModeration, CommentSnapshots, FiniteSetTheorems, TLAPS

\* Every event is a change of its own version, and one that a command made
\* has the version after the one the moderator saw.
EventsInOrder ==
    /\ \A e \in history : e.version <= comment.version
    /\ \A e, f \in history : e.version = f.version => e = f
    /\ \A k \in Commands, e \in history :
          e.by = k => /\ command[k] # None
                      /\ e.version = command[k].expected + 1

\* Tasks and reconciliations are about commands that exist, and a task that
\* is done has left its event.
TasksInOrder ==
    /\ \A k \in Commands : task[k] # "idle" => command[k] # None
    /\ \A k \in reconciling : command[k] # None
    /\ \A k \in Commands : task[k] = "done" => HasEvent(k)

ModerationInv == /\ ModerationTypeOK
        /\ EventsInOrder
        /\ TasksInOrder
        /\ AppliedHasEvent
        /\ OpenReportIsVisible

-----------------------------------------------------------------------------
(* What the single changes of the rows leave                               *)

\* A status is noted in a command, of which nothing else changes.
LEMMA StatusNoted ==
    ASSUME ModerationTypeOK, NEW k \in Commands, command[k] # None,
           NEW s \in CommandStatuses,
           command' = [command EXCEPT ![k].status = s]
    PROVE  /\ command' \in [Commands -> CommandRows \cup {None}]
           /\ command'[k] # None
           /\ command'[k].status = s
           /\ command'[k].expected = command[k].expected
           /\ \A j \in Commands \ {k} : command'[j] = command[j]
  <1>1. command[k] \in CommandRows
    BY DEF ModerationTypeOK
  <1> DEFINE r == [command[k] EXCEPT !.status = s]
  <1>2. /\ r \in CommandRows /\ r # None
        /\ r.status = s /\ r.expected = command[k].expected
    BY <1>1, CommandAssumption DEF CommandRows
  <1>3. command' = [command EXCEPT ![k] = r]
    OBVIOUS
  <1> HIDE DEF r
  <1> QED
    BY <1>2, <1>3 DEF ModerationTypeOK

\* A task goes from one stage to another.
LEMMA StageSet ==
    ASSUME ModerationTypeOK, NEW k \in Commands, NEW s \in Stages,
           task' = [task EXCEPT ![k] = s]
    PROVE  /\ task' \in [Commands -> Stages]
           /\ task'[k] = s
           /\ \A j \in Commands \ {k} : task'[j] = task[j]
  BY DEF ModerationTypeOK

\* A change of the comment adds one event, of a new version.
LEMMA CommentChanged ==
    ASSUME ModerationInv, NEW s \in CommentStates,
           NEW by \in Commands \cup {None},
           ChangeComment(s, by),
           by # None => /\ command[by] # None
                        /\ comment.version = command[by].expected
    PROVE  /\ comment' \in [state : CommentStates, version : 0..MaxVersion]
           /\ comment'.state = s
           /\ history' \subseteq ModerationEvents
           /\ history \subseteq history'
           /\ by # None => HasEvent(by)'
           /\ UNCHANGED command => EventsInOrder'
  <1> DEFINE new == [version |-> comment.version + 1, from |-> comment.state,
                     to |-> s, by |-> by]
  <1>1. /\ comment.version \in 0..MaxVersion /\ comment.version < MaxVersion
        /\ comment.state \in CommentStates
    BY DEF ModerationInv, ModerationTypeOK, ChangeComment
  <1>2. /\ comment' = [state |-> s, version |-> comment.version + 1]
        /\ history' = history \cup {new}
    BY DEF ChangeComment
  <1>3. comment.version + 1 \in 1..MaxVersion
    BY <1>1, ModerationAssumption
  <1>4. new \in ModerationEvents
    BY <1>1, <1>3 DEF ModerationEvents
  <1>5. new.version = comment.version + 1 /\ new.by = by
    OBVIOUS
  <1> HIDE DEF new
  <1>6. comment' \in [state : CommentStates, version : 0..MaxVersion]
    BY <1>2, <1>3, ModerationAssumption
  <1>7. history' \subseteq ModerationEvents
    BY <1>2, <1>4 DEF ModerationInv, ModerationTypeOK
  <1>8. by # None => HasEvent(by)'
    BY <1>2, <1>5 DEF HasEvent
  <1>9. ASSUME UNCHANGED command PROVE EventsInOrder'
    <2>1. \A e \in history : e.version <= comment.version /\ e.version \in Nat
      BY DEF ModerationInv, EventsInOrder, ModerationTypeOK, ModerationEvents
    <2>2. \A e \in history' : e.version <= comment'.version
      BY <1>1, <1>2, <1>5, <2>1
    <2>3. \A e, f \in history' : e.version = f.version => e = f
      BY <1>1, <1>2, <1>5, <2>1 DEF ModerationInv, EventsInOrder
    <2>4. \A k \in Commands, e \in history' :
             e.by = k => /\ command'[k] # None
                         /\ e.version = command'[k].expected + 1
      BY <1>2, <1>5, <1>9, ModerationAssumption DEF ModerationInv,
         EventsInOrder
    <2> QED
      BY <2>2, <2>3, <2>4 DEF EventsInOrder
  <1> QED
    BY <1>2, <1>6, <1>7, <1>8, <1>9

-----------------------------------------------------------------------------
(* The steps                                                               *)

\* Steps of readers: no command and no task is touched.
LEMMA ReadersStep ==
    ASSUME ModerationInv, CreateComment \/ WithdrawComment \/ ReportComment
    PROVE  ModerationInv'
  <1>1. UNCHANGED <<command, task, reconciling, mishaps>>
    BY DEF CreateComment, WithdrawComment, ReportComment
  <1>2. ASSUME NEW s \in CommentStates, ChangeComment(s, None),
               UNCHANGED report,
               report = "open" => s \in {"published", "withdrawn"}
        PROVE  ModerationInv'
    <2>1. /\ comment' \in [state : CommentStates, version : 0..MaxVersion]
          /\ comment'.state = s
          /\ history' \subseteq ModerationEvents
          /\ history \subseteq history'
          /\ EventsInOrder'
      BY <1>1, <1>2, CommentChanged
    <2>2. \A k \in Commands : HasEvent(k) => HasEvent(k)'
      BY <2>1 DEF HasEvent
    <2>3. ModerationTypeOK'
      BY <1>1, <1>2, <2>1 DEF ModerationInv, ModerationTypeOK
    <2>4. TasksInOrder' /\ AppliedHasEvent'
      BY <1>1, <2>2 DEF ModerationInv, TasksInOrder, AppliedHasEvent
    <2>5. OpenReportIsVisible'
      BY <1>2, <2>1 DEF OpenReportIsVisible
    <2> QED
      BY <2>1, <2>3, <2>4, <2>5 DEF ModerationInv
  <1>3. CASE CreateComment
    <2>1. PICK s \in {"pending", "published"} : ChangeComment(s, None)
      BY <1>3 DEF CreateComment
    <2>2. report # "open" /\ UNCHANGED report
      BY <1>3 DEF CreateComment, ModerationInv, OpenReportIsVisible
    <2> QED
      BY <1>2, <2>1, <2>2 DEF CommentStates
  <1>4. CASE WithdrawComment
    BY <1>2, <1>4 DEF WithdrawComment, CommentStates
  <1>5. CASE ReportComment
    <2>1. UNCHANGED <<comment, history>> /\ comment.state = "published"
          /\ report' = "open"
      BY <1>5 DEF ReportComment
    <2>2. ModerationTypeOK'
      BY <1>1, <2>1 DEF ModerationInv, ModerationTypeOK, Reports
    <2>3. EventsInOrder' /\ TasksInOrder' /\ AppliedHasEvent'
      BY <1>1, <2>1 DEF ModerationInv, EventsInOrder, TasksInOrder,
         AppliedHasEvent,
                        HasEvent
    <2> QED
      BY <2>1, <2>2, <2>3 DEF ModerationInv, OpenReportIsVisible
  <1> QED
    BY <1>3, <1>4, <1>5

\* A command takes effect: what a task does that finds it current.
LEMMA TakeStep ==
    ASSUME ModerationInv, NEW k \in Commands, NEW stage \in Stages, Take(k,
           stage),
           task[k] # "idle", UNCHANGED <<command, reconciling>>,
           mishaps' \in 0..MaxModerationFaults
    PROVE  ModerationInv'
  <1>1. PICK t \in Transitions : /\ t[1] = command[k].action
                                 /\ t[2] = comment.state
                                 /\ ChangeComment(t[3], k)
    BY DEF Take
  <1>2. t[3] \in CommentStates
    BY DEF Transitions, CommentStates
  <1>3. command[k] # None /\ comment.version = command[k].expected
    BY DEF ModerationInv, TasksInOrder, Take, Current
  <1>4. /\ comment' \in [state : CommentStates, version : 0..MaxVersion]
        /\ history' \subseteq ModerationEvents
        /\ history \subseteq history'
        /\ HasEvent(k)'
        /\ EventsInOrder'
    BY <1>1, <1>2, <1>3, CommentChanged, ModerationAssumption
  <1>5. /\ task' \in [Commands -> Stages]
        /\ task'[k] = stage
        /\ \A j \in Commands \ {k} : task'[j] = task[j]
    BY StageSet DEF Take, ModerationInv
  <1>6. report' \in Reports /\ report' # "open"
    BY DEF Take, Reported, Reports, ModerationInv, ModerationTypeOK
  <1>7. \A j \in Commands : HasEvent(j) => HasEvent(j)'
    BY <1>4 DEF HasEvent
  <1>8. ModerationTypeOK'
    BY <1>4, <1>5, <1>6 DEF ModerationInv, ModerationTypeOK
  <1>9. TasksInOrder'
    BY <1>3, <1>4, <1>5, <1>7 DEF ModerationInv, TasksInOrder
  <1>10. AppliedHasEvent'
    BY <1>7 DEF ModerationInv, AppliedHasEvent
  <1> QED
    BY <1>4, <1>6, <1>8, <1>9, <1>10 DEF ModerationInv, OpenReportIsVisible

\* A task moves on without an effect on the comment.
LEMMA StageStep ==
    ASSUME ModerationInv, NEW k \in Commands, NEW stage \in Stages \ {"done"},
           task' = [task EXCEPT ![k] = stage], task[k] # "idle",
           UNCHANGED <<comment, report, history, command, reconciling>>,
           mishaps' \in 0..MaxModerationFaults
    PROVE  ModerationInv'
  <1>1. /\ task' \in [Commands -> Stages]
        /\ task'[k] = stage
        /\ \A j \in Commands \ {k} : task'[j] = task[j]
    BY StageSet DEF ModerationInv
  <1>2. ModerationTypeOK'
    BY <1>1 DEF ModerationInv, ModerationTypeOK
  <1>3. \A j \in Commands : HasEvent(j) <=> HasEvent(j)'
    BY DEF HasEvent
  <1>4. TasksInOrder'
    BY <1>1, <1>3 DEF ModerationInv, TasksInOrder
  <1>5. EventsInOrder' /\ AppliedHasEvent' /\ OpenReportIsVisible'
    BY <1>3 DEF ModerationInv, EventsInOrder, AppliedHasEvent,
       OpenReportIsVisible
  <1> QED
    BY <1>2, <1>4, <1>5 DEF ModerationInv

\* A status is noted, and no task is called done by it.
LEMMA NotedStep ==
    ASSUME ModerationInv, NEW k \in Commands, command[k] # None,
           NEW s \in CommandStatuses, s = "applied" => HasEvent(k),
           command' \in [Commands -> CommandRows \cup {None}],
           command'[k] # None, command'[k].status = s,
           command'[k].expected = command[k].expected,
           \A j \in Commands \ {k} : command'[j] = command[j],
           task' \in [Commands -> Stages],
           \A j \in Commands :
               task'[j] = task[j] \/ (j = k /\ task'[j] # "done"),
           reconciling' \subseteq reconciling,
           UNCHANGED <<comment, report, history>>,
           mishaps' \in 0..MaxModerationFaults
    PROVE  ModerationInv'
  <1>2. ModerationTypeOK'
    BY DEF ModerationInv, ModerationTypeOK
  <1>3. \A j \in Commands : HasEvent(j) <=> HasEvent(j)'
    BY DEF HasEvent
  <1>4. \A j \in Commands : command[j] # None =>
            command'[j] # None /\ command'[j].expected = command[j].expected
    OBVIOUS
  <1>5. EventsInOrder'
    BY <1>4 DEF ModerationInv, EventsInOrder
  <1>6. TasksInOrder'
    BY <1>3, <1>4 DEF ModerationInv, TasksInOrder, ModerationTypeOK
  <1>7. AppliedHasEvent'
    BY <1>3 DEF ModerationInv, AppliedHasEvent
  <1> QED
    BY <1>2, <1>5, <1>6, <1>7 DEF ModerationInv, OpenReportIsVisible

\* A new command is of a version that no event has yet passed.
LEMMA CreateCommandStep ==
    ASSUME ModerationInv, NEW k \in Commands, CreateCommand(k)
    PROVE  ModerationInv'
  <1>1. PICK a \in Actions, v \in 1..comment.version :
            command' = [command EXCEPT ![k] = [action |-> a, expected |-> v,
                                               status |-> "pending"]]
    BY DEF CreateCommand
  <1> DEFINE r == [action |-> a, expected |-> v, status |-> "pending"]
  <1>2. comment.version \in 0..MaxVersion
    BY DEF ModerationInv, ModerationTypeOK
  <1>3. r \in CommandRows /\ r # None /\ r.status = "pending"
    BY <1>2, ModerationAssumption, CommandAssumption
    DEF CommandRows, CommandStatuses
  <1>4. /\ command[k] = None
        /\ UNCHANGED <<comment, report, history, reconciling>>
    BY DEF CreateCommand
  <1>5. command' = [command EXCEPT ![k] = r]
    BY <1>1
  <1> HIDE DEF r
  <1>6. PICK s \in {"queued", "lost"} :
            /\ task' = [task EXCEPT ![k] = s]
            /\ mishaps' \in 0..MaxModerationFaults
    BY ModerationAssumption DEF CreateCommand, Mishap, ModerationInv,
       ModerationTypeOK
  <1>7. /\ task' \in [Commands -> Stages]
        /\ task'[k] = s
        /\ \A j \in Commands \ {k} : task'[j] = task[j]
    BY <1>6, StageSet DEF ModerationInv, Stages
  <1>8. /\ command' \in [Commands -> CommandRows \cup {None}]
        /\ command'[k] = r
        /\ \A j \in Commands \ {k} : command'[j] = command[j]
    BY <1>3, <1>5 DEF ModerationInv, ModerationTypeOK
  <1>9. ModerationTypeOK'
    BY <1>4, <1>6, <1>7, <1>8 DEF ModerationInv, ModerationTypeOK
  <1>10. \A j \in Commands : HasEvent(j) <=> HasEvent(j)'
    BY <1>4 DEF HasEvent
  <1>11. EventsInOrder'
    BY <1>4, <1>8 DEF ModerationInv, EventsInOrder
  <1>12. TasksInOrder'
    BY <1>3, <1>4, <1>7, <1>8, <1>10 DEF ModerationInv, TasksInOrder,
                                              ModerationTypeOK
  <1>13. AppliedHasEvent'
    BY <1>3, <1>8, <1>10 DEF ModerationInv, AppliedHasEvent
  <1> QED
    BY <1>4, <1>9, <1>11, <1>12, <1>13 DEF ModerationInv, OpenReportIsVisible

\* What a task notes is a status, and "applied" only after its event.
LEMMA OutcomeNoted ==
    ASSUME ModerationInv, NEW k \in Commands, task[k] \in {"stale", "error",
           "done"}
    PROVE  /\ Outcome(task[k]) \in CommandStatuses
           /\ Outcome(task[k]) = "applied" => HasEvent(k)
           /\ command[k] # None
  BY DEF ModerationInv, TasksInOrder, Outcome, CommandStatuses

-----------------------------------------------------------------------------

\* The invariant holds initially.
LEMMA ModerationStart == ModerationInit => ModerationInv
  <1> SUFFICES ASSUME ModerationInit PROVE ModerationInv
    OBVIOUS
  <1>1. ModerationTypeOK
    BY ModerationAssumption
    DEF ModerationInit, ModerationTypeOK, CommentStates, Reports, Stages
  <1>2. EventsInOrder /\ TasksInOrder /\ AppliedHasEvent /\ OpenReportIsVisible
    BY DEF ModerationInit, EventsInOrder, TasksInOrder, AppliedHasEvent,
           OpenReportIsVisible
  <1> QED
    BY <1>1, <1>2 DEF ModerationInv

\* The invariant is inductive.
LEMMA ModerationStep ==
    ModerationInv /\ [ModerationNext]_moderationVars => ModerationInv'
  <1> SUFFICES ASSUME ModerationInv, [ModerationNext]_moderationVars
               PROVE  ModerationInv'
    OBVIOUS
  <1> DEFINE bound == 0..MaxModerationFaults
  <1>1. Mishap => mishaps' \in bound
    BY ModerationAssumption DEF Mishap, ModerationInv, ModerationTypeOK
  <1>2. mishaps \in bound
    BY DEF ModerationInv, ModerationTypeOK
  <1>3. ASSUME NEW k \in Commands, LoadCommand(k) PROVE ModerationInv'
    <2>1. PICK s \in {"idle", "loaded"} : task' = [task EXCEPT ![k] = s]
      BY <1>3 DEF LoadCommand
    <2> QED
      BY <1>2, <1>3, <2>1, StageStep DEF LoadCommand, Stages
  <1>4. ASSUME NEW k \in Commands, ApplyCommand(k) PROVE ModerationInv'
    <2>1. task[k] = "loaded" /\ UNCHANGED <<command, reconciling, mishaps>>
      BY <1>4 DEF ApplyCommand
    <2>2. CASE Take(k, "done")
      BY <1>2, <2>1, <2>2, TakeStep DEF Stages
    <2>3. ASSUME NEW s \in {"stale", "error"}, task' = [task EXCEPT ![k] = s],
                 UNCHANGED <<comment, report, history>>
          PROVE  ModerationInv'
      BY <1>2, <2>1, <2>3, StageStep DEF Stages
    <2> QED
      BY <1>4, <2>2, <2>3 DEF ApplyCommand
  <1>5. ASSUME NEW k \in Commands, ApplyFails(k) PROVE ModerationInv'
    <2>1. task[k] = "loaded" /\ Mishap /\ UNCHANGED <<command, reconciling>>
      BY <1>5 DEF ApplyFails
    <2>2. CASE Take(k, "error")
      BY <1>1, <2>1, <2>2, TakeStep DEF Stages
    <2>3. CASE /\ task' = [task EXCEPT ![k] = "error"]
               /\ UNCHANGED <<comment, report, history>>
      BY <1>1, <2>1, <2>3, StageStep DEF Stages
    <2> QED
      BY <1>5, <2>2, <2>3 DEF ApplyFails
  <1>6. ASSUME NEW k \in Commands, FinishCommand(k) PROVE ModerationInv'
    <2>1. /\ task[k] \in {"stale", "error", "done"}
          /\ command' = [command EXCEPT ![k].status = Outcome(task[k])]
          /\ task' = [task EXCEPT ![k] = "idle"]
          /\ UNCHANGED <<comment, report, history, reconciling, mishaps>>
      BY <1>6 DEF FinishCommand
    <2>2. /\ task' \in [Commands -> Stages]
          /\ task'[k] = "idle"
          /\ \A j \in Commands \ {k} : task'[j] = task[j]
      BY <2>1, StageSet DEF ModerationInv, Stages
    <2> QED
      <3>1. PICK s \in CommandStatuses : s = Outcome(task[k])
        BY <2>1, OutcomeNoted
      <3>2. /\ command' = [command EXCEPT ![k].status = s]
            /\ command[k] # None
            /\ s = "applied" => HasEvent(k)
        BY <2>1, OutcomeNoted, <3>1
      <3>3. \A j \in Commands :
                task'[j] = task[j] \/ (j = k /\ task'[j] # "done")
        BY <2>2
      <3>4. /\ command' \in [Commands -> CommandRows \cup {None}]
            /\ command'[k] # None /\ command'[k].status = s
            /\ command'[k].expected = command[k].expected
            /\ \A j \in Commands \ {k} : command'[j] = command[j]
        BY <2>2, <3>2, StatusNoted DEF ModerationInv
      <3> QED
        BY <3>4, <1>2, <2>1, <2>2, <3>2, <3>3, NotedStep
  <1>7. ASSUME NEW k \in Commands, FinishFails(k) PROVE ModerationInv'
    <2>1. /\ task[k] \in {"stale", "error", "done"}
          /\ Mishap
          /\ task' = [task EXCEPT ![k] = "queued"]
          /\ UNCHANGED <<comment, report, history, reconciling>>
      BY <1>7 DEF FinishFails
    <2>2. /\ task' \in [Commands -> Stages]
          /\ task'[k] = "queued"
          /\ \A j \in Commands \ {k} : task'[j] = task[j]
      BY <2>1, StageSet DEF ModerationInv, Stages
    <2>3. CASE UNCHANGED command
      BY <1>1, <2>1, <2>3, StageStep DEF Stages
    <2>4. CASE command' = [command EXCEPT ![k].status = Outcome(task[k])]
      <3>1. PICK s \in CommandStatuses : s = Outcome(task[k])
        BY <2>1, OutcomeNoted
      <3>2. /\ command' = [command EXCEPT ![k].status = s]
            /\ command[k] # None
            /\ s = "applied" => HasEvent(k)
        BY <2>1, <2>4, OutcomeNoted, <3>1
      <3>3. \A j \in Commands :
                task'[j] = task[j] \/ (j = k /\ task'[j] # "done")
        BY <2>2
      <3>4. /\ command' \in [Commands -> CommandRows \cup {None}]
            /\ command'[k] # None /\ command'[k].status = s
            /\ command'[k].expected = command[k].expected
            /\ \A j \in Commands \ {k} : command'[j] = command[j]
        BY <2>2, <3>2, StatusNoted DEF ModerationInv
      <3> QED
        BY <3>4, <1>1, <2>1, <2>2, <3>2, <3>3, NotedStep
    <2> QED
      BY <1>7, <2>3, <2>4 DEF FinishFails
  <1>8. ASSUME NEW k \in Commands, KillTask(k) PROVE ModerationInv'
    BY <1>1, <1>8, StageStep DEF KillTask, Stages
  <1>9. CASE ListUnfinished
    <2>1. /\ reconciling' \subseteq Commands
          /\ \A k \in reconciling' : command[k] # None
          /\ UNCHANGED <<comment, report, history, command, task, mishaps>>
      BY <1>9 DEF ListUnfinished
    <2>2. ModerationTypeOK'
      BY <2>1 DEF ModerationInv, ModerationTypeOK
    <2>3. TasksInOrder'
      BY <2>1 DEF ModerationInv, TasksInOrder, HasEvent
    <2>4. EventsInOrder' /\ AppliedHasEvent' /\ OpenReportIsVisible'
      BY <2>1 DEF ModerationInv, EventsInOrder, AppliedHasEvent,
         OpenReportIsVisible,
                  HasEvent
    <2> QED
      BY <2>2, <2>3, <2>4 DEF ModerationInv
  <1>10. ASSUME NEW k \in Commands, ReconcileCommand(k) PROVE ModerationInv'
    <2>1. /\ k \in reconciling
          /\ reconciling' \subseteq reconciling
          /\ command' = [command EXCEPT ![k].status = ReconciledStatus(k)]
          /\ UNCHANGED <<comment, report, history, task, mishaps>>
      BY <1>10 DEF ReconcileCommand
    <2>2. command[k] # None /\ command[k] \in CommandRows
      BY <2>1 DEF ModerationInv, TasksInOrder, ModerationTypeOK
    <2>3. /\ ReconciledStatus(k) \in CommandStatuses
          /\ ReconciledStatus(k) = "applied" => HasEvent(k)
      BY <2>2 DEF ReconciledStatus, CommandRows, CommandStatuses,
         ModerationInv,
                  AppliedHasEvent
    <2>4. task' \in [Commands -> Stages]
      BY <2>1 DEF ModerationInv, ModerationTypeOK
    <2> QED
      <3>1. PICK s \in CommandStatuses : s = ReconciledStatus(k)
        BY <2>3
      <3>2. /\ command' = [command EXCEPT ![k].status = s]
            /\ s = "applied" => HasEvent(k)
        BY <2>1, <2>3, <3>1
      <3>3. \A j \in Commands : task'[j] = task[j]
        BY <2>1
      <3>4. /\ command' \in [Commands -> CommandRows \cup {None}]
            /\ command'[k] # None /\ command'[k].status = s
            /\ command'[k].expected = command[k].expected
            /\ \A j \in Commands \ {k} : command'[j] = command[j]
        BY <2>2, <3>2, StatusNoted DEF ModerationInv
      <3> QED
        BY <3>4, <1>2, <2>1, <2>2, <2>4, <3>2, <3>3, NotedStep
  <1>11. CASE UNCHANGED moderationVars
    <2>1. UNCHANGED <<comment, report, history, command, task, reconciling,
                      mishaps>>
      BY <1>11 DEF moderationVars
    <2> QED
      BY <2>1 DEF ModerationInv, ModerationTypeOK, EventsInOrder,
         TasksInOrder, HasEvent,
                  AppliedHasEvent, OpenReportIsVisible
  <1> QED
    BY <1>3, <1>4, <1>5, <1>6, <1>7, <1>8, <1>9, <1>10, <1>11, ReadersStep,
       CreateCommandStep DEF ModerationNext

\* The invariant holds in every reachable state.
LEMMA ModerationHolds == ModerationSpec => []ModerationInv
  BY ModerationStart, ModerationStep, PTL DEF ModerationSpec

\* The variables keep their types.
THEOREM ModerationTypesCorrect == ModerationSpec => []ModerationTypeOK
  <1>1. ModerationInv => ModerationTypeOK
    BY DEF ModerationInv
  <1> QED
    BY <1>1, ModerationHolds, PTL

\* However often a command is delivered, retried and reconciled, it acts once
\* at most, and on the version the moderator saw.
THEOREM DecidesOnce == ModerationSpec => []DecidesOnWhatWasSeen
  <1>1. ModerationInv => DecidesOnWhatWasSeen
    BY DEF ModerationInv, EventsInOrder, DecidesOnWhatWasSeen
  <1> QED
    BY <1>1, ModerationHolds, PTL

\* No command is called applied that has left no event.
THEOREM AppliedCorrect == ModerationSpec => []AppliedHasEvent
  <1>1. ModerationInv => AppliedHasEvent
    BY DEF ModerationInv
  <1> QED
    BY <1>1, ModerationHolds, PTL

\* An open report is about a comment that readers see.
THEOREM ReportsSettled == ModerationSpec => []OpenReportIsVisible
  <1>1. ModerationInv => OpenReportIsVisible
    BY DEF ModerationInv
  <1> QED
    BY <1>1, ModerationHolds, PTL

\* No command in flight brings back what its author has withdrawn.
THEOREM WithdrawnCorrect == ModerationSpec => WithdrawnStays
  <1>1. ASSUME [ModerationNext]_moderationVars, comment.state = "withdrawn"
        PROVE  comment'.state = "withdrawn"
    <2>1. \A t \in Transitions : t[2] # "withdrawn"
      BY DEF Transitions
    <2>2. \A k \in Commands, s \in Stages : ~Take(k, s)
      BY <1>1, <2>1 DEF Take
    <2>3. ASSUME ModerationNext PROVE UNCHANGED comment
      BY <1>1, <2>2, <2>3
      DEF ModerationNext, CreateComment, WithdrawComment, ReportComment,
          CreateCommand, LoadCommand, ApplyCommand, ApplyFails, FinishCommand,
          FinishFails, KillTask, ListUnfinished, ReconcileCommand, Stages
    <2> QED
      BY <1>1, <2>3 DEF moderationVars
  <1> QED
    BY <1>1, PTL DEF ModerationSpec, WithdrawnStays

-----------------------------------------------------------------------------
(* Snapshots of the comments: the rows have their files.                   *)

BusyWorkers == {w \in Workers : Busy(w)}

\* Every public change is in the queue, with a worker, or in a row, at most
\* once.
SnapshotTypes ==
    /\ visible \in Contents
    /\ edits \in 0..MaxChanges
    /\ messages \in Nat
    /\ refreshing \in [Workers -> RefreshTasks \cup {None}]
    /\ snapshots \in Seq(Contents)
    /\ files \in [Versions -> Contents \cup {None}]
    /\ raced \in BOOLEAN
    /\ kills \in 0..MaxKills
    /\ IsFiniteSet(BusyWorkers)
    /\ messages + Cardinality(BusyWorkers) + Len(snapshots) <= edits

\* The task of a worker has the row of its base locked.
Holds(w) ==
    /\ Busy(w) /\ refreshing[w].base # 0
    /\ refreshing[w].stage \in {"checked", "written"}

\* What it has compared and found, or written, is so until it commits.
HeldOK(w) ==
    LET t == refreshing[w]
    IN  /\ snapshots[t.base] # t.content
        /\ t.stage = "checked" => files[t.base + 1] = None
        /\ t.stage = "written" => files[t.base + 1] = t.content

SnapshotInv ==
    /\ SnapshotTypes
    /\ \A w \in Workers : Busy(w) => refreshing[w].base <= Len(snapshots)
    /\ \A w \in Workers : Holds(w) => HeldOK(w)
    /\ \A w, x \in Workers :
           /\ Holds(w) /\ Holds(x)
           /\ refreshing[w].base = refreshing[x].base
           => w = x
    /\ RowsHaveTheirFiles

\* No task is None.
LEMMA TasksAreSome == None \notin RefreshTasks
  BY SnapshotAssumption

\* The numbers of the model are numbers.
LEMMA SnapshotNumbers ==
    ASSUME SnapshotTypes
    PROVE  /\ edits \in Nat /\ edits <= MaxChanges
           /\ Len(snapshots) \in Nat /\ Cardinality(BusyWorkers) \in Nat
           /\ Len(snapshots) <= edits /\ messages <= edits
           /\ \A w \in Workers : Busy(w) =>
                  /\ refreshing[w] \in RefreshTasks
                  /\ refreshing[w].content \in Contents
                  /\ refreshing[w].base \in Nat
                  /\ refreshing[w].base + 1 \in Versions
                  /\ Len(snapshots) < edits
  <1>1. /\ edits \in Nat /\ edits <= MaxChanges
        /\ Len(snapshots) \in Nat /\ Cardinality(BusyWorkers) \in Nat
        /\ Len(snapshots) <= edits /\ messages <= edits
    BY SnapshotAssumption, FS_CardinalityType DEF SnapshotTypes
  <1>2. ASSUME NEW w \in Workers, Busy(w)
        PROVE  /\ refreshing[w] \in RefreshTasks
               /\ refreshing[w].content \in Contents
               /\ refreshing[w].base \in Nat
               /\ refreshing[w].base + 1 \in Versions
    BY <1>2, SnapshotAssumption DEF SnapshotTypes, RefreshTasks, Busy, Versions
  <1>3. ASSUME NEW w \in Workers, Busy(w) PROVE Len(snapshots) < edits
    <2>1. BusyWorkers # {}
      BY <1>3 DEF BusyWorkers
    <2>2. Cardinality(BusyWorkers) # 0
      BY <2>1, FS_EmptySet DEF SnapshotTypes
    <2> QED BY <1>1, <2>2 DEF SnapshotTypes
  <1> QED BY <1>1, <1>2, <1>3

\* Workers that are busy as before.
LEMMA SameBusy ==
    ASSUME NEW w \in Workers, Busy(w),
           refreshing \in [Workers -> RefreshTasks \cup {None}],
           NEW t \in RefreshTasks, refreshing' = [refreshing EXCEPT ![w] = t]
    PROVE  /\ refreshing' \in [Workers -> RefreshTasks \cup {None}]
           /\ BusyWorkers' = BusyWorkers
           /\ refreshing'[w] = t /\ Busy(w)'
           /\ \A x \in Workers \ {w} : refreshing'[x] = refreshing[x]
  BY TasksAreSome DEF BusyWorkers, Busy

\* A worker that has finished is one less.
LEMMA OneLess ==
    ASSUME NEW w \in Workers, Busy(w), SnapshotTypes, Finished(w)
    PROVE  /\ refreshing' \in [Workers -> RefreshTasks \cup {None}]
           /\ IsFiniteSet(BusyWorkers')
           /\ Cardinality(BusyWorkers') = Cardinality(BusyWorkers) - 1
           /\ ~Busy(w)'
           /\ \A x \in Workers \ {w} : refreshing'[x] = refreshing[x]
  <1>1. BusyWorkers' = BusyWorkers \ {w} /\ w \in BusyWorkers
    BY DEF BusyWorkers, Busy, Finished, SnapshotTypes
  <1>2. IsFiniteSet(BusyWorkers)
    BY DEF SnapshotTypes
  <1> QED BY <1>1, <1>2, FS_RemoveElement
          DEF Finished, SnapshotTypes, Busy

\* Another worker, whose task and rows stay, holds what it held.
LEMMA OthersHold ==
    ASSUME NEW x, refreshing'[x] = refreshing[x]
    PROVE  (Busy(x)' <=> Busy(x)) /\ (Holds(x)' <=> Holds(x))
  BY DEF Holds, Busy

\* The steps of other parts leave the invariant as it is.
LEMMA RowsStay ==
    ASSUME SnapshotInv, SnapshotTypes', UNCHANGED <<refreshing, snapshots,
           files>>
    PROVE  SnapshotInv'
  BY DEF SnapshotInv, HeldOK, Holds, Busy, RowsHaveTheirFiles

\* Only this worker's task changes, and it holds nothing or what it has found.
LEMMA TaskMoves ==
    ASSUME SnapshotInv, SnapshotTypes', UNCHANGED <<snapshots, files>>,
           NEW w \in Workers,
           \A x \in Workers \ {w} : refreshing'[x] = refreshing[x],
           Busy(w)' => refreshing'[w].base <= Len(snapshots),
           Holds(w)' =>
               /\ HeldOK(w)'
               /\ \A x \in Workers \ {w} :
                      Holds(x) => refreshing[x].base # refreshing'[w].base
    PROVE  SnapshotInv'
  <1>1. \A x \in Workers \ {w} : /\ Busy(x)' <=> Busy(x)
                                 /\ Holds(x)' <=> Holds(x)
    BY OthersHold
  <1>2. \A x \in Workers \ {w} : HeldOK(x) => HeldOK(x)'
    BY DEF HeldOK
  <1>3. \A x \in Workers : Busy(x)' => refreshing'[x].base <= Len(snapshots')
    BY <1>1 DEF SnapshotInv
  <1>4. \A x \in Workers : Holds(x)' => HeldOK(x)'
    BY <1>1, <1>2 DEF SnapshotInv
  <1>5. \A x, y \in Workers :
           /\ Holds(x)' /\ Holds(y)'
           /\ refreshing'[x].base = refreshing'[y].base
           => x = y
    BY <1>1 DEF SnapshotInv
  <1>6. RowsHaveTheirFiles'
    BY DEF SnapshotInv, RowsHaveTheirFiles
  <1> QED BY <1>3, <1>4, <1>5, <1>6 DEF SnapshotInv

\* A public change, and the message about it.
LEMMA Changes == ASSUME SnapshotInv, PublicChange PROVE SnapshotInv'
  <1>1. SnapshotTypes
    BY DEF SnapshotInv
  <1>2. UNCHANGED <<refreshing, snapshots, files, raced>> /\ visible' \in Contents
    BY DEF PublicChange
  <1>3. /\ edits' \in 0..MaxChanges /\ edits' = edits + 1
        /\ messages' \in {messages, messages + 1}
        /\ kills' \in 0..MaxKills
    BY <1>1, SnapshotAssumption DEF PublicChange, Lost, SnapshotTypes
  <1>4. BusyWorkers' = BusyWorkers
    BY <1>2 DEF BusyWorkers, Busy
  <1>5. SnapshotTypes'
    BY <1>1, <1>2, <1>3, <1>4, SnapshotNumbers DEF SnapshotTypes
  <1> QED BY <1>2, <1>5, RowsStay

\* A task begins, if the latest snapshot is not what it reads.
LEMMA Reads ==
    ASSUME SnapshotInv, NEW w \in Workers, ReadComments(w) PROVE SnapshotInv'
  <1>1. SnapshotTypes
    BY DEF SnapshotInv
  <1>2. PICK t : t = [content |-> visible, base |-> 0, stage |-> "read"]
    OBVIOUS
  <1>3. t \in RefreshTasks /\ t # None /\ t.base = 0
    BY <1>1, <1>2, TasksAreSome, SnapshotAssumption
       DEF RefreshTasks, RefreshStages, SnapshotTypes
  <1>4. /\ ~Busy(w) /\ messages > 0 /\ messages' = messages - 1
        /\ refreshing' = [refreshing EXCEPT ![w] = None]
           \/ refreshing' = [refreshing EXCEPT ![w] = t]
        /\ UNCHANGED <<visible, edits, snapshots, files, kills>>
    BY <1>2 DEF ReadComments
  <1>5. raced' \in BOOLEAN
    <2>1. raced' = (raced \/ \E x \in Workers : Busy(x))
      BY DEF ReadComments
    <2> QED BY <2>1, Zenon
  <1>6. /\ IsFiniteSet(BusyWorkers')
        /\ Cardinality(BusyWorkers') <= Cardinality(BusyWorkers) + 1
    <2>1. BusyWorkers' = BusyWorkers \/ BusyWorkers' = BusyWorkers \cup {w}
      BY <1>1, <1>3, <1>4 DEF BusyWorkers, Busy, SnapshotTypes
    <2>2. IsFiniteSet(BusyWorkers) /\ Cardinality(BusyWorkers) \in Nat
      BY <1>1, SnapshotNumbers DEF SnapshotTypes
    <2> QED BY <2>1, <2>2, FS_AddElement
  <1>7. SnapshotTypes'
    <2>1. Cardinality(BusyWorkers') \in Nat
      BY <1>6, FS_CardinalityType
    <2>2. messages' \in Nat /\ messages' = messages - 1
      BY <1>1, <1>4 DEF SnapshotTypes
    <2>3. messages' + Cardinality(BusyWorkers') + Len(snapshots') <= edits'
      BY <1>1, <1>4, <1>6, <2>1, <2>2, SnapshotNumbers DEF SnapshotTypes
    <2>4. refreshing' \in [Workers -> RefreshTasks \cup {None}]
      BY <1>1, <1>3, <1>4 DEF SnapshotTypes
    <2> QED BY <1>1, <1>4, <1>5, <1>6, <2>2, <2>3, <2>4 DEF SnapshotTypes
  <1>8. /\ \A x \in Workers \ {w} : refreshing'[x] = refreshing[x]
        /\ refreshing'[w] \in {None, t}
    BY <1>1, <1>4 DEF SnapshotTypes
  <1>9. /\ Busy(w)' => refreshing'[w].base <= Len(snapshots)
        /\ ~Holds(w)'
    BY <1>1, <1>3, <1>8, SnapshotNumbers DEF Busy, Holds
  <1> QED BY <1>4, <1>7, <1>8, <1>9, TaskMoves

\* A worker that has finished leaves the rows as they are.
LEMMA Finishes ==
    ASSUME SnapshotInv, NEW w \in Workers, Busy(w), Finished(w),
           UNCHANGED <<visible, edits, snapshots, files, raced>>,
           messages' \in {messages, messages + 1}, kills' \in 0..MaxKills
    PROVE  SnapshotInv'
  <1>1. SnapshotTypes
    BY DEF SnapshotInv
  <1>2. /\ refreshing' \in [Workers -> RefreshTasks \cup {None}]
        /\ IsFiniteSet(BusyWorkers')
        /\ Cardinality(BusyWorkers') = Cardinality(BusyWorkers) - 1
        /\ ~Busy(w)'
        /\ \A x \in Workers \ {w} : refreshing'[x] = refreshing[x]
    BY <1>1, OneLess
  <1>3. SnapshotTypes'
    <2>1. messages' + Cardinality(BusyWorkers') + Len(snapshots') <= edits'
      BY <1>1, <1>2, SnapshotNumbers DEF SnapshotTypes
    <2> QED BY <1>1, <1>2, <2>1 DEF SnapshotTypes
  <1>4. ~Holds(w)'
    BY <1>2 DEF Holds
  <1> QED BY <1>2, <1>3, <1>4, TaskMoves

\* A task goes on with another base or at another stage.
LEMMA GoesOn ==
    ASSUME SnapshotTypes, NEW w \in Workers, Busy(w),
           NEW base \in 0..MaxChanges, NEW stage \in RefreshStages,
           Staged(w, base, stage)
    PROVE  /\ refreshing' \in [Workers -> RefreshTasks \cup {None}]
           /\ BusyWorkers' = BusyWorkers /\ Busy(w)'
           /\ refreshing'[w].content = refreshing[w].content
           /\ refreshing'[w].base = base /\ refreshing'[w].stage = stage
           /\ \A x \in Workers \ {w} : refreshing'[x] = refreshing[x]
  <1>1. PICK t : t = [refreshing[w] EXCEPT !.base = base, !.stage = stage]
    OBVIOUS
  <1>2. refreshing[w] \in RefreshTasks
    BY SnapshotNumbers
  <1>3. /\ t \in RefreshTasks /\ t.content = refreshing[w].content
        /\ t.base = base /\ t.stage = stage
    BY <1>1, <1>2 DEF RefreshTasks
  <1>4. refreshing' = [refreshing EXCEPT ![w] = t]
    BY <1>1 DEF Staged
  <1> QED BY <1>3, <1>4, SameBusy DEF SnapshotTypes

-----------------------------------------------------------------------------

\* Two workers do not hold the row of the same version.
LEMMA LockedAlone ==
    ASSUME SnapshotInv, NEW w \in Workers, Busy(w), Unlocked(w),
           refreshing[w].base # 0, NEW x \in Workers \ {w}, Holds(x)
    PROVE  refreshing[x].base # refreshing[w].base
  BY DEF Unlocked, Holds

\* The task has what it compares: the latest row and the next file.
LEMMA Checks ==
    ASSUME SnapshotInv, NEW w \in Workers, CheckFile(w) PROVE SnapshotInv'
  <1> DEFINE t == refreshing[w]
  <1>1. SnapshotTypes /\ Busy(w) /\ Unlocked(w)
        /\ (~Taken(t) \/ Same(t))
        /\ UNCHANGED <<visible, edits, messages, snapshots, files, raced, kills>>
    BY DEF SnapshotInv, CheckFile
  <1>2. /\ t \in RefreshTasks /\ t.base \in 0..MaxChanges
        /\ t.content \in Contents /\ t.base + 1 \in Versions
    BY <1>1, SnapshotNumbers DEF RefreshTasks
  <1>3. CASE Same(t)
    <2>1. Finished(w)
      BY <1>3 DEF CheckFile
    <2> QED BY <1>1, <2>1, Finishes DEF SnapshotTypes
  <1>4. CASE ~Same(t)
    <2>1. PICK stage \in {"checked", "written"} :
              /\ stage = "written" <=> files[t.base + 1] = t.content
              /\ Staged(w, t.base, stage)
      BY <1>4 DEF CheckFile
    <2>2. /\ refreshing' \in [Workers -> RefreshTasks \cup {None}]
          /\ BusyWorkers' = BusyWorkers /\ Busy(w)'
          /\ refreshing'[w].content = t.content
          /\ refreshing'[w].base = t.base /\ refreshing'[w].stage = stage
          /\ \A x \in Workers \ {w} : refreshing'[x] = refreshing[x]
      BY <1>1, <1>2, <2>1, GoesOn DEF RefreshStages
    <2>3. SnapshotTypes'
      BY <1>1, <2>2 DEF SnapshotTypes
    <2>4. files[t.base + 1] \in {None, t.content}
      BY <1>1, <1>4 DEF Taken
    <2>5. Holds(w)' => HeldOK(w)'
      BY <1>1, <1>4, <2>1, <2>2, <2>4 DEF Holds, HeldOK, Same
    <2>6. \A x \in Workers \ {w} :
             Holds(w)' /\ Holds(x) => refreshing[x].base # t.base
      BY <1>1, <2>2, LockedAlone DEF Holds
    <2>7. t.base <= Len(snapshots)
      BY <1>1 DEF SnapshotInv
    <2> QED BY <1>1, <2>2, <2>3, <2>5, <2>6, <2>7, TaskMoves
  <1> QED BY <1>3, <1>4

\* The file is written by who has the row before it, or nobody has one.
LEMMA Writes ==
    ASSUME SnapshotInv, NEW w \in Workers, WriteFile(w) PROVE SnapshotInv'
  <1> DEFINE t == refreshing[w]
  <1>1. SnapshotTypes /\ Busy(w) /\ t.stage = "checked"
        /\ files' = [files EXCEPT ![t.base + 1] = t.content]
        /\ Staged(w, t.base, "written")
        /\ UNCHANGED <<visible, edits, messages, snapshots, raced, kills>>
    BY DEF SnapshotInv, WriteFile
  <1>2. /\ t \in RefreshTasks /\ t.base \in 0..MaxChanges /\ t.base \in Nat
        /\ t.content \in Contents /\ t.base + 1 \in Versions
    BY <1>1, SnapshotNumbers DEF RefreshTasks
  <1>3. /\ refreshing' \in [Workers -> RefreshTasks \cup {None}]
        /\ BusyWorkers' = BusyWorkers /\ Busy(w)'
        /\ refreshing'[w].content = t.content
        /\ refreshing'[w].base = t.base /\ refreshing'[w].stage = "written"
        /\ \A x \in Workers \ {w} : refreshing'[x] = refreshing[x]
    BY <1>1, <1>2, GoesOn DEF RefreshStages
  <1>4. /\ files' \in [Versions -> Contents \cup {None}]
        /\ files'[t.base + 1] = t.content
        /\ \A v \in Versions \ {t.base + 1} : files'[v] = files[v]
    BY <1>1, <1>2 DEF SnapshotTypes
  <1>5. SnapshotTypes'
    BY <1>1, <1>3, <1>4 DEF SnapshotTypes
  <1>6. Holds(w) <=> t.base # 0
    BY <1>1 DEF Holds
  <1>7. Holds(w)' => HeldOK(w)'
    <2>1. ASSUME Holds(w) PROVE snapshots[t.base] # t.content
      BY <2>1 DEF SnapshotInv, HeldOK
    <2> QED BY <1>1, <1>3, <1>4, <1>6, <2>1 DEF Holds, HeldOK
  <1>8. ASSUME NEW x \in Workers \ {w}
        PROVE  /\ Busy(x)' <=> Busy(x)
               /\ Holds(x)' <=> Holds(x)
               /\ Holds(x) => HeldOK(x)' /\ refreshing[x].base # t.base
    <2>1. (Busy(x)' <=> Busy(x)) /\ (Holds(x)' <=> Holds(x))
      BY <1>3, OthersHold
    <2>2. ASSUME Holds(x)
          PROVE  HeldOK(x)' /\ refreshing[x].base # t.base
      <3>1. /\ Busy(x) /\ refreshing[x].base # 0 /\ HeldOK(x)
            /\ refreshing[x].base \in Nat /\ refreshing[x].base + 1 \in Versions
        BY <1>1, <2>2, SnapshotNumbers DEF Holds, SnapshotInv
      <3>2. refreshing[x].base # t.base
        BY <1>6, <2>2, <3>1 DEF SnapshotInv
      <3>3. refreshing[x].base + 1 # t.base + 1
        BY <1>2, <3>1, <3>2
      <3>4. files'[refreshing[x].base + 1] = files[refreshing[x].base + 1]
        BY <1>4, <3>1, <3>3
      <3> QED BY <1>1, <1>3, <3>1, <3>2, <3>4 DEF HeldOK
    <2> QED BY <2>1, <2>2
  <1>9. \A x \in Workers : Busy(x)' => refreshing'[x].base <= Len(snapshots')
    BY <1>1, <1>3, <1>8 DEF SnapshotInv
  <1>10. \A x, y \in Workers :
            /\ Holds(x)' /\ Holds(y)'
            /\ refreshing'[x].base = refreshing'[y].base
            => x = y
    BY <1>3, <1>8 DEF SnapshotInv
  <1>11. RowsHaveTheirFiles'
    <2> SUFFICES ASSUME NEW v \in DOMAIN snapshots \ {1}
                 PROVE  files'[v] = snapshots[v]
                        /\ snapshots[v] # snapshots[v - 1]
      BY <1>1 DEF RowsHaveTheirFiles
    <2>1. /\ files[v] = snapshots[v] /\ snapshots[v] # snapshots[v - 1]
          /\ v \in 1..Len(snapshots) /\ snapshots[v] \in Contents
      BY <1>1 DEF SnapshotInv, RowsHaveTheirFiles, SnapshotTypes
    <2>2. v \in Versions
      BY <1>1, <2>1, SnapshotNumbers, SnapshotAssumption DEF Versions
    <2>3. v # t.base + 1
      <3>1. CASE t.base = 0
        BY <3>1
      <3>2. CASE t.base # 0
        <4>1. files[t.base + 1] = None
          BY <1>1, <1>6, <3>2 DEF SnapshotInv, HeldOK
        <4> QED BY <2>1, <4>1, SnapshotAssumption
      <3> QED BY <3>1, <3>2
    <2> QED BY <1>4, <2>1, <2>2, <2>3
  <1> QED BY <1>5, <1>7, <1>8, <1>9, <1>10, <1>11 DEF SnapshotInv

\* The row is added after the one that the task has compared with.
LEMMA Commits ==
    ASSUME SnapshotInv, NEW w \in Workers, CommitSnapshot(w) PROVE SnapshotInv'
  <1> DEFINE t == refreshing[w]
  <1>1. SnapshotTypes /\ Busy(w) /\ t.stage = "written"
        /\ UNCHANGED <<visible, edits, messages, files, raced, kills>>
    BY DEF SnapshotInv, CommitSnapshot
  <1>2. /\ t \in RefreshTasks /\ t.base \in Nat /\ t.content \in Contents
        /\ t.base + 1 \in Versions
        /\ Len(snapshots) \in Nat /\ Len(snapshots) < edits
    BY <1>1, SnapshotNumbers
  <1>3. CASE Len(snapshots) # t.base
    <2>1. Staged(w, 0, "read") /\ snapshots' = snapshots
      BY <1>3 DEF CommitSnapshot
    <2>2. 0 \in 0..MaxChanges /\ "read" \in RefreshStages
      BY SnapshotAssumption DEF RefreshStages
    <2>3. /\ refreshing' \in [Workers -> RefreshTasks \cup {None}]
          /\ BusyWorkers' = BusyWorkers
          /\ refreshing'[w].base = 0 /\ refreshing'[w].stage = "read"
          /\ \A x \in Workers \ {w} : refreshing'[x] = refreshing[x]
      BY <1>1, <2>1, <2>2, GoesOn
    <2>4. SnapshotTypes'
      BY <1>1, <2>1, <2>3 DEF SnapshotTypes
    <2>5. ~Holds(w)' /\ refreshing'[w].base <= Len(snapshots)
      BY <1>2, <2>3 DEF Holds
    <2> QED BY <1>1, <2>1, <2>3, <2>4, <2>5, TaskMoves
  <1>4. CASE Len(snapshots) = t.base
    <2>1. snapshots' = Append(snapshots, t.content) /\ Finished(w)
      BY <1>4 DEF CommitSnapshot
    <2>2. /\ snapshots' \in Seq(Contents)
          /\ Len(snapshots') = Len(snapshots) + 1
          /\ \A v \in 1..Len(snapshots) : snapshots'[v] = snapshots[v]
          /\ snapshots'[Len(snapshots) + 1] = t.content
      BY <1>1, <1>2, <2>1 DEF SnapshotTypes
    <2>3. /\ refreshing' \in [Workers -> RefreshTasks \cup {None}]
          /\ IsFiniteSet(BusyWorkers')
          /\ Cardinality(BusyWorkers') = Cardinality(BusyWorkers) - 1
          /\ ~Busy(w)'
          /\ \A x \in Workers \ {w} : refreshing'[x] = refreshing[x]
      BY <1>1, <2>1, OneLess
    <2>4. SnapshotTypes'
      <3>1. messages' + Cardinality(BusyWorkers') + Len(snapshots') <= edits'
        BY <1>1, <1>2, <2>2, <2>3, SnapshotNumbers DEF SnapshotTypes
      <3> QED BY <1>1, <2>2, <2>3, <3>1 DEF SnapshotTypes
    <2>5. ASSUME NEW x \in Workers \ {w}
          PROVE  /\ Busy(x)' <=> Busy(x)
                 /\ Holds(x)' <=> Holds(x)
                 /\ Busy(x) => refreshing[x].base <= Len(snapshots')
                 /\ Holds(x) => HeldOK(x)'
      <3>1. (Busy(x)' <=> Busy(x)) /\ (Holds(x)' <=> Holds(x))
        BY <2>3, OthersHold
      <3>2. ASSUME Busy(x)
            PROVE  /\ refreshing[x].base \in 0..Len(snapshots)
                   /\ refreshing[x].base <= Len(snapshots')
        BY <1>1, <1>2, <2>2, <3>2, SnapshotNumbers DEF SnapshotInv
      <3>3. ASSUME Holds(x) PROVE HeldOK(x)'
        <4>1. /\ HeldOK(x) /\ refreshing[x].base \in 1..Len(snapshots)
          BY <1>2, <3>2, <3>3 DEF SnapshotInv, Holds
        <4>2. snapshots'[refreshing[x].base] = snapshots[refreshing[x].base]
          BY <2>2, <4>1
        <4> QED BY <1>1, <2>3, <4>1, <4>2 DEF HeldOK
      <3> QED BY <3>1, <3>2, <3>3
    <2>6. ~Holds(w)'
      BY <2>3 DEF Holds
    <2>7. RowsHaveTheirFiles'
      <3> SUFFICES ASSUME NEW v \in (DOMAIN snapshots') \ {1}
                   PROVE  files[v] = snapshots'[v]
                          /\ snapshots'[v] # snapshots'[v - 1]
        BY <1>1 DEF RowsHaveTheirFiles
      <3>1. v \in 2..(Len(snapshots) + 1)
        BY <1>2, <2>2
      <3>2. CASE v \in 2..Len(snapshots)
        <4>1. v \in DOMAIN snapshots \ {1} /\ v - 1 \in 1..Len(snapshots)
          BY <1>1, <1>2, <3>2 DEF SnapshotTypes
        <4>2. files[v] = snapshots[v] /\ snapshots[v] # snapshots[v - 1]
          BY <4>1 DEF SnapshotInv, RowsHaveTheirFiles
        <4> QED BY <1>2, <2>2, <3>2, <4>1, <4>2
      <3>3. CASE v = Len(snapshots) + 1 /\ v # 1
        <4>1. t.base # 0 /\ v = t.base + 1 /\ v - 1 = t.base
          BY <1>2, <1>4, <3>3
        <4>2. Holds(w) /\ HeldOK(w)
          BY <1>1, <4>1 DEF Holds, SnapshotInv
        <4>3. files[v] = t.content /\ snapshots[v - 1] # t.content
          BY <1>1, <4>1, <4>2 DEF HeldOK
        <4>4. snapshots'[v] = t.content /\ snapshots'[v - 1] = snapshots[v - 1]
          <5>1. Len(snapshots) \in 1..Len(snapshots)
            BY <1>2, <1>4, <4>1
          <5>2. v = Len(snapshots) + 1 /\ v - 1 = Len(snapshots)
            BY <1>4, <3>3, <4>1
          <5> QED BY <2>2, <5>1, <5>2
        <4> QED BY <4>3, <4>4
      <3> QED BY <1>2, <3>1, <3>2, <3>3
    <2>8. \A x \in Workers : Busy(x)' => refreshing'[x].base <= Len(snapshots')
      BY <2>3, <2>5
    <2>9. \A x \in Workers : Holds(x)' => HeldOK(x)'
      BY <2>5, <2>6
    <2>10. \A x, y \in Workers :
              /\ Holds(x)' /\ Holds(y)'
              /\ refreshing'[x].base = refreshing'[y].base
              => x = y
      BY <2>3, <2>5, <2>6 DEF SnapshotInv
    <2> QED BY <2>4, <2>7, <2>8, <2>9, <2>10 DEF SnapshotInv
  <1> QED BY <1>3, <1>4

\* Every step keeps the invariant.
LEMMA SnapshotStep ==
    SnapshotInv /\ [SnapshotNext]_snapshotVars => SnapshotInv'
  <1> SUFFICES ASSUME SnapshotInv, [SnapshotNext]_snapshotVars
               PROVE  SnapshotInv'
    OBVIOUS
  <1>0. SnapshotTypes
    BY DEF SnapshotInv
  <1>1. ASSUME NEW w \in Workers, SelectLatest(w) PROVE SnapshotInv'
    <2>1. /\ Busy(w) /\ Staged(w, Len(snapshots), "selected")
          /\ UNCHANGED <<visible, edits, messages, snapshots, files, raced,
                         kills>>
      BY <1>1 DEF SelectLatest
    <2>2. Len(snapshots) \in 0..MaxChanges /\ "selected" \in RefreshStages
      BY <1>0, SnapshotNumbers, SnapshotAssumption DEF RefreshStages
    <2>3. /\ refreshing' \in [Workers -> RefreshTasks \cup {None}]
          /\ BusyWorkers' = BusyWorkers
          /\ refreshing'[w].base = Len(snapshots)
          /\ refreshing'[w].stage = "selected"
          /\ \A x \in Workers \ {w} : refreshing'[x] = refreshing[x]
      BY <1>0, <2>1, <2>2, GoesOn
    <2>4. SnapshotTypes'
      BY <1>0, <2>1, <2>3 DEF SnapshotTypes
    <2>5. ~Holds(w)' /\ refreshing'[w].base <= Len(snapshots)
      BY <2>2, <2>3 DEF Holds
    <2> QED BY <2>1, <2>3, <2>4, <2>5, TaskMoves
  <1>2. ASSUME NEW w \in Workers, RefuseFile(w) \/ KillRefresh(w)
        PROVE  SnapshotInv'
    <2>1. kills' \in 0..MaxKills
      BY <1>0, <1>2, SnapshotAssumption
         DEF RefuseFile, KillRefresh, Lost, SnapshotTypes
    <2> QED BY <1>2, <2>1, Finishes DEF RefuseFile, KillRefresh
  <1>3. CASE UNCHANGED snapshotVars
    <2>1. SnapshotTypes'
      BY <1>0, <1>3 DEF snapshotVars, SnapshotTypes, BusyWorkers, Busy
    <2> QED BY <1>3, <2>1, RowsStay DEF snapshotVars
  <1> QED BY <1>1, <1>2, <1>3, Changes, Reads, Checks, Writes, Commits
          DEF SnapshotNext, Refresh

\* The invariant holds initially.
LEMMA SnapshotStart == SnapshotInit => SnapshotInv
  <1> SUFFICES ASSUME SnapshotInit PROVE SnapshotInv
    OBVIOUS
  <1>1. NoComments \in Contents
    BY SnapshotAssumption DEF NoComments
  <1>2. BusyWorkers = {}
    BY DEF SnapshotInit, BusyWorkers, Busy
  <1>3. snapshots = <<>> /\ Len(snapshots) = 0 /\ DOMAIN snapshots = {}
    BY DEF SnapshotInit
  <1>4. SnapshotTypes
    <2>1. IsFiniteSet(BusyWorkers) /\ Cardinality(BusyWorkers) = 0
      BY <1>2, FS_EmptySet
    <2>2. 0 \in 0..MaxChanges /\ 0 \in 0..MaxKills
      BY SnapshotAssumption
    <2>3. snapshots \in Seq(Contents)
      BY DEF SnapshotInit
    <2>4. messages + Cardinality(BusyWorkers) + Len(snapshots) <= edits
      BY <1>3, <2>1 DEF SnapshotInit
    <2> QED BY <1>1, <2>1, <2>2, <2>3, <2>4 DEF SnapshotInit, SnapshotTypes
  <1>5. \A w \in Workers : ~Busy(w)
    BY <1>2 DEF BusyWorkers
  <1> QED BY <1>3, <1>4, <1>5 DEF SnapshotInv, Holds, RowsHaveTheirFiles

\* The messages, the tasks and the rows have their types: no more snapshots
\* are made than there were changes.
THEOREM SnapshotTypesCorrect == SnapshotSpec => []SnapshotTypeOK
  <1>1. SnapshotInv => SnapshotTypeOK
    <2> SUFFICES ASSUME SnapshotInv PROVE SnapshotTypeOK
      OBVIOUS
    <2>1. SnapshotTypes
      BY DEF SnapshotInv
    <2>2. messages \in 0..edits
      BY <2>1, SnapshotNumbers DEF SnapshotTypes
    <2> QED BY <2>1, <2>2, SnapshotNumbers DEF SnapshotTypes, SnapshotTypeOK
  <1> QED BY <1>1, SnapshotStart, SnapshotStep, PTL DEF SnapshotSpec

\* From version 2 on each row says what its file says, and differs from the
\* row before it, whichever tasks write at once and whichever die.
THEOREM FilesCorrect == SnapshotSpec => []RowsHaveTheirFiles
  <1>1. SnapshotInv => RowsHaveTheirFiles
    BY DEF SnapshotInv
  <1> QED BY <1>1, SnapshotStart, SnapshotStep, PTL DEF SnapshotSpec

=============================================================================
