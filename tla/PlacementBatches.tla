--------------------------- MODULE PlacementBatches ---------------------------
(***************************************************************************)
(* Where articles are placed on the pages of a journal, one by one         *)
(* (placements/services.py) or in batches (placements/batch_services.py    *)
(* and batch_operations.py), from the admin's views                        *)
(* (placements/workflow_viewset.py).                                       *)
(*                                                                         *)
(* A batch is a draft that is edited, reviewed and executed by requests    *)
(* that may overlap: two tabs, or a button that was pressed twice.  Only   *)
(* the execution locks it.  An execution that fails is rolled back, and    *)
(* noted as failed in a second transaction without the lock.               *)
(*                                                                         *)
(* One journal, all of whose articles are approved.  Left out: schedules   *)
(* (everything overlaps), the order and the pins of placements, who may do *)
(* what, and the publication itself (ArticleDelivery): of a publish job    *)
(* only its creation is kept.                                              *)
(***************************************************************************)
EXTENDS Naturals, FiniteSets, Absent

CONSTANTS
    Articles,      \* articles of the journal
    Slots,         \* slots of its pages
    MaxItems,      \* max_items of each slot
    PlacementIds,  \* primary keys of placements
    Batches,       \* primary keys of batches
    Tabs,          \* requests of the views that are under way together
    MaxErrors      \* bound: executions that the database aborts

VARIABLES
    placement,     \* the manual ArticlePlacement rows
    batch,         \* the PlacementBatch rows
    jobs,          \* publish jobs that each batch has created
    tab,           \* what the requests are doing
    overwritten,   \* history: batches a draft was saved over after the execution
    errors         \* aborted executions so far

placementVars == <<placement, batch, jobs, tab, overwritten, errors>>

-----------------------------------------------------------------------------

Placements == [article : Articles, slot : Slots, active : BOOLEAN]

Operations == {"create", "deactivate", "reactivate", "move", "copy"}

BatchStatuses == {"draft", "validating", "ready", "failed", "succeeded"}

\* `items` are articles to place, or placements to maintain; `dated` says
\* whether executed_at is set.
BatchRows ==
    [operation : Operations, slot : Slots, items : SUBSET (Articles \cup PlacementIds),
     status : BatchStatuses, dated : BOOLEAN]

TabStages == {"idle", "editing", "reviewing", "confirmed", "failing"}

\* `copy` is what update_draft is going to save besides the new answers.
TabStates == [stage : TabStages, batch : Batches \cup {None},
              copy : [status : BatchStatuses, dated : BOOLEAN] \cup {None}]

\* A slot holds finitely many rows, and what is absent is none of these.
ASSUME PlacementAssumption ==
    /\ MaxItems \in [Slots -> Nat]
    /\ MaxErrors \in Nat
    /\ IsFiniteSet(Articles) /\ IsFiniteSet(PlacementIds)
    /\ None \notin Articles \cup Slots \cup PlacementIds \cup Batches
    /\ None \notin Placements
    /\ None \notin BatchRows
    /\ None \notin [status : BatchStatuses, dated : BOOLEAN]

Idle == [stage |-> "idle", batch |-> None, copy |-> None]

Active(s) == {r \in PlacementIds : /\ placement[r] # None
                           /\ placement[r].slot = s /\ placement[r].active}

\* The row of the unique constraint.
RowOf(a, s) == {r \in PlacementIds : /\ placement[r] # None
                             /\ placement[r].slot = s
                             /\ placement[r].article = a}

Unused == {r \in PlacementIds : placement[r] = None}

PlacementInit ==
    /\ placement = [r \in PlacementIds |-> None]
    /\ batch = [b \in Batches |-> None]
    /\ jobs = [b \in Batches |-> 0]
    /\ tab = [t \in Tabs |-> Idle]
    /\ overwritten = {}
    /\ errors = 0

-----------------------------------------------------------------------------
(* One placement: services.py.  Each locks its slot first.                 *)

\* validate_placement_schedule, of a placement that is to be active.
HasRoom(s, r) == Cardinality(Active(s) \ {r}) < MaxItems[s]

\* save_manual_placement from a form that may be old: every field is saved.
SavePlacement(r, a, s) ==
    /\ placement[r] # None => placement[r].article = a
    /\ RowOf(a, s) \subseteq {r}
    /\ \E active \in BOOLEAN :
          /\ active => HasRoom(s, r)
          /\ placement' = [placement EXCEPT ![r] =
                 [article |-> a, slot |-> s, active |-> active]]
    /\ UNCHANGED <<batch, jobs, tab, overwritten, errors>>

\* deactivate_manual_placement, which does not lock the slot.
DeactivatePlacement(r) ==
    /\ placement[r] # None /\ placement[r].active
    /\ placement' = [placement EXCEPT ![r].active = FALSE]
    /\ UNCHANGED <<batch, jobs, tab, overwritten, errors>>

-----------------------------------------------------------------------------
(* Drafts                                                                  *)

\* What the forms of the workflow can ask for.
Contents(operation) ==
    [operation : {operation}, slot : Slots,
     items : SUBSET (IF operation = "create" THEN Articles
                     ELSE {r \in PlacementIds : placement[r] # None}) \ {{}},
     status : {"draft"}, dated : {FALSE}]

\* create_draft and create_maintenance_batch
CreateBatch(b) ==
    /\ batch[b] = None
    /\ \E op \in Operations, row \in UNION {Contents(o) : o \in Operations} :
          row.operation = op /\ batch' = [batch EXCEPT ![b] = row]
    /\ UNCHANGED <<placement, jobs, tab, overwritten, errors>>

Executed(b) == batch[b].dated \/ batch[b].status = "succeeded"

\* A form of the workflow is posted: the row is read without a lock.
LoadDraft(t, b) ==
    /\ tab[t] = Idle
    /\ batch[b] # None /\ batch[b].operation = "create" /\ ~Executed(b)
    /\ tab' = [tab EXCEPT ![t] =
           [stage |-> "editing", batch |-> b,
            copy |-> [status |-> batch[b].status, dated |-> batch[b].dated]]]
    /\ UNCHANGED <<placement, batch, jobs, overwritten, errors>>

\* update_draft saves every column of what was read, with the new answers.
\* Bound: over an executed batch once.
SaveDraft(t) ==
    /\ tab[t].stage = "editing"
    /\ LET b == tab[t].batch
       IN  /\ Executed(b) => b \notin overwritten
           /\ \E row \in Contents("create") :
                 batch' = [batch EXCEPT ![b] =
                     [row EXCEPT !.status = tab[t].copy.status,
                                 !.dated = tab[t].copy.dated]]
           /\ overwritten' = IF Executed(b) THEN overwritten \cup {b}
                             ELSE overwritten
    /\ tab' = [tab EXCEPT ![t] = Idle]
    /\ UNCHANGED <<placement, jobs, errors>>

-----------------------------------------------------------------------------
(* What a batch does to the placements                                     *)

\* Mutant of Counted: only the new placements are counted.
CountedNew(s, items) == items

\* The active placements of the slot with those that a batch brings.
Counted(s, items) == (Active(s) \ items) \cup items

\* _draft_errors, the branches of execute_maintenance_batch, and the unique
\* constraint, for items that are still there.
Fits(row) ==
    /\ row.operation # "create" => row.items \cap Unused = {}
    /\ CASE row.operation = "create" ->
              /\ \A a \in row.items : RowOf(a, row.slot) \cap Active(row.slot) = {}
              /\ Cardinality(Active(row.slot)) + Cardinality(row.items)
                     <= MaxItems[row.slot]
              /\ Cardinality({a \in row.items : RowOf(a, row.slot) = {}})
                     <= Cardinality(Unused)
         [] row.operation = "deactivate" -> TRUE
         [] row.operation = "reactivate" ->
              \A s \in Slots :
                  LET here == {r \in row.items : placement[r].slot = s}
                  IN  here # {} => Cardinality(Counted(s, here)) <= MaxItems[s]
         [] row.operation = "move" ->
              /\ \A r, q \in row.items : placement[r].slot = placement[q].slot
              /\ Cardinality(Counted(row.slot, row.items)) <= MaxItems[row.slot]
              /\ \A r \in row.items :
                    RowOf(placement[r].article, row.slot) \subseteq {r}
         [] row.operation = "copy" ->
              /\ Cardinality(Active(row.slot)) + Cardinality(row.items)
                     <= MaxItems[row.slot]
              /\ \A r \in row.items : RowOf(placement[r].article, row.slot) = {}
              /\ \A r, q \in row.items :
                    placement[r].article = placement[q].article => r = q
              /\ Cardinality(row.items) <= Cardinality(Unused)

\* New rows get unused keys.
Keys(items) ==
    CHOOSE f \in [items -> Unused] :
        \A x, y \in items : f[x] = f[y] => x = y

Placed(row) ==
    LET new  == {a \in row.items \cap Articles : RowOf(a, row.slot) = {}}
        key  == Keys(IF row.operation = "create" THEN new ELSE row.items)
        s    == row.slot
    IN  CASE row.operation = "create" ->
               [r \in PlacementIds |->
                   IF \E a \in new : key[a] = r
                   THEN [article |-> CHOOSE a \in new : key[a] = r,
                         slot |-> s, active |-> TRUE]
                   ELSE IF \E a \in row.items : r \in RowOf(a, s)
                        THEN [placement[r] EXCEPT !.active = TRUE]
                        ELSE placement[r]]
          [] row.operation \in {"deactivate", "reactivate"} ->
               [r \in PlacementIds |->
                   IF r \in row.items
                   THEN [placement[r] EXCEPT
                            !.active = (row.operation = "reactivate")]
                   ELSE placement[r]]
          [] row.operation = "move" ->
               [r \in PlacementIds |-> IF r \in row.items
                               THEN [placement[r] EXCEPT !.slot = s]
                               ELSE placement[r]]
          [] row.operation = "copy" ->
               [r \in PlacementIds |->
                   IF \E q \in row.items : key[q] = r
                   THEN [placement[CHOOSE q \in row.items : key[q] = r]
                            EXCEPT !.slot = s]
                   ELSE placement[r]]

-----------------------------------------------------------------------------
(* Review and execution                                                    *)

\* precheck_batch reads the batch and marks it; precheck_maintenance_batch
\* only reads.
Review(t, b) ==
    /\ tab[t] = Idle
    /\ batch[b] # None /\ ~Executed(b)
    /\ tab' = [tab EXCEPT ![t] =
           [stage |-> "reviewing", batch |-> b, copy |-> None]]
    /\ batch' = IF batch[b].operation = "create"
                THEN [batch EXCEPT ![b].status = "validating"] ELSE batch
    /\ UNCHANGED <<placement, jobs, overwritten, errors>>

\* The verdict is noted, whatever has become of the batch, and a confirmation
\* goes on if it is good.
Verdict(t) ==
    /\ tab[t].stage = "reviewing"
    /\ LET b == tab[t].batch
       IN  /\ batch' = IF batch[b].operation = "create"
                       THEN [batch EXCEPT ![b].status =
                                 IF Fits(batch[b]) THEN "ready" ELSE "failed"]
                       ELSE batch
           /\ \/ Fits(batch[b])
                 /\ tab' = [tab EXCEPT ![t].stage = "confirmed"]
              \/ tab' = [tab EXCEPT ![t] = Idle]
    /\ UNCHANGED <<placement, jobs, overwritten, errors>>

\* Mutant of MayExecute: the batch is not looked at again under its lock.
MayExecuteAgain(b) == TRUE

\* is_executed, under the lock of the batch.
MayExecute(b) == ~Executed(b)

\* execute_create_batch and execute_maintenance_batch: all or nothing.
Execute(t) ==
    /\ tab[t].stage = "confirmed"
    /\ LET b == tab[t].batch
       IN  /\ MayExecute(b)
           /\ Fits(batch[b])
           /\ placement' = Placed(batch[b])
           /\ batch' = [batch EXCEPT ![b].status = "succeeded",
                                     ![b].dated = TRUE]
           /\ jobs' = [jobs EXCEPT ![b] = @ + 1]
    /\ tab' = [tab EXCEPT ![t] = Idle]
    /\ UNCHANGED <<overwritten, errors>>

\* The batch was executed by then, or its items do not fit any more.
Refuse(t) ==
    /\ tab[t].stage = "confirmed"
    /\ LET b == tab[t].batch IN ~MayExecute(b) \/ ~Fits(batch[b])
    /\ tab' = [tab EXCEPT ![t].stage = "failing"]
    /\ UNCHANGED <<placement, batch, jobs, overwritten, errors>>

\* A deadlock of placements and slots, or another error.
Abort(t) ==
    /\ tab[t].stage = "confirmed"
    /\ errors < MaxErrors /\ errors' = errors + 1
    /\ tab' = [tab EXCEPT ![t].stage = "failing"]
    /\ UNCHANGED <<placement, batch, jobs, overwritten>>

\* The handler of the exception, after the rollback.
NoteFailure(t) ==
    /\ tab[t].stage = "failing"
    /\ batch' = [batch EXCEPT ![tab[t].batch].status = "failed",
                              ![tab[t].batch].dated = TRUE]
    /\ tab' = [tab EXCEPT ![t] = Idle]
    /\ UNCHANGED <<placement, jobs, overwritten, errors>>

-----------------------------------------------------------------------------

PlacementNext ==
    \/ \E r \in PlacementIds, a \in Articles, s \in Slots : SavePlacement(r, a, s)
    \/ \E r \in PlacementIds : DeactivatePlacement(r)
    \/ \E b \in Batches : CreateBatch(b)
    \/ \E t \in Tabs, b \in Batches : LoadDraft(t, b) \/ Review(t, b)
    \/ \E t \in Tabs : \/ SaveDraft(t) \/ Verdict(t) \/ Execute(t)
                       \/ Refuse(t) \/ Abort(t) \/ NoteFailure(t)

PlacementSpec == PlacementInit /\ [][PlacementNext]_placementVars

-----------------------------------------------------------------------------
(* Properties                                                              *)

PlacementTypeOK ==
    /\ placement \in [PlacementIds -> Placements \cup {None}]
    /\ batch \in [Batches -> BatchRows \cup {None}]
    /\ jobs \in [Batches -> 0..2]
    /\ tab \in [Tabs -> TabStates]
    /\ overwritten \subseteq Batches
    /\ errors \in 0..MaxErrors

\* Whichever way placements come into a slot, one by one or in batches that
\* were reviewed when there was room, the slot never shows too many.
SlotsHold == \A s \in Slots : Cardinality(Active(s)) <= MaxItems[s]

\* However often a batch is confirmed it is executed and published once, unless
\* a draft is saved over it.
ExecutesOnce == \A b \in Batches : jobs[b] <= 1 \/ b \in overwritten
=============================================================================
