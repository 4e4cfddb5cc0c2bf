---------------------------- MODULE PublishedSite ----------------------------
(***************************************************************************)
(* What static publishing promises to readers and operators.  The public   *)
(* site is one copy of one version, the version the database calls active, *)
(* except during a switch and after a switch that was cut short.           *)
(*                                                                         *)
(* The copy is whole unless the stored release it was made from is not:    *)
(* an interrupted pruning can leave such a release behind, and a rollback  *)
(* that was checked before may still serve it.  Pruning never does that to *)
(* the active version.                                                     *)
(***************************************************************************)
CONSTANTS Versions, None

VARIABLES
    served,   \* the copy readers see
    kept,     \* during a switch, the copy they saw before
    active,   \* the version the database calls active
    damaged,  \* versions whose stored release is not whole
    phase     \* "settled", "switching", or "broken": a switch was cut short

vars == <<served, kept, active, damaged, phase>>

Copies  == [version : Versions, whole : BOOLEAN]
Nothing == [version |-> None, whole |-> FALSE]

Init ==
    /\ served = Nothing /\ kept = Nothing
    /\ active = None /\ damaged = {}
    /\ phase = "settled"

\* The old copy is taken down first: readers may see nothing for a moment.
Begin ==
    /\ phase # "switching"
    /\ phase' = "switching"
    /\ kept' = served
    /\ served' = Nothing
    /\ UNCHANGED <<active, damaged>>

\* A new copy goes up, whole if the stored release is, or goes down again.
Swing ==
    /\ phase = "switching"
    /\ served' \in {Nothing} \cup
                     {c \in Copies : c.whole \/ c.version \in damaged}
    /\ UNCHANGED <<kept, active, damaged, phase>>

\* Only what readers already see becomes active.
Complete ==
    /\ phase = "switching"
    /\ served # Nothing
    /\ active' = served.version
    /\ phase' = "settled"
    /\ kept' = Nothing
    /\ UNCHANGED <<served, damaged>>

\* A switch that fails puts the same copy of the active version back.
Cancel ==
    /\ phase = "switching"
    /\ kept.version = active
    /\ served' = kept
    /\ phase' = "settled"
    /\ kept' = Nothing
    /\ UNCHANGED <<active, damaged>>

\* Readers may be left with either copy, or with none.
Break ==
    /\ phase = "switching"
    /\ phase' = "broken"
    /\ served' \in {served, kept}
    /\ kept' = Nothing
    /\ UNCHANGED <<active, damaged>>

\* Stored releases are built, pruned and damaged, the active one never.
Store ==
    /\ phase # "switching"
    /\ damaged' \in SUBSET Versions
    /\ active \in damaged' => active \in damaged
    /\ UNCHANGED <<served, kept, active, phase>>

End == Complete \/ Cancel \/ Break

Next == Begin \/ Swing \/ End \/ Store

Spec == Init /\ [][Next]_vars

FairSpec == Spec /\ WF_vars(End)

=============================================================================
