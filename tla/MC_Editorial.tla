----------------------------- MODULE MC_Editorial -----------------------------
(***************************************************************************)
(* Four parts of the editorial work, checked in one run.  They share no    *)
(* row, so a behaviour of one is a behaviour of all with the others        *)
(* standing still, and a property of one depends on its own steps alone:   *)
(* each behaviour here is about one part, the subject.  Only the review    *)
(* tells whether its article is live.                                      *)
(*                                                                         *)
(* The review has two journals with a chief each.  The second chief also   *)
(* works for the first journal, as an associate, and may become its chief. *)
(***************************************************************************)
EXTENDS ArticleReview, PlacementBatches, CategoryTree, ArticleImport, TLC

CONSTANTS chief1, chief2, j1, j2,   \* of the review
          s1, s2                    \* slots

Seat(u, j, r) == [user |-> u, journal |-> j, role |-> r]

MCSeats == {Seat(chief1, j1, "chief_editor"), Seat(chief2, j2, "chief_editor"),
            Seat(chief2, j1, "associate_editor")}

MCAppointments == {Seat(chief2, j1, "chief_editor"),
                   Seat(chief1, j2, "associate_editor")}

MCMaxItems == (s1 :> 1) @@ (s2 :> 2)

-----------------------------------------------------------------------------

VARIABLE subject   \* the part whose steps are taken

editorialVars == <<vars, placementVars, treeVars, importVars, subject>>

EditorialInit ==
    /\ Init /\ PlacementInit /\ TreeInit /\ ImportInit
    /\ subject \in {"review", "placements", "categories", "import"}
    /\ subject = "review" \/ live

EditorialNext ==
    /\ \/ /\ subject = "review"
          /\ Next
          /\ UNCHANGED <<placementVars, treeVars, importVars>>
       \/ /\ subject = "placements"
          /\ PlacementNext
          /\ UNCHANGED <<vars, treeVars, importVars>>
       \/ /\ subject = "categories"
          /\ TreeNext
          /\ UNCHANGED <<vars, placementVars, importVars>>
       \/ /\ subject = "import"
          /\ ImportNext
          /\ UNCHANGED <<vars, placementVars, treeVars>>
    /\ UNCHANGED subject

EditorialSpec == EditorialInit /\ [][EditorialNext]_editorialVars

\* What the last request said is read by no step, and only the property about
\* steps, which is checked on each of them, speaks of it: states that differ
\* in nothing else go on alike.
BesideRequest == <<live, row, revision, content, approvals, page, team,
                   placementVars, treeVars, importVars, subject>>

\* The variables of the subject have their types.  Those of the other parts
\* keep their first values, with which they are the subject of another
\* behaviour.
EditorialTypeOK ==
    /\ subject = "review" => TypeOK
    /\ subject = "placements" => PlacementTypeOK
    /\ subject = "categories" => TreeTypeOK
    /\ subject = "import" => ImportTypeOK
=============================================================================
