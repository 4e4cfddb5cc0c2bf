---------------------------- MODULE ProtectedPdfs ----------------------------
(***************************************************************************)
(* The protected PDF of one article: requested by a build, rendered by the *)
(* workers of another queue, and activated together with the release       *)
(* (reader_access/pdfs.py and the publisher's part of it).                 *)
(*                                                                         *)
(* A build or rollback holds the publish lock.  Reviews, changes of the    *)
(* policy and renderers go on beside it; a killed renderer leaves its      *)
(* artifact as it was, and nothing renders it again.                       *)
(*                                                                         *)
(* A release is the number of its build.  Each build has a version of its  *)
(* own, so an artifact is requested once and its key is never taken.       *)
(***************************************************************************)
EXTENDS Naturals, Sequences, Absent

CONSTANTS
    MaxBuilds,     \* bound: builds
    MaxApprovals   \* bound: final approvals

ASSUME PdfBounds == MaxBuilds \in Nat /\ MaxApprovals \in Nat

VARIABLES
    approval,   \* approved_version by number, 0 if there is none
    approvals,  \* final approvals so far
    offered,    \* the download policy of journal and article
    pages,      \* of each release, the revision its page shows, 0 if none
    build,      \* the build or rollback that holds the publish lock
    live,       \* the active release
    artifact,   \* ProtectedArtifact rows
    renderer,   \* what the renderer of each artifact is about to do
    stored,     \* releases whose PDF is in the private storage
    pair        \* ProtectedManifest rows

input    == <<approval, approvals, offered>>
releases == <<pages, build, live>>
pdfs     == <<artifact, renderer, stored, pair>>
pdfVars  == <<input, releases, pdfs>>

-----------------------------------------------------------------------------

Builds == 1..MaxBuilds
Revisions == 0..MaxApprovals
Rendering == {"idle", "freeze", "store", "note"}

\* RENDERING stands for VALIDATING too: nothing tells the two apart.
Artifacts == [revision : Revisions \ {0},
              status : {"requested", "rendering", "ready", "activated",
                        "failed"}]

\* The revision of the article's file, 0 if the manifest has none.
Pairs == [file : Revisions, status : {"validated", "activated"}]

\* No row is taken for the absence of one.
ASSUME PdfRows == None \notin Artifacts /\ None \notin Pairs

Locks == [release : Builds, stage : {"pages", "wait", "activate"}]

PdfInit ==
    /\ approval = 0 /\ approvals = 0 /\ offered = TRUE
    /\ pages = <<>> /\ build = None /\ live = 0
    /\ artifact = [r \in Builds |-> None]
    /\ renderer = [r \in Builds |-> "idle"]
    /\ stored = {} /\ pair = [r \in Builds |-> None]

-----------------------------------------------------------------------------
(* What goes on beside the builds                                          *)

\* final_review_article
ApproveRevision ==
    /\ approval = 0
    /\ approvals < MaxApprovals
    /\ approval' = approvals + 1 /\ approvals' = approvals + 1
    /\ UNCHANGED <<offered, releases, pdfs>>

\* ArticlePage.save of an edited article
WithdrawRevision ==
    /\ approval # 0
    /\ approval' = 0
    /\ UNCHANGED <<approvals, offered, releases, pdfs>>

OfferDownloads ==
    /\ offered' = ~offered
    /\ UNCHANGED <<approval, approvals, releases, pdfs>>

-----------------------------------------------------------------------------
(* Builds                                                                  *)

\* required_pdf_articles has the article.
Required(r) == pages[r] # 0 /\ approval # 0 /\ offered

\* A build renders the page of the approved revision, or carries the page of
\* the active release forward, or has none.
StartBuild(page) ==
    /\ build = None
    /\ Len(pages) < MaxBuilds
    /\ page \in {0, approval} \/ (live # 0 /\ page = pages[live])
    /\ pages' = Append(pages, page)
    /\ build' = [release |-> Len(pages) + 1, stage |-> "pages"]
    /\ UNCHANGED <<input, live, pdfs>>

\* request_protected_release, for the candidate manifest
RequestPdfs ==
    /\ build # None /\ build.stage = "pages"
    /\ build' = [build EXCEPT !.stage = "wait"]
    /\ artifact' = IF Required(build.release)
                   THEN [artifact EXCEPT ![build.release] =
                            [revision |-> approval, status |-> "requested"]]
                   ELSE artifact
    /\ UNCHANGED <<input, pages, live, renderer, stored, pair>>

\* Mutant of Usable: the wait ends as soon as nothing has failed.
UsableSoon(r) == artifact[r].status # "failed"

Usable(r) == artifact[r].status \in {"ready", "activated"}

\* wait_for_protected_release comes to its end; build_protected_manifest asks
\* once more which PDFs are required, and for the revision approved by now.
BuildPair ==
    /\ build # None /\ build.stage = "wait"
    /\ LET r == build.release IN
       /\ artifact[r] # None => Usable(r)
       /\ Required(r) => artifact[r] # None /\ artifact[r].revision = approval
       /\ pair' = [pair EXCEPT ![r] =
              [file |-> IF Required(r) THEN approval ELSE 0,
               status |-> "validated"]]
    /\ build' = [build EXCEPT !.stage = "activate"]
    /\ UNCHANGED <<input, pages, live, artifact, renderer, stored>>

\* require_activated_protected_pair
Whole(r) ==
    /\ pair[r] # None /\ pair[r].status = "activated"
    /\ pair[r].file # 0 => r \in stored

StartRollback(r) ==
    /\ build = None
    /\ r <= Len(pages) /\ Whole(r)
    /\ build' = [release |-> r, stage |-> "activate"]
    /\ UNCHANGED <<input, pages, live, pdfs>>

\* activate_protected_manifest activates the artifacts of its files.
Activated(r) ==
    IF pair[r].file # 0 THEN [artifact[r] EXCEPT !.status = "activated"]
    ELSE artifact[r]

\* The transaction that activates both manifests.
ActivateRelease ==
    /\ build # None /\ build.stage = "activate"
    /\ LET r == build.release IN
       /\ pair[r].file # 0 => r \in stored
       /\ live' = r
       /\ artifact' = [artifact EXCEPT ![r] = Activated(r)]
       /\ pair' = [pair EXCEPT ![r].status = "activated"]
    /\ build' = None
    /\ UNCHANGED <<input, pages, renderer, stored>>

\* A failed or late PDF, a deadline, any other error, a killed worker.
EndBuild ==
    /\ build # None
    /\ build' = None
    /\ UNCHANGED <<input, pages, live, pdfs>>

-----------------------------------------------------------------------------
(* render_artifact: each artifact is claimed once.                         *)

Turn(r, status, step) ==
    /\ artifact' = [artifact EXCEPT ![r].status = status]
    /\ renderer' = [renderer EXCEPT ![r] = step]
    /\ UNCHANGED <<input, releases, pair>>

StartRender(r) ==
    /\ artifact[r] # None /\ artifact[r].status = "requested"
    /\ Turn(r, "rendering", "freeze")
    /\ UNCHANGED stored

\* freeze_pdf_input refuses everything but the approved revision of an article
\* of the release whose PDFs are offered.
Freeze(r) ==
    /\ renderer[r] = "freeze"
    /\ IF approval = artifact[r].revision /\ pages[r] # 0 /\ offered
       THEN Turn(r, "rendering", "store")
       ELSE Turn(r, "failed", "idle")
    /\ UNCHANGED stored

\* The PDF is printed, validated and put under its key.
StorePdf(r) ==
    /\ renderer[r] = "store"
    /\ stored' = stored \cup {r}
    /\ Turn(r, "rendering", "note")

NoteReady(r) ==
    /\ renderer[r] = "note"
    /\ Turn(r, "ready", "idle")
    /\ UNCHANGED stored

RenderFails(r) ==
    /\ renderer[r] # "idle"
    /\ Turn(r, "failed", "idle")
    /\ UNCHANGED stored

KillRenderer(r) ==
    /\ renderer[r] # "idle"
    /\ renderer' = [renderer EXCEPT ![r] = "idle"]
    /\ UNCHANGED <<input, releases, artifact, stored, pair>>

-----------------------------------------------------------------------------

PdfNext ==
    \/ ApproveRevision \/ WithdrawRevision \/ OfferDownloads
    \/ \E page \in Revisions : StartBuild(page)
    \/ RequestPdfs \/ BuildPair
    \/ \E r \in Builds : StartRollback(r)
    \/ ActivateRelease \/ EndBuild
    \/ \E r \in Builds : \/ StartRender(r) \/ Freeze(r) \/ StorePdf(r)
                         \/ NoteReady(r) \/ RenderFails(r)
                         \/ KillRenderer(r)

PdfSpec == PdfInit /\ [][PdfNext]_pdfVars

-----------------------------------------------------------------------------
(* Properties                                                              *)

PdfTypeOK ==
    /\ approval \in {0, approvals} /\ approvals \in Revisions
    /\ offered \in BOOLEAN
    /\ pages \in Seq(Revisions) /\ Len(pages) <= MaxBuilds
    /\ build \in Locks \cup {None}
    /\ live \in 0..Len(pages)
    /\ artifact \in [Builds -> Artifacts \cup {None}]
    /\ renderer \in [Builds -> Rendering]
    /\ stored \subseteq Builds
    /\ pair \in [Builds -> Pairs \cup {None}]

\* Whatever fails, is killed or comes late, the active release has its whole
\* pair: a manifest activated with it, and for a file of the article the stored
\* and activated PDF of the same revision, none older than the page.
ActivePairIsWhole ==
    live # 0 =>
        /\ pair[live] # None /\ pair[live].status = "activated"
        /\ pair[live].file # 0 =>
               /\ live \in stored
               /\ artifact[live] = [revision |-> pair[live].file,
                                    status |-> "activated"]
               /\ pages[live] \in 1..pair[live].file
=============================================================================
