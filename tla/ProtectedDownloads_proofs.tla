--------------------- MODULE ProtectedDownloads_proofs ----------------------
(***************************************************************************)
(* Proofs about ProtectedPdfs, for any number of builds and approvals, and *)
(* about DownloadGrants, for any number of releases, approvals and         *)
(* projections.                                                            *)
(*                                                                         *)
(* ActivePairIsWhole rests on a PDF that is ready staying so: its renderer *)
(* is done with it, no build asks for it again, and a protected manifest   *)
(* names only PDFs that are ready, of the latest approval.                 *)
(*                                                                         *)
(* WithdrawnIsNotHanded rests on the lock of the active release: the PDF a *)
(* request has found stays the active one until the request is answered.   *)
(* ClosedIsNotHanded rests on the order of its three last readings. From   *)
(* the moment downloads are closed, either the marker of the change or of  *)
(* a later one is there, or a projection that closes them is applied. A    *)
(* request that saw an older projection and no such marker must find the   *)
(* closing projection when it looks again.                                 *)
(***************************************************************************)
EXTENDS ProtectedPdfs, DownloadGrants, TLAPS

Ready(r) == artifact[r] # None /\ artifact[r].status \in {"ready", "activated"}

\* No page is newer than the latest approval.
PagesAreApproved == \A r \in 1..Len(pages) : pages[r] <= approvals

\* A build that has yet to ask for its PDFs has none, one that waits has no
\* protected manifest, and what is being activated has one.
LockInOrder ==
    build # None =>
        /\ build.release <= Len(pages)
        /\ build.stage = "pages" => artifact[build.release] = None
        /\ build.stage \in {"pages", "wait"} => pair[build.release] = None
        /\ build.stage = "activate" => pair[build.release] # None

\* Renderers are at work on artifacts that say so, and a PDF is stored before
\* its artifact is ready.
RenderersInOrder ==
    \A r \in Builds :
        /\ artifact[r] # None => r <= Len(pages)
        /\ renderer[r] # "idle" =>
               artifact[r] # None /\ artifact[r].status = "rendering"
        /\ renderer[r] = "note" => r \in stored
        /\ Ready(r) => r \in stored

\* What ActivePairIsWhole says of the active release, for every pair.
PairsAreWhole ==
    \A r \in Builds : pair[r] # None =>
        /\ r <= Len(pages)
        /\ pair[r].file # 0 =>
               /\ Ready(r)
               /\ artifact[r].revision = pair[r].file
               /\ pair[r].status = "activated" =>
                      artifact[r].status = "activated"
               /\ pages[r] \in 1..pair[r].file

LiveIsActivated ==
    live # 0 => pair[live] # None /\ pair[live].status = "activated"

PdfInv == /\ PdfTypeOK
        /\ PagesAreApproved
        /\ LockInOrder
        /\ RenderersInOrder
        /\ PairsAreWhole
        /\ LiveIsActivated

-----------------------------------------------------------------------------

Statuses == {"requested", "rendering", "ready", "activated", "failed"}

\* What an artifact is made of.
LEMMA ArtifactParts ==
    ASSUME PdfTypeOK, NEW r \in Builds, artifact[r] # None
    PROVE  /\ artifact[r] \in Artifacts
           /\ artifact[r].revision \in Revisions \ {0}
           /\ artifact[r].status \in Statuses
  BY DEF PdfTypeOK, Artifacts, Statuses

\* What a protected manifest is made of.
LEMMA PairParts ==
    ASSUME PdfTypeOK, NEW r \in Builds, pair[r] # None
    PROVE  /\ pair[r] \in Pairs
           /\ pair[r].file \in Revisions
           /\ pair[r].status \in {"validated", "activated"}
  BY DEF PdfTypeOK, Pairs

\* What the transaction of a build or a rollback is made of.
LEMMA LockParts ==
    ASSUME PdfTypeOK, build # None
    PROVE  /\ build \in Locks
           /\ build.release \in Builds
           /\ build.stage \in {"pages", "wait", "activate"}
  BY DEF PdfTypeOK, Locks

\* An artifact takes another status and keeps its revision.
LEMMA StatusSet ==
    ASSUME PdfTypeOK, NEW r \in Builds, artifact[r] # None,
           NEW s \in Statuses,
           artifact' = [artifact EXCEPT ![r].status = s]
    PROVE  /\ artifact' \in [Builds -> Artifacts \cup {None}]
           /\ artifact'[r] # None
           /\ artifact'[r].status = s
           /\ artifact'[r].revision = artifact[r].revision
           /\ \A q \in Builds \ {r} : artifact'[q] = artifact[q]
  <1> DEFINE a == [artifact[r] EXCEPT !.status = s]
  <1>1. artifact[r] \in Artifacts
    BY ArtifactParts
  <1>2. /\ a \in Artifacts /\ a # None
        /\ a.status = s /\ a.revision = artifact[r].revision
    BY <1>1, PdfRows DEF Artifacts, Statuses
  <1>3. artifact' = [artifact EXCEPT ![r] = a]
    OBVIOUS
  <1> HIDE DEF a
  <1> QED
    BY <1>2, <1>3 DEF PdfTypeOK

-----------------------------------------------------------------------------
(* The steps                                                               *)

\* Reviews and policies touch no release, and approvals only grow.
LEMMA InputStep ==
    ASSUME PdfInv, ApproveRevision \/ WithdrawRevision \/ OfferDownloads
    PROVE  PdfInv'
  <1>1. UNCHANGED <<releases, pdfs>>
    BY DEF ApproveRevision, WithdrawRevision, OfferDownloads
  <1>2. UNCHANGED <<pages, build, live, artifact, renderer, stored, pair>>
    BY <1>1 DEF releases, pdfs
  <1>3. /\ approvals' \in Revisions /\ approvals' >= approvals
        /\ approval' \in {0, approvals'}
    <2>1. /\ approvals \in 0..MaxApprovals /\ approval \in {0, approvals}
          /\ MaxApprovals \in Nat
      BY PdfBounds DEF PdfInv, PdfTypeOK, Revisions
    <2>2. CASE ApproveRevision
      BY <2>1, <2>2 DEF ApproveRevision, Revisions
    <2>3. CASE WithdrawRevision \/ OfferDownloads
      BY <2>1, <2>3 DEF WithdrawRevision, OfferDownloads, Revisions
    <2> QED
      BY <2>2, <2>3
  <1>4. offered' \in BOOLEAN
    BY DEF PdfInv, PdfTypeOK, ApproveRevision, WithdrawRevision, OfferDownloads
  <1>5. PdfTypeOK'
    BY <1>2, <1>3, <1>4 DEF PdfInv, PdfTypeOK
  <1>6. PagesAreApproved'
    <2>1. \A r \in 1..Len(pages) : pages[r] \in Nat
      <3>1. pages \in Seq(0..MaxApprovals)
        BY DEF PdfInv, PdfTypeOK, Revisions
      <3> QED
        BY <3>1, PdfBounds
    <2> QED
      BY <1>2, <1>3, <2>1, PdfBounds
      DEF PdfInv, PdfTypeOK, PagesAreApproved, Revisions
  <1>7. LockInOrder' /\ RenderersInOrder' /\ PairsAreWhole' /\ LiveIsActivated'
    BY <1>2 DEF PdfInv, LockInOrder, RenderersInOrder, PairsAreWhole,
                LiveIsActivated, Ready
  <1> QED
    BY <1>5, <1>6, <1>7 DEF PdfInv

\* A new build has a release of its own.
LEMMA StartBuildStep ==
    ASSUME PdfInv, NEW page \in Revisions, StartBuild(page)
    PROVE  PdfInv'
  <1>1. /\ UNCHANGED <<approval, approvals, offered, live, artifact, renderer,
                       stored, pair>>
        /\ pages' = Append(pages, page)
        /\ build' = [release |-> Len(pages) + 1, stage |-> "pages"]
        /\ Len(pages) < MaxBuilds
        /\ page \in {0, approval} \/ (live # 0 /\ page = pages[live])
    BY DEF StartBuild, input, pdfs
  <1>2. /\ pages \in Seq(Revisions) /\ Len(pages) \in Nat
        /\ live \in 0..Len(pages)
    BY DEF PdfInv, PdfTypeOK
  <1>3. /\ pages' \in Seq(Revisions) /\ Len(pages') = Len(pages) + 1
        /\ \A r \in 1..Len(pages) : pages'[r] = pages[r]
        /\ pages'[Len(pages) + 1] = page
    BY <1>1, <1>2
  <1>4. Len(pages) + 1 \in Builds
    BY <1>1, <1>2, PdfBounds DEF Builds
  <1>5. PdfTypeOK'
    <2>1. build' \in Locks
      BY <1>1, <1>4 DEF Locks
    <2> QED
      BY <1>1, <1>2, <1>3, <2>1, PdfBounds DEF PdfInv, PdfTypeOK
  <1>6. PagesAreApproved'
    <2>1. page <= approvals
      BY <1>1, <1>2, PdfBounds
      DEF PdfInv, PdfTypeOK, PagesAreApproved, Revisions
    <2> QED
      BY <1>1, <1>2, <1>3, <2>1 DEF PdfInv, PagesAreApproved
  <1>7. LockInOrder'
    <2>1. \A r \in Builds : (artifact[r] # None \/ pair[r] # None) =>
                                r <= Len(pages)
      BY DEF PdfInv, RenderersInOrder, PairsAreWhole
    <2>2. /\ artifact[Len(pages) + 1] = None
          /\ pair[Len(pages) + 1] = None
      BY <1>2, <1>4, <2>1
    <2> QED
      BY <1>1, <1>2, <1>3, <2>2 DEF LockInOrder
  <1>8. RenderersInOrder'
    BY <1>1, <1>2, <1>3 DEF PdfInv, RenderersInOrder, Ready, Builds
  <1>9. PairsAreWhole'
    <2>1. \A r \in Builds : pair[r] # None =>
              r <= Len(pages') /\ pages'[r] = pages[r]
      BY <1>2, <1>3, PdfBounds DEF PdfInv, PairsAreWhole, Builds
    <2> QED
      BY <1>1, <2>1 DEF PdfInv, PairsAreWhole, Ready
  <1>10. LiveIsActivated'
    BY <1>1 DEF PdfInv, LiveIsActivated
  <1> QED
    BY <1>5, <1>6, <1>7, <1>8, <1>9, <1>10 DEF PdfInv

\* A build asks for the PDF of the latest approval, which its page is not
\* newer than, under a key nobody has used.
LEMMA RequestPdfsStep == ASSUME PdfInv, RequestPdfs PROVE PdfInv'
  <1> DEFINE r == build.release
             a == [revision |-> approval, status |-> "requested"]
  <1>1. /\ build # None /\ build.stage = "pages"
        /\ build' = [build EXCEPT !.stage = "wait"]
        /\ UNCHANGED <<approval, approvals, offered, pages, live, renderer,
                       stored, pair>>
        /\ \/ artifact' = artifact
           \/ Required(r) /\ artifact' = [artifact EXCEPT ![r] = a]
    BY DEF RequestPdfs, input
  <1>2. /\ build \in Locks /\ r \in Builds
        /\ r <= Len(pages) /\ artifact[r] = None /\ pair[r] = None
    BY <1>1, LockParts DEF PdfInv, LockInOrder
  <1>3. /\ build' \in Locks /\ build'.release = r /\ build'.stage = "wait"
    BY <1>1, <1>2 DEF Locks
  <1>4. Required(r) => a \in Artifacts
    BY DEF PdfInv, PdfTypeOK, Artifacts, Required
  <1>5. a.status = "requested"
    OBVIOUS
  <1> HIDE DEF a
  <1>6. /\ artifact' \in [Builds -> Artifacts \cup {None}]
        /\ \A q \in Builds \ {r} : artifact'[q] = artifact[q]
        /\ artifact'[r] = None \/ artifact'[r] = a
    BY <1>1, <1>2, <1>4 DEF PdfInv, PdfTypeOK
  <1>7. PdfTypeOK'
    BY <1>1, <1>3, <1>6 DEF PdfInv, PdfTypeOK
  <1>8. PagesAreApproved' /\ LiveIsActivated'
    BY <1>1 DEF PdfInv, PagesAreApproved, LiveIsActivated
  <1>9. LockInOrder'
    BY <1>1, <1>2, <1>3 DEF LockInOrder
  <1>10. RenderersInOrder'
    BY <1>1, <1>2, <1>5, <1>6 DEF PdfInv, RenderersInOrder, Ready
  <1>11. PairsAreWhole'
    BY <1>1, <1>2, <1>6 DEF PdfInv, PairsAreWhole, Ready
  <1> QED
    BY <1>7, <1>8, <1>9, <1>10, <1>11 DEF PdfInv

\* The protected manifest names a PDF that is ready, of what is approved now.
LEMMA BuildPairStep == ASSUME PdfInv, BuildPair PROVE PdfInv'
  <1> DEFINE r == build.release
             p == [file |-> IF Required(r) THEN approval ELSE 0,
                   status |-> "validated"]
  <1>1. /\ build # None /\ build.stage = "wait"
        /\ build' = [build EXCEPT !.stage = "activate"]
        /\ UNCHANGED <<approval, approvals, offered, pages, live, artifact,
                       renderer, stored>>
        /\ pair' = [pair EXCEPT ![r] = p]
        /\ artifact[r] # None => Usable(r)
        /\ Required(r) => artifact[r] # None /\ artifact[r].revision = approval
    BY DEF BuildPair, input
  <1>2. /\ build \in Locks /\ r \in Builds
        /\ r <= Len(pages) /\ pair[r] = None
    BY <1>1, LockParts DEF PdfInv, LockInOrder
  <1>3. /\ build' \in Locks /\ build'.release = r /\ build'.stage = "activate"
    BY <1>1, <1>2 DEF Locks
  <1>4. approval \in Revisions
    BY PdfBounds DEF PdfInv, PdfTypeOK, Revisions
  <1>5. p \in Pairs /\ p # None
    BY <1>4, PdfBounds, PdfRows DEF Pairs, Revisions
  <1>6. /\ p.status = "validated"
        /\ p.file # 0 => Required(r) /\ p.file = approval
    OBVIOUS
  <1>7. p.file # 0 => /\ Ready(r) /\ artifact[r].revision = p.file
                      /\ pages[r] \in 1..p.file
    <2>1. SUFFICES ASSUME p.file # 0
                   PROVE  /\ Ready(r) /\ artifact[r].revision = p.file
                          /\ pages[r] \in 1..p.file
      OBVIOUS
    <2>2. Required(r) /\ p.file = approval
      BY <1>6, <2>1
    <2>3. approval = approvals /\ approvals \in Nat
      BY <2>2, PdfBounds DEF PdfInv, PdfTypeOK, Required, Revisions
    <2>4. r \in 1..Len(pages) /\ pages[r] \in Nat
      <3>1. pages \in Seq(0..MaxApprovals)
        BY DEF PdfInv, PdfTypeOK, Revisions
      <3>2. r \in 1..Len(pages)
        BY <1>2, <3>1, PdfBounds DEF Builds
      <3> QED
        BY <3>1, <3>2, PdfBounds
    <2>5. pages[r] # 0 /\ pages[r] <= approvals
      BY <2>2, <2>4 DEF PdfInv, PagesAreApproved, Required
    <2> QED
      BY <1>1, <2>2, <2>3, <2>4, <2>5 DEF Ready, Usable
  <1> HIDE DEF p
  <1>8. /\ pair' \in [Builds -> Pairs \cup {None}]
        /\ pair'[r] = p
        /\ \A q \in Builds \ {r} : pair'[q] = pair[q]
    BY <1>1, <1>2, <1>5 DEF PdfInv, PdfTypeOK
  <1>9. PdfTypeOK'
    BY <1>1, <1>3, <1>8 DEF PdfInv, PdfTypeOK
  <1>10. PagesAreApproved' /\ RenderersInOrder'
    BY <1>1 DEF PdfInv, PagesAreApproved, RenderersInOrder, Ready
  <1>11. LockInOrder'
    BY <1>1, <1>2, <1>3, <1>5, <1>8 DEF LockInOrder
  <1>12. PairsAreWhole'
    BY <1>1, <1>2, <1>6, <1>7, <1>8 DEF PdfInv, PairsAreWhole, Ready
  <1>13. LiveIsActivated'
    <2>1. live # 0 => live \in Builds /\ live # r
      BY <1>2, PdfBounds DEF PdfInv, PdfTypeOK, LiveIsActivated, Builds
    <2> QED
      BY <1>1, <1>8, <2>1 DEF PdfInv, LiveIsActivated
  <1> QED
    BY <1>9, <1>10, <1>11, <1>12, <1>13 DEF PdfInv

\* Only a whole pair is gone back to.
LEMMA StartRollbackStep ==
    ASSUME PdfInv, NEW r \in Builds, StartRollback(r)
    PROVE  PdfInv'
  <1>1. /\ UNCHANGED <<approval, approvals, offered, pages, live, artifact,
                       renderer, stored, pair>>
        /\ build' = [release |-> r, stage |-> "activate"]
        /\ r <= Len(pages) /\ pair[r] # None
    BY DEF StartRollback, Whole, input, pdfs
  <1>2. build' \in Locks
    BY <1>1 DEF Locks
  <1>3. PdfTypeOK'
    BY <1>1, <1>2 DEF PdfInv, PdfTypeOK
  <1>4. LockInOrder'
    BY <1>1 DEF LockInOrder
  <1> QED
    BY <1>1, <1>3, <1>4
    DEF PdfInv, PagesAreApproved, RenderersInOrder, PairsAreWhole,
        LiveIsActivated, Ready

\* The release, its manifest and its PDF are activated together.
LEMMA ActivateReleaseStep == ASSUME PdfInv, ActivateRelease PROVE PdfInv'
  <1> DEFINE r == build.release
             p == [pair[r] EXCEPT !.status = "activated"]
  <1>1. /\ build # None /\ build.stage = "activate" /\ build' = None
        /\ UNCHANGED <<approval, approvals, offered, pages, renderer, stored>>
        /\ live' = r
        /\ pair' = [pair EXCEPT ![r] = p]
        /\ artifact' = [artifact EXCEPT ![r] = Activated(r)]
    BY DEF ActivateRelease, input
  <1>2. /\ r \in Builds /\ r <= Len(pages) /\ pair[r] # None
        /\ pair[r] \in Pairs
    BY <1>1, LockParts, PairParts DEF PdfInv, LockInOrder
  <1>3. /\ p \in Pairs /\ p # None
        /\ p.status = "activated" /\ p.file = pair[r].file
    BY <1>2, PdfRows DEF Pairs
  <1> HIDE DEF p
  <1>4. /\ pair' \in [Builds -> Pairs \cup {None}]
        /\ pair'[r] = p
        /\ \A q \in Builds \ {r} : pair'[q] = pair[q]
    BY <1>1, <1>2, <1>3 DEF PdfInv, PdfTypeOK
  <1>5. /\ artifact' \in [Builds -> Artifacts \cup {None}]
        /\ \A q \in Builds \ {r} : artifact'[q] = artifact[q]
        /\ \/ pair[r].file = 0 /\ artifact'[r] = artifact[r]
           \/ /\ Ready(r) /\ artifact'[r] # None
              /\ artifact'[r].status = "activated"
              /\ artifact'[r].revision = artifact[r].revision
    <2>1. CASE pair[r].file = 0
      BY <1>1, <1>2, <2>1 DEF PdfInv, PdfTypeOK, Activated
    <2>2. CASE pair[r].file # 0
      <3>1. Ready(r) /\ artifact[r] # None
        BY <1>2, <2>2 DEF PdfInv, PairsAreWhole, Ready
      <3>2. artifact' = [artifact EXCEPT ![r].status = "activated"]
        BY <1>1, <2>2 DEF Activated
      <3> QED
        BY <1>2, <3>1, <3>2, StatusSet DEF PdfInv, Statuses
    <2> QED
      BY <2>1, <2>2
  <1>6. PdfTypeOK'
    <2>1. live' \in 0..Len(pages)
      BY <1>1, <1>2, PdfBounds DEF PdfInv, PdfTypeOK, Builds
    <2> QED
      BY <1>1, <1>4, <1>5, <2>1 DEF PdfInv, PdfTypeOK
  <1>7. PagesAreApproved' /\ LockInOrder'
    BY <1>1 DEF PdfInv, PagesAreApproved, LockInOrder
  <1>8. RenderersInOrder'
    BY <1>1, <1>2, <1>5 DEF PdfInv, RenderersInOrder, Ready
  <1>9. PairsAreWhole'
    BY <1>1, <1>2, <1>3, <1>4, <1>5 DEF PdfInv, PairsAreWhole, Ready
  <1>10. LiveIsActivated'
    BY <1>1, <1>3, <1>4 DEF LiveIsActivated
  <1> QED
    BY <1>6, <1>7, <1>8, <1>9, <1>10 DEF PdfInv

\* A build that gives up, or is killed, changes no release.
LEMMA EndBuildStep == ASSUME PdfInv, EndBuild PROVE PdfInv'
  <1>1. /\ build' = None
        /\ UNCHANGED <<approval, approvals, offered, pages, live, artifact,
                       renderer, stored, pair>>
    BY DEF EndBuild, input, pdfs
  <1> QED
    BY <1>1
    DEF PdfInv, PdfTypeOK, PagesAreApproved, LockInOrder, RenderersInOrder,
        PairsAreWhole, LiveIsActivated, Ready

-----------------------------------------------------------------------------
(* The renderers: none has a turn with an artifact that is ready.          *)

\* A renderer takes its turn with an artifact that is not ready, which no whole
\* pair names.
LEMMA TurnStep ==
    ASSUME PdfInv, NEW r \in Builds, artifact[r] # None, ~Ready(r),
           NEW s \in Statuses \ {"activated"}, NEW step \in Rendering,
           Turn(r, s, step),
           stored \subseteq stored', stored' \subseteq stored \cup {r},
           step # "idle" => s = "rendering",
           step = "note" \/ s = "ready" => r \in stored'
    PROVE  PdfInv'
  <1>1. /\ UNCHANGED <<approval, approvals, offered, pages, build, live, pair>>
        /\ artifact' = [artifact EXCEPT ![r].status = s]
        /\ renderer' = [renderer EXCEPT ![r] = step]
    BY DEF Turn, input, releases
  <1>2. /\ artifact' \in [Builds -> Artifacts \cup {None}]
        /\ artifact'[r] # None
        /\ artifact'[r].status = s
        /\ \A q \in Builds \ {r} : artifact'[q] = artifact[q]
    BY <1>1, StatusSet DEF PdfInv
  <1>3. /\ renderer' \in [Builds -> Rendering]
        /\ renderer'[r] = step
        /\ \A q \in Builds \ {r} : renderer'[q] = renderer[q]
    BY <1>1 DEF PdfInv, PdfTypeOK
  <1>4. PdfTypeOK'
    BY <1>1, <1>2, <1>3 DEF PdfInv, PdfTypeOK
  <1>5. PagesAreApproved' /\ LiveIsActivated'
    BY <1>1 DEF PdfInv, PagesAreApproved, LiveIsActivated
  <1>6. LockInOrder'
    <2>1. SUFFICES ASSUME build # None PROVE LockInOrder'
      BY <1>1 DEF LockInOrder
    <2>2. build.release \in Builds
      BY <2>1, LockParts DEF PdfInv
    <2> QED
      BY <1>1, <1>2, <2>1, <2>2 DEF PdfInv, LockInOrder
  <1>7. RenderersInOrder'
    BY <1>1, <1>2, <1>3 DEF PdfInv, RenderersInOrder, Ready
  <1>8. PairsAreWhole'
    <2>1. pair[r] # None => pair[r].file = 0
      BY DEF PdfInv, PairsAreWhole
    <2> QED
      BY <1>1, <1>2, <2>1 DEF PdfInv, PairsAreWhole, Ready
  <1> QED
    BY <1>4, <1>5, <1>6, <1>7, <1>8 DEF PdfInv

\* Every step of a renderer is such a turn.
LEMMA RendererStep ==
    ASSUME PdfInv, NEW r \in Builds,
           \/ StartRender(r) \/ Freeze(r) \/ StorePdf(r) \/ NoteReady(r)
           \/ RenderFails(r) \/ KillRenderer(r)
    PROVE  PdfInv'
  <1>1. renderer[r] # "idle" =>
            artifact[r] # None /\ artifact[r].status = "rendering" /\ ~Ready(r)
    BY DEF PdfInv, RenderersInOrder, Ready
  <1>2. stored \subseteq Builds
    BY DEF PdfInv, PdfTypeOK
  <1>3. CASE StartRender(r)
    BY <1>3, TurnStep DEF StartRender, Ready, Statuses, Rendering
  <1>4. CASE Freeze(r)
    <2>1. /\ artifact[r] # None /\ ~Ready(r) /\ stored' = stored
          /\ Turn(r, "rendering", "store") \/ Turn(r, "failed", "idle")
      BY <1>1, <1>4 DEF Freeze
    <2> QED
      BY <2>1, TurnStep DEF Statuses, Rendering
  <1>5. CASE StorePdf(r)
    BY <1>1, <1>5, TurnStep DEF StorePdf, Statuses, Rendering
  <1>6. CASE NoteReady(r)
    <2>1. r \in stored
      BY <1>6 DEF NoteReady, PdfInv, RenderersInOrder
    <2> QED
      BY <1>1, <1>6, <2>1, TurnStep DEF NoteReady, Statuses, Rendering
  <1>7. CASE RenderFails(r)
    BY <1>1, <1>7, TurnStep DEF RenderFails, Statuses, Rendering
  <1>8. CASE KillRenderer(r)
    <2>1. /\ UNCHANGED <<approval, approvals, offered, pages, build, live,
                         artifact, stored, pair>>
          /\ renderer' = [renderer EXCEPT ![r] = "idle"]
      BY <1>8 DEF KillRenderer, input, releases
    <2>2. /\ renderer' \in [Builds -> Rendering]
          /\ \A q \in Builds : renderer'[q] \in {renderer[q], "idle"}
      BY <2>1 DEF PdfInv, PdfTypeOK, Rendering
    <2>3. PdfTypeOK' /\ RenderersInOrder'
      BY <2>1, <2>2 DEF PdfInv, PdfTypeOK, RenderersInOrder, Ready
    <2> QED
      BY <2>1, <2>3 DEF PdfInv, PagesAreApproved, LockInOrder, PairsAreWhole,
                        LiveIsActivated, Ready
  <1> QED
    BY <1>3, <1>4, <1>5, <1>6, <1>7, <1>8

-----------------------------------------------------------------------------
(* The theorems                                                            *)

\* The invariant holds initially.
LEMMA PdfStart == PdfInit => PdfInv
  <1> SUFFICES ASSUME PdfInit PROVE PdfInv
    OBVIOUS
  <1>1. /\ pages = <<>> /\ pages \in Seq(Revisions) /\ Len(pages) = 0
    BY DEF PdfInit
  <1>2. PdfTypeOK
    BY <1>1, PdfBounds DEF PdfInit, PdfTypeOK, Revisions, Rendering
  <1> QED
    BY <1>1, <1>2
    DEF PdfInit, PdfInv, PagesAreApproved, LockInOrder, RenderersInOrder,
        PairsAreWhole, LiveIsActivated, Ready

\* The invariant is inductive.
LEMMA PdfStep == PdfInv /\ [PdfNext]_pdfVars => PdfInv'
  <1> SUFFICES ASSUME PdfInv, [PdfNext]_pdfVars PROVE PdfInv'
    OBVIOUS
  <1>1. CASE UNCHANGED pdfVars
    BY <1>1
    DEF pdfVars, input, releases, pdfs, PdfInv, PdfTypeOK, PagesAreApproved,
        LockInOrder, RenderersInOrder, PairsAreWhole, LiveIsActivated, Ready
  <1>2. CASE PdfNext
    BY <1>2, InputStep, StartBuildStep, RequestPdfsStep, BuildPairStep,
       StartRollbackStep, ActivateReleaseStep, EndBuildStep, RendererStep
    DEF PdfNext
  <1> QED
    BY <1>1, <1>2

\* The invariant holds in every reachable state.
LEMMA PdfHolds == PdfSpec => []PdfInv
  BY PdfStart, PdfStep, PTL DEF PdfSpec

\* The variables keep their types.
THEOREM PdfTypesCorrect == PdfSpec => []PdfTypeOK
  <1>1. PdfInv => PdfTypeOK
    BY DEF PdfInv
  <1> QED
    BY <1>1, PdfHolds, PTL

\* Whatever renderers and builds fail, are killed or come late, the release
\* that is active has its protected manifest and every PDF that it names.
THEOREM PairCorrect == PdfSpec => []ActivePairIsWhole
  <1>1. ASSUME PdfInv, live # 0
        PROVE  /\ pair[live] # None /\ pair[live].status = "activated"
               /\ pair[live].file # 0 =>
                      /\ live \in stored
                      /\ artifact[live] = [revision |-> pair[live].file,
                                           status |-> "activated"]
                      /\ pages[live] \in 1..pair[live].file
    <2>1. live \in Builds
      BY <1>1, PdfBounds DEF PdfInv, PdfTypeOK, Builds
    <2>2. pair[live] # None /\ pair[live].status = "activated"
      BY <1>1 DEF PdfInv, LiveIsActivated
    <2>3. ASSUME pair[live].file # 0
          PROVE  /\ live \in stored
                 /\ artifact[live] = [revision |-> pair[live].file,
                                      status |-> "activated"]
                 /\ pages[live] \in 1..pair[live].file
      <3>1. /\ Ready(live) /\ artifact[live].revision = pair[live].file
            /\ artifact[live].status = "activated"
            /\ pages[live] \in 1..pair[live].file
        BY <1>1, <2>1, <2>2, <2>3 DEF PdfInv, PairsAreWhole
      <3>2. artifact[live] \in Artifacts
        BY <1>1, <2>1, <3>1, ArtifactParts DEF PdfInv, Ready
      <3>3. live \in stored
        BY <1>1, <2>1, <3>1 DEF PdfInv, RenderersInOrder
      <3> QED
        BY <3>1, <3>2, <3>3 DEF Artifacts
    <2> QED
      BY <2>2, <2>3
  <1>2. PdfInv => ActivePairIsWhole
    BY <1>1 DEF ActivePairIsWhole
  <1> QED
    BY <1>2, PdfHolds, PTL

-----------------------------------------------------------------------------
\* No approval that stands is one that was withdrawn.
ReviewsInOrder ==
    /\ withdrawn <= reviews
    /\ revision # 0 => withdrawn < revision

ReleasesInOrder ==
    /\ listed => active # 0
    /\ activating # None => activating.release <= Len(prepared)

\* While downloads are closed an activation offers none; a change that closes
\* them neither.  The marker of a change is there until it ends.
TransactionsInOrder ==
    /\ activating # None =>
           /\ changing = None
           /\ activating.payload.version <= versions
           /\ ~enabled => activating.payload.artifact = 0
    /\ changing # None =>
           /\ desired = changing
           /\ changing.version <= versions
           /\ enabled => changing.artifact = 0
           /\ \A p \in published : p.version < changing.version
    /\ \A p \in published : p.version <= versions
    /\ capability # None => capability \in published

\* Version v or any later one that was published offers no download.
Shut(v) == \A p \in published : p.version >= v => p.artifact = 0

Applied(v) == capability # None /\ capability.version >= v

Marked(v) == desired # None /\ desired.version >= v

ClosedIsNoted ==
    ~enabled => \E v \in 1..versions : Shut(v) /\ (Marked(v) \/ Applied(v))

\* What a request under way relies on.
RequestInOrder ==
    download # None =>
        /\ download.withdrawn < download.revision
        /\ download.kind = "consume" => grant # None
        /\ ~download.allowed => ~enabled
        /\ download.seen # None => download.seen \in published
        /\ download.stage # "article" =>
               /\ activating = None /\ active # 0
               /\ prepared[active].file = download.revision
        /\ download.stage = "marker" /\ ~download.allowed =>
               \E v \in 1..versions : Shut(v) /\ Applied(v)

GrantInv == /\ GrantTypeOK
        /\ ReviewsInOrder
        /\ ReleasesInOrder
        /\ TransactionsInOrder
        /\ ClosedIsNoted
        /\ RequestInOrder

-----------------------------------------------------------------------------
(* Types of the parts                                                      *)

\* Versions, revisions and releases are numbers.
LEMMA Numbers ==
    ASSUME GrantTypeOK
    PROVE  /\ revision \in Nat /\ reviews \in Nat /\ withdrawn \in Nat
           /\ active \in Nat /\ versions \in Nat /\ Len(prepared) \in Nat
           /\ \A p \in published : p.version \in Nat
           /\ desired # None => desired.version \in Nat
           /\ capability # None => capability.version \in Nat
           /\ changing # None => changing.version \in Nat
           /\ \A r \in 1..Len(prepared) : prepared[r] \in Prepared
  <1>1. prepared \in Seq(Prepared) /\ Len(prepared) \in Nat
    BY DEF GrantTypeOK
  <1>2. \A r \in 1..Len(prepared) : prepared[r] \in Prepared
    BY <1>1
  <1>3. \A p \in Projections : p.version \in Nat
    BY GrantBounds DEF Projections
  <1> QED
    BY <1>1, <1>2, <1>3, GrantBounds DEF GrantTypeOK, Approvals

\* What a request is made of.
LEMMA DownloadParts ==
    ASSUME GrantTypeOK, download # None
    PROVE  /\ download \in Downloads
           /\ download.revision \in Nat /\ download.withdrawn \in Nat
           /\ download.release \in 1..MaxPrepared
           /\ download.allowed \in BOOLEAN
           /\ download.seen \in Projections \cup {None}
  BY GrantBounds DEF GrantTypeOK, Downloads, Approvals

\* What the transaction of an activation is made of.
LEMMA PayloadParts ==
    ASSUME GrantTypeOK, activating # None
    PROVE  /\ activating.release \in 1..MaxPrepared
           /\ activating.payload \in Projections
           /\ activating.payload.version \in Nat
  BY GrantBounds DEF GrantTypeOK, Activations, Projections

\* What a transaction projects is a projection, with the next version, and
\* offers a download only if the policy does.
LEMMA EffectiveIs ==
    ASSUME GrantTypeOK, NEW on \in BOOLEAN, NEW r \in 0..MaxPrepared,
           NEW is \in BOOLEAN, versions < MaxProjections
    PROVE  /\ Effective(on, r, is) \in Projections
           /\ Effective(on, r, is) # None
           /\ Effective(on, r, is).version = versions + 1
           /\ ~on => Effective(on, r, is).artifact = 0
  <1>1. versions + 1 \in 1..MaxProjections /\ revision \in Approvals
    BY GrantBounds DEF GrantTypeOK, Approvals
  <1> QED
    BY <1>1, GrantBounds, GrantRows DEF Effective, Projections

-----------------------------------------------------------------------------
(* The steps                                                               *)

\* Reviews, and a build that has its manifest.
LEMMA ReviewStep ==
    ASSUME GrantInv, FinishReview \/ EditArticle
    PROVE  GrantInv'
  <1>1. UNCHANGED <<enabled, prepared, active, activating, changing, versions,
                    published, desired, capability, grant, download>>
    BY DEF FinishReview, EditArticle, opened, projected
  <1>2. /\ revision' \in {0, reviews'} /\ reviews' \in Approvals
        /\ withdrawn' \in Approvals /\ ReviewsInOrder'
    <2>1. /\ revision \in {0, reviews} /\ reviews \in 0..MaxReviews
          /\ withdrawn \in 0..MaxReviews /\ MaxReviews \in Nat
      BY GrantBounds DEF GrantInv, GrantTypeOK, Approvals
    <2>2. CASE FinishReview
      BY <2>1, <2>2 DEF FinishReview, GrantInv, ReviewsInOrder, Approvals
    <2>3. CASE EditArticle
      BY <2>1, <2>3
      DEF EditArticle, ResetReview, GrantInv, ReviewsInOrder, Approvals
    <2> QED
      BY <2>2, <2>3
  <1>3. listed' = listed \/ listed' = FALSE
    BY DEF FinishReview, EditArticle, ResetReview
  <1>4. GrantTypeOK'
    BY <1>1, <1>2, <1>3 DEF GrantInv, GrantTypeOK
  <1>5. ReleasesInOrder'
    BY <1>1, <1>3 DEF GrantInv, ReleasesInOrder
  <1>6. TransactionsInOrder' /\ ClosedIsNoted' /\ RequestInOrder'
    BY <1>1 DEF GrantInv, TransactionsInOrder, ClosedIsNoted, RequestInOrder,
       Shut,
                Marked, Applied
  <1> QED
    BY <1>2, <1>4, <1>5, <1>6 DEF GrantInv

\* A release is added; the others stay as they are.
LEMMA PrepareStep ==
    ASSUME GrantInv, NEW page \in BOOLEAN, PrepareRelease(page)
    PROVE  GrantInv'
  <1> DEFINE p == [page |-> page, file |-> IF page /\ enabled THEN revision
                                                              ELSE 0,
                   activated |-> FALSE]
  <1>1. /\ UNCHANGED <<revision, reviews, withdrawn, listed, enabled, active,
                       activating, changing, versions, published, desired,
                       capability, grant, download>>
        /\ prepared' = Append(prepared, p) /\ Len(prepared) < MaxPrepared
    BY DEF PrepareRelease, opened, projected
  <1>2. p \in Prepared
    BY GrantBounds DEF GrantInv, GrantTypeOK, Prepared, Approvals
  <1>3. prepared \in Seq(Prepared) /\ Len(prepared) \in Nat
    BY DEF GrantInv, GrantTypeOK
  <1> HIDE DEF p
  <1>4. /\ prepared' \in Seq(Prepared) /\ Len(prepared') = Len(prepared) + 1
        /\ \A r \in 1..Len(prepared) : prepared'[r] = prepared[r]
    BY <1>1, <1>2, <1>3
  <1>5. GrantTypeOK'
    BY <1>1, <1>3, <1>4, GrantBounds DEF GrantInv, GrantTypeOK
  <1>6. ReviewsInOrder' /\ TransactionsInOrder' /\ ClosedIsNoted'
    BY <1>1 DEF GrantInv, ReviewsInOrder, TransactionsInOrder, ClosedIsNoted,
                Shut, Marked, Applied
  <1>7. ReleasesInOrder'
    <2>1. activating # None => activating.release \in Nat
      BY PayloadParts, GrantBounds DEF GrantInv
    <2> QED
      BY <1>1, <1>3, <1>4, <2>1 DEF GrantInv, ReleasesInOrder
  <1>8. RequestInOrder'
    <2>1. active # 0 => prepared'[active] = prepared[active]
      BY <1>3, <1>4 DEF GrantInv, GrantTypeOK
    <2> QED
      BY <1>1, <2>1 DEF GrantInv, RequestInOrder, Shut, Applied
  <1> QED
    BY <1>5, <1>6, <1>7, <1>8 DEF GrantInv

\* An activation has computed and marked its projection.
LEMMA OpenActivationStep ==
    ASSUME GrantInv, NEW r \in 1..Len(prepared), OpenActivation(r)
    PROVE  GrantInv'
  <1> DEFINE p == Effective(enabled, r, prepared[r].page /\ revision # 0)
  <1>1. /\ activating = None /\ changing = None
        /\ download # None => download.stage = "article"
        /\ versions < MaxProjections /\ versions' = versions + 1
        /\ activating' = [release |-> r, payload |-> p] /\ desired' = p
        /\ UNCHANGED <<revision, reviews, withdrawn, listed, enabled, prepared,
                       active, changing, published, capability, grant,
                       download>>
    BY DEF OpenActivation, rows
  <1>2. r \in 1..MaxPrepared /\ prepared[r].page \in BOOLEAN
    BY Numbers, GrantBounds DEF GrantInv, GrantTypeOK, Prepared
  <1>3. /\ p \in Projections /\ p # None /\ p.version = versions + 1
        /\ ~enabled => p.artifact = 0
    <2>1. (prepared[r].page /\ revision # 0) \in BOOLEAN
      OBVIOUS
    <2>2. enabled \in BOOLEAN /\ r \in 0..MaxPrepared
      BY <1>2, GrantBounds DEF GrantInv, GrantTypeOK
    <2> QED
      BY <1>1, <2>1, <2>2, EffectiveIs DEF GrantInv
  <1> HIDE DEF p
  <1>4. /\ activating' \in Activations
        /\ activating'.release = r /\ activating'.payload = p
    BY <1>1, <1>2, <1>3 DEF Activations
  <1>5. versions \in Nat /\ versions' \in 0..MaxProjections
    BY <1>1, Numbers, GrantBounds DEF GrantInv
  <1>6. GrantTypeOK'
    BY <1>1, <1>3, <1>4, <1>5 DEF GrantInv, GrantTypeOK
  <1>7. ReviewsInOrder' /\ ReleasesInOrder'
    BY <1>1, <1>4, Numbers DEF GrantInv, ReviewsInOrder, ReleasesInOrder
  <1>8. TransactionsInOrder'
    <2>1. \A q \in published : q.version <= versions'
      BY <1>1, <1>5, Numbers DEF GrantInv, TransactionsInOrder
    <2> QED
      BY <1>1, <1>3, <1>4, <1>5, <2>1 DEF GrantInv, TransactionsInOrder
  <1>9. ClosedIsNoted'
    BY <1>1, <1>3, <1>5 DEF GrantInv, ClosedIsNoted, Shut, Marked, Applied
  <1>10. RequestInOrder'
    BY <1>1 DEF GrantInv, RequestInOrder
  <1> QED
    BY <1>6, <1>7, <1>8, <1>9, <1>10 DEF GrantInv

\* The release is active and its projection goes out.
LEMMA CommitActivatedStep == ASSUME GrantInv, CommitActivated PROVE GrantInv'
  <1> DEFINE r == activating.release
             p == activating.payload
             e == [prepared[r] EXCEPT !.activated = TRUE]
  <1>1. /\ activating # None /\ activating' = None
        /\ active' = r /\ listed' = prepared[r].page
        /\ prepared' = [prepared EXCEPT ![r] = e]
        /\ published' = published \cup {p}
        /\ UNCHANGED <<revision, reviews, withdrawn, enabled, changing,
                       versions, desired, capability, grant, download>>
    BY DEF CommitActivated
  <1>2. /\ r \in 1..Len(prepared) /\ r # 0 /\ prepared[r] \in Prepared
        /\ p \in Projections /\ p.version \in Nat
    BY <1>1, PayloadParts, Numbers, GrantBounds DEF GrantInv, ReleasesInOrder
  <1>3. changing = None /\ p.version <= versions /\ (~enabled => p.artifact = 0)
    BY <1>1 DEF GrantInv, TransactionsInOrder
  <1>4. e \in Prepared
    BY <1>2 DEF Prepared
  <1> HIDE DEF e
  <1>5. prepared' \in Seq(Prepared) /\ Len(prepared') = Len(prepared)
    BY <1>1, <1>2, <1>4 DEF GrantInv, GrantTypeOK
  <1>6. prepared[r].page \in BOOLEAN
    BY <1>2 DEF Prepared
  <1>7. GrantTypeOK'
    <2>1. active' \in 0..Len(prepared')
      BY <1>1, <1>2, <1>5, Numbers DEF GrantInv
    <2> QED
      BY <1>1, <1>2, <1>5, <1>6, <2>1 DEF GrantInv, GrantTypeOK
  <1>8. ReviewsInOrder' /\ ReleasesInOrder'
    BY <1>1, <1>2 DEF GrantInv, ReviewsInOrder, ReleasesInOrder
  <1>9. TransactionsInOrder'
    BY <1>1, <1>2, <1>3 DEF GrantInv, TransactionsInOrder
  <1>10. ~enabled => \A v \in 1..versions : Shut(v) => Shut(v)'
    BY <1>1, <1>3 DEF Shut
  <1>11. ClosedIsNoted'
    BY <1>1, <1>10 DEF GrantInv, ClosedIsNoted, Marked, Applied
  <1>12. RequestInOrder'
    <2>1. download # None => download.stage = "article"
      BY <1>1 DEF GrantInv, RequestInOrder
    <2> QED
      BY <1>1, <2>1 DEF GrantInv, RequestInOrder
  <1> QED
    BY <1>7, <1>8, <1>9, <1>11, <1>12 DEF GrantInv

\* A change of the policy has computed and marked its projection.
LEMMA OpenChangeStep == ASSUME GrantInv, OpenChange PROVE GrantInv'
  <1> DEFINE p == Effective(~enabled, active, listed /\ revision # 0)
  <1>1. /\ activating = None /\ changing = None
        /\ versions < MaxProjections /\ versions' = versions + 1
        /\ changing' = p /\ desired' = p
        /\ UNCHANGED <<revision, reviews, withdrawn, listed, enabled, prepared,
                       active, activating, published, capability, grant,
                       download>>
    BY DEF OpenChange, rows
  <1>2. /\ p \in Projections /\ p # None /\ p.version = versions + 1
        /\ enabled => p.artifact = 0
    <2>1. (listed /\ revision # 0) \in BOOLEAN /\ (~enabled) \in BOOLEAN
      OBVIOUS
    <2>2. active \in 0..MaxPrepared
      BY Numbers, GrantBounds DEF GrantInv, GrantTypeOK
    <2> QED
      BY <1>1, <2>1, <2>2, EffectiveIs DEF GrantInv
  <1> HIDE DEF p
  <1>3. versions \in Nat /\ versions' \in 0..MaxProjections
    BY <1>1, Numbers, GrantBounds DEF GrantInv
  <1>4. GrantTypeOK'
    BY <1>1, <1>2, <1>3 DEF GrantInv, GrantTypeOK
  <1>5. ReviewsInOrder' /\ ReleasesInOrder'
    BY <1>1 DEF GrantInv, ReviewsInOrder, ReleasesInOrder
  <1>6. TransactionsInOrder'
    <2>1. \A q \in published : q.version \in Nat /\ q.version <= versions
      BY Numbers DEF GrantInv, TransactionsInOrder
    <2>2. \A q \in published : q.version <= versions' /\ q.version < p.version
      BY <1>1, <1>2, <1>3, <2>1
    <2> QED
      BY <1>1, <1>2, <1>3, <2>2 DEF GrantInv, TransactionsInOrder
  <1>7. ClosedIsNoted'
    BY <1>1, <1>2, <1>3 DEF GrantInv, ClosedIsNoted, Shut, Marked, Applied
  <1>8. RequestInOrder'
    <2>1. \A v \in 1..versions : v \in 1..versions'
      BY <1>1, <1>3
    <2> QED
      BY <1>1, <2>1 DEF GrantInv, RequestInOrder, Shut, Applied
  <1> QED
    BY <1>4, <1>5, <1>6, <1>7, <1>8 DEF GrantInv

\* The policy has changed; one that closes downloads has left its marker.
LEMMA CommitPolicyStep == ASSUME GrantInv, CommitPolicy PROVE GrantInv'
  <1>1. /\ changing # None /\ changing' = None
        /\ enabled' = ~enabled
        /\ published' = published \cup {changing}
        /\ download' = IF download # None /\ enabled'
                       THEN [download EXCEPT !.allowed = TRUE] ELSE download
        /\ UNCHANGED <<revision, reviews, withdrawn, listed, prepared, active,
                       activating, versions, desired, capability, grant>>
    BY DEF CommitPolicy
  <1>2. /\ changing \in Projections /\ changing.version \in Nat
        /\ changing.version \in 1..versions
        /\ activating = None /\ desired = changing
        /\ enabled => changing.artifact = 0
        /\ \A q \in published : q.version < changing.version
    <2>1. changing \in Projections
      BY <1>1 DEF GrantInv, GrantTypeOK
    <2>2. changing.version >= 1
      BY <2>1, GrantBounds DEF Projections
    <2> QED
      BY <1>1, <2>1, <2>2, Numbers DEF GrantInv, TransactionsInOrder
  <1>3. enabled \in BOOLEAN /\ enabled' \in BOOLEAN
    BY <1>1 DEF GrantInv, GrantTypeOK
  <1>4. download # None =>
            /\ download' \in Downloads
            /\ enabled' => download'.allowed = TRUE
            /\ ~enabled' => download' = download
            /\ download'.kind = download.kind
            /\ download'.stage = download.stage
            /\ download'.revision = download.revision
            /\ download'.withdrawn = download.withdrawn
            /\ download'.seen = download.seen
    BY <1>1, DownloadParts DEF GrantInv, Downloads
  <1>5. download = None => download' = None
    BY <1>1
  <1>6. GrantTypeOK'
    BY <1>1, <1>2, <1>3, <1>4, <1>5 DEF GrantInv, GrantTypeOK
  <1>7. ReviewsInOrder' /\ ReleasesInOrder'
    BY <1>1 DEF GrantInv, ReviewsInOrder, ReleasesInOrder
  <1>8. TransactionsInOrder'
    BY <1>1, <1>2 DEF GrantInv, TransactionsInOrder
  <1>9. ClosedIsNoted'
    <2>1. SUFFICES ASSUME enabled PROVE ClosedIsNoted'
      BY <1>1 DEF ClosedIsNoted
    <2>2. PICK v \in 1..versions : v = changing.version
      BY <1>2
    <2>3. Shut(v)'
      BY <1>1, <1>2, <2>1, <2>2, Numbers DEF GrantInv, Shut
    <2>4. Marked(v)'
      BY <1>1, <1>2, <2>2 DEF Marked
    <2> QED
      BY <1>1, <2>2, <2>3, <2>4 DEF ClosedIsNoted
  <1>10. RequestInOrder'
    <2>1. SUFFICES ASSUME download # None PROVE RequestInOrder'
      BY <1>5 DEF RequestInOrder
    <2>2. CASE enabled'
      BY <1>1, <1>4, <2>1, <2>2 DEF GrantInv, RequestInOrder
    <2>3. CASE ~enabled'
      <3>1. enabled /\ download.allowed
        BY <1>1, <2>1, <2>3 DEF GrantInv, RequestInOrder
      <3> QED
        BY <1>1, <1>4, <2>1, <2>3, <3>1 DEF GrantInv, RequestInOrder
    <2> QED
      BY <2>2, <2>3
  <1> QED
    BY <1>6, <1>7, <1>8, <1>9, <1>10 DEF GrantInv

\* A transaction that is rolled back leaves its marker and its version.
LEMMA RollBackStep == ASSUME GrantInv, RollBackTransaction PROVE GrantInv'
  <1>1. /\ activating' = None /\ changing' = None
        /\ UNCHANGED <<revision, reviews, withdrawn, listed, enabled, prepared,
                       active, versions, published, desired, capability, grant,
                       download>>
    BY DEF RollBackTransaction, rows, projected
  <1>2. GrantTypeOK' /\ ReviewsInOrder' /\ ReleasesInOrder'
    BY <1>1 DEF GrantInv, GrantTypeOK, ReviewsInOrder, ReleasesInOrder
  <1> QED
    BY <1>1, <1>2 DEF GrantInv, TransactionsInOrder, ClosedIsNoted,
       RequestInOrder,
                      Shut, Marked, Applied

\* The projection only takes newer versions, and a marker goes once it has its
\* own.
LEMMA ApplyStep ==
    ASSUME GrantInv, NEW p \in published, ApplyProjection(p)
    PROVE  GrantInv'
  <1>1. /\ capability' = IF Fresh(p) THEN p ELSE capability
        /\ desired' = IF desired = p THEN None ELSE desired
        /\ UNCHANGED <<revision, reviews, withdrawn, listed, enabled, prepared,
                       active, activating, changing, versions, published,
                       grant, download>>
    BY DEF ApplyProjection, rows, opened
  <1>2. p \in Projections /\ p # None /\ p.version \in Nat
    BY Numbers, GrantRows DEF GrantInv, GrantTypeOK
  <1>3. /\ capability' \in published /\ capability' # None
        /\ capability'.version \in Nat /\ capability'.version >= p.version
        /\ capability # None => capability'.version >= capability.version
    <2>1. CASE Fresh(p)
      BY <1>1, <1>2, <2>1, Numbers DEF GrantInv, Fresh
    <2>2. CASE ~Fresh(p)
      BY <1>1, <1>2, <2>2, Numbers DEF GrantInv, Fresh, TransactionsInOrder
    <2> QED
      BY <2>1, <2>2
  <1>4. \A v \in 1..versions : Applied(v) => Applied(v)'
    BY <1>3, Numbers DEF GrantInv, Applied
  <1>5. \A v \in 1..versions : Marked(v) => Marked(v)' \/ Applied(v)'
    BY <1>1, <1>2, <1>3, Numbers DEF GrantInv, Marked, Applied
  <1>6. changing # None => desired' = changing
    BY <1>1, <1>2 DEF GrantInv, TransactionsInOrder
  <1>7. GrantTypeOK'
    BY <1>1, <1>3 DEF GrantInv, GrantTypeOK
  <1>8. ReviewsInOrder' /\ ReleasesInOrder' /\ TransactionsInOrder'
    BY <1>1, <1>3, <1>6 DEF GrantInv, ReviewsInOrder, ReleasesInOrder,
                            TransactionsInOrder
  <1>9. ClosedIsNoted'
    BY <1>1, <1>4, <1>5 DEF GrantInv, ClosedIsNoted, Shut
  <1>10. RequestInOrder'
    BY <1>1, <1>4 DEF GrantInv, RequestInOrder, Shut
  <1> QED
    BY <1>7, <1>8, <1>9, <1>10 DEF GrantInv

-----------------------------------------------------------------------------
(* The steps of a request                                                  *)

\* A step of the request leaves everything but the request and the grant.
RestStays ==
    UNCHANGED <<revision, reviews, withdrawn, listed, enabled, prepared,
                active, activating, changing, versions, published,
                desired, capability>>

\* A step of the request is only about the request and its grant.
LEMMA RequestKeeps ==
    ASSUME GrantInv, RestStays,
           download' \in Downloads \cup {None}, grant' \in Grants \cup {None},
           RequestInOrder'
    PROVE  GrantInv'
  <1>1. GrantTypeOK' /\ ReviewsInOrder' /\ ReleasesInOrder'
    BY DEF RestStays, GrantInv, GrantTypeOK, ReviewsInOrder, ReleasesInOrder
  <1>2. TransactionsInOrder' /\ ClosedIsNoted'
    BY DEF RestStays, GrantInv, TransactionsInOrder, ClosedIsNoted, Shut,
       Marked,
           Applied
  <1> QED
    BY <1>1, <1>2 DEF GrantInv

\* A request begins with an approved revision that nobody has withdrawn.
LEMMA BeginDownloadStep ==
    ASSUME GrantInv, NEW kind \in {"issue", "consume"}, BeginDownload(kind)
    PROVE  GrantInv'
  <1> DEFINE d == [kind |-> kind, stage |-> "article", revision |-> revision,
                   release |-> active, seen |-> None, withdrawn |-> withdrawn,
                   allowed |-> enabled]
  <1>1. /\ RestStays /\ grant' = grant /\ download' = d
        /\ revision # 0 /\ listed /\ (kind = "consume" => grant # None)
    BY DEF BeginDownload, RestStays, rows, opened, projected
  <1>2. active \in 1..MaxPrepared
    BY <1>1, Numbers, GrantBounds DEF GrantInv, GrantTypeOK, ReleasesInOrder
  <1>3. revision \in Approvals \ {0} /\ withdrawn \in Approvals
        /\ enabled \in BOOLEAN
    BY <1>1, GrantBounds DEF GrantInv, GrantTypeOK, Approvals
  <1>4. d \in Downloads
    BY <1>2, <1>3 DEF Downloads
  <1>5. /\ d.kind = kind /\ d.stage = "article" /\ d.revision = revision
        /\ d.seen = None /\ d.withdrawn = withdrawn /\ d.allowed = enabled
    OBVIOUS
  <1> HIDE DEF d
  <1>6. RequestInOrder'
    BY <1>1, <1>5 DEF RestStays, GrantInv, ReviewsInOrder, RequestInOrder
  <1> QED
    BY <1>1, <1>4, <1>6, RequestKeeps DEF GrantInv, GrantTypeOK

\* The PDF it has found is of the revision it began with.
LEMMA LockActiveStep == ASSUME GrantInv, LockActive PROVE GrantInv'
  <1> DEFINE d == [download EXCEPT !.stage = "projection", !.seen = capability]
  <1>1. /\ RestStays /\ grant' = grant /\ download' = d
        /\ download # None /\ download.stage = "article" /\ activating = None
        /\ download.release = active
        /\ prepared[active].file = download.revision
    BY DEF LockActive, RestStays, rows, opened, projected
  <1>2. download \in Downloads /\ active # 0
    BY <1>1, DownloadParts, GrantBounds DEF GrantInv
  <1>3. /\ d \in Downloads /\ d.stage = "projection" /\ d.seen = capability
        /\ d.kind = download.kind /\ d.revision = download.revision
        /\ d.withdrawn = download.withdrawn /\ d.allowed = download.allowed
    BY <1>2 DEF Downloads, GrantInv, GrantTypeOK
  <1> HIDE DEF d
  <1>4. RequestInOrder'
    BY <1>1, <1>2, <1>3 DEF RestStays, GrantInv, RequestInOrder,
       TransactionsInOrder
  <1> QED
    BY <1>1, <1>3, <1>4, RequestKeeps DEF GrantInv, GrantTypeOK

\* No marker of the change that closed downloads: it has been applied.
LEMMA ReadDesiredStep == ASSUME GrantInv, ReadDesired PROVE GrantInv'
  <1> DEFINE d == [download EXCEPT !.stage = "marker"]
             p == download.seen
  <1>1. /\ RestStays /\ grant' = grant /\ download' = d
        /\ download # None /\ download.stage = "projection"
        /\ p # None /\ p.artifact # 0 /\ ~Denied(p)
    BY DEF ReadDesired, RestStays, rows, opened, projected
  <1>2. download \in Downloads
    BY <1>1, DownloadParts DEF GrantInv
  <1>3. /\ d \in Downloads /\ d.stage = "marker" /\ d.seen = download.seen
        /\ d.kind = download.kind /\ d.revision = download.revision
        /\ d.withdrawn = download.withdrawn /\ d.allowed = download.allowed
    BY <1>2 DEF Downloads
  <1> HIDE DEF d
  <1>4. ASSUME ~download.allowed
        PROVE  \E v \in 1..versions : Shut(v) /\ Applied(v)
    <2>1. PICK v \in 1..versions : Shut(v) /\ (Marked(v) \/ Applied(v))
      BY <1>1, <1>4 DEF GrantInv, RequestInOrder, ClosedIsNoted
    <2>2. p \in published /\ p.version \in Nat
      BY <1>1, Numbers DEF GrantInv, RequestInOrder
    <2>3. p.version < v
      BY <1>1, <2>1, <2>2 DEF Shut
    <2>4. ~Marked(v)
      BY <1>1, <2>2, <2>3, Numbers DEF GrantInv, Denied, Marked
    <2> QED
      BY <2>1, <2>4
  <1>5. RequestInOrder'
    BY <1>1, <1>3, <1>4 DEF RestStays, GrantInv, RequestInOrder, Shut, Applied
  <1> QED
    BY <1>1, <1>3, <1>5, RequestKeeps DEF GrantInv, GrantTypeOK

\* A request that is answered leaves nothing to rely on.
LEMMA AnswerStep ==
    ASSUME GrantInv, HandOut \/ RefuseDownload \/ ExpireGrant
    PROVE  GrantInv'
  <1>1. RestStays /\ download' = None
    BY DEF HandOut, RefuseDownload, ExpireGrant, RestStays, rows, opened,
           projected
  <1>2. grant' \in Grants \cup {None}
    <2>1. CASE HandOut
      <3>1. active \in 1..MaxPrepared /\ download # None
        BY <2>1, Numbers, GrantBounds
        DEF HandOut, GrantInv, GrantTypeOK, RequestInOrder
      <3>2. CASE download.kind = "consume"
        <4>1. grant # None /\ grant \in Grants
          BY <3>1, <3>2 DEF GrantInv, GrantTypeOK, RequestInOrder
        <4> QED
          BY <2>1, <3>2, <4>1 DEF HandOut, Grants
      <3>3. CASE download.kind # "consume" /\ grant = None
        BY <2>1, <3>1, <3>3 DEF HandOut, Grants
      <3>4. CASE download.kind # "consume" /\ grant # None
        BY <2>1, <3>4 DEF HandOut, GrantInv, GrantTypeOK
      <3> QED
        BY <3>2, <3>3, <3>4
    <2>2. CASE RefuseDownload \/ ExpireGrant
      BY <2>2 DEF RefuseDownload, ExpireGrant, GrantInv, GrantTypeOK
    <2> QED
      BY <2>1, <2>2
  <1>3. RequestInOrder'
    BY <1>1 DEF RequestInOrder
  <1> QED
    BY <1>1, <1>2, <1>3, RequestKeeps

-----------------------------------------------------------------------------
(* The theorems                                                            *)

\* The invariant holds initially.
LEMMA GrantStart == GrantInit => GrantInv
  <1> SUFFICES ASSUME GrantInit PROVE GrantInv
    OBVIOUS
  <1>1. prepared \in Seq(Prepared) /\ Len(prepared) = 0
    BY DEF GrantInit
  <1>2. /\ revision \in {0, reviews} /\ reviews \in Approvals
        /\ withdrawn \in Approvals /\ versions \in 0..MaxProjections
    BY GrantBounds DEF GrantInit, Approvals
  <1>3. Len(prepared) <= MaxPrepared /\ active \in 0..Len(prepared)
    BY <1>1, GrantBounds DEF GrantInit
  <1>4. GrantTypeOK
    BY <1>1, <1>2, <1>3 DEF GrantInit, GrantTypeOK
  <1> QED
    BY <1>4, GrantBounds
    DEF GrantInit, GrantInv, ReviewsInOrder, ReleasesInOrder,
        TransactionsInOrder,
        ClosedIsNoted, RequestInOrder

\* The invariant is inductive.
LEMMA GrantStep == GrantInv /\ [GrantNext]_grantVars => GrantInv'
  <1> SUFFICES ASSUME GrantInv, [GrantNext]_grantVars PROVE GrantInv'
    OBVIOUS
  <1>1. CASE UNCHANGED grantVars
    <2>1. RestStays /\ UNCHANGED <<grant, download>>
      BY <1>1 DEF grantVars, rows, opened, projected, RestStays
    <2>2. RequestInOrder'
      BY <2>1 DEF RestStays, GrantInv, RequestInOrder, Shut, Applied
    <2> QED
      BY <2>1, <2>2, RequestKeeps DEF GrantInv, GrantTypeOK
  <1>2. CASE GrantNext
    BY <1>2, ReviewStep, PrepareStep, OpenActivationStep, CommitActivatedStep,
       OpenChangeStep, CommitPolicyStep, RollBackStep, ApplyStep,
       BeginDownloadStep, LockActiveStep, ReadDesiredStep, AnswerStep
    DEF GrantNext
  <1> QED
    BY <1>1, <1>2

\* The invariant holds in every reachable state.
LEMMA GrantHolds == GrantSpec => []GrantInv
  BY GrantStart, GrantStep, PTL DEF GrantSpec

\* The variables keep their types.
THEOREM GrantTypesCorrect == GrantSpec => []GrantTypeOK
  <1>1. GrantInv => GrantTypeOK
    BY DEF GrantInv
  <1> QED
    BY <1>1, GrantHolds, PTL

\* No PDF is handed out of a revision that was withdrawn before the request.
THEOREM HandedCorrect == GrantSpec => WithdrawnIsNotHanded
  <1>1. GrantInv /\ [GrantNext]_grantVars =>
            [HandOut => prepared[active].file > download.withdrawn]_grantVars
    <2> SUFFICES ASSUME GrantInv, HandOut
                 PROVE  prepared[active].file > download.withdrawn
      OBVIOUS
    <2>1. download # None /\ download.stage = "marker"
      BY DEF HandOut
    <2> QED
      BY <2>1, DownloadParts DEF GrantInv, RequestInOrder
  <1> QED
    BY <1>1, GrantHolds, PTL DEF GrantSpec, WithdrawnIsNotHanded

\* No grant and no file for one is handed out while downloads are closed, from
\* the time the request began.
THEOREM ClosedCorrect == GrantSpec => ClosedIsNotHanded
  <1>1. GrantInv /\ [GrantNext]_grantVars =>
            [HandOut => download.allowed]_grantVars
    <2> SUFFICES ASSUME GrantInv, HandOut, ~download.allowed PROVE FALSE
      OBVIOUS
    <2>1. /\ download # None /\ download.stage = "marker"
          /\ capability.artifact = active
      BY DEF HandOut, Confirmed
    <2>2. PICK v \in 1..versions : Shut(v) /\ Applied(v)
      BY <2>1 DEF GrantInv, RequestInOrder
    <2>3. capability \in published /\ capability.artifact = 0
      BY <2>2 DEF GrantInv, TransactionsInOrder, Shut, Applied
    <2> QED
      BY <2>1, <2>3 DEF GrantInv, RequestInOrder
  <1> QED
    BY <1>1, GrantHolds, PTL DEF GrantSpec, ClosedIsNotHanded

=============================================================================
