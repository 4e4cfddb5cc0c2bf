------------------------ MODULE ArticleDelivery_proofs ------------------------
(***************************************************************************)
(* Proofs about ArticleDelivery for any set of articles, versions and      *)
(* editors.  PublishedIsServed is not inductive: a build saves a status it *)
(* read earlier, an editor one it computed earlier, and a build records a  *)
(* manifest while another is active.  The invariant below adds what these  *)
(* steps rely on.                                                          *)
(***************************************************************************)
EXTENDS ArticleDelivery, TLAPS

\* What a build is about to save was still true of the active release when it
\* saves it: no activation comes between, because of the publish lock.
ReadStillServed ==
    build.stage = "mark" =>
        /\ build.article \in Articles
        /\ build.read = "published" => build.article \in Included

\* The synchronisation after a placement never publishes.
SyncNeverPublishes == \A e \in Editors : sync[e].next # "published"

\* A build records its manifest under a version no manifest has, so it cannot
\* change the files of the active one.
FreshVersion ==
    /\ active = None \/ active \in recorded
    /\ recorded \subseteq started
    /\ build.stage \in {"render", "mark"} =>
           build.version \in Versions \ recorded
    /\ build.stage = "candidate" => build.version \in recorded
    /\ build.version \in started \cup {None}

IInv == /\ TypeOK
        /\ PublishedIsServed
        /\ ReadStillServed
        /\ SyncNeverPublishes
        /\ FreshVersion

-----------------------------------------------------------------------------

\* The next value of a synchronisation is a status, and never `published`
\* unless the article is published already.
LEMMA SyncedStatusType ==
    ASSUME TypeOK, NEW a \in Articles
    PROVE  /\ SyncedStatus(a) \in Statuses
           /\ SyncedStatus(a) = "published" => status[a] = "published"
  BY DEF SyncedStatus, TypeOK, Statuses

\* Activating a version with a manifest keeps the types.
LEMMA ActivateType ==
    ASSUME TypeOK, NEW v \in Versions, Activate(v)
    PROVE  /\ active' = v
           /\ status' \in [Articles -> Statuses]
           /\ publishedVersion' \in [Articles -> Versions \cup {None}]
  BY DEF Activate, TypeOK, Statuses

\* TypeOK holds initially.
LEMMA TypeInit == Init => TypeOK
  <1> SUFFICES ASSUME Init PROVE TypeOK
    OBVIOUS
  <1> USE DEF Init
  <1>1. build \in Builds
    BY DEF Builds, NoBuild, Statuses
  <1>2. sync \in [Editors -> Syncs]
    BY DEF Syncs, NoSync, Statuses
  <1>3. status \in [Articles -> Statuses]
    BY DEF Statuses
  <1>4. /\ publishedVersion \in [Articles -> Versions \cup {None}]
        /\ files \in [Versions -> SUBSET Articles]
    OBVIOUS
  <1> QED BY <1>1, <1>2, <1>3, <1>4 DEF TypeOK

\* Every step keeps TypeOK: what a build is recording is an article, and the
\* version it records a manifest under is one of Versions.
LEMMA TypeNext ==
    TypeOK /\ ReadStillServed /\ FreshVersion /\ [Next]_vars => TypeOK'
  <1> SUFFICES ASSUME TypeOK, ReadStillServed, FreshVersion, [Next]_vars
               PROVE  TypeOK'
    OBVIOUS
  <1> USE DEF TypeOK, vars, article, delivery, release
  <1>1. ASSUME NEW a \in Articles, FinalApprove(a) PROVE TypeOK'
    BY <1>1 DEF FinalApprove, Statuses
  <1>2. ASSUME NEW a \in Articles, Withdraw(a) PROVE TypeOK'
    BY <1>2 DEF Withdraw, Statuses
  <1>3. ASSUME NEW a \in Articles, PlacementWindow(a) PROVE TypeOK'
    BY <1>3 DEF PlacementWindow, Toggle
  <1>4. ASSUME NEW e \in Editors, NEW a \in Articles, ChangePlacement(e, a)
        PROVE  TypeOK'
    BY <1>4 DEF ChangePlacement, Toggle, Syncs, NoSync, Statuses
  <1>5. ASSUME NEW e \in Editors, SyncRead(e) PROVE TypeOK'
    <2> DEFINE a == sync[e].article
    <2>1. sync[e] \in Syncs
      OBVIOUS
    <2>2. CASE a \in Articles
      <3>1. SyncedStatus(a) \in Statuses
        BY <2>2, SyncedStatusType
      <3>2. sync' \in [Editors -> Syncs]
        BY <1>5, <2>1, <3>1 DEF SyncRead, Syncs, NoSync, Statuses
      <3> QED BY <1>5, <3>2 DEF SyncRead
    <2>3. CASE a \notin Articles
      <3>1. SyncedStatus(a) \in Statuses \/ SyncedStatus(a) = status[a]
        BY DEF SyncedStatus, Statuses
      <3>2. sync' \in [Editors -> Syncs]
        BY <1>5, <2>1, <3>1 DEF SyncRead, Syncs, NoSync, Statuses
      <3> QED BY <1>5, <3>2 DEF SyncRead
    <2> QED BY <2>2, <2>3
  <1>6. ASSUME NEW e \in Editors, SyncWrite(e) PROVE TypeOK'
    BY <1>6 DEF SyncWrite, Syncs, NoSync, Statuses
  <1>7. ASSUME NEW v \in Versions, BeginBuild(v) PROVE TypeOK'
    <2>1. PICK full \in BOOLEAN,
               targets \in SUBSET {a \in Articles : Available(a)} :
            /\ status' = Prepared(targets)
            /\ build' = [NoBuild EXCEPT !.stage = "render", !.version = v,
                           !.done = IF full THEN {} ELSE Included,
                           !.todo = targets]
      BY <1>7 DEF BeginBuild
    <2>2. Included \in SUBSET Articles
      BY DEF Included
    <2>3. build' \in Builds
      BY <2>1, <2>2 DEF Builds, NoBuild, Statuses
    <2>4. status' \in [Articles -> Statuses]
      BY <2>1 DEF Prepared, Statuses
    <2> QED BY <1>7, <2>3, <2>4 DEF BeginBuild
  <1>8. ASSUME NEW a \in Articles, ReadArticle(a) PROVE TypeOK'
    BY <1>8 DEF ReadArticle, Builds
  <1>9. ASSUME RecordBuildSuccess PROVE TypeOK'
    <2>0. build.article \in Articles
      BY <1>9 DEF RecordBuildSuccess, ReadStillServed
    <2>1. build' \in Builds
      BY <1>9, <2>0 DEF RecordBuildSuccess, Marked, Builds, Statuses
    <2>2. status' \in [Articles -> Statuses]
      BY <1>9 DEF RecordBuildSuccess, Statuses
    <2>3. buildVersion' \in SUBSET Articles
      BY <1>9, <2>0 DEF RecordBuildSuccess
    <2> QED BY <1>9, <2>1, <2>2, <2>3 DEF RecordBuildSuccess
  <1>10. ASSUME RecordBuildFailure PROVE TypeOK'
    <2>1. build' \in Builds
      BY <1>10 DEF RecordBuildFailure, Marked, Builds, Statuses
    <2>2. status' \in [Articles -> Statuses]
      BY <1>10 DEF RecordBuildFailure, Builds, Statuses
    <2> QED BY <1>10, <2>1, <2>2 DEF RecordBuildFailure
  <1>11. ASSUME RecordCandidate PROVE TypeOK'
    <2>1. build.version \in Versions \cup {None} /\ build.done \in SUBSET Articles
      BY DEF Builds
    <2>2. files' \in [Versions -> SUBSET Articles]
      BY <1>11, <2>1 DEF RecordCandidate
    <2>3. build' \in Builds
      BY <1>11 DEF RecordCandidate, Builds
    <2>4. recorded' \in SUBSET Versions
      BY <1>11 DEF RecordCandidate, FreshVersion
    <2> QED BY <1>11, <2>2, <2>3, <2>4 DEF RecordCandidate
  <1>12. ASSUME AbortBuild PROVE TypeOK'
    BY <1>12 DEF AbortBuild, NoBuild, Builds, Statuses
  <1>13. ASSUME ActivateBuild PROVE TypeOK'
    BY <1>13 DEF ActivateBuild, Activate, NoBuild, Builds, Statuses
  <1>14. ASSUME NEW v \in Versions, RollBack(v) PROVE TypeOK'
    BY <1>14, ActivateType DEF RollBack, Activate
  <1>15. ASSUME NEW a \in Articles, ImportArticle(a) PROVE TypeOK'
    BY <1>15 DEF ImportArticle, Statuses
  <1>16. CASE UNCHANGED vars
    BY <1>16
  <1> QED BY <1>1, <1>2, <1>3, <1>4, <1>5, <1>6, <1>7, <1>8, <1>9, <1>10, <1>11,
             <1>12, <1>13, <1>14, <1>15, <1>16
          DEF Next, Review, Placing, Building, Publishing

\* The invariant holds initially.
LEMMA IInvInit == Init => IInv
  <1> SUFFICES ASSUME Init PROVE IInv
    OBVIOUS
  <1>1. TypeOK
    BY TypeInit
  <1>2. PublishedIsServed
    BY DEF Init, PublishedIsServed, Included
  <1>3. ReadStillServed /\ SyncNeverPublishes /\ FreshVersion
    BY DEF Init, ReadStillServed, SyncNeverPublishes, FreshVersion, NoBuild,
           NoSync
  <1> QED BY <1>1, <1>2, <1>3 DEF IInv

\* An activation makes every article agree with the manifest it activates.
LEMMA ActivatePublishes ==
    ASSUME TypeOK, PublishedIsServed, NEW v \in Versions, Activate(v)
    PROVE  PublishedIsServed'
  <1>1. Included' = files[v]
    BY NoneAssumption DEF Activate, Included, TypeOK
  <1>2. ASSUME NEW a \in Articles, status'[a] = "published"
        PROVE  a \in files[v]
    BY <1>2 DEF Activate, Delivered, TypeOK
  <1>3. ASSUME NEW a \in Articles
        PROVE  publishedVersion'[a] = IF a \in files[v] THEN v ELSE None
    BY DEF Activate, Delivered
  <1>4. active' = v /\ imported' = {}
    BY DEF Activate
  <1> QED BY <1>1, <1>2, <1>3, <1>4 DEF PublishedIsServed

\* PublishedIsServed is kept by a step that leaves the active release and the
\* published versions alone and publishes nothing the release lacks.
LEMMA KeepsPublished ==
    ASSUME PublishedIsServed, Included' = Included, active' = active,
           publishedVersion' = publishedVersion, imported' = imported,
           \A a \in Articles : status'[a] = "published" =>
               status[a] = "published" \/ a \in Included
    PROVE  PublishedIsServed'
  BY DEF PublishedIsServed

\* Every step keeps PublishedIsServed.
LEMMA PublishedNext == IInv /\ [Next]_vars => PublishedIsServed'
  <1> SUFFICES ASSUME IInv, [Next]_vars PROVE PublishedIsServed'
    OBVIOUS
  <1> USE DEF IInv, vars, article, delivery, release
  <1>1. ASSUME NEW a \in Articles, FinalApprove(a) PROVE PublishedIsServed'
    BY <1>1, KeepsPublished DEF FinalApprove, Included, TypeOK
  <1>2. ASSUME NEW a \in Articles, Withdraw(a) PROVE PublishedIsServed'
    BY <1>2, KeepsPublished DEF Withdraw, Included, TypeOK
  <1>3. ASSUME NEW a \in Articles, PlacementWindow(a) PROVE PublishedIsServed'
    BY <1>3, KeepsPublished DEF PlacementWindow, Included
  <1>4. ASSUME NEW e \in Editors, NEW a \in Articles, ChangePlacement(e, a)
        PROVE  PublishedIsServed'
    BY <1>4, KeepsPublished DEF ChangePlacement, Included
  <1>5. ASSUME NEW e \in Editors, SyncRead(e) PROVE PublishedIsServed'
    BY <1>5, KeepsPublished DEF SyncRead, Included
  <1>6. ASSUME NEW e \in Editors, SyncWrite(e) PROVE PublishedIsServed'
    <2>1. sync[e].next # "published"
      BY DEF SyncNeverPublishes
    <2> QED BY <1>6, <2>1, KeepsPublished DEF SyncWrite, Included, TypeOK
  <1>7. ASSUME NEW v \in Versions, BeginBuild(v) PROVE PublishedIsServed'
    <2>1. PICK targets \in SUBSET {a \in Articles : Available(a)} :
              status' = Prepared(targets)
      BY <1>7 DEF BeginBuild
    <2> QED BY <1>7, <2>1, KeepsPublished DEF BeginBuild, Prepared, Included
  <1>8. ASSUME NEW a \in Articles, ReadArticle(a) PROVE PublishedIsServed'
    BY <1>8, KeepsPublished DEF ReadArticle, Included
  <1>9. ASSUME RecordBuildSuccess PROVE PublishedIsServed'
    BY <1>9, KeepsPublished
       DEF RecordBuildSuccess, ReadStillServed, Included, TypeOK
  <1>10. ASSUME RecordBuildFailure PROVE PublishedIsServed'
    BY <1>10, KeepsPublished
       DEF RecordBuildFailure, ReadStillServed, Included, TypeOK
  <1>11. ASSUME RecordCandidate PROVE PublishedIsServed'
    <2>1. build.version \in recorded' /\ build.version # active
      BY <1>11, NoneAssumption DEF RecordCandidate, FreshVersion
    <2>2. Included' = Included
      BY <1>11, <2>1 DEF RecordCandidate, Included, TypeOK
    <2> QED BY <1>11, <2>2, KeepsPublished DEF RecordCandidate
  <1>12. ASSUME AbortBuild PROVE PublishedIsServed'
    BY <1>12, KeepsPublished DEF AbortBuild, Included
  <1>13. ASSUME ActivateBuild PROVE PublishedIsServed'
    <2>1. build.version \in Versions
      BY <1>13 DEF ActivateBuild, FreshVersion, TypeOK
    <2> QED BY <1>13, <2>1, ActivatePublishes DEF ActivateBuild
  <1>14. ASSUME NEW v \in Versions, RollBack(v) PROVE PublishedIsServed'
    BY <1>14, ActivatePublishes DEF RollBack
  <1>15. ASSUME NEW a \in Articles, ImportArticle(a) PROVE PublishedIsServed'
    BY <1>15 DEF ImportArticle, PublishedIsServed, Included, TypeOK
  <1>16. CASE UNCHANGED vars
    BY <1>16, KeepsPublished DEF Included
  <1> QED BY <1>1, <1>2, <1>3, <1>4, <1>5, <1>6, <1>7, <1>8, <1>9, <1>10, <1>11,
             <1>12, <1>13, <1>14, <1>15, <1>16
          DEF Next, Review, Placing, Building, Publishing

\* Every step keeps ReadStillServed: the active release and the build's read
\* never change while the build is recording a result.
LEMMA ReadNext == IInv /\ [Next]_vars => ReadStillServed'
  <1> SUFFICES ASSUME IInv, [Next]_vars, build'.stage = "mark"
               PROVE  /\ build'.article \in Articles
                      /\ build'.read = "published" => build'.article \in Included'
    BY DEF ReadStillServed
  <1> USE DEF IInv, vars, article, delivery, release
  <1>1. ASSUME build' = build, active' = active, files' = files
        PROVE  /\ build'.article \in Articles
               /\ build'.read = "published" => build'.article \in Included'
    BY <1>1 DEF ReadStillServed, Included
  <1>2. CASE \E a \in Articles :
               Review(a) \/ PlacementWindow(a) \/ ImportArticle(a)
    BY <1>1, <1>2 DEF Review, FinalApprove, Withdraw, PlacementWindow,
                     ImportArticle
  <1>3. CASE \E e \in Editors : Placing(e)
    BY <1>1, <1>3 DEF Placing, ChangePlacement, SyncRead, SyncWrite
  <1>4. ASSUME NEW a \in Articles, ReadArticle(a)
        PROVE  /\ build'.article \in Articles
               /\ build'.read = "published" => build'.article \in Included'
    <2>1. build'.article = a /\ build'.read = status[a]
      BY <1>4 DEF ReadArticle, TypeOK, Builds
    <2>2. Included' = Included
      BY <1>4 DEF ReadArticle, Included
    <2> QED BY <2>1, <2>2 DEF PublishedIsServed
  <1>5. ASSUME NEW v \in Versions, BeginBuild(v) PROVE FALSE
    BY <1>5 DEF BeginBuild, NoBuild
  <1>6. ASSUME RecordBuildSuccess \/ RecordBuildFailure PROVE FALSE
    <2>1. Marked.stage = "render"
      BY DEF Marked, TypeOK, Builds
    <2> QED BY <1>6, <2>1 DEF RecordBuildSuccess, RecordBuildFailure, Marked,
                              TypeOK, Builds
  <1>7. ASSUME RecordCandidate PROVE FALSE
    BY <1>7 DEF RecordCandidate, TypeOK, Builds
  <1>8. ASSUME AbortBuild PROVE FALSE
    BY <1>8 DEF AbortBuild, NoBuild
  <1>9. ASSUME ActivateBuild PROVE FALSE
    BY <1>9 DEF ActivateBuild, NoBuild
  <1>10. ASSUME NEW v \in Versions, RollBack(v) PROVE FALSE
    BY <1>10 DEF RollBack
  <1>11. CASE UNCHANGED vars
    BY <1>1, <1>11
  <1> QED BY <1>2, <1>3, <1>4, <1>5, <1>6, <1>7, <1>8, <1>9, <1>10, <1>11
          DEF Next, Building, Publishing

\* Every step keeps SyncNeverPublishes.
LEMMA SyncNext == IInv /\ [Next]_vars => SyncNeverPublishes'
  <1> SUFFICES ASSUME IInv, [Next]_vars PROVE SyncNeverPublishes'
    OBVIOUS
  <1> USE DEF IInv, vars, article, delivery, release
  <1>1. ASSUME sync' = sync PROVE SyncNeverPublishes'
    BY <1>1 DEF SyncNeverPublishes
  <1>2. CASE \E a \in Articles :
               Review(a) \/ PlacementWindow(a) \/ ImportArticle(a)
    BY <1>1, <1>2 DEF Review, FinalApprove, Withdraw, PlacementWindow,
                     ImportArticle
  <1>3. ASSUME NEW e \in Editors, NEW a \in Articles, ChangePlacement(e, a)
        PROVE  SyncNeverPublishes'
    BY <1>3 DEF ChangePlacement, SyncNeverPublishes, NoSync, TypeOK
  <1>4. ASSUME NEW e \in Editors, SyncRead(e) PROVE SyncNeverPublishes'
    <2> DEFINE a == sync[e].article
    <2>1. SyncedStatus(a) # status[a] => SyncedStatus(a) # "published"
      BY DEF SyncedStatus
    <2>2. sync[e] \in Syncs
      BY DEF TypeOK
    <2>3. sync'[e].next # "published"
      BY <1>4, <2>1, <2>2 DEF SyncRead, NoSync, TypeOK, Syncs
    <2> QED BY <1>4, <2>3 DEF SyncRead, SyncNeverPublishes, TypeOK
  <1>5. ASSUME NEW e \in Editors, SyncWrite(e) PROVE SyncNeverPublishes'
    BY <1>5 DEF SyncWrite, SyncNeverPublishes, NoSync, TypeOK
  <1>6. CASE Building
    BY <1>1, <1>6 DEF Building, BeginBuild, ReadArticle, RecordBuildSuccess,
                      RecordBuildFailure, RecordCandidate, AbortBuild
  <1>7. CASE Publishing
    BY <1>1, <1>7 DEF Publishing, ActivateBuild, RollBack, Activate
  <1>8. CASE UNCHANGED vars
    BY <1>1, <1>8
  <1> QED BY <1>2, <1>3, <1>4, <1>5, <1>6, <1>7, <1>8 DEF Next, Placing

\* Every step keeps FreshVersion.
LEMMA FreshNext == IInv /\ [Next]_vars => FreshVersion'
  <1> SUFFICES ASSUME IInv, [Next]_vars PROVE FreshVersion'
    OBVIOUS
  <1> USE DEF IInv, vars, article, delivery, release
  <1>1. ASSUME build' = build, active' = active, recorded' = recorded,
               started' = started
        PROVE  FreshVersion'
    BY <1>1 DEF FreshVersion
  <1>2. CASE \E a \in Articles :
               Review(a) \/ PlacementWindow(a) \/ ImportArticle(a)
    BY <1>1, <1>2 DEF Review, FinalApprove, Withdraw, PlacementWindow,
                     ImportArticle
  <1>3. CASE \E e \in Editors : Placing(e)
    BY <1>1, <1>3 DEF Placing, ChangePlacement, SyncRead, SyncWrite
  <1>4. ASSUME NEW v \in Versions, BeginBuild(v) PROVE FreshVersion'
    <2>1. build'.stage = "render" /\ build'.version = v
      BY <1>4 DEF BeginBuild, NoBuild
    <2>2. v \notin recorded
      BY <1>4 DEF BeginBuild, FreshVersion
    <2> QED BY <1>4, <2>1, <2>2 DEF BeginBuild, FreshVersion
  <1>5. ASSUME NEW a \in Articles, ReadArticle(a) PROVE FreshVersion'
    BY <1>5 DEF ReadArticle, FreshVersion, TypeOK, Builds
  <1>6. CASE RecordBuildSuccess \/ RecordBuildFailure
    BY <1>6 DEF RecordBuildSuccess, RecordBuildFailure, Marked, FreshVersion,
                TypeOK, Builds
  <1>7. CASE RecordCandidate
    <2>1. /\ build'.stage = "candidate" /\ build'.version = build.version
          /\ build.version \in Versions /\ build.version \in started
      BY <1>7, NoneAssumption DEF RecordCandidate, FreshVersion, TypeOK, Builds
    <2> QED BY <1>7, <2>1 DEF RecordCandidate, FreshVersion
  <1>8. CASE AbortBuild
    BY <1>8 DEF AbortBuild, NoBuild, FreshVersion
  <1>9. CASE ActivateBuild
    BY <1>9 DEF ActivateBuild, Activate, NoBuild, FreshVersion
  <1>10. ASSUME NEW v \in Versions, RollBack(v) PROVE FreshVersion'
    BY <1>10 DEF RollBack, Activate, FreshVersion
  <1>11. CASE UNCHANGED vars
    BY <1>1, <1>11
  <1> QED BY <1>2, <1>3, <1>4, <1>5, <1>6, <1>7, <1>8, <1>9, <1>10, <1>11
          DEF Next, Building, Publishing

\* The invariant is inductive.
LEMMA IInvNext == IInv /\ [Next]_vars => IInv'
  BY TypeNext, PublishedNext, ReadNext, SyncNext, FreshNext DEF IInv

-----------------------------------------------------------------------------

\* Every reachable state is well typed.
THEOREM TypeCorrect == Spec => []TypeOK
  <1>1. IInv => TypeOK
    BY DEF IInv
  <1> QED BY <1>1, IInvInit, IInvNext, PTL DEF Spec

\* An article is called published only if the active release has it, and its
\* published_version is that release exactly then unless it was imported over
\* since, however builds, reviews, imports and placement changes interleave.
THEOREM DeliveryCorrect == Spec => []PublishedIsServed
  <1>1. IInv => PublishedIsServed
    BY DEF IInv
  <1> QED BY <1>1, IInvInit, IInvNext, PTL DEF Spec

-----------------------------------------------------------------------------
(* Building again does not take an article offline.                        *)

\* An article that is online was online when the build read it: nothing but an
\* activation publishes, and the build holds the publish lock.
PublishedIsRead ==
    build.stage = "mark" /\ status[build.article] = "published" =>
        build.read = "published"

\* Every step keeps PublishedIsRead.
LEMMA ReadIsKept ==
    IInv /\ PublishedIsRead /\ [Next]_vars => PublishedIsRead'
  <1> SUFFICES ASSUME IInv, PublishedIsRead, [Next]_vars,
                      build'.stage = "mark",
                      status'[build'.article] = "published"
               PROVE  build'.read = "published"
    BY DEF PublishedIsRead
  <1> USE DEF IInv, vars, article, delivery, release
  <1>1. ASSUME build' = build,
               \A a \in Articles : status'[a] = "published" =>
                   status[a] = "published"
        PROVE  build'.read = "published"
    BY <1>1 DEF PublishedIsRead, ReadStillServed
  <1>2. CASE \E a \in Articles :
               Review(a) \/ PlacementWindow(a) \/ ImportArticle(a)
    BY <1>1, <1>2
       DEF Review, FinalApprove, Withdraw, PlacementWindow,
                     ImportArticle, TypeOK
  <1>3. ASSUME NEW e \in Editors, Placing(e) PROVE build'.read = "published"
    BY <1>1, <1>3 DEF Placing, ChangePlacement, SyncRead, SyncWrite,
                      SyncNeverPublishes, TypeOK
  <1>4. ASSUME NEW a \in Articles, ReadArticle(a)
        PROVE  build'.read = "published"
    <2>1. build'.article = a /\ build'.read = status[a] /\ status' = status
      BY <1>4 DEF ReadArticle, TypeOK, Builds
    <2> QED BY <2>1
  <1>5. ASSUME NEW v \in Versions, BeginBuild(v) PROVE FALSE
    BY <1>5 DEF BeginBuild, NoBuild
  <1>6. ASSUME RecordBuildSuccess \/ RecordBuildFailure PROVE FALSE
    <2>1. Marked.stage = "render"
      BY DEF Marked, TypeOK, Builds
    <2> QED BY <1>6, <2>1 DEF RecordBuildSuccess, RecordBuildFailure, Marked,
                              TypeOK, Builds
  <1>7. ASSUME RecordCandidate \/ AbortBuild \/ ActivateBuild PROVE FALSE
    <2>1. NoBuild.stage = "idle"
      BY DEF NoBuild
    <2>2. CASE RecordCandidate
      BY <2>2 DEF RecordCandidate, TypeOK, Builds
    <2>3. CASE AbortBuild \/ ActivateBuild
      BY <2>1, <2>3 DEF AbortBuild, ActivateBuild
    <2> QED BY <1>7, <2>2, <2>3
  <1>8. ASSUME NEW v \in Versions, RollBack(v) PROVE FALSE
    BY <1>8 DEF RollBack
  <1>9. CASE UNCHANGED vars
    BY <1>1, <1>9
  <1> QED BY <1>2, <1>3, <1>4, <1>5, <1>6, <1>7, <1>8, <1>9
          DEF Next, Building, Publishing

\* A rebuild, whatever it read before and however it ends, leaves an article
\* that is online what it is; only the activation of a release without the
\* article takes it down.
THEOREM RebuildCorrect == Spec => RebuildKeepsPublished
  <1> DEFINE Keeps ==
         \A a \in Articles :
             status[a] = "published" /\ build' # build
                 /\ status'[a] # "published"
               => active' # active /\ a \notin files[active']
  <1>1. Init => PublishedIsRead
    <2>1. NoBuild.stage # "mark"
      BY DEF NoBuild
    <2> QED BY <2>1 DEF Init, PublishedIsRead
  <1>2. IInv /\ PublishedIsRead /\ [Next]_vars => [Keeps]_vars
    <2> SUFFICES ASSUME IInv, PublishedIsRead, Next,
                        NEW a \in Articles, status[a] = "published",
                        build' # build, status'[a] # "published"
                 PROVE  active' # active /\ a \notin files[active']
      OBVIOUS
    <2> USE DEF IInv
    <2>1. ASSUME NEW e \in Editors, Placing(e) PROVE FALSE
      BY <2>1 DEF Placing, ChangePlacement, SyncRead, SyncWrite
    <2>2. ASSUME NEW b \in Articles,
                 Review(b) \/ PlacementWindow(b) \/ ImportArticle(b)
          PROVE  FALSE
      BY <2>2 DEF Review, FinalApprove, Withdraw, PlacementWindow,
                     ImportArticle
    <2>3. ASSUME NEW v \in Versions, BeginBuild(v) PROVE FALSE
      BY <2>3 DEF BeginBuild, Prepared
    <2>4. ASSUME NEW b \in Articles, ReadArticle(b) PROVE FALSE
      BY <2>4 DEF ReadArticle, delivery
    <2>5. ASSUME RecordBuildSuccess \/ RecordBuildFailure PROVE FALSE
      <3>1. build.stage = "mark" /\ build.article \in Articles
        BY <2>5
           DEF RecordBuildSuccess, RecordBuildFailure, ReadStillServed
      <3>2. a = build.article => build.read = "published"
        BY <3>1 DEF PublishedIsRead
      <3>3. \A b \in Articles \ {build.article} : status'[b] = status[b]
        BY <2>5, <3>1 DEF RecordBuildSuccess, RecordBuildFailure, TypeOK
      <3>4. build.read = "published" => status'[build.article] = "published"
        BY <2>5, <3>1 DEF RecordBuildSuccess, RecordBuildFailure, TypeOK
      <3> QED BY <3>2, <3>3, <3>4
    <2>6. ASSUME RecordCandidate \/ AbortBuild PROVE FALSE
      BY <2>6 DEF RecordCandidate, AbortBuild, delivery
    <2>7. ASSUME NEW v \in Versions, RollBack(v) PROVE FALSE
      BY <2>7 DEF RollBack
    <2>8. CASE ActivateBuild
      <3>1. active' = build.version /\ a \notin files[build.version]
        BY <2>8 DEF ActivateBuild, Activate
      <3>2. active # None /\ a \in files[active]
        BY DEF PublishedIsServed, Included
      <3> QED BY <3>1, <3>2
    <2> QED BY <2>1, <2>2, <2>3, <2>4, <2>5, <2>6, <2>7, <2>8
            DEF Next, Building, Publishing
  <1> QED BY <1>1, <1>2, IInvInit, IInvNext, ReadIsKept, PTL
          DEF Spec, RebuildKeepsPublished

=============================================================================
