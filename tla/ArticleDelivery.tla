--------------------------- MODULE ArticleDelivery ---------------------------
(***************************************************************************)
(* The delivery state of articles (articles/publication.py).  Review, the  *)
(* static build, the activation of a manifest, the editing of placements   *)
(* and an import over an existing page all write                           *)
(* ArticlePage.publication_status.  The publisher holds the publish lock,  *)
(* reviewers hold the article's row lock, and neither the synchronisation  *)
(* after a placement is saved nor the import holds any.  The page editor,  *)
(* which writes what it loaded, is left out.                               *)
(*                                                                         *)
(* Publishing is StaticPublish seen from the articles: one build or        *)
(* rollback at a time, whose activation is one database transaction.       *)
(***************************************************************************)
EXTENDS Naturals, FiniteSets

CONSTANTS
    Articles,   \* ArticlePage rows
    Versions,   \* versions that builds may be given
    Editors,    \* requests that save or delete placements concurrently
    None        \* no version, no article

ASSUME NoneAssumption == None \notin Versions /\ None \notin Articles

VARIABLES
    approved,          \* articles whose current revision is finally approved
    placed,            \* articles with a placement effective by now
    status,            \* publication_status
    buildVersion,      \* articles whose build_version is not empty
    publishedVersion,  \* published_version
    build,             \* the build that holds the publish lock
    started,           \* versions given to builds so far
    recorded,          \* versions with a StaticManifest row
    files,             \* articles among the files of each manifest
    active,            \* the version whose manifest is active
    sync,              \* sync_article_placement_status calls under way
    imported           \* history: imported over since the last activation

article  == <<approved, placed>>
delivery == <<status, buildVersion, publishedVersion>>
release  == <<recorded, files, active>>
vars == <<article, delivery, build, started, release, sync, imported>>

-----------------------------------------------------------------------------

Statuses == {"", "approved", "placed", "built", "published", "offline"}

\* A build: what it has rendered, what is left, the article it is recording
\* the result of, and the publication status it read for it.
Builds == [stage : {"idle", "render", "mark", "candidate"},
           version : Versions \cup {None}, done : SUBSET Articles,
           todo : SUBSET Articles, broken : BOOLEAN,
           article : Articles \cup {None}, read : Statuses]

NoBuild == [stage |-> "idle", version |-> None, done |-> {}, todo |-> {},
            broken |-> FALSE, article |-> None, read |-> ""]

Syncs == [step : {"none", "read", "write"}, article : Articles \cup {None},
          next : Statuses]

NoSync == [step |-> "none", article |-> None, next |-> ""]

\* ArticlePlacement.available: approved_version is set and finally approved.
Available(a) == a \in approved /\ a \in placed

Included == IF active = None THEN {} ELSE files[active]

Init ==
    /\ approved = {}
    /\ placed = {}
    /\ status = [a \in Articles |-> ""]
    /\ buildVersion = {}
    /\ publishedVersion = [a \in Articles |-> None]
    /\ build = NoBuild
    /\ started = {}
    /\ recorded = {}
    /\ files = [v \in Versions |-> {}]
    /\ active = None
    /\ sync = [e \in Editors |-> NoSync]
    /\ imported = {}

-----------------------------------------------------------------------------
(* Placements, review and the synchronisation of one article.              *)

\* Mutant of SyncedStatus: stores the status meant for the legacy row.
SyncedStatusLegacy(a) ==
    IF a \notin approved
    THEN IF status[a] = "" THEN "draft" ELSE "offline"
    ELSE IF status[a] \in {"built", "published"}
    THEN status[a]
    ELSE IF Available(a) THEN "placed" ELSE "approved"

\* What sync_article_placement_status computes from the article it reads.
SyncedStatus(a) ==
    IF a \notin approved
    THEN IF status[a] = "" THEN "" ELSE "offline"
    ELSE IF status[a] \in {"built", "published"}
    THEN status[a]
    ELSE IF Available(a) THEN "placed" ELSE "approved"

\* final_review_article approves, under the row lock: APPROVED unless BUILT or
\* PUBLISHED, then the synchronisation with `approved` already written.
FinalApprove(a) ==
    /\ a \notin approved
    /\ approved' = approved \cup {a}
    /\ status' = [status EXCEPT ![a] =
           IF @ \in {"built", "published"} THEN @
           ELSE IF a \in placed THEN "placed" ELSE "approved"]
    /\ UNCHANGED <<placed, buildVersion, publishedVersion, build, started,
                   release, sync, imported>>

\* An approved article is edited (ArticlePage.save), or a pending one is
\* returned or rejected; under the row lock as well.
Withdraw(a) ==
    /\ approved' = approved \ {a}
    /\ status' = [status EXCEPT ![a] = IF @ = "" THEN "" ELSE "offline"]
    /\ UNCHANGED <<placed, buildVersion, publishedVersion, build, started,
                   release, sync, imported>>

Toggle(set, a) == (set \ {a}) \cup ({a} \ set)

\* ArticlePlacement.save and delete, which then synchronise the article.
ChangePlacement(e, a) ==
    /\ sync[e] = NoSync
    /\ placed' \in {placed, Toggle(placed, a)}
    /\ sync' = [sync EXCEPT ![e] = [NoSync EXCEPT !.step = "read",
                                                  !.article = a]]
    /\ UNCHANGED <<approved, delivery, build, started, release, imported>>

\* A placement window opens or closes: nothing is called.
PlacementWindow(a) ==
    /\ placed' = Toggle(placed, a)
    /\ UNCHANGED <<approved, delivery, build, started, release, sync,
                   imported>>

SyncRead(e) ==
    /\ sync[e].step = "read"
    /\ LET a == sync[e].article
       IN  sync' = [sync EXCEPT ![e] =
               IF SyncedStatus(a) = status[a] THEN NoSync
               ELSE [@ EXCEPT !.step = "write", !.next = SyncedStatus(a)]]
    /\ UNCHANGED <<article, delivery, build, started, release, imported>>

\* The update names the article only, whatever its status is by now.
SyncWrite(e) ==
    /\ sync[e].step = "write"
    /\ status' = [status EXCEPT ![sync[e].article] = sync[e].next]
    /\ sync' = [sync EXCEPT ![e] = NoSync]
    /\ UNCHANGED <<article, buildVersion, publishedVersion, build, started,
                   release, imported>>

\* sync_imported_article on the page of an earlier import: a draft again, with
\* no delivery state but the build_version its package may name, whatever the
\* active release has.
ImportArticle(a) ==
    /\ approved' = approved \ {a}
    /\ status' = [status EXCEPT ![a] = ""]
    /\ buildVersion' \in {buildVersion \cup {a}, buildVersion \ {a}}
    /\ publishedVersion' = [publishedVersion EXCEPT ![a] = None]
    /\ imported' = imported \cup {a}
    /\ UNCHANGED <<placed, build, started, release, sync>>

-----------------------------------------------------------------------------
(* A build, from its snapshot of the targets to its candidate manifest.    *)

\* Mutant of Prepared: demotes the articles that are published, too.
PreparedAll(targets) ==
    [a \in Articles |-> IF a \in targets THEN "placed" ELSE status[a]]

\* prepare_articles_for_build.
Prepared(targets) ==
    [a \in Articles |-> IF a \in targets /\ status[a] # "published"
                        THEN "placed" ELSE status[a]]

\* A full build starts from nothing and renders every available article; any
\* other keeps the files of the active release and renders some of them.  The
\* snapshot is one REPEATABLE READ transaction.
BeginBuild(v) ==
    /\ build.stage = "idle"
    /\ v \notin started
    /\ started' = started \cup {v}
    /\ \E full \in BOOLEAN, targets \in SUBSET {a \in Articles : Available(a)} :
          /\ IF full THEN targets = {a \in Articles : Available(a)}
                     ELSE active # None
          /\ status' = Prepared(targets)
          /\ build' = [NoBuild EXCEPT !.stage = "render",
                           !.version = v,
                           !.done = IF full THEN {} ELSE Included,
                           !.todo = targets]
    /\ UNCHANGED <<article, buildVersion, publishedVersion, release, sync,
                   imported>>

\* record_article_build_success and _failure read the article without a lock
\* and save the status they read.
ReadArticle(a) ==
    /\ build.stage = "render"
    /\ a \in build.todo
    /\ build' = [build EXCEPT !.stage = "mark", !.article = a,
                              !.read = status[a]]
    /\ UNCHANGED <<article, delivery, started, release, sync, imported>>

Marked == [build EXCEPT !.stage = "render", !.todo = @ \ {build.article},
                        !.article = None, !.read = ""]

RecordBuildSuccess ==
    /\ build.stage = "mark"
    /\ status' = [status EXCEPT ![build.article] =
           IF build.read = "published" THEN "published" ELSE "built"]
    /\ buildVersion' = buildVersion \cup {build.article}
    /\ build' = [Marked EXCEPT !.done = @ \cup {build.article}]
    /\ UNCHANGED <<article, publishedVersion, started, release, sync,
                   imported>>

RecordBuildFailure ==
    /\ build.stage = "mark"
    /\ status' = [status EXCEPT ![build.article] =
           IF build.read = "" THEN "placed" ELSE build.read]
    /\ build' = [Marked EXCEPT !.broken = TRUE]
    /\ UNCHANGED <<article, buildVersion, publishedVersion, started, release,
                   sync, imported>>

RecordCandidate ==
    /\ build.stage = "render" /\ build.todo = {} /\ ~build.broken
    /\ recorded' = recorded \cup {build.version}
    /\ files' = [files EXCEPT ![build.version] = build.done]
    /\ build' = [build EXCEPT !.stage = "candidate"]
    /\ UNCHANGED <<article, delivery, started, active, sync, imported>>

\* A target failed, a check refused the release, or the worker was killed.
AbortBuild ==
    /\ build.stage # "idle"
    /\ build' = NoBuild
    /\ UNCHANGED <<article, delivery, started, release, sync, imported>>

-----------------------------------------------------------------------------
(* sync_articles_to_active_manifest, in the transaction that moves the     *)
(* active marker and with every article row locked.                        *)

\* The article has entered the build and publication lifecycle.
Delivered(a) ==
    \/ status[a] \in {"built", "published", "offline"}
    \/ a \in buildVersion
    \/ publishedVersion[a] # None

Activate(v) ==
    /\ active' = v
    /\ status' = [a \in Articles |->
           CASE a \in files[v] -> "published"
             [] a \notin files[v] /\ Delivered(a) -> "offline"
             [] a \notin files[v] /\ ~Delivered(a) /\ a \in approved ->
                    IF a \in placed THEN "placed" ELSE "approved"
             [] OTHER -> IF status[a] = "" THEN "" ELSE "offline"]
    /\ publishedVersion' = [a \in Articles |->
           CASE a \in files[v] -> v
             [] a \notin files[v] /\ ~Delivered(a) /\ a \in approved ->
                    publishedVersion[a]
             [] OTHER -> None]
    /\ imported' = {}
    /\ UNCHANGED <<article, buildVersion, started, recorded, files, sync>>

ActivateBuild ==
    /\ build.stage = "candidate"
    /\ Activate(build.version)
    /\ build' = NoBuild

\* Mutant of RollBack: does not wait for the publish lock.
RollBackUnlocked(v) ==
    /\ v \in recorded
    /\ Activate(v)
    /\ UNCHANGED build

\* run_rollback, at a moment when it gets the lock.
RollBack(v) ==
    /\ build.stage = "idle"
    /\ v \in recorded
    /\ Activate(v)
    /\ UNCHANGED build

-----------------------------------------------------------------------------

Review(a)  == FinalApprove(a) \/ Withdraw(a)
Placing(e) == (\E a \in Articles : ChangePlacement(e, a))
                  \/ SyncRead(e) \/ SyncWrite(e)
Building   == (\E v \in Versions : BeginBuild(v))
                  \/ (\E a \in Articles : ReadArticle(a))
                  \/ RecordBuildSuccess \/ RecordBuildFailure
                  \/ RecordCandidate \/ AbortBuild
Publishing == ActivateBuild \/ \E v \in Versions : RollBack(v)

Next ==
    \/ \E a \in Articles : Review(a) \/ PlacementWindow(a)
                        \/ ImportArticle(a)
    \/ \E e \in Editors : Placing(e)
    \/ Building
    \/ Publishing

Spec == Init /\ [][Next]_vars

-----------------------------------------------------------------------------

\* The types of the variables.
TypeOK ==
    /\ approved \in SUBSET Articles
    /\ placed \in SUBSET Articles
    /\ status \in [Articles -> Statuses]
    /\ buildVersion \in SUBSET Articles
    /\ publishedVersion \in [Articles -> Versions \cup {None}]
    /\ build \in Builds
    /\ started \in SUBSET Versions
    /\ recorded \in SUBSET Versions
    /\ files \in [Versions -> SUBSET Articles]
    /\ active \in Versions \cup {None}
    /\ sync \in [Editors -> Syncs]
    /\ imported \in SUBSET Articles

\* docs/static-publishing.md:117: an article that is PUBLISHED is among the
\* files of the active manifest, and published_version names that release,
\* unless the article was imported over since that activation.  The stale
\* status a build saves and the stale status a placement saves can neither of
\* them call an article published that the active release lacks, and no
\* activation forgets an article the release before it had published.
PublishedIsServed ==
    \A a \in Articles :
        /\ status[a] = "published" => a \in Included
        /\ publishedVersion[a] = IF a \in Included \ imported THEN active
                                                            ELSE None

\* docs/merge-gap-checklist.zh-CN.md:325: building again, also in vain, never
\* overwrites the status of an article that is online: whatever the build read
\* before, only the activation of a release without the article takes it down.
RebuildKeepsPublished ==
    [][ \A a \in Articles :
          status[a] = "published" /\ build' # build /\ status'[a] # "published"
            => active' # active /\ a \notin files[active'] ]_vars

-----------------------------------------------------------------------------
(* What a comment says of the synchronisation, and it does not do.         *)

\* publication.py:109: BUILT and PUBLISHED are not downgraded by it.  It reads
\* PLACED, a build is activated, and it writes what it computed before that.
SyncNeverDowngrades ==
    [][ \A a \in approved :
          status[a] \in {"built", "published"} /\ sync' # sync
            => status'[a] = status[a] ]_vars

=============================================================================
