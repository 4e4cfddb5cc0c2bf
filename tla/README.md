# Verification of AI Author Forum

AI Author Forum is a Django/Wagtail publishing platform: journals receive
articles, editors review them in two stages, approved articles are placed on
pages, and a static publisher turns the whole site into immutable releases that
a web server reads from a directory. A second service with its own database
serves reader interactions (verification, comments, protected downloads).

This directory holds TLA+ models of the parts where several processes or two
stores have to agree, TLC runs that check them on small instances, and TLAPS
proofs for every value of the constants. Source paths below are relative to
`src/ai_author_forum/`.

## 1. Inventory

| Component | State | Operations | Hard behaviour | What makes it correct |
|---|---|---|---|---|
| Static publisher (`static_publish/services.py`, `tasks.py`, `views.py`) | `StaticPublishJob` and `StaticPublishTarget` rows, `StaticManifest` rows with one active marker, `releases/`, `current`, `.current-next`, `.current-previous`, `.publish.lock` | request a publish, retry or rollback; build; activate; compensate; prune | two stores without a common transaction, errors between any two steps, killed workers, a lock with timeout 0, checks made before the lock | the served directory is the active release; selective publishes lose nothing; pruning keeps the active release; every job ends |
| Article delivery state (`articles/publication.py`, and `articles/services.py` for imports) | `publication_status`, `build_version`, `published_version` of each article | prepare, record success and failure, synchronise one article, synchronise all to a manifest, import over an existing page | five writers with different locks or none, statuses read before and saved after other steps | PUBLISHED means that the active release has the article; building takes nothing down |
| Coalesced automatic publish (`static_publish/automatic.py`, `tasks.py`) | pending automatic job per actor, its merged events, `scheduled_at`, delayed messages | schedule on commit, merge, create, defer, claim, build | create races, messages overtaken by merges, a claim against a merge, broker errors, killed processes | a batch is built at most once, is closed once claimed, and no change is forgotten silently |
| Placement publish jobs (`placements/publishing.py`) | pending jobs that wait for approval, authorised paths | plan, approve, recheck in the worker, supersede | the plan is recomputed when the job runs | a job publishes what was authorised; a superseded job never runs |
| Article review (`articles/review_services.py`, `models.py`, `author_services.py`, `bulk_services.py`) | `review_status`, assigned editor, approved revision, review records, revisions | save, submit, claim, reassign, initial and final review, reopen, transfer, bulk edit, page editor | forms posted late, edits during review, rows rebuilt from old revisions, live pages whose row and latest revision part, editors who lose their seat | what is approved is the revision the chief was told of, reviewed by who may, and only a change ends it |
| Appointments and accounts (`journals/editor_services.py`, `users/services.py`) | editor assignments, account states | appoint, replace, end, suspend, activate | changes while articles are assigned | one chief editor for each journal |
| Placements (`placements/`) | placements, slots, batches with their drafts and verdicts | place, deactivate, draft, precheck, execute, note a failure | two tabs, double confirmation, verdicts that go stale, rolled-back executions | slots never overflow; a batch is executed once |
| Journal categories (`journals/category_services.py`) | a tree with cached paths, redirects | create, rename, move | reads and lists made without locks, subtrees rewritten from what was read | paths follow the tree; old addresses lead somewhere |
| Article import (`articles/import_services.py`, `import_views.py`) | jobs, rows, packages, one process for each stage | upload, preview, confirm, import, sweep | processes that die or answer late, unlocked saves of handlers | an ended job stays ended |
| Reader capability projection (`reader_access/services.py`, `tasks.py`, `reader_interactions/capabilities.py`) | policies, outbox, Redis deny marker, versioned projection in a second database | change a policy, activate, apply, clear, retry, reconcile | at-least-once and unordered delivery, a marker written before its commit, transactions that do not see each other | closed comments are closed at once; the projection catches up |
| Comment moderation (`reader_access/moderation.py`) | commands in one database, comments in another | command, apply, note, retry, reconcile; withdraw and report | a command applied and then lost before it is noted | a command acts once, on the version that was seen, and is never called applied without an effect |
| Comments and snapshots (`reader_interactions/comments.py`, `snapshots.py`) | comments, versioned snapshot rows and immutable files | change, rebuild | two rebuilds at once, a file without a row | a row has its file; the newest snapshot shows the comments |
| Reader verification (`reader_interactions/services.py`) | challenges, device flows, mails, sessions | request, send, open, guess, claim, cancel, expire, clean up | statements of overlapping requests, a claim against a new request | a session goes back to one opened link; an approval is not taken back |
| Protected PDFs (`reader_access/pdfs.py` and the publisher's part of it) | artifacts, protected manifests, stored files | request, render, wait, validate, activate | a renderer killed half way or late, reviews and policies that change while a build waits | the active release has its manifest and every PDF the manifest names |
| Download grants (`reader_interactions/downloads.py`, `capabilities.py`) | one grant of a reader, the article and the active manifest, the projection and its deny marker | issue, consume, expire | a check made of five readings, between which editors and deliveries go on | nothing withdrawn or closed before the request is handed out |
| Journals and issues, settings, content types | rows | administration | database constraints | see `PROJECT.json` |

How they interact. Placement and review services save rows in web workers and
schedule an on-commit hook (automatic publish). The hook creates or extends a
job and sends a Celery message. A Celery worker (two processes) runs the
publisher, which reads the database in one snapshot, writes the file system, and
in one transaction moves the active marker, updates every article
(`sync_articles_to_active_manifest`), projects reader capabilities, and writes
the job's terminal status. The reader service is told through an outbox.

The hazards this code is exposed to, each at its line, are listed in
`PROJECT.json`; the properties below were chosen from that list.

## 2. The plan

Done, in this order:

1. `StaticPublish` and its abstract specification `PublishedSite`: everything
   readers see depends on it.
2. `ArticleDelivery`: the database side of the same activation, with the
   writers that do not hold the publish lock.
3. `CoalescedPublish`: how changes reach the publisher.
4. `ArticleReview`, `PlacementBatches`, `CategoryTree`, `ArticleImport`: what
   editors do before anything is published.
5. `CapabilityProjection`, `CommentModeration`, `CommentSnapshots`,
   `ReaderVerification`, `ProtectedPdfs`, `DownloadGrants`: what readers may do
   afterwards, in the second database.

The proofs follow the modules. Every invariant and every action property that
a passing run checks is now a theorem, and so is the implementation of
`PublishedSite` (section 6). Left of the plan are components that are marked
`partly` or `not_modelled`.

## 3. Modules

### StaticPublish

One worker process per job (`pc`), any number of jobs. Each action is one step
after which another process, an error or a crash can be seen: the stages of
`_build_locked` and `run_rollback`, the file moves of `_activate` and
`_restore_activation`, the database commit, the clean-up.

| Model | Code |
|---|---|
| `job`, `failed` | `StaticPublishJob` rows, failed `StaticPublishTarget` rows |
| `release`, `current`, `next`, `previous` | `releases/`, `current`, `.current-next`, `.current-previous` |
| `content` | the pages of a staging directory, then of the release it becomes |
| `manifests`, `active`, `paired` | `StaticManifest` rows by age, `is_active`, ACTIVATED protected manifests |
| `lock` | `.publish.lock` |
| `CreatePublish`, `CreateRetry`, `CreateRollback` | the views that create a job and queue its task, the broker's refusal included |
| `StartBuild` to `RecordCandidateManifest`, `WaitForProtectedRelease` | `_build_locked` before the activation |
| `StartRollback`, `CheckRollback`, `LockRollback` | `run_rollback` before the activation |
| `CopyRelease`, `MoveCurrentAside`, `MoveCandidateIn`, `MoveCandidateFails` | `_activate` |
| `Commit`, `CommitFails`, `MoveFailedAside`, `RestorePrevious` | the transaction and `_restore_activation` |
| `FinalizeActivation`, `PruneOne`, `PruneDone`, `PruneFails` | `_finalize_activation`, `_prune` |
| `BuildError`, `RollbackRefused`, `Fail` | a refused check or an error at any stage, and the outer handlers |
| `CompensationFails`, `Crash` | a rename of the compensation that fails too; a killed worker |

A job builds at most one release, so its name is the release's version. A page
is the version that rendered it, which is what decides whether a publish lost
something. Readiness, asset, link and integrity checks are refusals that may
happen. A copy or removal that stops half way gives a `damaged` directory, which
is what the integrity check of a rollback finds. `torn` and `faults` are history:
`torn` says that an activation was cut short and none has completed since.

Left out: the synchronous `retry()` and `rollback()` methods, target actions
DELETE and REDIRECT, what pages contain, and log and audit rows (an audit error
is one of the errors).

### PublishedSite

What publishing promises to a reader: one copy of one version, the one the
database calls active, except during a switch and after a switch that was cut
short. The copy is whole, unless the stored release it was made from is not: an
interrupted pruning leaves such a release behind, and a rollback that was
checked before the pruning may still copy it. `StaticPublish` implements this
(`ImplementsPublishedSite`, and with fairness `EverySwitchEnds`) under the
mapping `served <- current`, `kept <- Kept` (what `_activate` has set aside
during a switch), `active <- ActiveVersion`, `damaged <- Damaged`, `phase <- Phase`.
A copy counts with its wholeness, so that a half-made one that became visible
in any other way would be no step of the abstract specification.

### ArticleDelivery

The five functions of `articles/publication.py` and their callers: final review
and withdrawal (under the row lock), placement saves and deletes followed by
`sync_article_placement_status` (a read and a write, with no lock), an import
over an existing page (`ImportArticle`, which clears the delivery state of an
article without the publish lock, served or not; `imported` remembers it until
the next activation), a build (`prepare_articles_for_build` in the snapshot
transaction, then for each article a read and a save), and activations (one
transaction with every row locked). The publisher is `StaticPublish` seen from
the articles: its lock makes builds and rollbacks follow one another, and its
activation is one transaction. A placement window that opens or closes changes
what is available and calls nothing (`PlacementWindow`).

Left out: the mirror of the status in the legacy `StaticArticle` rows, which
only copies, what an import does to an article that is new, and saves by
Wagtail's own page editor, which rebuild the row from a revision (library code
outside the repository; see the hazards).

### CoalescedPublish

The hooks of one actor, hence one coalesce key; jobs with different keys meet
only at the publish lock. A hook looks for a pending job under the row lock and
merges into it, or creates one and may lose to the unique index, looks once more,
and is dropped if it loses again. It then sends a message. A message that comes
too early is sent again for the new `scheduled_at`, one for a job that is no
longer pending is skipped, otherwise the job is claimed. `built` counts builds
and `orphaned` names the jobs one of whose messages a fault took.

### ArticleReview

One article. Every service locks the article row and is one action; what is not
atomic is a person, so a form is a pair of a state and a revision that is posted
at any later time (`Post`, `PostedForms`). `row` is the `ArticlePage` row,
`content` the row as its latest revision has it, `approvals` the review records
that approve, `request` what the request served last has said, `seats` and
`active` the appointments and accounts from which `Role` computes what a user
may do. `Saved` is what `ArticlePage.save` does to an approval. Wagtail's page
editor takes no lock: `LoadPage` reads the latest revision, review columns
included, and `SavePage` writes it back, refused by `ProjectionKept` in some
cases. `live` is Wagtail's flag. Of a page that is live, as an author's
submission is, that editor saves a revision only (`SaveRevisionOnly`): the row
and its latest revision part, and an approval stays. Of one that is not, as an
imported article is not, it writes over whatever the row has become.

A form says what it was made with: the review page says state and revision, the
list for bulk reviews and the author's page say the revision only (`PageForms`),
a task of the Wagtail workflow has a stage and takes the revision that is the
latest by then (`TaskForms`). `Expected` compares what is said and nothing else,
and `Complete` marks the services whose forms always say both.

Left out: request ids (a repeated request returns the first result), the Wagtail
workflow kept beside the review, the delivery columns, and the import, which
makes the article it updates a draft again.

### PlacementBatches

One journal. `tab` is what each request of `workflow_viewset.py` is doing:
editing a draft it has read (`LoadDraft`, `SaveDraft`, which saves every column),
reviewing (`Review`, `Verdict`), about to execute (`Execute`, `Refuse`, `Abort`)
or about to note a failure after the rollback (`NoteFailure`). `Fits` and
`Placed` say for each kind of batch what it demands and what it does.

Left out: schedules (all placements overlap in time), order and pins, deletion
of drafts, and the publication; `jobs` counts the publish jobs of a batch.

### CategoryTree

One journal. A request is some steps, since other requests come between what it
locks or reads and what it writes: `BeginRename` keeps a snapshot of the rows
below, which `FinishRename` writes over whatever they have become. `BeginMove`
locks the category, `ListMove` locks the new parent and lists the rows below
without locks, and `FinishMove` waits for the locks of the rows it has listed
and rewrites those: a row that was put below the category meanwhile is missed.
`drifted` says that a rename or a move has written over or missed such a change.
`Rerouted` is the treatment of redirects. Slugs have one length, so that cutting
a path after so many characters cuts between two slugs; status, order, versions
and permissions are left out.

### ArticleImport

Each job has a process (`process`) that previews or imports, may die, and may go
on after the job was given up by `SweepPreview` or by a handler of the views.
`confirming` is what the confirmations of the job are about to do, `known` the
articles its import found when it began. The spreadsheet preview that runs
inside the request has the steps of the others.

### CapabilityProjection

One article. `change` and `activation` are the two transactions under way,
with the rows they will commit; each computes a payload from what is committed
when it begins. `marker` is the deny marker in Redis, `outbox` the committed
events with where their delivery is, `projection` the row in the second
database. `AcceptsComment` is the check of `_lock_projection`. Versions come from
the clock and are taken to be distinct and in order.

### CommentModeration

One comment. `command` and `task` are the rows of the default database and the
tasks that apply them, `comment`, `report` and `history` the rows of the
interactions database. A task reads (`LoadCommand`), commits in one database
(`ApplyCommand`, `ApplyFails`) and then notes the outcome in the other
(`FinishCommand`, `FinishFails`); the reconciliation lists first and looks for
events then.

### CommentSnapshots

One article. `visible` is what the public sees, `messages` the queued tasks,
`refreshing` what each worker has read and which version it goes on from,
`snapshots` the rows and `files` the objects. `Unlocked` is the row lock of the
latest version, which does not exist before version 1.

### ReaderVerification

One address and purpose. A request is followed statement by statement, because
its transaction takes no lock to begin with (`ListIssued`, `Supersede`,
`PickFlows`, `Issue`, `Conflict`); the other operations lock the challenge and the
flow and are one step each. `agedLinks` and `agedFlows` are the rows past their
expiry, which passes at any time.

### ProtectedPdfs

One article, whose PDF each build needs again. `build` is the holder of the
publish lock, at one of its three meetings with the PDFs: `RequestPdfs`,
`BuildPair` (the end of the wait, and the second look at what is required) and
`ActivateRelease`. `pages` says which revision the page of each release shows,
since a build may carry an older one forward. A renderer works between its
claim, the freezing of its input, the storage and the note (`StartRender`,
`Freeze`, `StorePdf`, `NoteReady`), and may fail or be killed between any two of
them. Reviews and policies change beside both.

Left out: VALIDATING (RENDERING stands for it), what a PDF contains, and the
repetition of a request under the same key, since each build has a version of
its own.

### DownloadGrants

One article and one reader with one key. A request for a grant and one for the
file make the same readings: the article without a lock (`BeginDownload`), the
active manifest under its lock and the projection (`LockActive`), the deny
marker (`ReadDesired`), the projection once more (`HandOut`). Beside them editors
review, transactions that publish a projection write the marker first
(`OpenActivation`, `OpenChange`) and commit or roll back, and events are applied
(`ApplyProjection`) in any order and any number of times. An artifact goes by its
release.

Left out: the limit of requests and the quota (refusals, `RefuseDownload`),
HEAD requests, which consume nothing, a key used again for another article, and
transactions that publish projections at the same time, which are
`CapabilityProjection`'s. `ProtectedPdfs` has how a release comes by its PDF:
here a release has one, of the revision approved when its manifest was prepared.

### MC_Editorial and MC_ReaderServices

The modules of each, four and six, share no row. A behaviour of the composition
is about one of them, chosen at the start (`subject`), with the others standing
still: the states of the run are the sum of theirs and not the product, and each
property, which speaks of one module, is checked on every behaviour of it.
Whether the article is live, which only the review asks, is open in its
behaviours and fixed in the others. What they share in the code is read by one
and written by none of the others as far as they are modelled. `Absent` declares
the constant that stands for a missing row in all of them.

## 4. Runs

| Run | Module | What it shows | Bounds |
|---|---|---|---|
| `publish` | `MC_StaticPublish` | `ActiveIsKept`, `ActivatesWhatIsServed`, and that the publisher implements `PublishedSite`: pruning, activation, rollbacks to damaged releases | 4 jobs, 2 open at a time, 1 page, 2 kept manifests, no faults |
| `publish_faults` | `MC_StaticPublish` | `ServedIsActive`, `CarriesForward` | 3 jobs, 2 pages (one an article page), PDF grants, 1 fault |
| `publish_progress` | `MC_StaticPublish` | every job settles, every switch ends | 2 jobs, 2 pages, 1 fault, fair workers |
| `delivery` | `MC_ArticleDelivery` | `PublishedIsServed`, `RebuildKeepsPublished` | 1 article, 4 versions, 2 editors |
| `coalesce` | `MC_CoalescedPublish` | `PendingIsScheduled`, `BuiltOnce`, `ClaimedBatchIsClosed`, `EveryChangeSettles` | 3 changes, 3 jobs, 1 fault, fair processes |
| `editorial` | `MC_Editorial` | review: `ApprovedIsReviewed`, `ApprovesWhatWasRead`, `AdvancesByReview`, `ApprovalEndsByChange`; placements: `SlotsHold`, `ExecutesOnce`; categories: `PathsFollowTree`, `AddressesEndure`; import: `EndStands` | 2 editors, 2 journals, 3 revisions, 1 change of the team, 3 changes with both; 2 articles, 2 slots, 2 placements, 1 batch in 2 tabs, 1 aborted execution; 3 categories, 2 slugs, 3 changes by 2 requests; 2 packages of 2 rows, 1 fault |
| `readers` | `MC_ReaderServices` | capabilities: `CommentsFollowPolicy`, `Settles`; moderation: `DecidesOnWhatWasSeen`, `AppliedHasEvent`, `OpenReportIsVisible`, `CommandsSettle`; snapshots: `RowsHaveTheirFiles`, `SnapshotCatchesUp`; verification: `SessionsAreProved`, `ApprovalSurvives`; PDFs: `ActivePairIsWhole`; downloads: `WithdrawnIsNotHanded`, `ClosedIsNotHanded` | 3 projecting transactions, 1 failed delivery; 2 commands, 4 versions, 1 fault; 2 workers, 3 changes of 3 contents, 1 kill; 2 requests, 1 failure of the mail; 2 builds, 2 approvals; 2 prepared releases, 2 approvals, 3 projections |
| `failed_build_is_served`, `rollback_to_failed`, `retry_loses_pages`, `sync_downgrades`, `redirect_chains` | | the disagreements of section 5 | 3 jobs; 1 article, 2 versions and 1 editor; 2 categories and 2 renames |

Why the bounds are enough. Four jobs with two kept manifests are the least that
let pruning remove something while a rollback has made an old release active and
another candidate is recorded. Three jobs let a retry or a rollback meet a
publish that ended before and one that is queued behind it, with both stores
changed in between; two at a time is what a worker with two processes runs, and
`MaxOpen` bounds only how many are open together. One page suffices where pages
play no part; two, of the two kinds, where carried-forward pages do. One fault
falls on every step of every job, and the steps after it show how the next
activation recovers. The refinement is checked without faults in `publish`,
where four jobs are needed to damage a release that a rollback has checked, and,
as part of `EverySwitchEnds`, with one in `publish_progress`; the proof has
every number of both. In `delivery`, four versions give a rollback something to
return to and something to leave, and a build after it; two editors synchronise
beside each other, and no step for an article reads another one's status, so
that one article is enough. In `coalesce`, three hooks are the least that lose
the create race twice (one creates, a worker claims, another creates). Symmetry
is used over jobs, articles and versions in runs of safety and of step
properties only. The run `editorial` has a view without `request`, which no step
reads. `CHECK_DEADLOCK FALSE` stands where every job can be done. `MaxOpen` and
`MaxFaults` are bounds of the model alone.

In `editorial`, a second chief who also works for the first journal and may
become its chief gives every role to somebody who also has another; three
revisions let an old page of the editor come back over a review and an approval.
One slot for one item and one for two, with two placements, are full after the
first batch; the two tabs are a double confirmation, or a confirmation and a
late save. Three categories are a chain with something below the middle, and
three changes let a rename, a move below it and a rename back meet. In
`readers`, three transactions are a change, an activation and a change after
both; two commands on four versions let one make the other stale, and the author
withdraw; three contents on three versions let a worker meet the file of a dead
one and the comments return to what they were. Two builds are a release and one
that carries its page forward, waits for a PDF of its own and may be rolled back
from; the second approval makes that PDF newer than the page. For downloads,
three projections are an activation that offers the PDF, the change that closes
it, and one more, of either kind, after both. The bounds of changes and faults
(`MaxRevisions`, `MaxTeam`, `MaxErrors`, `MaxMoves`, `MaxImportFaults`,
`MaxClock`, `MaxVersion`, `MaxModerationFaults`, `MaxChanges`, `MaxKills`,
`MaxBounces`, `MaxBuilds`, `MaxApprovals`, `MaxPrepared`, `MaxReviews`,
`MaxProjections`) are of the model alone. `PreviewLimit` and the two limits of
guesses are settings of the code, taken at their smallest.

Fairness. `StaticPublish!FairSpec` assumes that a worker which is not killed
runs its task to the end: Celery tasks here have no time limit that ends them
between steps, file operations return, and waiting for PDFs is bounded by a
deadline. Nothing is assumed of requests or crashes. `CoalescedPublish!FairSpec`
assumes the same of hooks and workers, that the broker delivers a message whose
time has come, and that time passes (`CloseWindow`). It does not assume that a
lost message is repeated: tasks are acknowledged before they run.

`readers` assumes that a transaction that computes a projection ends
(`CapabilityFairness`), and that queued tasks are run to their end by some worker
(`CapabilityFairness`, `ModerationFairness`, `SnapshotFairness`). It assumes
nothing of the reconciliations: no schedule of the repository calls them.

What the liveness properties exempt is what the code does not promise: jobs of
killed workers, retries refused by the lock (they stay PENDING, see
`RefuseBuild`), changes whose hook was dropped, markers of transactions that
were rolled back (they deny until the next change), commands whose message was
lost, and snapshots after two rebuilds ran together. Safety properties exempt,
each by a history variable, what the code does in the open: transactions that
overlapped (`overlapped`: a policy change and an activation do not see each
other), renames and moves that wrote over a change or missed one (`drifted`),
articles imported over since the last activation (`imported`), drafts saved over
an executed batch (`overwritten`), imports given up by a second confirmation
(`givenUp`). `PublishedSite` allows a damaged copy where a rollback took it from
a damaged release. The models reach every one of these.

## 5. Disagreements found

* `failed_build_is_served`: errors after the commit (log, clean-up, prune) reach
  the handler that writes FAILED over SUCCEEDED; the release of the failed build
  is active and served.
* `rollback_to_failed`: a candidate whose build failed after its manifest was
  recorded can be rolled back to unless PDF grants are on.
* `retry_loses_pages`: the retry of a partial publish starts from the old release
  and renders only what failed; the pages its source had rendered are in neither.
* `sync_downgrades`: the unlocked synchronisation after a placement is saved
  overwrites BUILT or PUBLISHED with what it computed before.

* `redirect_chains`: a category renamed from a to b and back leaves a redirect
  from a to itself and one from b to a; the consistency check of every release
  refuses such a chain, and nothing in the repository removes it.

Met while modelling, and exempt in a property or visible in the model, not runs
of their own:

* A batch that is confirmed twice is executed once, but the refused second
  execution writes FAILED over SUCCEEDED (the `raise` at
  `placements/batch_services.py:547` is inside the `try` of the handler).
* A second click on the confirmation of an import marks the job as failed while
  its import runs; the articles are imported, and the job says completed at last.
* A preview that dies before it starts stays pending and counts against the limit
  of two previews for ever: the sweep looks at validating ones only.
* A policy change and an activation that overlap may leave a projection with the
  old policy under the newer version.
* A moderation command that was applied but not noted is called failed by its
  retry; an open report of a withdrawn comment is never settled.
* The PDF of a release may be of a newer revision than its page: a selective
  build carries the page forward and asks for the PDF of what is approved by
  then. `ActivePairIsWhole` says only that the PDF is not the older of the two;
  `docs/reader-interactions/06-pdf-download-and-sharing.zh-CN.md:7` wants it of
  the publish snapshot.
* A rollback checks the release before it takes the publish lock
  (`static_publish/services.py:683`): a pruning that is interrupted in between
  leaves a damaged copy to be served.
* An import over the page of a published article clears its status and its
  published version (`articles/services.py:102-117`), while the active release
  still has it.
* The page editor saves a revision of a live article and leaves its row and its
  approval: the row that is rendered is the approved one's, and the latest
  revision is not.
* A move of a category rewrites the rows it had listed before it waited for their
  locks: one that is put below meanwhile keeps a path of the old place. With more
  levels than the code allows two such moves could close a cycle.
* `supersede_pending_chief_publish_jobs` (`placements/publishing.py`) is called by
  no view, command or task.
* The file that a killed rebuild leaves behind makes every later rebuild with
  other comments fail at that version.

`PROJECT.json` quotes the document or comment each one contradicts.

## 6. Proofs

All are for arbitrary constants, from the assumptions named in the modules.

* `StaticPublish_proofs`: `TypeCorrect` (`Spec => []TypeOK`, with `GoalOK`: a
  queued or running job has a version as its goal). `ServedCorrect`
  (`Spec => []ServedIsActive`). ServedIsActive is not inductive: the proof uses
  `SInv`, which adds `Exclusive` (a job in the locked stages holds the lock, so at
  most one is exposed) and `SwapOK` (what `current` and `previous` hold at each
  stage of a switch, and that `hadPrevious` tells whether the active release is
  the one set aside). Without `SwapOK` the compensation could restore anything.
  `ActiveKeptCorrect` (`Spec => []ActiveIsKept`) from `KInv`, which adds
  `KeptOK`: a release that is being activated is on disk, and a job that prunes
  has just become active with the newest manifest, so at that moment the active
  release is among the newest. This is why protecting the newest manifests is
  enough although a rollback makes an old release active: a rollback does not
  prune, and a build prunes only after its own release has become active.
  `Refinement` (`Spec => ImplementsPublishedSite`) maps every step, by `SInv`, to
  a step of `PublishedSite` or to a stutter: the lock and the staging are not seen
  there, the stored releases only as far as they are damaged, and a copy goes up
  whole or its release is damaged (what a build activates is whole by its
  construction, what a rollback copies is as its release is by then); a
  compensation that restores the active release is its
  `Cancel`, one that cannot is its `Break`. `ActivationCorrect`
  (`ActivatesWhatIsServed`) and `CarriesForwardCorrect` (`CarriesForward`) need
  `BInv`, which adds `WholeOK` (from the promotion on, a build activates a whole
  copy) and `CarryOK` (the directory a build was based on, first served and then
  set aside, has the pages that the build did not render itself). They rest on
  the lemma that while a job holds the lock, a step of another leaves the
  directories and the releases alone.
* `ArticleDelivery_proofs`: `TypeCorrect` and `DeliveryCorrect`
  (`Spec => []PublishedIsServed`). The invariant adds `ReadStillServed` (the
  status a build has read as PUBLISHED is still that of a served article, since
  no activation happens while it holds the publish lock), `SyncNeverPublishes`
  (a synchronisation never has PUBLISHED left to write, as an import only takes
  statuses away) and `FreshVersion` (the
  version of a build that has not recorded its manifest is not the active one).
  `RebuildCorrect` (`RebuildKeepsPublished`) follows from the same invariant.
* `CoalescedPublish_proofs`: `TypeCorrect` and `BuiltOnceCorrect`
  (`Spec => []BuiltOnce`). The invariant adds `HookOK` (where a hook that is about
  to send points) and `ClaimOK` (a job that is pending has not been built, and
  one that is claimed not yet). `PendingIsScheduledCorrect` and the action
  property `ClaimedBatchIsClosedCorrect` add `MergedOK`: a hook that is about to
  send has its change in a row that exists. Only a message of a job that is no
  longer pending is consumed, except by a fault.
* `ArticleReview_proofs`: `TypeCorrect`, `ApprovedReviewed`, `ApprovesRead`,
  `OneChief`, and the action properties `Advances` and `ApprovalEnds`, for any
  number of users, journals, seats and revisions. (`OneChief` needs no run: it
  is inductive.) `ApprovedIsReviewed` is not: a final approval relies on an
  initial one of what the row still has, and the page editor writes back what it
  loaded. The invariant `IInv` adds `StoredConsistently` (in the row, in its
  latest revision and in a loaded page, an approved revision is stored exactly
  with the status) and `ApprovalsOfLatest` (whatever was approved of the latest
  revision is its content and the journal the row has, and the row of a page that
  is not live has that content). `ApprovesRead` speaks of what the request said,
  for every form: one that says less is compared with less.
* `Editorial_proofs`: the other parts of the run `editorial`, and the run itself.
  * Placements: `PlacementTypes`, `SlotsCorrect` (`SlotsHold`) and
    `ExecutionCorrect` (`ExecutesOnce`). `PlacementInv` adds the unique row of an
    article in a slot, that the items of a batch are what its operation works on,
    and that a batch that was executed has its date unless a stale draft was
    saved over it (`JobsOK`). The count of a slot is bounded by what the
    operation was checked against plus what it brings in, as sets, so that an
    article that is moved within its slot is not counted twice.
  * Categories: `TreeTypes`, `TreeCorrect` (`PathsFollowTree`) and
    `AddressesCorrect` (`AddressesEndure`). What a rename writes is found by a
    walk down the tree, the recursive function `Subtree`. The lemma
    `SubtreeIsLeast` says what it computes: the least set with the row that has
    the children of its elements. It needs no induction over the data: the walk
    grows at each of its steps or has ended, and a set of as many rows as there
    are has no room to grow further (`CountUp`). `TreeInv` has ranks for the rows
    (`Forest`), since a move closes no cycle exactly because what is below the
    moved row can be ranked above the new parent, and the rows of a revision
    under way being there. Ranks and paths are claimed while nothing has
    `drifted`: a step that keeps it false has listed and read just what is below.
  * Import: `ImportTypes` and `EndsCorrect` (`EndStands`). `ImportInv` relates the
    row to the process that works on it (`InStep`), except for a job that a second
    confirmation has given up.
  * `EditorialParts`: a behaviour of the run is one of each of its four parts, so
    that what is proved of a part holds in the run; `EditorialTypes`.
* `Comments_proofs`: the two modules about comments.
  * `ModerationTypesCorrect`, `DecidesOnce`, `AppliedCorrect`, `ReportsSettled` and
    `WithdrawnCorrect`, from `CommandAssumption` (no command is the missing row).
    `ModerationInv` adds `EventsInOrder` (one event for a version, and the event
    of a command is of the version after the one its moderator saw, so that a
    second delivery finds its command stale) and `TasksInOrder` (a task that is
    done has left its event, and only then is "applied" noted).
  * `SnapshotTypesCorrect` and `FilesCorrect` (`RowsHaveTheirFiles`), for any
    number of workers. `SnapshotInv` adds that a public change is in the queue,
    with a worker or in a row, at most once, so that the versions stay in bounds;
    that a task which has compared or written holds its base row alone; and that
    the file of the next version is then what it has seen (`HeldOK`).
* `ProtectedDownloads_proofs`: the protected PDFs and the grants to read them.
  * `PdfTypesCorrect` and `PairCorrect` (`PdfSpec => []ActivePairIsWhole`), from
    `PdfBounds` and `PdfRows`. `PdfInv` says of every manifest what the property
    says of the active one (`PairsAreWhole`): a rollback may activate any of them.
    It adds that no page is newer than the last approval (`PagesAreApproved`),
    what the holder of the lock finds at each stage (`LockInOrder`), that a
    renderer is only at work on an artifact that is not ready and that what is
    ready is stored (`RenderersInOrder`), and `LiveIsActivated`. A late or killed
    renderer cannot touch a PDF that a manifest names, since its artifact has to
    be RENDERING.
  * `GrantTypesCorrect`, `HandedCorrect` (`WithdrawnIsNotHanded`) and
    `ClosedCorrect` (`ClosedIsNotHanded`), from `GrantBounds` and `GrantRows`. The
    second needs that the manifest stays locked from the second reading to the
    answer. The third is an argument about time: while downloads are closed there
    is a version from which on no projection offers the PDF, and either a marker
    of it or of a later one is there, or such a projection is applied
    (`ClosedIsNoted`). A request that saw an older projection and then no such
    marker is in the second case (`RequestInOrder`), so that its last reading
    finds the closing projection. Without the last reading this fails, as the
    mutant `ConfirmedOnce` shows.
* `ReaderAccess_proofs`: the rest of the run `readers`, and the run itself.
  * `CapabilityTypesCorrect` and `PolicyFollowed` (`CommentsFollowPolicy`), from
    `CapabilityAssumption`. As long as no two transactions overlapped,
    `CapabilityInv` orders the events by the policies they were computed from and
    keeps the marker at the policy that is committed; the policy version is a
    number in two digits, of the journal's row and of the article's, and only
    that a new row of either kind raises it is used.
  * `VerificationTypesCorrect`, `SessionsCorrect` (`SessionsAreProved`) and
    `ApprovalCorrect` (`ApprovalSurvives`). `VerificationInv` adds that requests
    hold different links locked (`HeldApart`), and that a flow which a request has
    picked to supersede without looking belongs to a link that it holds or that
    nobody can open any more.
  * `ReaderParts` and `ReaderTypes`, as for the run `editorial`.

The assumptions on the constants are the ones named in the modules: that bounds
are numbers, that categories and placements are finite, that `None` is no row,
and what the system is configured with (at least two releases are kept, a journal
starts with one chief editor). TLC evaluates each of them in a passing run.

Only model-checked: the liveness properties (`EveryJobSettles`,
`EverySwitchEnds`, `EveryChangeSettles`, `Settles`, `CommandsSettle`,
`SnapshotCatchesUp`), among them the fairness that `PublishedSite` promises.
They rest on fairness and on `ENABLED`, which the provers do not handle. The
five runs that expect a violation state what is not so, and nothing is to be
proved of them.

## 7. Not modelled

The components marked `not_modelled` in `PROJECT.json`, and in the others what
their notes name. Rendering, search, navigation, forms and content types are
data without a protocol: one request, one transaction, guarded by constraints.
The static web server and the health report only read and check. The import of
journals is one transaction. Of the placement publish jobs, a job that waits to
be approved is left, and the recheck of its plan by the worker; nothing in the
repository calls what would supersede it. Of the downloads, the limits and the
quota are left.
