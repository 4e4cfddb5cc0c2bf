---------------------------- MODULE ArticleImport ----------------------------
(***************************************************************************)
(* The import of packages of articles (articles/import_services.py), from  *)
(* the upload (articles/import_views.py) over a preview and an import that *)
(* each run in a process of their own (the management commands             *)
(* preview_article_package and import_article_package).                    *)
(*                                                                         *)
(* Processes are started once, may die, and may go on after the job was    *)
(* given up by the clean-up command or by a handler of the views, which    *)
(* saves the row it has read without a lock.                               *)
(*                                                                         *)
(* A package has one row per article.  Left out: what a row must satisfy   *)
(* beside its key, suspicious texts, the error report, the synchronous     *)
(* preview of spreadsheets, which has the same steps, and the review that  *)
(* an imported draft goes through (ArticleReview).                         *)
(***************************************************************************)
EXTENDS Naturals, FiniteSets, Absent

CONSTANTS
    Packages,         \* primary keys of jobs, one for each upload
    ImportedKeys,     \* <journal, slug> of the rows; each package has all
    PreviewLimit,     \* ARTICLE_IMPORT_MAX_CONCURRENT_PREVIEWS_PER_USER
    MaxImportFaults   \* bound: failures and deaths of processes

VARIABLES
    upload,        \* the ArticleImportJob rows
    process,       \* the process of each job
    confirming,    \* confirmations under way, by job: two requests at most
    known,         \* the articles that an import found when it began
    results,       \* the ArticleImportRow rows of an import
    article,       \* the StaticArticle rows: the job that wrote them last
    givenUp,       \* history: jobs that a handler marked as failed late
    importFaults   \* failures and deaths so far

importVars == <<upload, process, confirming, known, results, article, givenUp,
                importFaults>>

-----------------------------------------------------------------------------

ImportStatuses == {"pending", "validating", "ready", "importing", "completed",
                   "failed"}

Uploads == [status : ImportStatuses, confirmed : BOOLEAN]

ASSUME ImportAssumption ==
    /\ PreviewLimit \in Nat /\ MaxImportFaults \in Nat
    /\ None \notin Packages /\ None \notin Uploads

\* A process is started with its command and then runs.
Processes == {"none", "preview", "previewing", "import", "importing"}

\* What the confirmations of a job are about to do.
Handlers == [launching : BOOLEAN, refused : BOOLEAN]

Quiet == [launching |-> FALSE, refused |-> FALSE]

Ended(j) == upload[j] # None /\ upload[j].status \in {"completed", "failed"}

\* The jobs that count against the limit of their operator.
Unfinished == {j \in Packages :
                   /\ upload[j] # None /\ ~upload[j].confirmed
                   /\ upload[j].status \in {"pending", "validating"}}

ImportInit ==
    /\ upload = [j \in Packages |-> None]
    /\ process = [j \in Packages |-> "none"]
    /\ confirming = [j \in Packages |-> Quiet]
    /\ known = [j \in Packages |-> {}]
    /\ results = [j \in Packages |-> {}]
    /\ article = [k \in ImportedKeys |-> None]
    /\ givenUp = {}
    /\ importFaults = 0

ImportFault == importFaults < MaxImportFaults /\ importFaults' = importFaults + 1

Set(j, status) == upload' = [upload EXCEPT ![j].status = status]

-----------------------------------------------------------------------------
(* Preview                                                                 *)

\* create_article_import_preview_job and the start of its process, which may
\* fail.
Upload(j) ==
    /\ upload[j] = None
    /\ Cardinality(Unfinished) < PreviewLimit
    /\ \/ /\ upload' = [upload EXCEPT ![j] =
                 [status |-> "pending", confirmed |-> FALSE]]
          /\ process' = [process EXCEPT ![j] = "preview"]
          /\ UNCHANGED importFaults
       \/ /\ ImportFault
          /\ upload' = [upload EXCEPT ![j] =
                 [status |-> "failed", confirmed |-> FALSE]]
          /\ UNCHANGED process
    /\ UNCHANGED <<confirming, known, results, article, givenUp>>

\* _start_article_import_preview.  Nothing else touches a job before, so the
\* guard holds; a job that is refused for another reason stays as it is, as if
\* the process had died.
StartPreview(j) ==
    /\ process[j] = "preview"
    /\ upload[j].status = "pending" /\ ~upload[j].confirmed
    /\ Set(j, "validating")
    /\ process' = [process EXCEPT ![j] = "previewing"]
    /\ UNCHANGED <<confirming, known, results, article, givenUp, importFaults>>

\* Mutant of MayFinishPreview: the result is written whenever it comes.
MayFinishPreviewLate(j) == TRUE

MayFinishPreview(j) == upload[j].status = "validating"

\* The end of execute_article_import_preview: rows and READY, unless the job
\* is not validating any more.
FinishPreview(j) ==
    /\ process[j] = "previewing"
    /\ IF MayFinishPreview(j) THEN Set(j, "ready") ELSE UNCHANGED upload
    /\ process' = [process EXCEPT ![j] = "none"]
    /\ UNCHANGED <<confirming, known, results, article, givenUp, importFaults>>

\* Its handler.
FailPreview(j) ==
    /\ process[j] = "previewing"
    /\ ImportFault
    /\ IF upload[j].status = "validating" THEN Set(j, "failed")
       ELSE UNCHANGED upload
    /\ process' = [process EXCEPT ![j] = "none"]
    /\ UNCHANGED <<confirming, known, results, article, givenUp>>

\* fail_stale_article_import_previews: the preview may still be running.
SweepPreview(j) ==
    /\ upload[j] # None /\ upload[j].status = "validating"
    /\ Set(j, "failed")
    /\ UNCHANGED <<process, confirming, known, results, article, givenUp,
                   importFaults>>

-----------------------------------------------------------------------------
(* Confirmation                                                            *)

\* confirm_article_import
Confirm(j) ==
    /\ upload[j] # None
    /\ upload[j].status = "ready" /\ ~upload[j].confirmed
    /\ upload' = [upload EXCEPT ![j] = [status |-> "pending", confirmed |-> TRUE]]
    /\ confirming' = [confirming EXCEPT ![j].launching = TRUE]
    /\ UNCHANGED <<process, known, results, article, givenUp, importFaults>>

\* The button is pressed a second time: the service refuses, and the handler
\* of the view finds the job pending.
ConfirmAgain(j) ==
    /\ upload[j] # None /\ upload[j].confirmed
    /\ upload[j].status = "pending"
    /\ ~confirming[j].refused
    /\ confirming' = [confirming EXCEPT ![j].refused = TRUE]
    /\ UNCHANGED <<upload, process, known, results, article, givenUp,
                   importFaults>>

\* start_article_import_process
Launch(j) ==
    /\ confirming[j].launching
    /\ process' = [process EXCEPT ![j] = "import"]
    /\ confirming' = [confirming EXCEPT ![j].launching = FALSE]
    /\ UNCHANGED <<upload, known, results, article, givenUp, importFaults>>

\* _mark_background_start_failed after the process could not be started.
LaunchFails(j) ==
    /\ confirming[j].launching
    /\ ImportFault
    /\ Set(j, "failed")
    /\ confirming' = [confirming EXCEPT ![j].launching = FALSE]
    /\ UNCHANGED <<process, known, results, article, givenUp>>

\* _mark_background_start_failed by the second confirmation.
MarkStartFailed(j) ==
    /\ confirming[j].refused
    /\ Set(j, "failed")
    /\ confirming' = [confirming EXCEPT ![j].refused = FALSE]
    /\ givenUp' = givenUp \cup {j}
    /\ UNCHANGED <<process, known, results, article, importFaults>>

-----------------------------------------------------------------------------
(* Import                                                                  *)

MayImport(j) == upload[j].status = "pending" /\ upload[j].confirmed

\* _start_confirmed_article_import and the map of existing articles.
StartImport(j) ==
    /\ process[j] = "import"
    /\ IF MayImport(j)
       THEN /\ Set(j, "importing")
            /\ process' = [process EXCEPT ![j] = "importing"]
            /\ known' = [known EXCEPT ![j] =
                   {k \in ImportedKeys : article[k] # None}]
            /\ results' = [results EXCEPT ![j] = {}]
       ELSE /\ process' = [process EXCEPT ![j] = "none"]
            /\ UNCHANGED <<upload, known, results>>
    /\ UNCHANGED <<confirming, article, givenUp, importFaults>>

\* The operator or the journal is not what it was, or the package is gone.
RejectImport(j) ==
    /\ process[j] = "import"
    /\ ImportFault
    /\ IF upload[j].status = "pending" THEN Set(j, "failed") ELSE UNCHANGED upload
    /\ process' = [process EXCEPT ![j] = "none"]
    /\ UNCHANGED <<confirming, known, results, article, givenUp>>

\* One row: its article is created or updated, or the unique constraint says
\* that another import has created it meanwhile.
ImportRow(j, k) ==
    /\ process[j] = "importing"
    /\ k \notin results[j]
    /\ results' = [results EXCEPT ![j] = @ \cup {k}]
    /\ IF k \in known[j] \/ article[k] = None
       THEN article' = [article EXCEPT ![k] = j] ELSE UNCHANGED article
    /\ UNCHANGED <<upload, process, confirming, known, givenUp, importFaults>>

\* All rows are done: the whole job row is saved, without a lock.
FinishImport(j) ==
    /\ process[j] = "importing"
    /\ results[j] = ImportedKeys
    /\ Set(j, "completed")
    /\ process' = [process EXCEPT ![j] = "none"]
    /\ UNCHANGED <<confirming, known, results, article, givenUp, importFaults>>

\* The handler of an error outside the rows.
FailImport(j) ==
    /\ process[j] = "importing"
    /\ ImportFault
    /\ IF upload[j].status = "importing" THEN Set(j, "failed")
       ELSE UNCHANGED upload
    /\ process' = [process EXCEPT ![j] = "none"]
    /\ UNCHANGED <<confirming, known, results, article, givenUp>>

KillProcess(j) ==
    /\ process[j] # "none"
    /\ ImportFault
    /\ process' = [process EXCEPT ![j] = "none"]
    /\ UNCHANGED <<upload, confirming, known, results, article, givenUp>>

-----------------------------------------------------------------------------

ImportNext ==
    \E j \in Packages :
        \/ Upload(j) \/ StartPreview(j) \/ FinishPreview(j) \/ FailPreview(j)
        \/ SweepPreview(j)
        \/ Confirm(j) \/ ConfirmAgain(j) \/ Launch(j) \/ LaunchFails(j)
        \/ MarkStartFailed(j)
        \/ StartImport(j) \/ RejectImport(j)
        \/ \E k \in ImportedKeys : ImportRow(j, k)
        \/ FinishImport(j) \/ FailImport(j) \/ KillProcess(j)

ImportSpec == ImportInit /\ [][ImportNext]_importVars

-----------------------------------------------------------------------------
(* Properties                                                              *)

ImportTypeOK ==
    /\ upload \in [Packages -> Uploads \cup {None}]
    /\ process \in [Packages -> Processes]
    /\ confirming \in [Packages -> Handlers]
    /\ known \in [Packages -> SUBSET ImportedKeys]
    /\ results \in [Packages -> SUBSET ImportedKeys]
    /\ article \in [ImportedKeys -> Packages \cup {None}]
    /\ givenUp \subseteq Packages
    /\ importFaults \in 0..MaxImportFaults

\* What has ended stays as it ended, and a job that failed writes no article
\* any more: neither a preview that answers after it was given up nor a second
\* start revives it.  Not when a second confirmation marked a job as failed
\* whose import was on its way.
EndStands ==
    [][/\ \A j \in Packages : Ended(j) =>
              j \in givenUp' \/ (upload'[j] = upload[j] /\ process[j] # "importing")
       /\ \A k \in ImportedKeys : article'[k] # article[k] =>
              article'[k] \in givenUp \/ upload[article'[k]].status = "importing"
      ]_importVars
=============================================================================
