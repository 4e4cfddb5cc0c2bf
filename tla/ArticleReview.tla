---------------------------- MODULE ArticleReview ----------------------------
(***************************************************************************)
(* The two-level review of one article: articles/review_services.py, the   *)
(* author's and the editors' saves, the page editor, and the appointments  *)
(* and accounts that say who may review.                                   *)
(*                                                                         *)
(* Every service locks the article row, so each is one action.  What is    *)
(* not atomic is a person: what they act on is a page that showed a state  *)
(* and a revision some time before.  The page editor is Wagtail's: it      *)
(* takes no lock and builds what it saves from the latest revision, which  *)
(* holds the review columns as they were when that was saved.  An author's *)
(* submission is a live page, of which that editor saves a revision only:  *)
(* the row and the latest revision part.  An imported page is not live,    *)
(* and its row is saved as well.                                           *)
(*                                                                         *)
(* Left out: the delivery columns (ArticleDelivery), the Wagtail workflow  *)
(* kept beside the review, and request ids, whose repetition changes       *)
(* nothing.  Of the review records only the approvals are kept, because no *)
(* service reads the others back.                                          *)
(***************************************************************************)
EXTENDS Naturals

CONSTANTS
    Users,         \* editors and administrators
    Admins,        \* members of the super administrator group
    Journals,      \* journals that accept submissions
    Home,          \* the one the article is first written for
    InitialSeats,  \* the first appointments
    Appointments,  \* appointments made later
    Author,        \* the owner of the submission
    NoUser,        \* no user
    NoPage,        \* no page editor request under way
    MaxRevisions,  \* bound: revisions of the article
    MaxTeam,       \* bound: changes to appointments and accounts
    MaxChanges     \* bound: both together

Roles == {"chief_editor", "executive_editor", "associate_editor"}

\* JournalEditorAssignment, as far as it is effective.
Seats == [user : Users \ Admins, journal : Journals, role : Roles]

ASSUME UsersAssumption ==
    /\ Admins \subseteq Users
    /\ Author \notin Users /\ NoUser \notin Users
    /\ Home \in Journals
    /\ InitialSeats \subseteq Seats /\ Appointments \subseteq Seats
ASSUME PageAssumption ==
    NoPage \notin [status : {"draft", "submitted", "pending_final",
                             "approved", "rejected"},
                   journal : Journals, content : Nat,
                   assigned : Users \cup {NoUser}, approved : Nat,
                   submitted : BOOLEAN]
\* A journal is made active only with one chief editor.
ASSUME ChiefAssumption ==
    /\ \A j \in Journals : \E s \in InitialSeats :
          s.journal = j /\ s.role = "chief_editor"
    /\ \A s, t \in InitialSeats :
          /\ s.journal = t.journal
          /\ s.role = "chief_editor" /\ t.role = "chief_editor"
          => s = t
ASSUME BoundAssumption ==
    /\ MaxRevisions \in Nat \ {0}
    /\ MaxTeam \in Nat /\ MaxChanges \in Nat

VARIABLES
    live,       \* Wagtail's flag of the page; no step changes it
    row,        \* the ArticlePage row
    revision,   \* the number of its latest revision
    content,    \* the row as that revision has it
    approvals,  \* the ArticleReviewRecord rows that approve
    request,    \* history: what the request served last said
    page,       \* what the page editor loaded and is about to save
    seats,      \* active JournalEditorAssignment rows
    active,     \* users whose account is active
    changes     \* changes to appointments and accounts so far

team == <<seats, active, changes>>
vars == <<live, row, revision, content, approvals, request, page, team>>

-----------------------------------------------------------------------------

Statuses == {"draft", "submitted", "pending_final", "approved", "rejected"}

\* `content` stands for the guarded fields other than the journal: the number
\* of the revision that brought them.  `approved` is a revision, 0 for none.
Rows == [status : Statuses, journal : Journals, content : Nat,
         assigned : Users \cup {NoUser}, approved : Nat, submitted : BOOLEAN]

\* What a request says of the article as its sender saw it.  One that does
\* not say the status has Unstated, one that does not say the revision has 0.
Unstated == "unstated"
Forms == [status : Statuses \cup {Unstated}, revision : Nat]
Silent == [status |-> Unstated, revision |-> 0]

\* An ArticleReviewRecord.  `content` is that of the revision.
Records == [action : {"initial_approve", "final_approve"}, revision : Nat,
            content : Nat, journal : Journals,
            role : Roles \cup {"super_admin"}]

\* The review page carries both in hidden fields, and so do the pages for
\* claims, transfers and the like; the list of articles for a bulk review and
\* the author's page carry the revision only.  Each is posted whenever its
\* reader likes, and may be of any earlier state.
PageForms == [status : Statuses \cup {Unstated}, revision : 1..revision]

\* A task of the Wagtail workflow is of one stage, and takes the revision
\* that is the latest when it is acted upon.
TaskForms == [status : {"draft", "submitted", "pending_final"},
              revision : {0}]

PostedForms == PageForms \cup TaskForms

\* get_journal_editor_assignment: the highest role held, and is_super_admin.
Role(u, j) ==
    LET held == {s.role : s \in {s \in seats : s.user = u /\ s.journal = j}}
    IN  IF u \notin active THEN "none"
        ELSE IF u \in Admins THEN "super_admin"
        ELSE IF "chief_editor" \in held THEN "chief_editor"
        ELSE IF "executive_editor" \in held THEN "executive_editor"
        ELSE IF "associate_editor" \in held THEN "associate_editor"
        ELSE "none"

Leads == {"chief_editor", "executive_editor"}

\* JournalEditorAssignment.objects.effective() for the article's journal.
Effective(u) == Role(u, row.journal) \in Roles

\* can_manage_journal: associates are taken to have the responsibility.
CanManage(u, j) == Role(u, j) # "none"

\* Mutant of CanInitialReview: whoever the article is assigned to may review
\* it, appointed still or not.
CanInitialReviewAssigned(u) ==
    /\ row.status = "submitted"
    /\ \/ Role(u, row.journal) \in Leads \cup {"super_admin"}
       \/ row.assigned = u

CanInitialReview(u) ==
    /\ row.status = "submitted"
    /\ \/ Role(u, row.journal) \in Leads \cup {"super_admin"}
       \/ Effective(u) /\ row.assigned = u

\* Mutant of CanFinalReview: an approved initial review is enough.
CanFinalReviewAnytime(u) == Role(u, row.journal) = "chief_editor"

CanFinalReview(u) ==
    /\ row.status = "pending_final"
    /\ Role(u, row.journal) = "chief_editor"

-----------------------------------------------------------------------------
(* ArticlePage.save and save_revision                                      *)

Unassigned(new) == [new EXCEPT !.assigned = NoUser]

\* _approved_content_changed: saving other guarded fields than the approved
\* row has withdraws the approval.
Saved(new) ==
    IF /\ row.status = "approved"
       /\ new.content # row.content \/ new.journal # row.journal
    THEN Unassigned([new EXCEPT !.status = "draft", !.approved = 0])
    ELSE new

\* Mutant of ProjectionKept: the approved revision is not compared.
ProjectionKeptStatus(new) ==
    new.status # row.status => new.status \notin {"pending_final", "approved"}

\* _raise_if_review_projection_written_directly
ProjectionKept(new) ==
    /\ new.status # row.status =>
           new.status \notin {"pending_final", "approved"}
    /\ new.approved = row.approved

NextRevision ==
    /\ revision < MaxRevisions /\ revision + changes < MaxChanges
    /\ revision' = revision + 1

\* save, then save_revision: the revision has the row as saved.
SaveRevision(new) ==
    /\ NextRevision
    /\ row' = Saved(new)
    /\ content' = row'

\* save_revision alone, which saves no column the review is about.
SaveRevisionOnly(new) ==
    /\ NextRevision
    /\ content' = new
    /\ UNCHANGED row

\* Fields of the article that an editor changes: a guarded field, or only
\* categories and the like.
NewContent(old) == {revision + 1, old}

Approval(action, u) ==
    [action |-> action, revision |-> revision, content |-> content.content,
     journal |-> row.journal, role |-> Role(u, row.journal)]

Init ==
    /\ live \in BOOLEAN
    /\ row = [status |-> "draft", journal |-> Home, content |-> 1,
              assigned |-> NoUser, approved |-> 0, submitted |-> FALSE]
    /\ revision = 1
    /\ content = row
    /\ approvals = {}
    /\ request = Silent
    /\ page = NoPage
    /\ seats = InitialSeats
    /\ active = Users
    /\ changes = 0

-----------------------------------------------------------------------------
(* The author: author_services.py.  can_edit_submission also refuses a     *)
(* placed or published article; a draft never is one.                      *)

SaveSubmission ==
    /\ row.status = "draft"
    /\ SaveRevision([row EXCEPT !.content = revision + 1])
    /\ UNCHANGED <<approvals, page, team>>

HasChief(j) == \E u \in Users : Role(u, j) = "chief_editor"

\* Only before the first submission.
ChangeJournal(j) ==
    /\ row.status = "draft"
    /\ ~row.submitted
    /\ j # row.journal
    /\ HasChief(j)
    /\ SaveRevision([row EXCEPT !.journal = j])
    /\ UNCHANGED <<approvals, page, team>>

-----------------------------------------------------------------------------
(* review_services.py                                                      *)

\* Mutant of Expected: a state that is said is not compared.
ExpectedRevision(form) == form.revision \in {revision, 0}

\* _validate_expected, under the row lock: only what is said is compared.
Expected(form) ==
    /\ form.status \in {row.status, Unstated}
    /\ form.revision \in {revision, 0}

Complete(form) == form.status # Unstated /\ form.revision # 0

\* submit_article_for_initial_review, by the author or by an editor.
SubmitForInitialReview(u) ==
    /\ u = Author \/ CanManage(u, row.journal)
    /\ row.status = "draft"
    /\ row' = [row EXCEPT !.status = "submitted", !.submitted = TRUE]
    /\ UNCHANGED <<revision, content, approvals, page, team>>

\* An assignment that is no longer effective is cleared first.
ClaimInitialReview(u) ==
    /\ Effective(u)
    /\ row.status = "submitted"
    /\ row.assigned = NoUser \/ ~Effective(row.assigned)
    /\ row' = [row EXCEPT !.assigned = u]
    /\ UNCHANGED <<revision, content, approvals, page, team>>

ReassignInitialReview(u, editor) ==
    /\ Role(u, row.journal) \in Leads \cup {"super_admin"}
    /\ Effective(editor)
    /\ row.status = "submitted"
    /\ row' = [row EXCEPT !.assigned = editor]
    /\ UNCHANGED <<revision, content, approvals, page, team>>

InitialReview(u) ==
    /\ CanInitialReview(u)
    /\ \/ /\ row' = [row EXCEPT !.status = "pending_final"]
          /\ approvals' = approvals \cup {Approval("initial_approve", u)}
       \/ /\ \E s \in {"draft", "rejected"} :
                row' = Unassigned([row EXCEPT !.status = s])
          /\ UNCHANGED approvals
    /\ UNCHANGED <<revision, content, page, team>>

\* Mutant of Passed: an initial approval of any revision will do.
PassedOnce(r) == \E x \in approvals : x.action = "initial_approve"

\* The record of an initial approval of this very revision.
Passed(r) == \E x \in approvals : /\ x.action = "initial_approve"
                                /\ x.revision = r

FinalReview(u) ==
    /\ CanFinalReview(u)
    /\ Passed(revision)
    /\ \/ /\ row' = [row EXCEPT !.status = "approved", !.approved = revision]
          /\ approvals' = approvals \cup {Approval("final_approve", u)}
       \/ /\ \E s \in {"draft", "rejected"} :
                row' = Unassigned([row EXCEPT !.status = s, !.approved = 0])
          /\ UNCHANGED approvals
    /\ UNCHANGED <<revision, content, page, team>>

ReopenRejected(u) ==
    /\ Role(u, row.journal) \in {"chief_editor", "super_admin"}
    /\ row.status = "rejected"
    /\ SaveRevision(Unassigned([row EXCEPT !.status = "draft"]))
    /\ UNCHANGED <<approvals, page, team>>

\* controlled_transfer_submission (author_services.py)
Transfer(u, j) ==
    /\ Role(u, row.journal) \in {"chief_editor", "super_admin"}
    /\ row.submitted /\ row.status # "approved"
    /\ j # row.journal
    /\ HasChief(j)
    /\ SaveRevision(Unassigned([row EXCEPT !.status = "submitted",
                                           !.journal = j, !.approved = 0]))
    /\ UNCHANGED <<approvals, page, team>>

\* Each of these services first compares what its request says.  A review may
\* say less than the others: bulk_services.py and the tasks of models.py.
Post(form) ==
    /\ Expected(form)
    /\ request' = form
    /\ \/ \E u \in Users \cup {Author} : SubmitForInitialReview(u)
       \/ \E u \in Users : InitialReview(u) \/ FinalReview(u)
       \/ /\ Complete(form)
          /\ \/ \E u \in Users : ClaimInitialReview(u)
             \/ \E u, e \in Users : ReassignInitialReview(u, e)
             \/ \E u \in Users : ReopenRejected(u)
             \/ \E u \in Users, j \in Journals : Transfer(u, j)

-----------------------------------------------------------------------------
(* Editors                                                                 *)

\* bulk_services.py: type, categories or journal, in any review state.  The
\* bulk reviews are posted forms.
BulkEdit(u, j) ==
    /\ CanManage(u, row.journal) /\ CanManage(u, j)
    /\ \E c \in NewContent(row.content) :
          SaveRevision([row EXCEPT !.content = c, !.journal = j])
    /\ UNCHANGED <<approvals, page, team>>

LoadPage(u) ==
    /\ page = NoPage
    /\ CanManage(u, row.journal)
    /\ page' = content
    /\ UNCHANGED <<row, revision, content, approvals, team>>

\* Form data over what was loaded; ArticlePage.save refuses some rows, in
\* save_revision too.
SavePage(u, j) ==
    /\ page # NoPage
    /\ CanManage(u, page.journal) /\ CanManage(u, j)
    /\ \E c \in NewContent(page.content) :
          LET new == [page EXCEPT !.content = c, !.journal = j]
          IN  /\ ProjectionKept(new)
              /\ \/ live /\ SaveRevisionOnly(new)
                 \/ ~live /\ SaveRevision(new)
    /\ page' = NoPage
    /\ UNCHANGED <<approvals, team>>

DropPage ==
    /\ page # NoPage
    /\ page' = NoPage
    /\ UNCHANGED <<row, revision, content, approvals, team>>

-----------------------------------------------------------------------------
(* Appointments (journals/editor_services.py) and accounts (users/         *)
(* services.py), by an administrator                                       *)

\* clear_invalid_initial_assignments, once seats and accounts have changed.
ClearAssignment(u) ==
    row' = IF /\ row.status = "submitted" /\ row.assigned = u
              /\ ~(u \in active' /\ \E s \in seats' :
                       s.user = u /\ s.journal = row.journal)
           THEN Unassigned(row) ELSE row

TeamChange ==
    /\ changes < MaxTeam /\ revision + changes < MaxChanges
    /\ changes' = changes + 1

\* appoint_journal_editor; chief and executive editors are replaced instead.
Appoint(seat) ==
    /\ seat \notin seats
    /\ seat.user \in active
    /\ seat.role \in Leads => \A s \in seats : <<s.journal, s.role>>
                                             # <<seat.journal, seat.role>>
    /\ seats' = seats \cup {seat}
    /\ TeamChange
    /\ UNCHANGED <<row, revision, content, approvals, page, active>>

\* _replace_editor leaves the articles assigned to the one who leaves.
Replace(seat) ==
    /\ seat.role \in Leads
    /\ seat.user \in active
    /\ seat \notin seats
    /\ seats' = {s \in seats : <<s.journal, s.role>>
                             # <<seat.journal, seat.role>>} \cup {seat}
    /\ TeamChange
    /\ UNCHANGED <<row, revision, content, approvals, page, active>>

\* end_journal_editor_assignment; never the chief of an active journal.
EndAssignment(seat) ==
    /\ seat \in seats
    /\ seat.role # "chief_editor"
    /\ seats' = seats \ {seat}
    /\ UNCHANGED active
    /\ ClearAssignment(seat.user)
    /\ TeamChange
    /\ UNCHANGED <<revision, content, approvals, page>>

\* _change_status; never the last administrator.
SuspendAccount(u) ==
    /\ u \in active
    /\ u \in Admins => \E a \in Admins \cap active : a # u
    /\ active' = active \ {u}
    /\ UNCHANGED seats
    /\ ClearAssignment(u)
    /\ TeamChange
    /\ UNCHANGED <<revision, content, approvals, page>>

\* Lifts a suspension, which the bound has counted.
ReactivateAccount(u) ==
    /\ u \notin active
    /\ active' = active \cup {u}
    /\ UNCHANGED <<row, revision, content, approvals, page, seats, changes>>

-----------------------------------------------------------------------------

Next ==
    /\ \/ \E form \in PostedForms : Post(form)
       \/ /\ \/ SaveSubmission
             \/ \E j \in Journals : ChangeJournal(j)
             \/ \E u \in Users, j \in Journals : BulkEdit(u, j)
             \/ \E u \in Users : LoadPage(u)
             \/ \E u \in Users, j \in Journals : SavePage(u, j)
             \/ DropPage
             \/ \E seat \in Appointments : Appoint(seat)
             \/ \E seat \in Appointments : Replace(seat)
             \/ \E seat \in Seats : EndAssignment(seat)
             \/ \E u \in Users : SuspendAccount(u) \/ ReactivateAccount(u)
          /\ request' = Silent
    /\ UNCHANGED live

Spec == Init /\ [][Next]_vars

-----------------------------------------------------------------------------
(* Properties                                                              *)

TypeOK ==
    /\ live \in BOOLEAN
    /\ row \in Rows
    /\ revision \in 1..MaxRevisions
    /\ content \in Rows
    /\ approvals \subseteq Records
    /\ request \in Forms
    /\ page \in Rows \cup {NoPage}
    /\ seats \subseteq Seats
    /\ active \subseteq Users
    /\ changes \in 0..MaxTeam

\* What is approved has passed both reviews: the revision called approved was
\* passed by an editor of the journal the article is in (or an administrator)
\* and then approved by that journal's chief, and both had the same content.
\* The row of a page that is not live still has that content.  Bulk edits,
\* transfers, replaced chiefs and the page editor's restored columns come
\* between.
ApprovedIsReviewed ==
    row.status = "approved" =>
        \E x, y \in approvals :
            /\ x.action = "initial_approve"
            /\ y.action = "final_approve" /\ y.role = "chief_editor"
            /\ x.content = y.content
            /\ ~live => x.content = row.content
            /\ \A z \in {x, y} : /\ z.revision = row.approved
                                 /\ z.journal = row.journal

\* An article advances only by the review of the stage it is in, on its
\* latest revision: no save, of a page restored from an older revision in
\* particular, puts it before the chief or brings an approval back.
AdvancesByReview ==
    [][/\ row'.status = "pending_final" /\ row.status # "pending_final" =>
              /\ row.status = "submitted"
              /\ Passed(revision)'
       /\ row'.status = "approved" /\ row.status # "approved" =>
              /\ row.status = "pending_final"
              /\ Passed(revision)
              /\ row'.approved = revision]_vars

\* Whoever passes or approves an article does so to the revision and in the
\* stage their request says.  A chief who posts the page of the first review
\* after someone else passed it has not given the final approval, and a list
\* for bulk reviews approves no revision it did not show.  What a request
\* leaves unsaid is not compared: then it is whatever the article has reached.
Says(form, status, n) ==
    /\ form # Silent
    /\ form.status \in {status, Unstated}
    /\ form.revision \in {n, 0}

ApprovesWhatWasRead ==
    [][/\ row'.status = "pending_final" /\ row.status # "pending_final" =>
              Says(request', "submitted", revision)
       /\ row'.status = "approved" /\ row.status # "approved" =>
              Says(request', "pending_final", revision)]_vars

\* An approval ends only because what was approved has changed.
ApprovalEndsByChange ==
    [][row.status = "approved" /\ row'.status # "approved"
       => \/ row'.content # row.content
          \/ row'.journal # row.journal]_vars

\* However appointments are made, replaced and ended, every journal has one
\* chief editor: an article that waits for the last word waits for somebody,
\* and two people never both have it.
OneChiefEach ==
    \A j \in Journals :
        \E s \in seats :
            /\ s.journal = j /\ s.role = "chief_editor"
            /\ \A t \in seats :
                  t.journal = j /\ t.role = "chief_editor" => t = s
=============================================================================
