------------------------ MODULE ArticleReview_proofs ------------------------
(***************************************************************************)
(* Proofs about ArticleReview for any users, journals, appointments and    *)
(* bounds.  ApprovedIsReviewed is not inductive: a final approval relies   *)
(* on an initial one having been about the journal and the content the     *)
(* latest revision still has, and a saved page brings back whatever it was *)
(* loaded with.  The invariant adds what holds of every row that is        *)
(* stored, and that only a live page has another content in its row.       *)
(***************************************************************************)
EXTENDS ArticleReview, TLAPS

\* An approved revision is stored exactly with the status.
ConsistentRow(r) == r.status = "approved" <=> r.approved # 0

StoredConsistently ==
    /\ ConsistentRow(row) /\ ConsistentRow(content)
    /\ page # NoPage => ConsistentRow(page)

\* Whatever has been approved of the latest revision is its content and the
\* journal the row has; a page that is not live has that content as well.
ApprovalsOfLatest ==
    /\ ~live => row.content = content.content
    /\ \A x \in approvals :
          /\ x.revision <= revision
          /\ x.revision = revision =>
                x.content = content.content /\ x.journal = row.journal

IInv == /\ TypeOK
        /\ StoredConsistently
        /\ ApprovalsOfLatest
        /\ ApprovedIsReviewed

-----------------------------------------------------------------------------

\* What is written into a row leaves a row.
LEMMA RowEdited ==
    ASSUME NEW r \in Rows, NEW c \in Nat, NEW j \in Journals
    PROVE  /\ [r EXCEPT !.content = c] \in Rows
           /\ [r EXCEPT !.journal = j] \in Rows
           /\ [r EXCEPT !.content = c, !.journal = j] \in Rows
  BY DEF Rows

\* So does what a review writes.
LEMMA RowReviewed ==
    ASSUME NEW r \in Rows, NEW s \in Statuses, NEW n \in Nat
    PROVE  /\ [r EXCEPT !.status = s] \in Rows
           /\ [r EXCEPT !.status = s, !.submitted = TRUE] \in Rows
           /\ [r EXCEPT !.status = s, !.approved = n] \in Rows
  BY DEF Rows

\* So does a transfer to another journal.
LEMMA RowTransferred ==
    ASSUME NEW r \in Rows, NEW j \in Journals
    PROVE  [r EXCEPT !.status = "submitted", !.journal = j, !.approved = 0]
               \in Rows
  BY DEF Rows, Statuses

\* So does an assignment.
LEMMA RowAssigned ==
    ASSUME NEW r \in Rows, NEW u \in Users \cup {NoUser}
    PROVE  [r EXCEPT !.assigned = u] \in Rows
  BY DEF Rows

\* Clearing the assignment keeps all a review looks at.
LEMMA UnassignedRow ==
    ASSUME NEW r \in Rows
    PROVE  /\ Unassigned(r) \in Rows
           /\ Unassigned(r).status = r.status
           /\ Unassigned(r).journal = r.journal
           /\ Unassigned(r).content = r.content
           /\ Unassigned(r).approved = r.approved
  BY DEF Unassigned, Rows

\* Clearing the assignment changes nothing else of the row.
LEMMA ClearAssignmentType ==
    ASSUME row \in Rows, NEW u, ClearAssignment(u)
    PROVE  /\ row' \in Rows
           /\ row'.status = row.status
           /\ row'.journal = row.journal
           /\ row'.content = row.content
           /\ row'.approved = row.approved
  <1>1. row' = row \/ row' = Unassigned(row)
    BY DEF ClearAssignment
  <1> QED
    BY <1>1, UnassignedRow

\* Saving keeps the content and the journal, and the status and the approved
\* revision unless both are withdrawn.
LEMMA SavedRow ==
    ASSUME NEW new \in Rows
    PROVE  /\ Saved(new) \in Rows
           /\ Saved(new).content = new.content
           /\ Saved(new).journal = new.journal
           /\ \/ /\ Saved(new).status = new.status
                 /\ Saved(new).approved = new.approved
                 /\ row.status = "approved" =>
                       new.content = row.content /\ new.journal = row.journal
              \/ /\ Saved(new).status = "draft" /\ Saved(new).approved = 0
                 /\ row.status = "approved"
                 /\ new.content # row.content \/ new.journal # row.journal
  <1> DEFINE withdrawn == [new EXCEPT !.status = "draft", !.approved = 0]
  <1>1. /\ withdrawn \in Rows
        /\ withdrawn.status = "draft" /\ withdrawn.approved = 0
        /\ withdrawn.content = new.content
        /\ withdrawn.journal = new.journal
    BY DEF Rows, Statuses
  <1>2. Unassigned(withdrawn) \in Rows
        /\ Unassigned(withdrawn).status = "draft"
        /\ Unassigned(withdrawn).approved = 0
        /\ Unassigned(withdrawn).content = new.content
        /\ Unassigned(withdrawn).journal = new.journal
    BY <1>1, UnassignedRow
  <1>3. CASE /\ row.status = "approved"
             /\ new.content # row.content \/ new.journal # row.journal
    <2>1. Saved(new) = Unassigned(withdrawn)
      BY <1>3 DEF Saved
    <2> QED
      BY <2>1, <1>2, <1>3
  <1>4. CASE ~(/\ row.status = "approved"
               /\ new.content # row.content \/ new.journal # row.journal)
    <2>1. Saved(new) = new
      BY <1>4 DEF Saved
    <2> QED
      BY <2>1, <1>4
  <1> QED
    BY <1>3, <1>4

\* The variables keep their types.
LEMMA SaveRevisionType ==
    ASSUME TypeOK, NEW new \in Rows,
           SaveRevision(new) \/ SaveRevisionOnly(new)
    PROVE  /\ row' \in Rows /\ content' \in Rows
           /\ revision' \in 1..MaxRevisions
  <1>1. row' \in Rows /\ content' \in Rows
    BY SavedRow DEF SaveRevision, SaveRevisionOnly, TypeOK
  <1>2. revision' \in 1..MaxRevisions
    BY BoundAssumption DEF SaveRevision, SaveRevisionOnly, NextRevision,
       TypeOK
  <1> QED
    BY <1>1, <1>2

\* An approval is a review record.
LEMMA ApprovalType ==
    ASSUME TypeOK, NEW u,
           NEW a \in {"initial_approve", "final_approve"},
           Role(u, row.journal) \in Roles \cup {"super_admin"}
    PROVE  Approval(a, u) \in Records
  <1>2. revision \in Nat /\ content.content \in Nat /\ row.journal \in Journals
    BY BoundAssumption DEF TypeOK, Rows
  <1> QED
    BY <1>2 DEF Approval, Records

\* What a request says has the type of a form.
LEMMA FormType ==
    ASSUME TypeOK
    PROVE  Silent \in Forms /\ PostedForms \subseteq Forms
  <1>1. revision \in Nat /\ 0 \in Nat
    BY BoundAssumption DEF TypeOK
  <1>2. \A form \in PageForms : form \in Forms
    BY <1>1 DEF PageForms, Forms
  <1>3. \A form \in TaskForms : form \in Forms
    BY <1>1 DEF TaskForms, Forms, Statuses
  <1> QED
    BY <1>1, <1>2, <1>3 DEF Silent, Forms, PostedForms

\* Every posted review form keeps the types.
LEMMA PostType ==
    ASSUME TypeOK, NEW form \in PostedForms, Post(form),
           live' \in BOOLEAN, request' \in Forms
    PROVE  TypeOK'
  <1>r. row \in Rows /\ 0 \in Nat /\ revision \in Nat
    BY BoundAssumption DEF TypeOK
  <1>s. /\ "draft" \in Statuses /\ "submitted" \in Statuses
        /\ "pending_final" \in Statuses /\ "approved" \in Statuses
        /\ "rejected" \in Statuses
    BY DEF Statuses
  <1>1. ASSUME NEW u \in Users \cup {Author}, SubmitForInitialReview(u)
        PROVE TypeOK'
    BY <1>1, <1>r, <1>s, RowReviewed DEF SubmitForInitialReview, team, TypeOK
  <1>2. ASSUME NEW u \in Users, ClaimInitialReview(u) PROVE TypeOK'
    BY <1>2, <1>r, RowAssigned DEF ClaimInitialReview, team, TypeOK
  <1>3. ASSUME NEW u \in Users, NEW e \in Users, ReassignInitialReview(u, e)
        PROVE TypeOK'
    BY <1>3, <1>r, RowAssigned DEF ReassignInitialReview, team, TypeOK
  <1>4. ASSUME NEW u \in Users, InitialReview(u) PROVE TypeOK'
    <2>1. Role(u, row.journal) \in Roles \cup {"super_admin"}
      BY <1>4 DEF InitialReview, CanInitialReview, Effective, Leads, Roles
    <2>2. Approval("initial_approve", u) \in Records
      BY <2>1, ApprovalType
    <2>3. \A s \in Statuses : [row EXCEPT !.status = s] \in Rows
                              /\ Unassigned([row EXCEPT !.status = s]) \in Rows
      BY <1>r, RowReviewed, UnassignedRow
    <2>4. row' \in Rows
      BY <1>4, <1>s, <2>3 DEF InitialReview
    <2>5. approvals' \subseteq Records
      BY <1>4, <2>2 DEF InitialReview, TypeOK
    <2> QED
      BY <1>4, <2>4, <2>5 DEF InitialReview, team, TypeOK
  <1>5. ASSUME NEW u \in Users, FinalReview(u) PROVE TypeOK'
    <2>1. Role(u, row.journal) \in Roles \cup {"super_admin"}
      BY <1>5 DEF FinalReview, CanFinalReview, Roles
    <2>2. Approval("final_approve", u) \in Records
      BY <2>1, ApprovalType
    <2>3. \A s \in Statuses, n \in Nat :
             /\ [row EXCEPT !.status = s, !.approved = n] \in Rows
             /\ Unassigned([row EXCEPT !.status = s, !.approved = n]) \in Rows
      BY <1>r, RowReviewed, UnassignedRow
    <2>4. row' \in Rows
      BY <1>5, <1>r, <1>s, <2>3 DEF FinalReview
    <2>5. approvals' \subseteq Records
      BY <1>5, <2>2 DEF FinalReview, TypeOK
    <2> QED
      BY <1>5, <2>4, <2>5 DEF FinalReview, team, TypeOK
  <1>6. ASSUME NEW u \in Users, ReopenRejected(u) PROVE TypeOK'
    <2>1. Unassigned([row EXCEPT !.status = "draft"]) \in Rows
      BY <1>r, <1>s, RowReviewed, UnassignedRow
    <2> QED
      BY <1>6, <2>1, SaveRevisionType DEF ReopenRejected, team, TypeOK
  <1>7. ASSUME NEW u \in Users, NEW j \in Journals, Transfer(u, j)
        PROVE TypeOK'
    <2>1. Unassigned([row EXCEPT !.status = "submitted", !.journal = j,
                                 !.approved = 0]) \in Rows
      BY <1>r, RowTransferred, UnassignedRow
    <2> QED
      BY <1>7, <2>1, SaveRevisionType DEF Transfer, team, TypeOK
  <1> QED
    BY <1>1, <1>2, <1>3, <1>4, <1>5, <1>6, <1>7 DEF Post

\* Every step keeps the types.
LEMMA TypeStep == TypeOK /\ [Next]_vars => TypeOK'
  <1> SUFFICES ASSUME TypeOK, [Next]_vars PROVE TypeOK'
    OBVIOUS
  <1>l. live' \in BOOLEAN
    BY DEF Next, vars, TypeOK
  <1>f. request' \in Forms
    BY FormType DEF Next, Post, vars, TypeOK
  <1> USE <1>l, <1>f
  <1>r. row \in Rows /\ revision + 1 \in Nat
    BY BoundAssumption DEF TypeOK
  <1>1. CASE SaveSubmission
    <2>1. [row EXCEPT !.content = revision + 1] \in Rows
      BY <1>r DEF Rows
    <2> QED
      BY <1>1, <2>1, SaveRevisionType DEF SaveSubmission, team, TypeOK
  <1>2. ASSUME NEW j \in Journals, ChangeJournal(j) PROVE TypeOK'
    <2>1. [row EXCEPT !.journal = j] \in Rows
      BY <1>r DEF Rows
    <2> QED
      BY <1>2, <2>1, SaveRevisionType DEF ChangeJournal, team, TypeOK
  <1>3. ASSUME NEW form \in PostedForms, Post(form) PROVE TypeOK'
    BY <1>3, PostType
  <1>4. ASSUME NEW u \in Users, NEW j \in Journals, BulkEdit(u, j)
        PROVE TypeOK'
    <2>1. PICK c \in NewContent(row.content) :
             SaveRevision([row EXCEPT !.content = c, !.journal = j])
      BY <1>4 DEF BulkEdit
    <2>2. c \in Nat
      BY <1>r DEF NewContent, Rows
    <2>3. [row EXCEPT !.content = c, !.journal = j] \in Rows
      BY <1>r, <2>2, RowEdited
    <2> QED
      BY <1>4, <2>1, <2>3, SaveRevisionType DEF BulkEdit, team, TypeOK
  <1>5. ASSUME NEW u \in Users, LoadPage(u) PROVE TypeOK'
    BY <1>5 DEF LoadPage, team, TypeOK
  <1>6. ASSUME NEW u \in Users, NEW j \in Journals, SavePage(u, j)
        PROVE TypeOK'
    <2>1. PICK c \in NewContent(page.content) :
             LET new == [page EXCEPT !.content = c, !.journal = j]
             IN  SaveRevision(new) \/ SaveRevisionOnly(new)
      BY <1>6 DEF SavePage
    <2>2. page \in Rows
      BY <1>6 DEF SavePage, TypeOK
    <2>3. c \in Nat
      BY <1>r, <2>2 DEF NewContent, Rows
    <2>4. [page EXCEPT !.content = c, !.journal = j] \in Rows
      BY <2>2, <2>3, RowEdited
    <2> QED
      BY <1>6, <2>1, <2>4, SaveRevisionType DEF SavePage, team, TypeOK
  <1>7. CASE DropPage
    BY <1>7 DEF DropPage, team, TypeOK
  <1>8. ASSUME NEW seat \in Appointments, Appoint(seat) PROVE TypeOK'
    BY <1>8, UsersAssumption, BoundAssumption DEF Appoint, TeamChange, TypeOK
  <1>9. ASSUME NEW seat \in Appointments, Replace(seat) PROVE TypeOK'
    BY <1>9, UsersAssumption, BoundAssumption DEF Replace, TeamChange, TypeOK
  <1>10. ASSUME NEW seat \in Seats, EndAssignment(seat) PROVE TypeOK'
    BY <1>10, <1>r, ClearAssignmentType, BoundAssumption
       DEF EndAssignment, TeamChange, TypeOK
  <1>11. ASSUME NEW u \in Users, SuspendAccount(u) PROVE TypeOK'
    BY <1>11, <1>r, ClearAssignmentType, BoundAssumption
       DEF SuspendAccount, TeamChange, TypeOK
  <1>12. ASSUME NEW u \in Users, ReactivateAccount(u) PROVE TypeOK'
    BY <1>12, BoundAssumption DEF ReactivateAccount, TeamChange, TypeOK
  <1>13. CASE UNCHANGED vars
    BY <1>13 DEF vars, team, TypeOK
  <1> QED
    BY <1>1, <1>2, <1>3, <1>4, <1>5, <1>6, <1>7, <1>8, <1>9, <1>10, <1>11,
       <1>12, <1>13 DEF Next

-----------------------------------------------------------------------------
(* The inductive invariant                                                 *)

Strengthening == StoredConsistently /\ ApprovalsOfLatest /\ ApprovedIsReviewed

\* Saves change content, journal and status, and never bring an approval.
LEMMA SaveKeeps ==
    ASSUME IInv, NEW new \in Rows, ConsistentRow(new), SaveRevision(new),
           new.status = "approved" =>
               row.status = "approved" /\ new.approved = row.approved,
           approvals' = approvals, page' \in {page, NoPage}, live' = live
    PROVE  Strengthening'
  <1>1. /\ row' = Saved(new) /\ content' = row' /\ revision' = revision + 1
        /\ revision \in Nat
    BY BoundAssumption DEF SaveRevision, NextRevision, IInv, TypeOK
  <1>2. \/ /\ row'.status = new.status /\ row'.approved = new.approved
           /\ row.status = "approved" =>
                 row'.content = row.content /\ row'.journal = row.journal
        \/ row'.status = "draft" /\ row'.approved = 0
    BY <1>1, SavedRow
  <1>3. StoredConsistently'
    BY <1>1, <1>2 DEF StoredConsistently, ConsistentRow, IInv
  <1>4. \A x \in approvals : x.revision \in Nat
    BY DEF IInv, TypeOK, Records
  <1>5. ApprovalsOfLatest'
    BY <1>1, <1>4 DEF ApprovalsOfLatest, IInv
  <1>6. ApprovedIsReviewed'
    BY <1>2 DEF ApprovedIsReviewed, IInv
  <1> QED
    BY <1>3, <1>5, <1>6 DEF Strengthening

\* A revision of a live page alone leaves the row as it is.
LEMMA RevisionKeeps ==
    ASSUME IInv, NEW new \in Rows, ConsistentRow(new), live,
           SaveRevisionOnly(new),
           approvals' = approvals, page' \in {page, NoPage}, live' = live
    PROVE  Strengthening'
  <1>1. /\ row' = row /\ content' = new /\ revision' = revision + 1
        /\ revision \in Nat
    BY BoundAssumption DEF SaveRevisionOnly, NextRevision, IInv, TypeOK
  <1>2. StoredConsistently'
    BY <1>1 DEF StoredConsistently, ConsistentRow, IInv
  <1>3. \A x \in approvals : x.revision \in Nat
    BY DEF IInv, TypeOK, Records
  <1>4. ApprovalsOfLatest'
    BY <1>1, <1>3 DEF ApprovalsOfLatest, IInv
  <1>5. ApprovedIsReviewed'
    BY <1>1 DEF ApprovedIsReviewed, IInv
  <1> QED
    BY <1>2, <1>4, <1>5 DEF Strengthening

\* So does whatever changes only the assignment.
LEMMA AssignmentKeeps ==
    ASSUME IInv, row'.status = row.status, row'.journal = row.journal,
           row'.content = row.content, row'.approved = row.approved,
           UNCHANGED <<live, revision, content, approvals>>,
           page' \in {page, content, NoPage}
    PROVE  Strengthening'
  <1>1. StoredConsistently'
    BY DEF StoredConsistently, ConsistentRow, IInv
  <1>2. ApprovalsOfLatest'
    BY DEF ApprovalsOfLatest, IInv
  <1>3. ApprovedIsReviewed'
    BY DEF ApprovedIsReviewed, IInv
  <1> QED
    BY <1>1, <1>2, <1>3 DEF Strengthening

\* And a decision that does not approve.
LEMMA DecisionKeeps ==
    ASSUME IInv, row'.status # "approved", row'.approved = 0,
           row'.journal = row.journal, row'.content = row.content,
           UNCHANGED <<live, revision, content, page>>,
           approvals' = approvals \/ \E u :
               approvals' = approvals \cup
                   {Approval("initial_approve", u)}
    PROVE  Strengthening'
  <1>1. StoredConsistently'
    BY DEF StoredConsistently, ConsistentRow, IInv
  <1>2. revision \in Nat
    BY BoundAssumption DEF IInv, TypeOK
  <1>3. ApprovalsOfLatest'
    BY <1>2 DEF ApprovalsOfLatest, IInv, Approval
  <1>4. ApprovedIsReviewed'
    BY DEF ApprovedIsReviewed, IInv
  <1> QED
    BY <1>1, <1>3, <1>4 DEF Strengthening

\* The final approval: the initial one it relies on was of what the row has.
LEMMA FinalApprovalKeeps ==
    ASSUME IInv, NEW u, CanFinalReview(u), Passed(revision),
           row' = [row EXCEPT !.status = "approved", !.approved = revision],
           approvals' = approvals \cup {Approval("final_approve", u)},
           UNCHANGED <<live, revision, content, page>>
    PROVE  Strengthening'
  <1> DEFINE y == Approval("final_approve", u)
  <1>1. /\ row'.status = "approved" /\ row'.approved = revision
        /\ row'.content = row.content /\ row'.journal = row.journal
    BY DEF IInv, TypeOK, Rows
  <1>2. revision \in Nat \ {0}
    BY BoundAssumption DEF IInv, TypeOK
  <1>3. StoredConsistently'
    BY <1>1, <1>2 DEF StoredConsistently, ConsistentRow, IInv
  <1>4. /\ y.action = "final_approve" /\ y.role = "chief_editor"
        /\ y.revision = revision /\ y.content = content.content
        /\ y.journal = row.journal
    BY DEF Approval, CanFinalReview
  <1>5. ApprovalsOfLatest'
    BY <1>1, <1>2, <1>4 DEF ApprovalsOfLatest, IInv
  <1>6. PICK x \in approvals : x.action = "initial_approve"
                               /\ x.revision = revision
    BY DEF Passed
  <1>7. /\ x.content = content.content /\ x.journal = row.journal
        /\ ~live => content.content = row.content
    BY <1>6 DEF ApprovalsOfLatest, IInv
  <1>8. ApprovedIsReviewed'
    <2>1. x \in approvals' /\ y \in approvals'
      OBVIOUS
    <2>2. /\ x.content = y.content
          /\ ~live' => x.content = row'.content
          /\ \A z \in {x, y} : /\ z.revision = row'.approved
                               /\ z.journal = row'.journal
      BY <1>1, <1>4, <1>6, <1>7
    <2> QED
      BY <2>1, <2>2, <1>4, <1>6 DEF ApprovedIsReviewed
  <1> QED
    BY <1>3, <1>5, <1>8 DEF Strengthening

\* Every posted review form keeps the strengthening.
LEMMA PostKeeps ==
    ASSUME IInv, NEW form \in PostedForms, Post(form), live' = live
    PROVE  Strengthening'
  <1>r. /\ row \in Rows /\ ConsistentRow(row)
        /\ row.status # "approved" => row.approved = 0
    BY DEF IInv, TypeOK, StoredConsistently, ConsistentRow
  <1>1. ASSUME NEW u \in Users \cup {Author}, SubmitForInitialReview(u)
        PROVE Strengthening'
    <2>1. /\ row'.status = "submitted" /\ row'.approved = row.approved
          /\ row'.journal = row.journal /\ row'.content = row.content
      BY <1>1, <1>r DEF SubmitForInitialReview, Rows
    <2> QED
      BY <1>1, <1>r, <2>1, DecisionKeeps DEF SubmitForInitialReview
  <1>2. ASSUME NEW u \in Users, ClaimInitialReview(u) PROVE Strengthening'
    <2>1. row' = [row EXCEPT !.assigned = u]
      BY <1>2 DEF ClaimInitialReview
    <2>2. /\ row'.status = row.status /\ row'.approved = row.approved
          /\ row'.journal = row.journal /\ row'.content = row.content
      BY <2>1, <1>r DEF Rows
    <2> QED
      BY <1>2, <2>2, AssignmentKeeps DEF ClaimInitialReview
  <1>3. ASSUME NEW u \in Users, NEW e \in Users, ReassignInitialReview(u, e)
        PROVE Strengthening'
    <2>1. row' = [row EXCEPT !.assigned = e]
      BY <1>3 DEF ReassignInitialReview
    <2>2. /\ row'.status = row.status /\ row'.approved = row.approved
          /\ row'.journal = row.journal /\ row'.content = row.content
      BY <2>1, <1>r DEF Rows
    <2> QED
      BY <1>3, <2>2, AssignmentKeeps DEF ReassignInitialReview
  <1>4. ASSUME NEW u \in Users, InitialReview(u) PROVE Strengthening'
    <2>1. \A s \in {"draft", "rejected", "pending_final"} :
             LET r == [row EXCEPT !.status = s]
             IN  /\ r \in Rows /\ r.status = s /\ r.approved = row.approved
                 /\ r.journal = row.journal /\ r.content = row.content
      BY <1>r DEF Rows, Statuses
    <2>2. ASSUME NEW s \in {"draft", "rejected"}
          PROVE  LET r == Unassigned([row EXCEPT !.status = s])
                 IN  /\ r.status = s /\ r.approved = row.approved
                     /\ r.journal = row.journal /\ r.content = row.content
      <3> DEFINE r == [row EXCEPT !.status = s]
      <3>1. /\ r \in Rows /\ r.status = s /\ r.approved = row.approved
            /\ r.journal = row.journal /\ r.content = row.content
        BY <2>1
      <3> HIDE DEF r
      <3>2. /\ Unassigned(r).status = s /\ Unassigned(r).approved = row.approved
            /\ Unassigned(r).journal = row.journal
            /\ Unassigned(r).content = row.content
        BY <3>1, UnassignedRow
      <3> QED
        BY <3>2 DEF r
    <2>3. row.approved = 0
      BY <1>4, <1>r DEF InitialReview, CanInitialReview
    <2>4. /\ row'.status # "approved" /\ row'.approved = 0
          /\ row'.journal = row.journal /\ row'.content = row.content
      BY <1>4, <2>1, <2>2, <2>3 DEF InitialReview
    <2> QED
      BY <1>4, <2>4, DecisionKeeps DEF InitialReview
  <1>5. ASSUME NEW u \in Users, FinalReview(u) PROVE Strengthening'
    <2>1. CASE row' = [row EXCEPT !.status = "approved", !.approved = revision]
               /\ approvals' = approvals
                     \cup {Approval("final_approve", u)}
      BY <1>5, <2>1, FinalApprovalKeeps DEF FinalReview
    <2>2. ASSUME NEW s \in {"draft", "rejected"},
                 row' = Unassigned([row EXCEPT !.status = s, !.approved = 0]),
                 approvals' = approvals
          PROVE  Strengthening'
      <3> DEFINE r == [row EXCEPT !.status = s, !.approved = 0]
      <3>1. /\ r \in Rows /\ r.status = s /\ r.approved = 0
            /\ r.journal = row.journal /\ r.content = row.content
        BY <1>r DEF Rows, Statuses
      <3>2. /\ row'.status = s /\ row'.approved = 0
            /\ row'.journal = row.journal /\ row'.content = row.content
        BY <2>2, <3>1, UnassignedRow
      <3> QED
        BY <1>5, <2>2, <3>2, DecisionKeeps DEF FinalReview
    <2> QED
      BY <1>5, <2>1, <2>2 DEF FinalReview
  <1>6. ASSUME NEW u \in Users, ReopenRejected(u) PROVE Strengthening'
    <2> DEFINE r == [row EXCEPT !.status = "draft"]
    <2>1. /\ r \in Rows /\ r.status = "draft" /\ r.approved = row.approved
      BY <1>r DEF Rows, Statuses
    <2>2. row.approved = 0
      BY <1>6, <1>r DEF ReopenRejected
    <2>3. Unassigned(r) \in Rows /\ Unassigned(r).status = "draft"
          /\ ConsistentRow(Unassigned(r))
      BY <2>1, <2>2, UnassignedRow DEF ConsistentRow
    <2> QED
      BY <1>6, <2>3, SaveKeeps DEF ReopenRejected
  <1>7. ASSUME NEW u \in Users, NEW j \in Journals, Transfer(u, j)
        PROVE Strengthening'
    <2> DEFINE r == [row EXCEPT !.status = "submitted", !.journal = j,
                                !.approved = 0]
    <2>1. /\ r \in Rows /\ r.status = "submitted" /\ r.approved = 0
      BY <1>r DEF Rows, Statuses
    <2>2. Unassigned(r) \in Rows /\ Unassigned(r).status = "submitted"
          /\ ConsistentRow(Unassigned(r))
      BY <2>1, UnassignedRow DEF ConsistentRow
    <2> QED
      BY <1>7, <2>2, SaveKeeps DEF Transfer
  <1> QED
    BY <1>1, <1>2, <1>3, <1>4, <1>5, <1>6, <1>7 DEF Post

\* A loaded page with an approved revision is saved only over its own.
LEMMA SavePageRow ==
    ASSUME IInv, NEW u, NEW j \in Journals, SavePage(u, j)
    PROVE  \E new \in Rows :
              /\ \/ live /\ SaveRevisionOnly(new)
                 \/ ~live /\ SaveRevision(new)
              /\ ConsistentRow(new) /\ ProjectionKept(new)
              /\ new.status = "approved" =>
                    row.status = "approved" /\ new.approved = row.approved
  <1>1. page \in Rows /\ ConsistentRow(page) /\ ConsistentRow(row)
        /\ revision \in Nat
    BY BoundAssumption DEF SavePage, IInv, TypeOK, StoredConsistently
  <1>2. PICK c \in NewContent(page.content) :
           LET new == [page EXCEPT !.content = c, !.journal = j]
           IN  /\ ProjectionKept(new)
               /\ \/ live /\ SaveRevisionOnly(new)
                  \/ ~live /\ SaveRevision(new)
    BY DEF SavePage
  <1> DEFINE new == [page EXCEPT !.content = c, !.journal = j]
  <1>3. c \in Nat
    BY <1>1 DEF NewContent, Rows
  <1>4. /\ new \in Rows
        /\ new.status = page.status /\ new.approved = page.approved
    BY <1>1, <1>3 DEF Rows
  <1>5. ConsistentRow(new)
    BY <1>1, <1>4 DEF ConsistentRow
  <1>6. new.status = "approved" =>
           row.status = "approved" /\ new.approved = row.approved
    BY <1>1, <1>2, <1>5 DEF ProjectionKept, ConsistentRow
  <1> QED
    BY <1>2, <1>4, <1>5, <1>6

\* The invariant is inductive.
LEMMA IInvStep == IInv /\ [Next]_vars => IInv'
  <1> SUFFICES ASSUME IInv, [Next]_vars PROVE Strengthening'
    BY TypeStep DEF IInv, Strengthening
  <1>r. /\ row \in Rows /\ revision \in Nat /\ ConsistentRow(row)
    BY BoundAssumption DEF IInv, TypeOK, StoredConsistently
  <1>l. live' = live
    BY DEF Next, vars
  <1> USE <1>l
  <1>1. CASE SaveSubmission
    <2> DEFINE new == [row EXCEPT !.content = revision + 1]
    <2>1. /\ new \in Rows /\ new.status = row.status
          /\ new.approved = row.approved
      BY <1>r DEF Rows
    <2> QED
      BY <1>1, <1>r, <2>1, SaveKeeps DEF SaveSubmission, ConsistentRow
  <1>2. ASSUME NEW j \in Journals, ChangeJournal(j) PROVE Strengthening'
    <2> DEFINE new == [row EXCEPT !.journal = j]
    <2>1. /\ new \in Rows /\ new.status = row.status
          /\ new.approved = row.approved
      BY <1>r DEF Rows
    <2> QED
      BY <1>2, <1>r, <2>1, SaveKeeps DEF ChangeJournal, ConsistentRow
  <1>3. ASSUME NEW form \in PostedForms, Post(form) PROVE Strengthening'
    BY <1>3, PostKeeps
  <1>4. ASSUME NEW u \in Users, NEW j \in Journals, BulkEdit(u, j)
        PROVE Strengthening'
    <2>1. PICK c \in NewContent(row.content) :
             SaveRevision([row EXCEPT !.content = c, !.journal = j])
      BY <1>4 DEF BulkEdit
    <2>2. c \in Nat
      BY <1>r DEF NewContent, Rows
    <2> DEFINE new == [row EXCEPT !.content = c, !.journal = j]
    <2>3. /\ new \in Rows /\ new.status = row.status
          /\ new.approved = row.approved
      BY <1>r, <2>2 DEF Rows
    <2> QED
      BY <1>4, <1>r, <2>1, <2>3, SaveKeeps DEF BulkEdit, ConsistentRow
  <1>5. ASSUME NEW u \in Users, LoadPage(u) PROVE Strengthening'
    BY <1>5, AssignmentKeeps DEF LoadPage
  <1>6. ASSUME NEW u \in Users, NEW j \in Journals, SavePage(u, j)
        PROVE Strengthening'
    BY <1>6, SavePageRow, SaveKeeps, RevisionKeeps DEF SavePage
  <1>7. CASE DropPage
    BY <1>7, AssignmentKeeps DEF DropPage
  <1>8. ASSUME NEW seat \in Appointments, Appoint(seat) PROVE Strengthening'
    BY <1>8, AssignmentKeeps DEF Appoint
  <1>9. ASSUME NEW seat \in Appointments, Replace(seat) PROVE Strengthening'
    BY <1>9, AssignmentKeeps DEF Replace
  <1>10. ASSUME NEW seat \in Seats, EndAssignment(seat) PROVE Strengthening'
    BY <1>10, <1>r, ClearAssignmentType, AssignmentKeeps DEF EndAssignment
  <1>11. ASSUME NEW u \in Users, SuspendAccount(u) PROVE Strengthening'
    BY <1>11, <1>r, ClearAssignmentType, AssignmentKeeps DEF SuspendAccount
  <1>12. ASSUME NEW u \in Users, ReactivateAccount(u) PROVE Strengthening'
    BY <1>12, AssignmentKeeps DEF ReactivateAccount
  <1>13. CASE UNCHANGED vars
    BY <1>13, AssignmentKeeps DEF vars, team
  <1> QED
    BY <1>1, <1>2, <1>3, <1>4, <1>5, <1>6, <1>7, <1>8, <1>9, <1>10, <1>11,
       <1>12, <1>13 DEF Next

\* The invariant holds initially.
LEMMA IInvInit == Init => IInv
  <1> SUFFICES ASSUME Init PROVE IInv
    OBVIOUS
  <1>1. row \in Rows /\ content \in Rows
    BY UsersAssumption DEF Init, Rows, Statuses
  <1>2. TypeOK
    BY <1>1, UsersAssumption, BoundAssumption
       DEF Init, TypeOK, Silent, Forms
  <1>3. StoredConsistently
    BY DEF Init, StoredConsistently, ConsistentRow
  <1>4. ApprovalsOfLatest /\ ApprovedIsReviewed
    BY DEF Init, ApprovalsOfLatest, ApprovedIsReviewed
  <1> QED
    BY <1>2, <1>3, <1>4 DEF IInv

\* The invariant holds in every reachable state.
LEMMA Invariant == Spec => []IInv
  BY IInvInit, IInvStep, PTL DEF Spec

\* Every variable keeps its type, whatever the users, journals and bounds.
THEOREM TypeCorrect == Spec => []TypeOK
  <1>1. IInv => TypeOK
    BY DEF IInv
  <1> QED
    BY <1>1, Invariant, PTL

\* An approved article passed both reviews with one content and in the
\* journal it has, whatever is edited, moved, restored or reassigned between;
\* the row of a page that is not live has that content.
THEOREM ApprovedReviewed == Spec => []ApprovedIsReviewed
  <1>1. IInv => ApprovedIsReviewed
    BY DEF IInv
  <1> QED
    BY <1>1, Invariant, PTL

-----------------------------------------------------------------------------
(* Who approves, and when                                                  *)

\* No step gives a journal a second chief.
LEMMA ChiefStep == OneChiefEach /\ [Next]_vars => OneChiefEach'
  <1> SUFFICES ASSUME OneChiefEach, [Next]_vars PROVE OneChiefEach'
    OBVIOUS
  <1>1. CASE seats' = seats
    BY <1>1 DEF OneChiefEach
  <1>2. ASSUME NEW seat \in Appointments, Appoint(seat) PROVE OneChiefEach'
    <2>0. seat.journal \in Journals
      BY UsersAssumption DEF Seats
    <2>1. seat.role # "chief_editor"
      <3> SUFFICES ASSUME seat.role = "chief_editor" PROVE FALSE
        OBVIOUS
      <3>1. PICK s \in seats : s.journal = seat.journal
                               /\ s.role = "chief_editor"
        BY <2>0 DEF OneChiefEach
      <3> QED
        BY <1>2, <3>1 DEF Appoint, Leads
    <2>2. seats' = seats \cup {seat}
      BY <1>2 DEF Appoint
    <2> QED
      BY <2>1, <2>2 DEF OneChiefEach
  <1>3. ASSUME NEW seat \in Appointments, Replace(seat) PROVE OneChiefEach'
    <2>1. seats' = {s \in seats : <<s.journal, s.role>>
                                # <<seat.journal, seat.role>>} \cup {seat}
      BY <1>3 DEF Replace
    <2> SUFFICES ASSUME NEW j \in Journals
                 PROVE  \E s \in seats' :
                           /\ s.journal = j /\ s.role = "chief_editor"
                           /\ \A t \in seats' :
                                 t.journal = j /\ t.role = "chief_editor"
                                 => t = s
      BY DEF OneChiefEach
    <2>2. CASE j = seat.journal /\ seat.role = "chief_editor"
      BY <2>1, <2>2
    <2>3. CASE ~(j = seat.journal /\ seat.role = "chief_editor")
      BY <2>1, <2>3 DEF OneChiefEach
    <2> QED
      BY <2>2, <2>3
  <1>4. ASSUME NEW seat \in Seats, EndAssignment(seat) PROVE OneChiefEach'
    <2>1. seats' = seats \ {seat} /\ seat.role # "chief_editor"
      BY <1>4 DEF EndAssignment
    <2> QED
      BY <2>1 DEF OneChiefEach
  <1>5. CASE /\ ~\E seat \in Appointments : Appoint(seat) \/ Replace(seat)
             /\ ~\E seat \in Seats : EndAssignment(seat)
    <2>1. seats' = seats
      BY <1>5 DEF Next, vars, team, SaveSubmission, ChangeJournal, Post,
         SubmitForInitialReview, ClaimInitialReview, ReassignInitialReview,
         InitialReview, FinalReview, ReopenRejected, Transfer, BulkEdit,
         LoadPage, SavePage, DropPage, SuspendAccount, ReactivateAccount
    <2> QED
      BY <1>1, <2>1
  <1> QED
    BY <1>2, <1>3, <1>4, <1>5

\* Every journal always has its one chief editor.
THEOREM OneChief == Spec => []OneChiefEach
  <1>1. Init => OneChiefEach
    BY ChiefAssumption DEF Init, OneChiefEach
  <1> QED
    BY <1>1, ChiefStep, PTL DEF Spec

\* What a save may do to the status.
LEMMA SaveStatus ==
    ASSUME NEW new \in Rows, SaveRevision(new)
    PROVE  \/ /\ row'.status = new.status
              /\ row.status = "approved" =>
                    row'.content = row.content /\ row'.journal = row.journal
           \/ /\ row'.status = "draft"
              /\ row.status = "approved"
              /\ row'.content # row.content \/ row'.journal # row.journal
  BY SavedRow DEF SaveRevision

AdvanceStep ==
    /\ row'.status = "pending_final" /\ row.status # "pending_final" =>
           /\ row.status = "submitted"
           /\ Passed(revision)'
    /\ row'.status = "approved" /\ row.status # "approved" =>
           /\ row.status = "pending_final"
           /\ Passed(revision)
           /\ row'.approved = revision

EndStep == row.status = "approved" /\ row'.status # "approved"
           => \/ row'.content # row.content
              \/ row'.journal # row.journal

ReadStep ==
    /\ row'.status = "pending_final" /\ row.status # "pending_final" =>
           Says(request', "submitted", revision)
    /\ row'.status = "approved" /\ row.status # "approved" =>
           Says(request', "pending_final", revision)

\* A step that saves a row with the stored status, or with one that is
\* neither pending nor approved while the article is not approved.
LEMMA SaveMoves ==
    ASSUME NEW new \in Rows, SaveRevision(new),
           \/ new.status = row.status
           \/ /\ new.status \notin {"pending_final", "approved"}
              /\ row.status # "approved"
    PROVE  AdvanceStep /\ EndStep /\ ReadStep
  BY SaveStatus DEF AdvanceStep, EndStep, ReadStep

\* A step that keeps the status neither advances an article nor ends an approval.
LEMMA SameStatusMoves ==
    ASSUME row'.status = row.status
    PROVE  AdvanceStep /\ EndStep /\ ReadStep
  BY DEF AdvanceStep, EndStep, ReadStep

\* A posted review form advances an article only by its own decision.
LEMMA PostMoves ==
    ASSUME IInv, NEW form \in PostedForms, Post(form)
    PROVE  AdvanceStep /\ EndStep
  <1>r. row \in Rows /\ revision \in Nat
    BY BoundAssumption DEF IInv, TypeOK
  <1>1. ASSUME NEW u \in Users \cup {Author}, SubmitForInitialReview(u)
        PROVE  AdvanceStep /\ EndStep
    <2>1. row'.status = "submitted" /\ row.status = "draft"
      BY <1>1, <1>r DEF SubmitForInitialReview, Rows
    <2> QED
      BY <2>1 DEF AdvanceStep, EndStep
  <1>2. ASSUME NEW u, ClaimInitialReview(u)
               \/ \E e \in Users : ReassignInitialReview(u, e)
        PROVE  AdvanceStep /\ EndStep
    <2>1. row'.status = row.status
      BY <1>2, <1>r DEF ClaimInitialReview, ReassignInitialReview, Rows
    <2> QED
      BY <2>1, SameStatusMoves
  <1>3. ASSUME NEW u \in Users, InitialReview(u)
        PROVE  AdvanceStep /\ EndStep
    <2>1. row.status = "submitted" /\ revision' = revision
      BY <1>3 DEF InitialReview, CanInitialReview
    <2>2. CASE /\ row' = [row EXCEPT !.status = "pending_final"]
               /\ approvals' = approvals
                     \cup {Approval("initial_approve", u)}
      <3> DEFINE a == Approval("initial_approve", u)
      <3>1. a.action = "initial_approve" /\ a.revision = revision
        BY DEF Approval
      <3>2. Passed(revision)'
        BY <2>1, <2>2, <3>1 DEF Passed
      <3>3. row'.status = "pending_final"
        BY <2>2, <1>r DEF Rows
      <3> QED
        BY <2>1, <3>2, <3>3 DEF AdvanceStep, EndStep
    <2>3. ASSUME NEW s \in {"draft", "rejected"},
                 row' = Unassigned([row EXCEPT !.status = s])
          PROVE  AdvanceStep /\ EndStep
      <3>1. [row EXCEPT !.status = s] \in Rows
            /\ [row EXCEPT !.status = s].status = s
        BY <1>r DEF Rows, Statuses
      <3>2. row'.status = s
        BY <2>3, <3>1, UnassignedRow
      <3> QED
        BY <2>1, <3>2 DEF AdvanceStep, EndStep
    <2> QED
      BY <1>3, <2>2, <2>3 DEF InitialReview
  <1>4. ASSUME NEW u \in Users, FinalReview(u)
        PROVE  AdvanceStep /\ EndStep
    <2>1. row.status = "pending_final" /\ Passed(revision)
      BY <1>4 DEF FinalReview, CanFinalReview
    <2>2. CASE row' = [row EXCEPT !.status = "approved",
                                  !.approved = revision]
      <3>1. row'.status = "approved" /\ row'.approved = revision
        BY <2>2, <1>r DEF Rows
      <3> QED
        BY <2>1, <3>1 DEF AdvanceStep, EndStep
    <2>3. ASSUME NEW s \in {"draft", "rejected"},
                 row' = Unassigned([row EXCEPT !.status = s, !.approved = 0])
          PROVE  AdvanceStep /\ EndStep
      <3> DEFINE r == [row EXCEPT !.status = s, !.approved = 0]
      <3>1. r \in Rows /\ r.status = s
        BY <1>r DEF Rows, Statuses
      <3>2. row'.status = s
        BY <2>3, <3>1, UnassignedRow
      <3> QED
        BY <2>1, <3>2 DEF AdvanceStep, EndStep
    <2> QED
      BY <1>4, <2>2, <2>3 DEF FinalReview
  <1>5. ASSUME NEW u \in Users, ReopenRejected(u)
        PROVE  AdvanceStep /\ EndStep
    <2> DEFINE r == [row EXCEPT !.status = "draft"]
    <2>1. r \in Rows /\ r.status = "draft"
      BY <1>r DEF Rows, Statuses
    <2>2. Unassigned(r) \in Rows /\ Unassigned(r).status = "draft"
      BY <2>1, UnassignedRow
    <2> QED
      BY <1>5, <2>2, SaveMoves DEF ReopenRejected
  <1>6. ASSUME NEW u \in Users, NEW j \in Journals, Transfer(u, j)
        PROVE  AdvanceStep /\ EndStep
    <2> DEFINE r == [row EXCEPT !.status = "submitted", !.journal = j,
                                !.approved = 0]
    <2>1. r \in Rows /\ r.status = "submitted"
      BY <1>r DEF Rows, Statuses
    <2>2. Unassigned(r) \in Rows /\ Unassigned(r).status = "submitted"
      BY <2>1, UnassignedRow
    <2> QED
      BY <1>6, <2>2, SaveMoves DEF Transfer
  <1> QED
    BY <1>1, <1>2, <1>3, <1>4, <1>5, <1>6 DEF Post

\* What a form says is compared with the stage it advances the article from.
LEMMA PostReads ==
    ASSUME IInv, NEW form \in PostedForms, Post(form), AdvanceStep
    PROVE  ReadStep
  <1>1. /\ request' = form
        /\ form.status \in {row.status, Unstated}
        /\ form.revision \in {revision, 0}
    BY DEF Post, Expected
  <1>2. form # Silent
    <2>1. CASE form \in PageForms
      BY <2>1, BoundAssumption DEF PageForms, Silent, IInv, TypeOK
    <2>2. CASE form \in TaskForms
      BY <2>2 DEF TaskForms, Silent, Unstated
    <2> QED
      BY <2>1, <2>2 DEF PostedForms
  <1> QED
    BY <1>1, <1>2 DEF ReadStep, AdvanceStep, Says

\* Every step advances articles by reviews of what was read and ends
\* approvals by changes.
LEMMA StepMoves == IInv /\ [Next]_vars => AdvanceStep /\ EndStep /\ ReadStep
  <1> SUFFICES ASSUME IInv, [Next]_vars
               PROVE  AdvanceStep /\ EndStep /\ ReadStep
    OBVIOUS
  <1>r. /\ row \in Rows /\ revision \in Nat /\ ConsistentRow(row)
    BY BoundAssumption DEF IInv, TypeOK, StoredConsistently
  <1>1. CASE SaveSubmission
    <2> DEFINE new == [row EXCEPT !.content = revision + 1]
    <2>1. new \in Rows /\ new.status = row.status
      BY <1>r DEF Rows
    <2> QED
      BY <1>1, <2>1, SaveMoves DEF SaveSubmission
  <1>2. ASSUME NEW j \in Journals, ChangeJournal(j)
        PROVE  AdvanceStep /\ EndStep /\ ReadStep
    <2> DEFINE new == [row EXCEPT !.journal = j]
    <2>1. new \in Rows /\ new.status = row.status
      BY <1>r DEF Rows
    <2> QED
      BY <1>2, <2>1, SaveMoves DEF ChangeJournal
  <1>3. ASSUME NEW form \in PostedForms, Post(form)
        PROVE  AdvanceStep /\ EndStep /\ ReadStep
    BY <1>3, PostMoves, PostReads
  <1>4. ASSUME NEW u \in Users, NEW j \in Journals, BulkEdit(u, j)
        PROVE  AdvanceStep /\ EndStep /\ ReadStep
    <2>1. PICK c \in NewContent(row.content) :
             SaveRevision([row EXCEPT !.content = c, !.journal = j])
      BY <1>4 DEF BulkEdit
    <2>2. c \in Nat
      BY <1>r DEF NewContent, Rows
    <2> DEFINE new == [row EXCEPT !.content = c, !.journal = j]
    <2>3. new \in Rows /\ new.status = row.status
      BY <1>r, <2>2 DEF Rows
    <2> QED
      BY <2>1, <2>3, SaveMoves
  <1>5. ASSUME NEW u \in Users, NEW j \in Journals, SavePage(u, j)
        PROVE  AdvanceStep /\ EndStep /\ ReadStep
    <2>1. PICK new \in Rows :
             /\ SaveRevisionOnly(new) \/ SaveRevision(new)
             /\ ConsistentRow(new) /\ ProjectionKept(new)
      BY <1>5, SavePageRow
    <2>3. CASE SaveRevisionOnly(new)
      BY <2>3, SameStatusMoves DEF SaveRevisionOnly
    <2>2. \/ new.status = row.status
          \/ /\ new.status \notin {"pending_final", "approved"}
             /\ row.status # "approved"
      BY <1>r, <2>1 DEF ProjectionKept, ConsistentRow
    <2> QED
      BY <2>1, <2>2, <2>3, SaveMoves
  <1>6. ASSUME NEW u, ClearAssignment(u) PROVE row'.status = row.status
    BY <1>6, <1>r, ClearAssignmentType
  <1>7. CASE \/ \E seat \in Seats : EndAssignment(seat)
             \/ \E u \in Users : SuspendAccount(u)
    <2>1. row'.status = row.status
      BY <1>6, <1>7 DEF EndAssignment, SuspendAccount
    <2> QED
      BY <2>1, SameStatusMoves
  <1>8. CASE \/ \E u \in Users : LoadPage(u)
             \/ DropPage
             \/ \E seat \in Appointments : Appoint(seat) \/ Replace(seat)
             \/ \E u \in Users : ReactivateAccount(u)
             \/ UNCHANGED vars
    <2>1. row' = row
      BY <1>8 DEF LoadPage, DropPage, Appoint, Replace, ReactivateAccount, vars
    <2> QED
      BY <2>1, SameStatusMoves
  <1> QED
    BY <1>1, <1>2, <1>3, <1>4, <1>5, <1>7, <1>8 DEF Next

\* An article advances only by the review of the stage it is in.
THEOREM Advances == Spec => AdvancesByReview
  <1>1. IInv /\ [Next]_vars => [AdvanceStep]_vars
    BY StepMoves
  <1> QED
    BY <1>1, Invariant, PTL DEF Spec, AdvancesByReview, AdvanceStep

\* Nobody passes or approves another revision, or in another stage, than their
\* request says.
THEOREM ApprovesRead == Spec => ApprovesWhatWasRead
  <1>1. IInv /\ [Next]_vars => [ReadStep]_vars
    BY StepMoves
  <1> QED
    BY <1>1, Invariant, PTL DEF Spec, ApprovesWhatWasRead, ReadStep

\* An approval ends only with the content or the journal it was given for.
THEOREM ApprovalEnds == Spec => ApprovalEndsByChange
  <1>1. IInv /\ [Next]_vars => [EndStep]_vars
    BY StepMoves
  <1> QED
    BY <1>1, Invariant, PTL DEF Spec, ApprovalEndsByChange, EndStep
=============================================================================
