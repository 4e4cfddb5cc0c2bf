--------------------------- MODULE CommentSnapshots ---------------------------
(***************************************************************************)
(* The public snapshots of an article's comments, which are served when    *)
(* the comments cannot be: reader_interactions/snapshots.py and its task   *)
(* refresh_comment_snapshot.                                               *)
(*                                                                         *)
(* A task reads the comments first and looks for the latest version then.  *)
(* It waits for the row of that version if another task holds it, and has  *)
(* no row to wait for when there is none.  The file is written before the  *)
(* row of its version is committed, and stays if that fails.               *)
(*                                                                         *)
(* What the public sees of the comments is one value: any change of it is  *)
(* followed by _public_change, which queues a task.  The cache of comment  *)
(* pages in Redis is left out.                                             *)
(***************************************************************************)
EXTENDS Naturals, Sequences, Absent

CONSTANTS
    Contents,      \* what the comments can look like; equal means equal etags
    Workers,       \* workers of the queue
    MaxChanges,    \* bound: public changes
    MaxKills       \* bound: lost messages and killed workers

VARIABLES
    visible,     \* what the public sees of the comments
    edits,       \* public changes so far
    messages,    \* queued refresh_comment_snapshot tasks
    refreshing,  \* the tasks of the workers
    snapshots,   \* CommentSnapshot rows: the content by version
    files,       \* the objects by version
    raced,       \* history: two tasks were once under way together
    kills        \* lost messages and killed workers so far

snapshotVars ==
    <<visible, edits, messages, refreshing, snapshots, files, raced, kills>>

-----------------------------------------------------------------------------

Versions == 1..(MaxChanges + 1)

\* An article begins without comments.
NoComments == CHOOSE c \in Contents : TRUE

\* `base` is the latest version that the task has found.  With its row, if
\* there is one, it holds the lock from "checked" on.
RefreshStages == {"read", "selected", "checked", "written"}
RefreshTasks == [content : Contents, base : 0..MaxChanges, stage : RefreshStages]

ASSUME SnapshotAssumption ==
    /\ None \notin Contents /\ Contents # {}
    /\ None \notin RefreshTasks
    /\ MaxChanges \in Nat /\ MaxKills \in Nat

Busy(w) == refreshing[w] # None

\* FOR UPDATE on the latest row: nobody else is between its check and commit.
Unlocked(w) ==
    refreshing[w].base # 0 =>
        \A x \in Workers \ {w} :
            Busy(x) => \/ refreshing[x].base # refreshing[w].base
                       \/ refreshing[x].stage \in {"read", "selected"}

SnapshotInit ==
    /\ visible = NoComments
    /\ edits = 0
    /\ messages = 0
    /\ refreshing = [w \in Workers |-> None]
    /\ snapshots = <<>>
    /\ files = [v \in Versions |-> None]
    /\ raced = FALSE
    /\ kills = 0

Lost == kills < MaxKills /\ kills' = kills + 1

Finished(w) == refreshing' = [refreshing EXCEPT ![w] = None]

\* The task goes on from what it had with the given fields.
Staged(w, base, stage) ==
    refreshing' = [refreshing EXCEPT ![w].base = base, ![w].stage = stage]

-----------------------------------------------------------------------------

\* A comment is published, hidden, restored, withdrawn: _public_change.
PublicChange ==
    /\ edits < MaxChanges
    /\ edits' = edits + 1
    /\ visible' \in Contents \ {visible}
    /\ \/ messages' = messages + 1 /\ UNCHANGED kills
       \/ Lost /\ UNCHANGED messages
    /\ UNCHANGED <<refreshing, snapshots, files, raced>>

\* Mutant of Latest: the version before.
LatestBefore(content) ==
    Len(snapshots) > 1 /\ snapshots[Len(snapshots) - 1] = content

Latest(content) == Len(snapshots) > 0 /\ snapshots[Len(snapshots)] = content

\* rebuild_comment_snapshot: _snapshot_payload and the first comparison.
ReadComments(w) ==
    /\ messages > 0
    /\ ~Busy(w)
    /\ messages' = messages - 1
    /\ refreshing' = [refreshing EXCEPT ![w] =
           IF Latest(visible) THEN None
           ELSE [content |-> visible, base |-> 0, stage |-> "read"]]
    /\ raced' = (raced \/ \E x \in Workers : Busy(x))
    /\ UNCHANGED <<visible, edits, snapshots, files, kills>>

\* The transaction asks for the latest row and may have to wait for it.
SelectLatest(w) ==
    /\ Busy(w) /\ refreshing[w].stage = "read"
    /\ Staged(w, Len(snapshots), "selected")
    /\ UNCHANGED <<visible, edits, messages, snapshots, files, raced, kills>>

\* Mutant of Same: the row that was waited for is not compared again.
SameNever(t) == FALSE

\* Mutant of Same: whatever the latest row says.
SameAny(t) == t.base # 0

\* The row it gets is the one it asked for, whatever was added meanwhile.
Same(t) == t.base # 0 /\ snapshots[t.base] = t.content

\* Mutant of Taken: a file that is there is written over.
TakenNever(t) == FALSE

Taken(t) == files[t.base + 1] \notin {None, t.content}

\* Compares with the latest row and looks for the file of the next version.
CheckFile(w) ==
    /\ Busy(w) /\ refreshing[w].stage = "selected"
    /\ Unlocked(w)
    /\ LET t == refreshing[w]
       IN  /\ ~Taken(t) \/ Same(t)
           /\ IF Same(t) THEN Finished(w)
              ELSE Staged(w, t.base, IF files[t.base + 1] = t.content
                                     THEN "written" ELSE "checked")
    /\ UNCHANGED <<visible, edits, messages, snapshots, files, raced, kills>>

\* "Immutable comment snapshot object changed": the task is retried, at last
\* given up.
RefuseFile(w) ==
    /\ Busy(w) /\ refreshing[w].stage = "selected"
    /\ Unlocked(w)
    /\ Taken(refreshing[w]) /\ ~Same(refreshing[w])
    /\ Finished(w)
    /\ \/ messages' = messages + 1 /\ UNCHANGED kills
       \/ Lost /\ UNCHANGED messages
    /\ UNCHANGED <<visible, edits, snapshots, files, raced>>

\* os.replace
WriteFile(w) ==
    /\ Busy(w) /\ refreshing[w].stage = "checked"
    /\ files' = [files EXCEPT ![refreshing[w].base + 1] = refreshing[w].content]
    /\ Staged(w, refreshing[w].base, "written")
    /\ UNCHANGED <<visible, edits, messages, snapshots, raced, kills>>

\* The new row is committed, or its version is taken and the loop goes on.
CommitSnapshot(w) ==
    /\ Busy(w) /\ refreshing[w].stage = "written"
    /\ IF Len(snapshots) = refreshing[w].base
       THEN /\ snapshots' = Append(snapshots, refreshing[w].content)
            /\ Finished(w)
       ELSE /\ Staged(w, 0, "read")
            /\ UNCHANGED snapshots
    /\ UNCHANGED <<visible, edits, messages, files, raced, kills>>

\* The worker dies and its transaction with it; the file is not undone.
KillRefresh(w) ==
    /\ Busy(w)
    /\ Lost
    /\ Finished(w)
    /\ UNCHANGED <<visible, edits, messages, snapshots, files, raced>>

-----------------------------------------------------------------------------

Refresh(w) == \/ ReadComments(w) \/ SelectLatest(w)
              \/ CheckFile(w) \/ RefuseFile(w)
              \/ WriteFile(w) \/ CommitSnapshot(w)

SnapshotNext ==
    \/ PublicChange
    \/ \E w \in Workers : Refresh(w) \/ KillRefresh(w)

\* A worker that lives goes on with its task and takes the next one.
SnapshotFairness == \A w \in Workers : WF_snapshotVars(Refresh(w))

SnapshotSpec == SnapshotInit /\ [][SnapshotNext]_snapshotVars /\ SnapshotFairness

-----------------------------------------------------------------------------
(* Properties                                                              *)

SnapshotTypeOK ==
    /\ visible \in Contents
    /\ edits \in 0..MaxChanges
    /\ messages \in 0..edits
    /\ refreshing \in [Workers -> RefreshTasks \cup {None}]
    /\ snapshots \in Seq(Contents) /\ Len(snapshots) <= edits
    /\ files \in [Versions -> Contents \cup {None}]
    /\ raced \in BOOLEAN
    /\ kills \in 0..MaxKills

\* The object of a version is what its row says and each version differs from
\* the one before it, however many tasks write at once, for the same comments
\* perhaps, and whichever die between the file and the row.  Not for version
\* 1, before which there is no row to wait for.
RowsHaveTheirFiles ==
    \A v \in DOMAIN snapshots \ {1} :
        files[v] = snapshots[v] /\ snapshots[v] # snapshots[v - 1]

\* In the end the latest snapshot shows the comments as they are, if no two
\* tasks were under way together and nothing was lost.
SnapshotCatchesUp ==
    <>[](edits = 0 \/ raced \/ kills > 0 \/ Latest(visible))
=============================================================================
