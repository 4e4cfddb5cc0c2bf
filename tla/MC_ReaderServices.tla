-------------------------- MODULE MC_ReaderServices --------------------------
(***************************************************************************)
(* The six parts of the reader services, checked in one run.  None writes  *)
(* a row of another, so a behaviour of one is a behaviour of all with the  *)
(* others standing still, and a property of one depends on its own steps   *)
(* alone: each behaviour here is about one part, the subject.              *)
(***************************************************************************)
EXTENDS CapabilityProjection, CommentModeration, CommentSnapshots,
        ReaderVerification, ProtectedPdfs, DownloadGrants

VARIABLE subject   \* the part whose steps are taken

readerVars == <<capabilityVars, moderationVars, snapshotVars, verificationVars,
                pdfVars, grantVars, subject>>

ReaderInit ==
    /\ CapabilityInit /\ ModerationInit /\ SnapshotInit /\ VerificationInit
    /\ PdfInit /\ GrantInit
    /\ subject \in {"policy", "moderation", "snapshots", "verification",
                    "pdfs", "grants"}

ReaderNext ==
    /\ \/ /\ subject = "policy"
          /\ CapabilityNext
          /\ UNCHANGED <<moderationVars, snapshotVars, verificationVars,
                         pdfVars, grantVars>>
       \/ /\ subject = "moderation"
          /\ ModerationNext
          /\ UNCHANGED <<capabilityVars, snapshotVars, verificationVars,
                         pdfVars, grantVars>>
       \/ /\ subject = "snapshots"
          /\ SnapshotNext
          /\ UNCHANGED <<capabilityVars, moderationVars, verificationVars,
                         pdfVars, grantVars>>
       \/ /\ subject = "verification"
          /\ VerificationNext
          /\ UNCHANGED <<capabilityVars, moderationVars, snapshotVars,
                         pdfVars, grantVars>>
       \/ /\ subject = "pdfs"
          /\ PdfNext
          /\ UNCHANGED <<capabilityVars, moderationVars, snapshotVars,
                         verificationVars, grantVars>>
       \/ /\ subject = "grants"
          /\ GrantNext
          /\ UNCHANGED <<capabilityVars, moderationVars, snapshotVars,
                         verificationVars, pdfVars>>
    /\ UNCHANGED subject

ReaderSpec ==
    /\ ReaderInit /\ [][ReaderNext]_readerVars
    /\ CapabilityFairness /\ ModerationFairness /\ SnapshotFairness

\* The variables of the subject have their types.  Those of the other parts
\* keep their first values, with which they are the subject of another
\* behaviour.
ReaderTypeOK ==
    /\ subject = "policy" => CapabilityTypeOK
    /\ subject = "moderation" => ModerationTypeOK
    /\ subject = "snapshots" => SnapshotTypeOK
    /\ subject = "verification" => VerificationTypeOK
    /\ subject = "pdfs" => PdfTypeOK
    /\ subject = "grants" => GrantTypeOK
=============================================================================
