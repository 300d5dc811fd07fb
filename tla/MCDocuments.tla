------------------------------ MODULE MCDocuments ------------------------------
(***************************************************************************)
(* The files of the obligations, while requests work on them and while the *)
(* nightly script copies them.  The two models share no state (Backup sees *)
(* the files through AttachmentStore, which Attachments implements), so    *)
(* one run checks them one after the other: the first state says which     *)
(* part is played, and the other keeps its initial state.                  *)
(***************************************************************************)
EXTENDS Attachments, TLC

CONSTANTS Stored, Keep, LastNight

ASSUME KeepAssumption == Keep \in Nat

VARIABLES
  part,
  fresh, rows, files, pc, night, status, dumps, archives, remote, unread, health, failed

B == INSTANCE Backup WITH Attachment <- Stored

nightVars == <<fresh, rows, files, pc, night, status, dumps, archives, remote, unread, health, failed>>

DocumentsInit ==
  part \in {"requests", "nights"} /\ AttachmentsInit /\ B!BackupInit

DocumentsNext ==
  \/ part = "requests" /\ AttachmentsNext /\ UNCHANGED <<part, nightVars>>
  \/ part = "nights" /\ B!BackupNext /\ UNCHANGED <<part, allVars>>

DocumentsSpec == DocumentsInit /\ [][DocumentsNext]_<<part, allVars, nightVars>>

Symmetry == Permutations(Attachment) \cup Permutations(Transfer)

\* Backup: OK is said of two archives that were made and copied, and what nothing disturbed
\* restores whole.
OkBackupRestores == B!BackupTypeOK /\ B!OkMeansBothCopied /\ B!UndisturbedIsWhole

\* Backup: pruning never leaves the disk without an archive of a kind it had.
AnArchiveIsKept == B!AnArchiveIsKept

-------------------------------------------------------------------------------
(* What the documents claim and the code does not do.  Named in the cfg in   *)
(* place of the properties, each is violated.                               *)

\* backup.sh:36: the two artifacts describe one moment.
PairDescribesOneMoment == B!PairDescribesOneMoment

\* backup.sh:2: a failing backup is shown by the application.
FailureIsShown == B!FailureIsShown
===============================================================================
