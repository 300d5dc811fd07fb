----------------------------- MODULE Attachments -----------------------------
(***************************************************************************)
(* The documents filed under an obligation: a row in Postgres and a file   *)
(* on disk, written and removed by requests that may stop anywhere, while  *)
(* module Obligations creates and retracts the obligations they belong to  *)
(* (apps/api/src/attachments/attachments.service.ts and                    *)
(* file-storage.service.ts).                                               *)
(*                                                                         *)
(* A file is <root>/<obligation id>/<attachment id>; the attachment's id   *)
(* is made for its upload and never used again, so it names the file.      *)
(* What the bytes are is abstracted to whether all of them are there.      *)
(***************************************************************************)
EXTENDS Obligations

CONSTANTS
  Attachment,  \* ids uploads may get
  Transfer     \* concurrent uploads, downloads and removals (slots, reused)

VARIABLES
  row,         \* ObligationAttachment: the obligation it belongs to, None without a row
  file,        \* the bytes under the attachment's name
  temporary,   \* the bytes under the name an upload writes to first
  used,        \* the attachment ids made so far
  transfer,    \* the requests in flight
  answer       \* what a slot's latest download answered

diskVars == <<file, temporary>>
attachmentVars == <<row, file, temporary, used, transfer, answer>>
allVars == <<vars, attachmentVars>>

Bytes == {"none", "some", "all"}
Idle  == [pc |-> "idle", of |-> None, id |-> None]

AttachmentsTypeOK ==
  /\ row \in [Attachment -> [key: Key, id: Nat] \cup {None}]
  /\ file \in [Attachment -> Bytes]
  /\ temporary \in [Attachment -> Bytes]
  /\ used \subseteq Attachment
  /\ transfer \in [Transfer ->
       [pc: {"idle", "open", "fill", "rename", "insert", "delete", "unlink", "stat", "read"},
        of: [key: Key, id: Nat] \cup {None}, id: Attachment \cup {None}]]
  /\ answer \in [Transfer -> {"none", "file", "file_missing", "internal_error"}]
  /\ \A a \in Attachment : row[a] # None \/ file[a] # "none" \/ temporary[a] # "none" => a \in used

AttachmentsInit ==
  /\ Init
  /\ row = [a \in Attachment |-> None]
  /\ file = [a \in Attachment |-> "none"]
  /\ temporary = [a \in Attachment |-> "none"]
  /\ used = {}
  /\ transfer = [t \in Transfer |-> Idle]
  /\ answer = [t \in Transfer |-> "none"]

StillThere(of) == instance[of.key].id = of.id

Goto(t, pc) == transfer' = [transfer EXCEPT ![t].pc = pc]
End(t)      == transfer' = [transfer EXCEPT ![t] = Idle]

-------------------------------------------------------------------------------
\* Variant: an attachment is given an id that was used before.
UploadUnderAnyId(t) ==
  /\ transfer[t].pc = "idle"
  /\ \E k \in Key, a \in Attachment :
       /\ Exists(k) /\ row[a] = None
       /\ transfer' = [transfer EXCEPT ![t] = [pc |-> "open", of |-> [key |-> k, id |-> instance[k].id], id |-> a]]
  /\ UNCHANGED <<vars, row, diskVars, used, answer>>

\* upload: findOne of the obligation, the look at the first bytes, the new id.
Upload(t) ==
  /\ transfer[t].pc = "idle"
  /\ \E k \in Key, a \in Attachment \ used :
       /\ Exists(k)
       /\ transfer' = [transfer EXCEPT ![t] = [pc |-> "open", of |-> [key |-> k, id |-> instance[k].id], id |-> a]]
       /\ used' = used \cup {a}
  /\ UNCHANGED <<vars, row, diskVars, answer>>

\* Variant: the file is renamed before it is filled.
OpenAndRename(t) ==
  /\ transfer[t].pc = "open"
  /\ temporary' = [temporary EXCEPT ![transfer[t].id] = "some"]
  /\ Goto(t, "rename")
  /\ UNCHANGED <<vars, row, file, used, answer>>

\* FileStorageService.write: the temporary file appears, fills up, is renamed.
OpenTemporary(t) ==
  /\ transfer[t].pc = "open"
  /\ temporary' = [temporary EXCEPT ![transfer[t].id] = "some"]
  /\ Goto(t, "fill")
  /\ UNCHANGED <<vars, row, file, used, answer>>

FillTemporary(t) ==
  /\ transfer[t].pc = "fill"
  /\ temporary' = [temporary EXCEPT ![transfer[t].id] = "all"]
  /\ Goto(t, "rename")
  /\ UNCHANGED <<vars, row, file, used, answer>>

Rename(t) ==
  /\ transfer[t].pc = "rename"
  /\ file' = [file EXCEPT ![transfer[t].id] = temporary[transfer[t].id]]
  /\ temporary' = [temporary EXCEPT ![transfer[t].id] = "none"]
  /\ Goto(t, "insert")
  /\ UNCHANGED <<vars, row, used, answer>>

\* Variant: without the foreign key.
InsertAnyRow(t) ==
  /\ transfer[t].pc = "insert"
  /\ row' = [row EXCEPT ![transfer[t].id] = transfer[t].of]
  /\ End(t)
  /\ UNCHANGED <<vars, diskVars, used, answer>>

\* The INSERT; the foreign key refuses it when the obligation went meanwhile.
InsertRow(t) ==
  /\ transfer[t].pc = "insert"
  /\ row' = IF StillThere(transfer[t].of) THEN [row EXCEPT ![transfer[t].id] = transfer[t].of] ELSE row
  /\ End(t)
  /\ UNCHANGED <<vars, diskVars, used, answer>>

-------------------------------------------------------------------------------
\* Variant: remove begins with the file.
FindRowOfFile(t, next) ==
  /\ transfer[t].pc = "idle"
  /\ \E a \in Attachment :
       /\ row[a] # None
       /\ transfer' = [transfer EXCEPT ![t] = [pc |-> IF next = "delete" THEN "unlink" ELSE next,
                                               of |-> row[a], id |-> a]]
  /\ UNCHANGED <<vars, row, diskVars, used, answer>>

\* findRow of remove and of download; without a row they answer not found.
FindRow(t, next) ==
  /\ transfer[t].pc = "idle"
  /\ \E a \in Attachment :
       /\ row[a] # None
       /\ transfer' = [transfer EXCEPT ![t] = [pc |-> next, of |-> row[a], id |-> a]]
  /\ UNCHANGED <<vars, row, diskVars, used, answer>>

\* The DELETE by id fails when the row went meanwhile, and the file is left to whom deleted it.
DeleteRow(t) ==
  /\ transfer[t].pc = "delete"
  /\ IF row[transfer[t].id] = None
     THEN End(t) /\ UNCHANGED row
     ELSE row' = [row EXCEPT ![transfer[t].id] = None] /\ Goto(t, "unlink")
  /\ UNCHANGED <<vars, diskVars, used, answer>>

RemoveFile(t) ==
  /\ transfer[t].pc = "unlink"
  /\ file' = [file EXCEPT ![transfer[t].id] = "none"]
  /\ End(t)
  /\ UNCHANGED <<vars, row, temporary, used, answer>>

\* download: storage.exists, answering 410 without a file.
CheckFile(t) ==
  /\ transfer[t].pc = "stat"
  /\ IF file[transfer[t].id] = "none"
     THEN answer' = [answer EXCEPT ![t] = "file_missing"] /\ End(t)
     ELSE Goto(t, "read") /\ UNCHANGED answer
  /\ UNCHANGED <<vars, row, diskVars, used>>

\* storage.read, whose rejection nobody turns into a code.
ReadFile(t) ==
  /\ transfer[t].pc = "read"
  /\ answer' = [answer EXCEPT ![t] = IF file[transfer[t].id] = "none" THEN "internal_error" ELSE "file"]
  /\ End(t)
  /\ UNCHANGED <<vars, row, diskVars, used>>

\* A crash, a lost connection, a full disk: what was written stays as it is.
Lose(t) ==
  /\ transfer[t].pc # "idle"
  /\ End(t)
  /\ UNCHANGED <<vars, row, diskVars, used, answer>>

\* ON DELETE CASCADE: the rows of a retracted obligation go with it, their files stay.
Cascade ==
  row' = [a \in Attachment |->
            IF row[a] # None /\ instance'[row[a].key].id # row[a].id THEN None ELSE row[a]]

ObligationsStep ==
  /\ Next
  /\ Cascade
  /\ UNCHANGED <<diskVars, used, transfer, answer>>

TransferStep(t) ==
  \/ Upload(t) \/ OpenTemporary(t) \/ FillTemporary(t) \/ Rename(t) \/ InsertRow(t)
  \/ FindRow(t, "delete") \/ DeleteRow(t) \/ RemoveFile(t)
  \/ FindRow(t, "stat") \/ CheckFile(t) \/ ReadFile(t)
  \/ Lose(t)

AttachmentsNext == ObligationsStep \/ \E t \in Transfer : TransferStep(t)

AttachmentsSpec == AttachmentsInit /\ [][AttachmentsNext]_allVars

-------------------------------------------------------------------------------
(* Properties *)

\* The order the comments of upload and remove argue for (lines 80-86, 136): no
\* row without the whole of its file, whatever request stops or races wherever.
RowHasWholeFile == \A a \in Attachment : row[a] # None => file[a] = "all"

\* An upload finds its obligation before it writes the file and the row after; a
\* retraction in between leaves no row of an obligation that is gone.
RowHasObligation == \A a \in Attachment : row[a] # None => StillThere(row[a])

\* A row has its whole file and its obligation, wherever requests stop.
RowsAreBacked == AttachmentsTypeOK /\ RowHasWholeFile /\ RowHasObligation

\* The abstract store of module AttachmentStore: an attachment that an upload is still writing
\* has not been stored, one whose file is being replaced by nothing is gone.
Writing == {transfer[t].id : t \in {s \in Transfer : transfer[s].pc \in {"open", "fill", "rename"}}}
Abstract == INSTANCE AttachmentStore WITH
  fresh <- (Attachment \ used) \cup Writing,
  rows  <- {a \in Attachment : row[a] # None},
  files <- {a \in Attachment : file[a] = "all"}

\* Every step of every request, of a stop in the middle of one and of a retraction is a step of
\* that store or none: stored before listed, unlisted before discarded, each attachment once.
ImplementsStore == Abstract!StoreSpec

\* The comment of download (lines 127-129): a row that outlived its file is
\* answered in a code, never as an internal error.
DownloadAnswersInCode == \A t \in Transfer : answer[t] # "internal_error"
=============================================================================
