---------------------------- MODULE DocumentsProofs ----------------------------
(***************************************************************************)
(* Wherever uploads, removals and retractions stop, a row that is listed   *)
(* has its whole file and its obligation, and every step is one of the     *)
(* abstract store or none; and what the nightly backup of that store says  *)
(* is OK can be restored.  For any number of attachments, requests and     *)
(* nights.  B is the backup as MCDocuments plays it, on a store of its own.*)
(***************************************************************************)
EXTENDS MCDocuments, ObligationsProofs, Sums, SequenceTheorems

Uploading(t) == transfer[t].pc \in {"open", "fill", "rename", "insert"}

\* The id was given to an upload that is over: no upload writes under it any more.
GivenUp(a) == a \in used /\ \A u \in Transfer : Uploading(u) => transfer[u].id # a

\* What an upload may rely on between two of its steps.
UploadInv(t) ==
  Uploading(t) =>
    /\ transfer[t].id \in used /\ row[transfer[t].id] = None
    /\ transfer[t].pc \in {"open", "fill", "rename"} => file[transfer[t].id] = "none"
    /\ transfer[t].pc = "rename" => temporary[transfer[t].id] = "all"
    /\ transfer[t].pc = "insert" => file[transfer[t].id] = "all"
    /\ \A u \in Transfer \ {t} : Uploading(u) => transfer[u].id # transfer[t].id

\* And a removal.
RemovalInv(t) ==
  /\ transfer[t].pc \in {"delete", "unlink"} => GivenUp(transfer[t].id)
  /\ transfer[t].pc = "unlink" => row[transfer[t].id] = None

BackedInv ==
  /\ TypeOK /\ RowsAreBacked
  /\ \A a \in Attachment : row[a] # None => GivenUp(a)
  /\ \A t \in Transfer : UploadInv(t) /\ RemovalInv(t)

Transfers == [pc: {"idle", "open", "fill", "rename", "insert", "delete", "unlink", "stat", "read"},
              of: [key: Key, id: Nat] \cup {None}, id: Attachment \cup {None}]

LEMMA BackedInit == AttachmentsInit => BackedInv
<1> SUFFICES ASSUME AttachmentsInit PROVE BackedInv
  OBVIOUS
<1>1. TypeOK
  BY TypeInit DEF AttachmentsInit
<1>2. Idle \in Transfers
  BY DEF Idle, Transfers
<1>3. RowsAreBacked
  BY <1>2 DEF AttachmentsInit, RowsAreBacked, AttachmentsTypeOK, RowHasWholeFile, RowHasObligation, Bytes, Transfers
<1>4. \A t \in Transfer : UploadInv(t) /\ RemovalInv(t)
  BY DEF AttachmentsInit, UploadInv, RemovalInv, Uploading, Idle
<1> QED BY <1>1, <1>3, <1>4 DEF BackedInv, AttachmentsInit

\* The uploads.
LEMMA UploadStep ==
  ASSUME BackedInv, NEW t \in Transfer, Upload(t) PROVE BackedInv'
<1> USE DEF BackedInv, RowsAreBacked
<1>1. PICK k \in Key, a \in Attachment \ used :
        /\ transfer' = [transfer EXCEPT ![t] = [pc |-> "open", of |-> [key |-> k, id |-> instance[k].id], id |-> a]]
        /\ used' = used \cup {a}
        /\ UNCHANGED <<vars, row, file, temporary, answer>>
        /\ transfer[t].pc = "idle"
  BY DEF Upload, diskVars
<1>2. instance[k].id \in Nat
  BY DEF TypeOK
<1>3. [pc |-> "open", of |-> [key |-> k, id |-> instance[k].id], id |-> a] \in Transfers
  BY <1>2 DEF Transfers
<1>4. TypeOK' /\ RowHasWholeFile' /\ RowHasObligation'
  BY <1>1 DEF vars, TypeOK, RowHasWholeFile, RowHasObligation, StillThere
<1>5. AttachmentsTypeOK'
  BY <1>1, <1>3 DEF AttachmentsTypeOK, Transfers
<1>6. /\ \A u \in Transfer \ {t} : transfer'[u] = transfer[u]
      /\ transfer'[t].pc = "open" /\ transfer'[t].id = a
  BY <1>1 DEF AttachmentsTypeOK
<1>7. row[a] = None /\ file[a] = "none"
  BY DEF AttachmentsTypeOK
<1>8. \A b \in Attachment : GivenUp(b) => GivenUp(b)'
  BY <1>1, <1>6 DEF GivenUp, Uploading
<1>9. \A u \in Transfer : UploadInv(u)'
  BY <1>1, <1>6, <1>7 DEF UploadInv, Uploading
<1>10. \A u \in Transfer : RemovalInv(u)'
  BY <1>1, <1>6, <1>8 DEF RemovalInv, GivenUp, AttachmentsTypeOK
<1> QED BY <1>1, <1>4, <1>5, <1>8, <1>9, <1>10

\* A slot's record after End and after Goto.
LEMMA EndedSlot ==
  ASSUME AttachmentsTypeOK, NEW t \in Transfer, End(t)
  PROVE  /\ transfer' \in [Transfer -> Transfers]
         /\ \A u \in Transfer \ {t} : transfer'[u] = transfer[u]
         /\ transfer'[t].pc = "idle" /\ ~Uploading(t)'
<1>1. Idle \in Transfers /\ transfer \in [Transfer -> Transfers]
  BY DEF Idle, Transfers, AttachmentsTypeOK
<1>2. /\ transfer' \in [Transfer -> Transfers] /\ transfer'[t] = Idle
      /\ \A u \in Transfer \ {t} : transfer'[u] = transfer[u]
  BY <1>1 DEF End
<1> QED BY <1>2 DEF Idle, Uploading

LEMMA MovedSlot ==
  ASSUME AttachmentsTypeOK, NEW t \in Transfer, NEW next, Goto(t, next),
         next \in {"idle", "open", "fill", "rename", "insert", "delete", "unlink", "stat", "read"}
  PROVE  /\ transfer' \in [Transfer -> Transfers]
         /\ \A u \in Transfer \ {t} : transfer'[u] = transfer[u]
         /\ transfer'[t].pc = next /\ transfer'[t].id = transfer[t].id
<1>1. transfer \in [Transfer -> Transfers]
  BY DEF Transfers, AttachmentsTypeOK
<1>2. transfer' = [transfer EXCEPT ![t] = [transfer[t] EXCEPT !.pc = next]]
  BY <1>1 DEF Goto
<1>3. [transfer[t] EXCEPT !.pc = next] \in Transfers
  BY <1>1 DEF Transfers
<1> QED BY <1>1, <1>2, <1>3 DEF Transfers

\* A request that ends without a write.
LEMMA EndStep ==
  ASSUME BackedInv, NEW t \in Transfer, End(t), UNCHANGED <<vars, row, diskVars, used>>,
         answer' \in [Transfer -> {"none", "file", "file_missing", "internal_error"}]
  PROVE  BackedInv'
<1> USE DEF BackedInv, RowsAreBacked
<1>1. UNCHANGED <<row, file, temporary, used>>
  BY DEF diskVars
<1>2. TypeOK' /\ RowHasWholeFile' /\ RowHasObligation'
  BY <1>1 DEF vars, TypeOK, RowHasWholeFile, RowHasObligation, StillThere
<1>3. AttachmentsTypeOK'
  BY <1>1, EndedSlot DEF AttachmentsTypeOK, Transfers
<1>4. \A b \in Attachment : GivenUp(b) => GivenUp(b)'
  BY <1>1, EndedSlot DEF GivenUp, Uploading
<1>5. \A u \in Transfer : UploadInv(u)'
  BY <1>1, EndedSlot DEF UploadInv, Uploading
<1>6. \A u \in Transfer : RemovalInv(u)'
  BY <1>1, <1>4, EndedSlot DEF RemovalInv, GivenUp, Uploading
<1> QED BY <1>1, <1>2, <1>3, <1>4, <1>5, <1>6

LEMMA OpenTemporaryStep ==
  ASSUME BackedInv, NEW t \in Transfer, OpenTemporary(t) PROVE BackedInv'
<1> USE DEF BackedInv, RowsAreBacked
<1>1. /\ transfer[t].pc = "open" /\ Goto(t, "fill") /\ UNCHANGED <<vars, row, file, used, answer>>
      /\ temporary' = [temporary EXCEPT ![transfer[t].id] = "some"]
  BY DEF OpenTemporary
<1> DEFINE x == transfer[t].id
<1>2. x \in used /\ used \subseteq Attachment
  BY <1>1 DEF UploadInv, Uploading, AttachmentsTypeOK
<1>3. TypeOK' /\ RowHasWholeFile' /\ RowHasObligation'
  BY <1>1 DEF vars, TypeOK, RowHasWholeFile, RowHasObligation, StillThere
<1>4. AttachmentsTypeOK'
  BY <1>1, <1>2, MovedSlot DEF AttachmentsTypeOK, Transfers, Bytes
<1>5. \A b \in Attachment : GivenUp(b) => GivenUp(b)'
  BY <1>1, MovedSlot DEF GivenUp, Uploading
<1>6. \A u \in Transfer : Uploading(u)' <=> Uploading(u)
  BY <1>1, MovedSlot DEF Uploading
<1>7. UploadInv(t)'
  BY <1>1, <1>6, MovedSlot DEF UploadInv, Uploading
<1>8. ASSUME NEW u \in Transfer \ {t} PROVE UploadInv(u)'
  <2>1. Uploading(u) => temporary'[transfer[u].id] = temporary[transfer[u].id]
    BY <1>1, <1>2 DEF UploadInv, Uploading, AttachmentsTypeOK
  <2> QED BY <1>1, <1>6, <2>1, MovedSlot DEF UploadInv
<1>9. \A u \in Transfer : RemovalInv(u)'
  BY <1>1, <1>5, MovedSlot DEF RemovalInv, GivenUp, Uploading
<1> QED BY <1>1, <1>3, <1>4, <1>5, <1>7, <1>8, <1>9

LEMMA FillTemporaryStep ==
  ASSUME BackedInv, NEW t \in Transfer, FillTemporary(t) PROVE BackedInv'
<1> USE DEF BackedInv, RowsAreBacked
<1>1. /\ transfer[t].pc = "fill" /\ Goto(t, "rename") /\ UNCHANGED <<vars, row, file, used, answer>>
      /\ temporary' = [temporary EXCEPT ![transfer[t].id] = "all"]
  BY DEF FillTemporary
<1>2. transfer[t].id \in used /\ used \subseteq Attachment
  BY <1>1 DEF UploadInv, Uploading, AttachmentsTypeOK
<1>3. TypeOK' /\ RowHasWholeFile' /\ RowHasObligation'
  BY <1>1 DEF vars, TypeOK, RowHasWholeFile, RowHasObligation, StillThere
<1>4. AttachmentsTypeOK'
  BY <1>1, <1>2, MovedSlot DEF AttachmentsTypeOK, Transfers, Bytes
<1>5. \A b \in Attachment : GivenUp(b) => GivenUp(b)'
  BY <1>1, MovedSlot DEF GivenUp, Uploading
<1>6. \A u \in Transfer : Uploading(u)' <=> Uploading(u)
  BY <1>1, MovedSlot DEF Uploading
<1>7. temporary'[transfer[t].id] = "all"
  BY <1>1, <1>2 DEF AttachmentsTypeOK
<1>8. UploadInv(t)'
  BY <1>1, <1>6, <1>7, MovedSlot DEF UploadInv, Uploading
<1>9. ASSUME NEW u \in Transfer \ {t} PROVE UploadInv(u)'
  <2>1. Uploading(u) => temporary'[transfer[u].id] = temporary[transfer[u].id]
    BY <1>1, <1>2 DEF UploadInv, Uploading, AttachmentsTypeOK
  <2> QED BY <1>1, <1>6, <2>1, MovedSlot DEF UploadInv
<1>10. \A u \in Transfer : RemovalInv(u)'
  BY <1>1, <1>5, MovedSlot DEF RemovalInv, GivenUp, Uploading
<1> QED BY <1>1, <1>3, <1>4, <1>5, <1>8, <1>9, <1>10

LEMMA RenameStep ==
  ASSUME BackedInv, NEW t \in Transfer, Rename(t) PROVE BackedInv'
<1> USE DEF BackedInv, RowsAreBacked
<1>1. /\ transfer[t].pc = "rename" /\ Goto(t, "insert") /\ UNCHANGED <<vars, row, used, answer>>
      /\ file' = [file EXCEPT ![transfer[t].id] = temporary[transfer[t].id]]
      /\ temporary' = [temporary EXCEPT ![transfer[t].id] = "none"]
  BY DEF Rename
<1>2. /\ transfer[t].id \in used /\ used \subseteq Attachment
      /\ temporary[transfer[t].id] = "all" /\ row[transfer[t].id] = None
  BY <1>1 DEF UploadInv, Uploading, AttachmentsTypeOK
<1>3. TypeOK' /\ RowHasObligation'
  BY <1>1 DEF vars, TypeOK, RowHasObligation, StillThere
<1>4. RowHasWholeFile'
  BY <1>1, <1>2 DEF RowHasWholeFile, AttachmentsTypeOK
<1>5. AttachmentsTypeOK'
  BY <1>1, <1>2, MovedSlot DEF AttachmentsTypeOK, Transfers, Bytes
<1>6. \A b \in Attachment : GivenUp(b) => GivenUp(b)'
  BY <1>1, MovedSlot DEF GivenUp, Uploading
<1>7. \A u \in Transfer : Uploading(u)' <=> Uploading(u)
  BY <1>1, MovedSlot DEF Uploading
<1>8. file'[transfer[t].id] = "all"
  BY <1>1, <1>2 DEF AttachmentsTypeOK
<1>9. UploadInv(t)'
  BY <1>1, <1>2, <1>7, <1>8, MovedSlot DEF UploadInv, Uploading
<1>10. ASSUME NEW u \in Transfer \ {t} PROVE UploadInv(u)'
  <2>1. Uploading(u) => /\ temporary'[transfer[u].id] = temporary[transfer[u].id]
                        /\ file'[transfer[u].id] = file[transfer[u].id]
    BY <1>1, <1>2 DEF UploadInv, Uploading, AttachmentsTypeOK
  <2> QED BY <1>1, <1>7, <2>1, MovedSlot DEF UploadInv
<1>11. \A u \in Transfer : RemovalInv(u)'
  BY <1>1, <1>6, MovedSlot DEF RemovalInv, GivenUp, Uploading
<1> QED BY <1>1, <1>3, <1>4, <1>5, <1>6, <1>9, <1>10, <1>11

LEMMA InsertRowStep ==
  ASSUME BackedInv, NEW t \in Transfer, InsertRow(t) PROVE BackedInv'
<1> USE DEF BackedInv, RowsAreBacked
<1>1. /\ transfer[t].pc = "insert" /\ End(t) /\ UNCHANGED <<vars, diskVars, used, answer>>
      /\ row' = IF StillThere(transfer[t].of) THEN [row EXCEPT ![transfer[t].id] = transfer[t].of] ELSE row
  BY DEF InsertRow
<1>2. CASE row' = row
  BY <1>1, <1>2, EndStep DEF AttachmentsTypeOK
<1>3. CASE StillThere(transfer[t].of) /\ row' = [row EXCEPT ![transfer[t].id] = transfer[t].of]
  <2> PICK x \in Attachment : x = transfer[t].id
    BY <1>1 DEF UploadInv, Uploading, AttachmentsTypeOK
  <2>1. UNCHANGED <<file, temporary, used>> /\ UNCHANGED instance
    BY <1>1 DEF diskVars, vars
  <2>2. /\ x \in used /\ used \subseteq Attachment /\ file[x] = "all" /\ row[x] = None
        /\ \A u \in Transfer \ {t} : Uploading(u) => transfer[u].id # x
    BY <1>1 DEF UploadInv, Uploading, AttachmentsTypeOK
  <2>3. TypeOK'
    BY <1>1 DEF vars, TypeOK
  <2>4. \A b \in Attachment : row'[b] = IF b = x THEN transfer[t].of ELSE row[b]
    BY <1>3 DEF AttachmentsTypeOK
  <2>5. RowHasWholeFile' /\ RowHasObligation'
    BY <1>3, <2>1, <2>2, <2>4 DEF RowHasWholeFile, RowHasObligation, StillThere
  <2>6. AttachmentsTypeOK'
    BY <1>1, <1>3, <2>1, <2>2, EndedSlot DEF AttachmentsTypeOK, Transfers
  <2>7. \A b \in Attachment : GivenUp(b) => GivenUp(b)'
    BY <1>1, EndedSlot DEF GivenUp, Uploading
  <2>8. GivenUp(x)'
    BY <1>1, <2>1, <2>2, EndedSlot DEF GivenUp, Uploading
  <2>9. ~GivenUp(x)
    BY <1>1 DEF GivenUp, Uploading
  <2>10. ASSUME NEW u \in Transfer PROVE UploadInv(u)'
    BY <1>1, <2>1, <2>2, <2>4, EndedSlot DEF UploadInv, Uploading, AttachmentsTypeOK
  <2>11. ASSUME NEW u \in Transfer PROVE RemovalInv(u)'
    <3>1. CASE u = t
      BY <1>1, <3>1, EndedSlot DEF RemovalInv
    <3>2. CASE u # t
      <4>1. transfer'[u] = transfer[u]
        BY <1>1, <3>2, EndedSlot
      <4>2. transfer[u].pc \in {"delete", "unlink"} =>
              /\ transfer[u].id \in Attachment \ {x}
              /\ GivenUp(transfer[u].id) /\ GivenUp(transfer[u].id)'
        BY <2>1, <2>7, <2>9, <4>1 DEF RemovalInv, GivenUp, AttachmentsTypeOK
      <4> QED BY <2>4, <4>1, <4>2 DEF RemovalInv, GivenUp
    <3> QED BY <3>1, <3>2
  <2> QED BY <2>3, <2>4, <2>5, <2>6, <2>7, <2>8, <2>10, <2>11
<1> QED BY <1>1, <1>2, <1>3
\* The removals and the downloads.
LEMMA FindRowStep ==
  ASSUME BackedInv, NEW t \in Transfer, NEW next \in {"delete", "stat"}, FindRow(t, next) PROVE BackedInv'
<1> USE DEF BackedInv, RowsAreBacked
<1>1. PICK a \in Attachment :
        /\ row[a] # None
        /\ transfer' = [transfer EXCEPT ![t] = [pc |-> next, of |-> row[a], id |-> a]]
        /\ UNCHANGED <<vars, row, file, temporary, used, answer>>
        /\ transfer[t].pc = "idle"
  BY DEF FindRow, diskVars
<1>2. [pc |-> next, of |-> row[a], id |-> a] \in Transfers
  BY DEF Transfers, AttachmentsTypeOK
<1>3. TypeOK' /\ RowHasWholeFile' /\ RowHasObligation'
  BY <1>1 DEF vars, TypeOK, RowHasWholeFile, RowHasObligation, StillThere
<1>4. AttachmentsTypeOK'
  BY <1>1, <1>2 DEF AttachmentsTypeOK, Transfers
<1>5. /\ \A u \in Transfer \ {t} : transfer'[u] = transfer[u]
      /\ transfer'[t].pc = next /\ transfer'[t].id = a
  BY <1>1 DEF AttachmentsTypeOK
<1>6. \A b \in Attachment : GivenUp(b) => GivenUp(b)'
  BY <1>1, <1>5 DEF GivenUp, Uploading
<1>7. \A u \in Transfer : UploadInv(u)'
  BY <1>1, <1>5 DEF UploadInv, Uploading
<1>8. \A u \in Transfer : RemovalInv(u)'
  BY <1>1, <1>5, <1>6 DEF RemovalInv, GivenUp, AttachmentsTypeOK
<1> QED BY <1>1, <1>3, <1>4, <1>6, <1>7, <1>8

LEMMA DeleteRowStep ==
  ASSUME BackedInv, NEW t \in Transfer, DeleteRow(t) PROVE BackedInv'
<1> USE DEF BackedInv, RowsAreBacked
<1>1. transfer[t].pc = "delete" /\ UNCHANGED <<vars, diskVars, used, answer>>
  BY DEF DeleteRow
<1>2. CASE row[transfer[t].id] = None
  BY <1>1, <1>2, EndStep DEF DeleteRow, AttachmentsTypeOK
<1>3. CASE row[transfer[t].id] # None
  <2> PICK x : x = transfer[t].id
    OBVIOUS
  <2>1. UNCHANGED <<file, temporary, used>> /\ UNCHANGED instance
    BY <1>1 DEF diskVars, vars
  <2>2. row' = [row EXCEPT ![x] = None] /\ Goto(t, "unlink")
    BY <1>3 DEF DeleteRow
  <2>3. \A b \in Attachment : row'[b] = IF b = x THEN None ELSE row[b]
    BY <2>2 DEF AttachmentsTypeOK
  <2>4. TypeOK'
    BY <1>1 DEF vars, TypeOK
  <2>5. RowHasWholeFile' /\ RowHasObligation'
    BY <2>1, <2>3 DEF RowHasWholeFile, RowHasObligation, StillThere
  <2>6. AttachmentsTypeOK'
    BY <1>1, <2>1, <2>2, MovedSlot DEF AttachmentsTypeOK, Transfers
  <2>7. \A b \in Attachment : GivenUp(b) => GivenUp(b)'
    BY <1>1, <2>1, <2>2, MovedSlot DEF GivenUp, Uploading
  <2>8. GivenUp(x) /\ x \in Attachment
    BY <1>1 DEF RemovalInv, GivenUp, AttachmentsTypeOK
  <2>9. ASSUME NEW u \in Transfer PROVE UploadInv(u)'
    BY <1>1, <2>1, <2>2, <2>3, MovedSlot DEF UploadInv, Uploading, AttachmentsTypeOK
  <2>10. ASSUME NEW u \in Transfer PROVE RemovalInv(u)'
    <3>1. CASE u = t
      BY <1>1, <3>1, <2>2, <2>3, <2>7, <2>8, MovedSlot DEF RemovalInv
    <3>2. CASE u # t
      <4>1. transfer'[u] = transfer[u]
        BY <2>2, <3>2, MovedSlot
      <4>2. transfer[u].pc \in {"delete", "unlink"} => transfer[u].id \in Attachment /\ GivenUp(transfer[u].id)'
        BY <2>1, <2>7, <4>1 DEF RemovalInv, GivenUp, AttachmentsTypeOK
      <4> QED BY <2>3, <4>1, <4>2 DEF RemovalInv, GivenUp
    <3> QED BY <3>1, <3>2
  <2> QED BY <2>3, <2>4, <2>5, <2>6, <2>7, <2>9, <2>10
<1> QED BY <1>2, <1>3

LEMMA RemoveFileStep ==
  ASSUME BackedInv, NEW t \in Transfer, RemoveFile(t) PROVE BackedInv'
<1> USE DEF BackedInv, RowsAreBacked
<1> PICK x : x = transfer[t].id
  OBVIOUS
<1>1. /\ transfer[t].pc = "unlink" /\ End(t) /\ UNCHANGED <<vars, row, temporary, used, answer>>
      /\ file' = [file EXCEPT ![x] = "none"]
  BY DEF RemoveFile
<1>2. GivenUp(x) /\ x \in Attachment /\ row[x] = None
  BY <1>1 DEF RemovalInv, GivenUp, AttachmentsTypeOK
<1>3. TypeOK' /\ RowHasObligation'
  BY <1>1 DEF vars, TypeOK, RowHasObligation, StillThere
<1>4. \A b \in Attachment : b # x => file'[b] = file[b]
  BY <1>1 DEF AttachmentsTypeOK
<1>5. RowHasWholeFile'
  BY <1>1, <1>2, <1>4 DEF RowHasWholeFile
<1>6. AttachmentsTypeOK'
  BY <1>1, <1>2, EndedSlot DEF AttachmentsTypeOK, Transfers, Bytes
<1>7. \A b \in Attachment : GivenUp(b) => GivenUp(b)'
  BY <1>1, EndedSlot DEF GivenUp, Uploading
<1>8. ASSUME NEW u \in Transfer PROVE UploadInv(u)'
  <2>1. Uploading(u) => file'[transfer[u].id] = file[transfer[u].id]
    BY <1>2, <1>4 DEF UploadInv, GivenUp, AttachmentsTypeOK
  <2> QED BY <1>1, <2>1, EndedSlot DEF UploadInv, Uploading
<1>9. \A u \in Transfer : RemovalInv(u)'
  BY <1>1, <1>7, EndedSlot DEF RemovalInv, GivenUp, Uploading
<1> QED BY <1>1, <1>3, <1>5, <1>6, <1>7, <1>8, <1>9

LEMMA CheckFileStep ==
  ASSUME BackedInv, NEW t \in Transfer, CheckFile(t) PROVE BackedInv'
<1> USE DEF BackedInv, RowsAreBacked
<1>1. transfer[t].pc = "stat" /\ UNCHANGED <<vars, row, file, temporary, used>>
  BY DEF CheckFile, diskVars
<1>2. CASE file[transfer[t].id] = "none"
  BY <1>1, <1>2, EndStep DEF CheckFile, diskVars, AttachmentsTypeOK
<1>3. CASE file[transfer[t].id] # "none"
  <2>1. Goto(t, "read") /\ UNCHANGED answer
    BY <1>3 DEF CheckFile
  <2>2. TypeOK' /\ RowHasWholeFile' /\ RowHasObligation'
    BY <1>1 DEF vars, TypeOK, RowHasWholeFile, RowHasObligation, StillThere
  <2>3. AttachmentsTypeOK'
    BY <1>1, <2>1, MovedSlot DEF AttachmentsTypeOK, Transfers
  <2>4. \A b \in Attachment : GivenUp(b) => GivenUp(b)'
    BY <1>1, <2>1, MovedSlot DEF GivenUp, Uploading
  <2>5. \A u \in Transfer : UploadInv(u)'
    BY <1>1, <2>1, MovedSlot DEF UploadInv, Uploading
  <2>6. \A u \in Transfer : RemovalInv(u)'
    BY <1>1, <2>1, <2>4, MovedSlot DEF RemovalInv, GivenUp, Uploading
  <2> QED BY <1>1, <2>2, <2>3, <2>4, <2>5, <2>6
<1> QED BY <1>2, <1>3

\* A retraction takes its rows with it.
LEMMA ObligationsStepBacked ==
  ASSUME BackedInv, ObligationsStep PROVE BackedInv'
<1> USE DEF BackedInv, RowsAreBacked
<1>1. Next /\ Cascade /\ UNCHANGED <<file, temporary, used, transfer, answer>>
  BY DEF ObligationsStep, diskVars
<1>2. TypeOK'
  BY <1>1, TypeStep
<1>3. \A a \in Attachment :
        /\ row'[a] \in {row[a], None}
        /\ row'[a] # None => row'[a] = row[a] /\ instance'[row[a].key].id = row[a].id
  BY <1>1 DEF Cascade
<1>4. row' \in [Attachment -> [key: Key, id: Nat] \cup {None}]
  <2>1. \A a \in Attachment : row'[a] \in [key: Key, id: Nat] \cup {None}
    BY <1>3 DEF AttachmentsTypeOK
  <2> QED BY <1>1, <2>1 DEF Cascade
<1>5. AttachmentsTypeOK' /\ RowHasWholeFile' /\ RowHasObligation'
  BY <1>1, <1>3, <1>4 DEF AttachmentsTypeOK, RowHasWholeFile, RowHasObligation, StillThere
<1>6. \A b \in Attachment : GivenUp(b)' <=> GivenUp(b)
  BY <1>1 DEF GivenUp, Uploading
<1>7. \A u \in Transfer : UploadInv(u)'
  BY <1>1, <1>3 DEF UploadInv, Uploading, AttachmentsTypeOK
<1>8. \A u \in Transfer : RemovalInv(u)'
  BY <1>1, <1>3, <1>6 DEF RemovalInv, GivenUp, AttachmentsTypeOK
<1> QED BY <1>2, <1>3, <1>5, <1>6, <1>7, <1>8

LEMMA BackedStep == BackedInv /\ [AttachmentsNext]_allVars => BackedInv'
<1> SUFFICES ASSUME BackedInv, [AttachmentsNext]_allVars PROVE BackedInv'
  OBVIOUS
<1>1. CASE ObligationsStep
  BY <1>1, ObligationsStepBacked
<1>2. CASE \E t \in Transfer : TransferStep(t)
  <2> PICK t \in Transfer : TransferStep(t)
    BY <1>2
  <2>1. CASE Upload(t)
    BY <2>1, UploadStep
  <2>2. CASE OpenTemporary(t)
    BY <2>2, OpenTemporaryStep
  <2>3. CASE FillTemporary(t)
    BY <2>3, FillTemporaryStep
  <2>4. CASE Rename(t)
    BY <2>4, RenameStep
  <2>5. CASE InsertRow(t)
    BY <2>5, InsertRowStep
  <2>6. CASE FindRow(t, "delete") \/ FindRow(t, "stat")
    BY <2>6, FindRowStep
  <2>7. CASE DeleteRow(t)
    BY <2>7, DeleteRowStep
  <2>8. CASE RemoveFile(t)
    BY <2>8, RemoveFileStep
  <2>9. CASE CheckFile(t)
    BY <2>9, CheckFileStep
  <2>10. CASE ReadFile(t)
    BY <2>10, EndStep DEF ReadFile, BackedInv, RowsAreBacked, AttachmentsTypeOK
  <2>11. CASE Lose(t)
    BY <2>11, EndStep DEF Lose, BackedInv, RowsAreBacked, AttachmentsTypeOK
  <2> QED BY <2>1, <2>2, <2>3, <2>4, <2>5, <2>6, <2>7, <2>8, <2>9, <2>10, <2>11 DEF TransferStep
<1>3. CASE UNCHANGED allVars
  BY <1>3 DEF allVars, attachmentVars, diskVars, vars, BackedInv, RowsAreBacked, TypeOK, AttachmentsTypeOK,
              RowHasWholeFile, RowHasObligation, StillThere, GivenUp, UploadInv, RemovalInv, Uploading
<1> QED BY <1>1, <1>2, <1>3 DEF AttachmentsNext

\* No row without the whole of its file and without its obligation, for any number of
\* concurrent uploads, removals and retractions, stopped anywhere.
THEOREM DocumentsAreBacked == AttachmentsSpec => []RowsAreBacked
<1>1. BackedInv => RowsAreBacked
  BY DEF BackedInv
<1> QED BY <1>1, BackedInit, BackedStep, PTL DEF AttachmentsSpec
-------------------------------------------------------------------------------
(* The refinement *)

Fresh == (Attachment \ used) \cup Writing
Rows  == {a \in Attachment : row[a] # None}
Files == {a \in Attachment : file[a] = "all"}

StoreStep ==
  \/ \E a \in Attachment :
       \/ a \in Fresh /\ Fresh' = Fresh \ {a} /\ Files' = Files \cup {a} /\ Rows' = Rows
       \/ a \in Files \ Rows /\ Rows' = Rows \cup {a} /\ Fresh' = Fresh /\ Files' = Files
       \/ a \in Fresh /\ Fresh' = Fresh \ {a} /\ Rows' = Rows /\ Files' = Files
       \/ a \in Files \ Rows /\ Files' = Files \ {a} /\ Fresh' = Fresh /\ Rows' = Rows
  \/ \E gone \in SUBSET Attachment :
       gone \subseteq Rows /\ gone # {} /\ Rows' = Rows \ gone /\ Fresh' = Fresh /\ Files' = Files
  \/ Fresh' = Fresh /\ Rows' = Rows /\ Files' = Files

LEMMA StoreStepIsOne == StoreStep <=> [Abstract!StoreNext]_(Abstract!storeVars)
BY DEF StoreStep, Fresh, Rows, Files, Abstract!StoreNext, Abstract!storeVars, Abstract!Store, Abstract!List,
       Abstract!Abandon, Abstract!Discard, Abstract!Unlist

\* A slot that writes before a step and does not after it, while no other changes, or the reverse.
LEMMA WritingWhenMoved ==
  ASSUME BackedInv, NEW t \in Transfer, \A u \in Transfer \ {t} : transfer'[u] = transfer[u], used' = used
  PROVE  /\ ~(transfer[t].pc \in {"open", "fill", "rename"}) /\ ~(transfer'[t].pc \in {"open", "fill", "rename"})
            => Fresh' = Fresh
         /\ transfer[t].pc \in {"open", "fill", "rename"} /\ transfer'[t].pc \in {"open", "fill", "rename"}
            /\ transfer'[t].id = transfer[t].id
            => Fresh' = Fresh
         /\ transfer[t].pc \in {"open", "fill", "rename"} /\ ~(transfer'[t].pc \in {"open", "fill", "rename"})
            => transfer[t].id \in Fresh /\ Fresh' = Fresh \ {transfer[t].id}
<1> DEFINE W(u) == transfer[u].pc \in {"open", "fill", "rename"}
<1>1. Writing = {transfer[u].id : u \in {s \in Transfer : W(s)}}
  BY DEF Writing
<1>2. Writing' = {transfer'[u].id : u \in {s \in Transfer : W(s)'}}
  BY DEF Writing
<1>3. \A u \in Transfer \ {t} : (W(u)' <=> W(u)) /\ transfer'[u].id = transfer[u].id
  OBVIOUS
<1>4. ASSUME ~W(t), ~W(t)' PROVE Fresh' = Fresh
  BY <1>1, <1>2, <1>3, <1>4 DEF Fresh
<1>5. ASSUME W(t), W(t)', transfer'[t].id = transfer[t].id PROVE Fresh' = Fresh
  BY <1>1, <1>2, <1>3, <1>5 DEF Fresh
<1>6. ASSUME W(t), ~W(t)' PROVE transfer[t].id \in Fresh /\ Fresh' = Fresh \ {transfer[t].id}
  <2>1. transfer[t].id \in used /\ \A u \in Transfer \ {t} : W(u) => transfer[u].id # transfer[t].id
    BY <1>6 DEF BackedInv, UploadInv, Uploading
  <2> QED BY <1>1, <1>2, <1>3, <1>6, <2>1 DEF Fresh
<1> QED BY <1>4, <1>5, <1>6

LEMMA StoreStepOfTransfer ==
  ASSUME BackedInv, NEW t \in Transfer, TransferStep(t) PROVE StoreStep
<1> USE DEF BackedInv, RowsAreBacked
<1>1. CASE Upload(t)
  <2>1. PICK a \in Attachment \ used :
          /\ transfer'[t].pc = "open" /\ transfer'[t].id = a
          /\ \A u \in Transfer \ {t} : transfer'[u] = transfer[u]
          /\ used' = used \cup {a} /\ row' = row /\ file' = file /\ transfer[t].pc = "idle"
    BY <1>1 DEF Upload, diskVars, AttachmentsTypeOK
  <2>2. Writing' = Writing \cup {a}
    BY <2>1 DEF Writing
  <2> QED BY <2>1, <2>2 DEF StoreStep, Fresh, Rows, Files
<1>2. CASE OpenTemporary(t) \/ FillTemporary(t)
  BY <1>2, MovedSlot, WritingWhenMoved DEF OpenTemporary, FillTemporary, StoreStep, Rows, Files
<1>3. CASE Rename(t)
  <2> PICK x : x = transfer[t].id
    OBVIOUS
  <2>1. /\ transfer[t].pc = "rename" /\ Goto(t, "insert") /\ row' = row /\ used' = used
        /\ file' = [file EXCEPT ![x] = temporary[x]]
    BY <1>3 DEF Rename
  <2>2. temporary[x] = "all" /\ x \in Attachment
    BY <2>1 DEF UploadInv, Uploading, AttachmentsTypeOK
  <2>3. Files' = Files \cup {x}
    BY <2>1, <2>2 DEF Files, AttachmentsTypeOK
  <2>4. x \in Fresh /\ Fresh' = Fresh \ {x}
    BY <2>1, MovedSlot, WritingWhenMoved
  <2> QED BY <2>1, <2>2, <2>3, <2>4 DEF StoreStep, Rows
<1>4. CASE InsertRow(t)
  <2> PICK x : x = transfer[t].id
    OBVIOUS
  <2>1. /\ transfer[t].pc = "insert" /\ End(t) /\ file' = file /\ used' = used
        /\ row' = row \/ row' = [row EXCEPT ![x] = transfer[t].of]
    BY <1>4 DEF InsertRow, diskVars
  <2>2. file[x] = "all" /\ x \in Attachment /\ row[x] = None
    BY <2>1 DEF UploadInv, Uploading, AttachmentsTypeOK
  <2>3. Rows' = Rows \/ Rows' = Rows \cup {x}
    BY <2>1, <2>2 DEF Rows, AttachmentsTypeOK
  <2>4. Fresh' = Fresh /\ Files' = Files /\ x \in Files \ Rows
    BY <2>1, <2>2, EndedSlot, WritingWhenMoved DEF Files, Rows
  <2> QED BY <2>2, <2>3, <2>4 DEF StoreStep
<1>5. CASE FindRow(t, "delete") \/ FindRow(t, "stat")
  <2>1. /\ transfer[t].pc = "idle" /\ transfer'[t].pc \in {"delete", "stat"}
        /\ \A u \in Transfer \ {t} : transfer'[u] = transfer[u]
        /\ used' = used /\ row' = row /\ file' = file
    BY <1>5 DEF FindRow, diskVars, AttachmentsTypeOK
  <2> QED BY <2>1, WritingWhenMoved DEF StoreStep, Rows, Files
<1>6. CASE DeleteRow(t)
  <2> PICK x : x = transfer[t].id
    OBVIOUS
  <2>1. /\ transfer[t].pc = "delete" /\ file' = file /\ used' = used /\ (End(t) \/ Goto(t, "unlink"))
        /\ row' = row \/ (row[x] # None /\ row' = [row EXCEPT ![x] = None])
    BY <1>6 DEF DeleteRow, diskVars
  <2>2. x \in Attachment
    BY <2>1 DEF RemovalInv, GivenUp, AttachmentsTypeOK
  <2>3. Rows' = Rows \/ (x \in Rows /\ Rows' = Rows \ {x})
    BY <2>1, <2>2 DEF Rows, AttachmentsTypeOK
  <2>4. Fresh' = Fresh /\ Files' = Files
    BY <2>1, EndedSlot, MovedSlot, WritingWhenMoved DEF Files
  <2> QED BY <2>2, <2>3, <2>4 DEF StoreStep
<1>7. CASE RemoveFile(t)
  <2> PICK x : x = transfer[t].id
    OBVIOUS
  <2>1. /\ transfer[t].pc = "unlink" /\ End(t) /\ row' = row /\ used' = used
        /\ file' = [file EXCEPT ![x] = "none"]
    BY <1>7 DEF RemoveFile
  <2>2. x \in Attachment /\ row[x] = None
    BY <2>1 DEF RemovalInv, GivenUp, AttachmentsTypeOK
  <2>3. Files' = Files \ {x} /\ x \notin Rows
    BY <2>1, <2>2 DEF Files, Rows, AttachmentsTypeOK
  <2>4. Fresh' = Fresh
    BY <2>1, EndedSlot, WritingWhenMoved
  <2>5. CASE x \in Files
    BY <2>1, <2>2, <2>3, <2>4, <2>5 DEF StoreStep, Rows
  <2>6. CASE x \notin Files
    BY <2>1, <2>3, <2>4, <2>6 DEF StoreStep, Rows
  <2> QED BY <2>5, <2>6
<1>8. CASE CheckFile(t) \/ ReadFile(t)
  <2>1. /\ transfer[t].pc \in {"stat", "read"} /\ (End(t) \/ Goto(t, "read"))
        /\ file' = file /\ row' = row /\ used' = used
    BY <1>8 DEF CheckFile, ReadFile, diskVars
  <2> QED BY <2>1, EndedSlot, MovedSlot, WritingWhenMoved DEF StoreStep, Rows, Files
<1>9. CASE Lose(t)
  <2>1. End(t) /\ file' = file /\ row' = row /\ used' = used
    BY <1>9 DEF Lose, diskVars
  <2>2. Rows' = Rows /\ Files' = Files
    BY <2>1 DEF Rows, Files
  <2>3. CASE transfer[t].pc \in {"open", "fill", "rename"}
    <3>1. transfer[t].id \in Attachment
      BY <2>3 DEF UploadInv, Uploading, AttachmentsTypeOK
    <3> QED BY <2>1, <2>2, <2>3, <3>1, EndedSlot, WritingWhenMoved DEF StoreStep
  <2>4. CASE ~(transfer[t].pc \in {"open", "fill", "rename"})
    BY <2>1, <2>2, <2>4, EndedSlot, WritingWhenMoved DEF StoreStep
  <2> QED BY <2>3, <2>4
<1> QED BY <1>1, <1>2, <1>3, <1>4, <1>5, <1>6, <1>7, <1>8, <1>9 DEF TransferStep

LEMMA StoreStepOfNext == BackedInv /\ [AttachmentsNext]_allVars => [Abstract!StoreNext]_(Abstract!storeVars)
<1> SUFFICES ASSUME BackedInv, [AttachmentsNext]_allVars PROVE StoreStep
  BY StoreStepIsOne
<1>1. CASE ObligationsStep
  <2>1. Cascade /\ file' = file /\ used' = used /\ transfer' = transfer
    BY <1>1 DEF ObligationsStep, diskVars
  <2>2. Fresh' = Fresh /\ Files' = Files
    BY <2>1 DEF Fresh, Writing, Files
  <2>3. \A a \in Attachment : row'[a] # None => row'[a] = row[a]
    BY <2>1 DEF Cascade
  <2>4. Rows' = Rows \ (Rows \ Rows') /\ (Rows \ Rows') \in SUBSET Attachment /\ Rows' \subseteq Rows
    BY <2>3 DEF Rows
  <2> QED BY <2>2, <2>4 DEF StoreStep
<1>2. CASE \E t \in Transfer : TransferStep(t)
  BY <1>2, StoreStepOfTransfer
<1>3. CASE UNCHANGED allVars
  BY <1>3 DEF allVars, attachmentVars, diskVars, StoreStep, Fresh, Writing, Rows, Files
<1> QED BY <1>1, <1>2, <1>3 DEF AttachmentsNext

LEMMA StoreInitially == AttachmentsInit => Abstract!StoreInit
<1> SUFFICES ASSUME AttachmentsInit PROVE Abstract!StoreInit
  OBVIOUS
<1>1. Writing = {}
  BY DEF AttachmentsInit, Writing, Idle
<1>2. {a \in Attachment : row[a] # None} = {} /\ {a \in Attachment : file[a] = "all"} = {}
  BY DEF AttachmentsInit
<1> QED BY <1>1, <1>2 DEF Abstract!StoreInit, AttachmentsInit

\* The requests on rows and files, with retractions and stops in the middle of them,
\* implement the abstract store: every step of theirs is a step of it or none.
THEOREM DocumentsImplementTheStore == AttachmentsSpec => ImplementsStore
<1> QED BY StoreInitially, BackedInit, BackedStep, StoreStepOfNext, PTL
        DEF AttachmentsSpec, ImplementsStore, Abstract!StoreSpec

(***************************************************************************)
(* The nightly backup, for any documents, nights and term of keeping.  A   *)
(* step of the script may rely on what the steps before it made that       *)
(* night; and a document of the dump whose file is still there has been    *)
(* there since, so that tar has read it or will.                           *)
(***************************************************************************)
Kinds == [night : Nat, content : SUBSET Stored, whole : BOOLEAN]
Report == [night : Nat, status : {"OK", "FAILED"}]

BackupTyped ==
  /\ night \in Nat /\ status \in {"OK", "FAILED"} /\ unread \subseteq Stored
  /\ pc \in {"asleep", "dump", "dumping", "prune dumps", "copy dump", "tar", "taring", "prune files",
             "copy files", "record"}
  /\ fresh \subseteq Stored /\ files \subseteq Stored /\ rows \subseteq files /\ files \cap fresh = {}
  /\ dumps \subseteq Kinds /\ archives \subseteq Kinds
  /\ health \in Seq(Report)

\* Whatever carries a night carries one that has begun, and what is not over has not been reported.
NightsInv ==
  /\ \A a \in dumps \cup archives : a.night \in 1..night
  /\ \A i \in DOMAIN health : health[i].night <= night /\ (pc # "asleep" => health[i].night < night)
  /\ pc # "asleep" => night > 0

\* Of tonight: the dump before the archive of the files, each incomplete until it is over.
TonightInv ==
  /\ pc = "dump" => \A d \in dumps : d.night # night
  /\ pc = "dumping" => (\E d \in dumps : d.night = night) /\ \A d \in dumps : d.night = night => ~d.whole
  /\ pc \in {"prune dumps", "copy dump"} => \E d \in dumps : d.night = night /\ d.whole
  /\ pc \in {"dump", "dumping", "prune dumps", "copy dump", "tar"} => \A x \in archives : x.night # night
  /\ pc = "taring" => (\E x \in archives : x.night = night) /\ \A x \in archives : x.night = night => ~x.whole
  /\ pc \in {"prune files", "copy files"} => \E x \in archives : x.night = night /\ x.whole

\* What is OK so far was made and copied.
OkInv ==
  status = "OK" =>
    /\ pc \in {"tar", "taring", "prune files", "copy files", "record"} =>
         <<"dump", night>> \in remote /\ \E d \in dumps : d.night = night /\ d.whole
    /\ pc = "record" => <<"files", night>> \in remote /\ \E x \in archives : x.night = night /\ x.whole

\* What the dump of tonight lists was stored before, and tar has read it, or will, or it is gone.
ReadInv ==
  /\ \A d \in dumps : d.content \cap fresh = {}
  /\ \A d \in dumps, x \in archives : d.night = night /\ x.night = night =>
       IF pc = "taring" THEN d.content \cap files \subseteq unread \cup x.content
       ELSE x.whole => d.content \cap files \subseteq x.content

BackupInv == BackupTyped /\ NightsInv /\ TonightInv /\ OkInv /\ ReadInv /\ B!OkMeansBothCopied

LEMMA BackupInitially == B!BackupInit => BackupInv
<1> SUFFICES ASSUME B!BackupInit PROVE BackupInv
  OBVIOUS
<1>1. BackupTyped /\ NightsInv /\ TonightInv /\ OkInv /\ ReadInv
  BY DEF B!BackupInit, B!StoreInit, BackupTyped, NightsInv, TonightInv, OkInv, ReadInv
<1>2. B!OkMeansBothCopied
  BY DEF B!OkMeansBothCopied, B!ReportOK, B!BackupInit
<1> QED BY <1>1, <1>2 DEF BackupInv

BackupStepped == [B!BackupNext]_(B!backupVars)

\* What the end of the dump, and of tar, makes of an archive.
Ended(a) == [a EXCEPT !.whole = a.whole \/ a.night = night]

LEMMA EndedIs ==
  ASSUME NEW a \in Kinds
  PROVE  /\ Ended(a) \in Kinds /\ Ended(a).night = a.night /\ Ended(a).content = a.content
         /\ a.whole => Ended(a).whole
         /\ a.night = night => Ended(a).whole
         /\ Ended(a).whole => a.whole \/ a.night = night
<1>1. Ended(a) = [night |-> a.night, content |-> a.content, whole |-> a.whole \/ a.night = night]
  BY DEF Ended, Kinds
<1>2. a.night \in Nat /\ a.content \in SUBSET Stored /\ a.whole \in BOOLEAN
  BY DEF Kinds
<1>3. CASE a.whole \/ a.night = night
  <2>1. Ended(a) = [night |-> a.night, content |-> a.content, whole |-> TRUE]
    BY <1>1, <1>3
  <2> QED BY <1>2, <1>3, <2>1 DEF Kinds
<1>4. CASE ~(a.whole \/ a.night = night)
  <2>1. Ended(a) = [night |-> a.night, content |-> a.content, whole |-> FALSE]
    BY <1>1, <1>4
  <2> QED BY <1>2, <1>4, <2>1 DEF Kinds
<1> QED BY <1>3, <1>4

LEMMA EndDumpIs ==
  ASSUME B!EndDump
  PROVE  \/ /\ dumps' = {Ended(d) : d \in dumps} /\ pc' = "prune dumps" /\ UNCHANGED <<status, failed>>
         \/ dumps' = {d \in dumps : d.night # night} /\ pc' = "tar" /\ status' = "FAILED"
BY DEF B!EndDump, B!Tonight, B!Goto, B!Fail, Ended

LEMMA EndTarIs ==
  ASSUME B!EndTar
  PROVE  \/ /\ archives' = {Ended(x) : x \in archives} /\ pc' = "prune files" /\ UNCHANGED <<status, failed>>
            /\ unread = {}
         \/ archives' = {x \in archives : x.night # night} /\ pc' = "record" /\ status' = "FAILED"
BY DEF B!EndTar, B!Tonight, B!Goto, B!Fail, Ended

\* What reading a file makes of an archive.
Filled(x, a) == [x EXCEPT !.content = IF x.night = night THEN @ \cup ({a} \cap files) ELSE @]

LEMMA FilledIs ==
  ASSUME NEW x \in Kinds, NEW a \in Stored
  PROVE  /\ Filled(x, a) \in Kinds /\ Filled(x, a).night = x.night /\ Filled(x, a).whole = x.whole
         /\ x.night = night => Filled(x, a).content = x.content \cup ({a} \cap files)
<1>1. Filled(x, a) = [night |-> x.night, whole |-> x.whole,
                      content |-> IF x.night = night THEN x.content \cup ({a} \cap files) ELSE x.content]
  BY DEF Filled, Kinds
<1>2. (IF x.night = night THEN x.content \cup ({a} \cap files) ELSE x.content) \in SUBSET Stored
  BY DEF Kinds
<1> QED BY <1>1, <1>2 DEF Kinds

LEMMA ReadFileIs ==
  ASSUME NEW a \in Stored, B!ReadFile(a)
  PROVE  archives' = {Filled(x, a) : x \in archives}
BY DEF B!ReadFile, B!Tonight, Filled

LEMMA ArchiveIs ==
  ASSUME NEW content \in SUBSET Stored, night \in Nat
  PROVE  /\ B!Archive(content, FALSE) \in Kinds /\ B!Archive(content, FALSE).night = night
         /\ B!Archive(content, FALSE).content = content /\ ~B!Archive(content, FALSE).whole
BY DEF B!Archive, Kinds

LEMMA BackupTypedStep ==
  ASSUME BackupTyped, BackupStepped PROVE BackupTyped'
<1>1. CASE B!Start
  BY <1>1 DEF B!Start, B!Goto, BackupTyped, B!storeVars, Kinds
<1>2. CASE B!StartDump
  <2>1. B!Archive(rows, FALSE) \in Kinds
    BY ArchiveIs DEF BackupTyped
  <2> HIDE DEF Kinds
  <2> QED BY <1>2, <2>1 DEF B!StartDump, B!Goto, BackupTyped, B!storeVars
<1>3. CASE B!EndDump
  <2>1. dumps' \subseteq Kinds /\ pc' \in {"prune dumps", "tar"} /\ status' \in {"OK", "FAILED"}
    BY <1>3, EndDumpIs, EndedIs DEF BackupTyped
  <2> QED BY <1>3, <2>1 DEF B!EndDump, BackupTyped, B!storeVars
<1>4. CASE B!PruneDumps
  BY <1>4 DEF B!PruneDumps, B!Goto, B!Recent, BackupTyped, B!storeVars
<1>5. CASE B!CopyDump \/ B!CopyFiles
  BY <1>5 DEF B!CopyDump, B!CopyFiles, B!Copy, B!Goto, B!Fail, BackupTyped, B!storeVars
<1>6. CASE B!StartTar
  <2>1. B!Archive({}, FALSE) \in Kinds
    BY ArchiveIs DEF BackupTyped
  <2> QED BY <1>6, <2>1 DEF B!StartTar, B!Goto, BackupTyped, B!storeVars
<1>7. ASSUME NEW a \in Stored, B!ReadFile(a) PROVE BackupTyped'
  <2>1. archives' \subseteq Kinds
    <3>1. archives' = {Filled(x, a) : x \in archives}
      BY <1>7, ReadFileIs
    <3>2. \A x \in archives : Filled(x, a) \in Kinds
      BY FilledIs DEF BackupTyped
    <3> QED BY <3>1, <3>2
  <2> QED BY <1>7, <2>1 DEF B!ReadFile, BackupTyped, B!storeVars
<1>8. CASE B!EndTar
  <2>1. archives' \subseteq Kinds /\ pc' \in {"prune files", "record"} /\ status' \in {"OK", "FAILED"}
    BY <1>8, EndTarIs, EndedIs DEF BackupTyped
  <2> QED BY <1>8, <2>1 DEF B!EndTar, BackupTyped, B!storeVars
<1>9. CASE B!PruneFiles
  BY <1>9 DEF B!PruneFiles, B!Goto, B!Recent, BackupTyped, B!storeVars
<1>10. CASE B!Record
  <2>1. [night |-> night, status |-> status] \in Report
    BY DEF Report, BackupTyped
  <2>2. health' \in Seq(Report)
    BY <1>10, <2>1 DEF B!Record, BackupTyped
  <2>3. pc' = "asleep" /\ UNCHANGED <<fresh, rows, files, night, status, dumps, archives, unread>>
    BY <1>10 DEF B!Record, B!Goto, B!storeVars
  <2> HIDE DEF Kinds, Report
  <2> QED BY <2>2, <2>3 DEF BackupTyped
<1>11. CASE B!Die
  BY <1>11 DEF B!Die, B!Goto, BackupTyped, B!storeVars
<1>12. CASE B!Application
  <2>1. fresh' \subseteq Stored /\ files' \subseteq Stored /\ rows' \subseteq files' /\ files' \cap fresh' = {}
    BY <1>12 DEF B!Application, B!StoreNext, B!Store, B!List, B!Abandon, B!Unlist, B!Discard, BackupTyped
  <2> QED BY <1>12, <2>1 DEF B!Application, BackupTyped
<1>13. CASE UNCHANGED B!backupVars
  BY <1>13 DEF B!backupVars, B!storeVars, BackupTyped
<1> QED BY <1>1, <1>2, <1>3, <1>4, <1>5, <1>6, <1>7, <1>8, <1>9, <1>10, <1>11, <1>12, <1>13 DEF BackupStepped, B!BackupNext

\* What becomes of the archives of other nights, and of tonight's.
LEMMA NightsStay ==
  ASSUME BackupTyped, BackupStepped
  PROVE  /\ \A a \in dumps' : (\E b \in dumps : b.night = a.night) \/ (pc = "dump" /\ a.night = night)
         /\ \A a \in archives' : (\E b \in archives : b.night = a.night) \/ (pc = "tar" /\ a.night = night)
<1>0. night \in Nat /\ rows \in SUBSET Stored /\ {} \in SUBSET Stored /\ dumps \subseteq Kinds /\ archives \subseteq Kinds
  BY DEF BackupTyped
<1>1. CASE B!StartDump
  BY <1>0, <1>1, ArchiveIs DEF B!StartDump
<1>2. CASE B!EndDump
  <2>1. archives' = archives
    BY <1>2 DEF B!EndDump
  <2>2. \A d \in dumps : Ended(d).night = d.night
    BY <1>0, EndedIs
  <2>3. dumps' = {Ended(d) : d \in dumps} \/ dumps' \subseteq dumps
    BY <1>2, EndDumpIs
  <2> QED BY <2>1, <2>2, <2>3
<1>3. CASE B!PruneDumps \/ B!PruneFiles
  BY <1>3 DEF B!PruneDumps, B!PruneFiles, B!Recent
<1>4. CASE B!StartTar
  BY <1>0, <1>4, ArchiveIs DEF B!StartTar
<1>5. ASSUME NEW a \in Stored, B!ReadFile(a)
      PROVE  dumps' = dumps /\ \A x \in archives' : \E y \in archives : y.night = x.night
  <2>1. dumps' = dumps
    BY <1>5 DEF B!ReadFile
  <2> QED BY <1>0, <1>5, <2>1, ReadFileIs, FilledIs
<1>6. CASE B!EndTar
  <2>1. dumps' = dumps
    BY <1>6 DEF B!EndTar
  <2>2. \A x \in archives : Ended(x).night = x.night
    BY <1>0, EndedIs
  <2>3. archives' = {Ended(x) : x \in archives} \/ archives' \subseteq archives
    BY <1>6, EndTarIs
  <2> QED BY <2>1, <2>2, <2>3
<1>7. CASE UNCHANGED <<dumps, archives>>
  BY <1>7
<1> QED BY <1>1, <1>2, <1>3, <1>4, <1>5, <1>6, <1>7
  DEF BackupStepped, B!BackupNext, B!backupVars, B!Start, B!CopyDump, B!CopyFiles, B!Copy, B!Record, B!Die, B!Application

LEMMA NightsStep ==
  ASSUME BackupTyped, NightsInv, BackupStepped PROVE NightsInv'
<1>0. night \in Nat /\ \A i \in DOMAIN health : health[i] \in Report /\ health[i].night \in Nat
  <2>1. night \in Nat /\ health \in Seq(Report)
    BY DEF BackupTyped
  <2>2. \A i \in DOMAIN health : health[i] \in Report
    BY <2>1
  <2> QED BY <2>1, <2>2 DEF Report
<1>1. (night' = night \/ B!Start) /\ (health' = health \/ B!Record)
  BY DEF BackupStepped, B!BackupNext, B!backupVars, B!Start, B!StartDump, B!EndDump, B!PruneDumps, B!CopyDump,
     B!StartTar, B!ReadFile, B!EndTar, B!PruneFiles, B!CopyFiles, B!Copy, B!Record, B!Die, B!Application
<1>2. pc' # "asleep" => pc # "asleep" \/ B!Start
  BY DEF BackupStepped, B!BackupNext, B!backupVars, B!Start, B!StartDump, B!EndDump, B!PruneDumps, B!CopyDump,
     B!StartTar, B!ReadFile, B!EndTar, B!PruneFiles, B!CopyFiles, B!Copy, B!Record, B!Die, B!Application, B!Goto
<1>3. B!Start => night' = night + 1 /\ UNCHANGED <<health, dumps, archives>>
  BY DEF B!Start
<1>4. B!Record => /\ pc = "record" /\ pc' = "asleep" /\ night' = night
                  /\ health' = Append(health, [night |-> night, status |-> status])
  BY DEF B!Record, B!Goto
<1>5. night' \in Nat /\ night <= night' /\ (pc' # "asleep" => night' > 0)
  BY <1>0, <1>1, <1>2, <1>3 DEF NightsInv
<1>6. \A a \in dumps' \cup archives' : a.night \in 1..night'
  <2>1. CASE B!Start
    BY <1>0, <1>3, <1>5, <2>1 DEF NightsInv
  <2>2. CASE night' = night
    BY <1>0, <2>2, NightsStay DEF NightsInv
  <2> QED BY <1>1, <2>1, <2>2
<1>7. \A i \in DOMAIN health' : health'[i].night <= night' /\ (pc' # "asleep" => health'[i].night < night')
  <2>1. CASE health' = health
    BY <1>0, <1>1, <1>2, <1>3, <2>1 DEF NightsInv
  <2>2. CASE B!Record
    <3> SUFFICES ASSUME NEW i \in DOMAIN health' PROVE health'[i].night <= night
      BY <1>4, <2>2
    <3>1. health \in Seq(Report)
      BY DEF BackupTyped
    <3>2. CASE i = Len(health) + 1
      BY <1>0, <1>4, <2>2, <3>1, <3>2
    <3>3. CASE i # Len(health) + 1
      <4>1. i \in DOMAIN health /\ health'[i] = health[i]
        BY <1>4, <2>2, <3>1, <3>3
      <4> QED BY <4>1 DEF NightsInv
    <3> QED BY <3>2, <3>3
  <2> QED BY <1>1, <2>1, <2>2
<1> QED BY <1>5, <1>6, <1>7 DEF NightsInv

\* Pruning keeps what was archived tonight.
LEMMA RecentHasTonight ==
  ASSUME night \in Nat, NEW all, NEW a \in all, a.night = night PROVE a \in B!Recent(all)
BY KeepAssumption DEF B!Recent

LEMMA TonightStep ==
  ASSUME BackupTyped, NightsInv, TonightInv, BackupStepped PROVE TonightInv'
<1>0. /\ night \in Nat /\ rows \in SUBSET Stored /\ {} \in SUBSET Stored
      /\ dumps \subseteq Kinds /\ archives \subseteq Kinds
  BY DEF BackupTyped
<1>1. CASE B!Start
  <2>1. pc' = "dump" /\ night' = night + 1 /\ dumps' = dumps /\ archives' = archives
    BY <1>1 DEF B!Start, B!Goto
  <2>2. \A a \in dumps' \cup archives' : a.night \in 1..night
    BY <2>1 DEF NightsInv
  <2>3. \A a \in dumps' \cup archives' : a.night # night'
    BY <1>0, <2>1, <2>2
  <2> QED BY <2>1, <2>3 DEF TonightInv
<1>2. CASE B!StartDump
  <2>1. /\ pc = "dump" /\ pc' = "dumping" /\ dumps' = dumps \cup {B!Archive(rows, FALSE)}
        /\ night' = night /\ archives' = archives
    BY <1>2 DEF B!StartDump, B!Goto
  <2> QED BY <1>0, <2>1, ArchiveIs DEF TonightInv
<1>3. CASE B!EndDump
  <2>1. pc = "dumping" /\ night' = night /\ archives' = archives
    BY <1>3 DEF B!EndDump
  <2>2. CASE dumps' = {Ended(d) : d \in dumps} /\ pc' = "prune dumps"
    <3>1. PICK d \in dumps : d.night = night
      BY <2>1 DEF TonightInv
    <3>2. Ended(d) \in dumps' /\ Ended(d).night = night /\ Ended(d).whole
      BY <1>0, <2>2, <3>1, EndedIs
    <3> QED BY <2>1, <2>2, <3>2 DEF TonightInv
  <2>3. CASE pc' = "tar"
    BY <2>1, <2>3 DEF TonightInv
  <2> QED BY <1>3, <2>2, <2>3, EndDumpIs
<1>4. CASE B!PruneDumps
  <2>1. pc = "prune dumps" /\ pc' = "copy dump" /\ night' = night /\ archives' = archives /\ dumps' = B!Recent(dumps)
    BY <1>4 DEF B!PruneDumps, B!Goto
  <2> QED BY <1>0, <2>1, RecentHasTonight DEF TonightInv
<1>5. CASE B!CopyDump
  <2>1. pc = "copy dump" /\ pc' = "tar" /\ night' = night /\ archives' = archives
    BY <1>5 DEF B!CopyDump, B!Copy, B!Goto
  <2> QED BY <2>1 DEF TonightInv
<1>6. CASE B!CopyFiles \/ B!Record \/ B!Die
  <2>1. pc' \in {"record", "asleep"}
    BY <1>6 DEF B!CopyFiles, B!Copy, B!Record, B!Die, B!Goto
  <2> QED BY <2>1 DEF TonightInv
<1>7. CASE B!StartTar
  <2>1. pc = "tar" /\ pc' = "taring" /\ night' = night /\ archives' = archives \cup {B!Archive({}, FALSE)}
    BY <1>7 DEF B!StartTar, B!Goto
  <2> QED BY <1>0, <2>1, ArchiveIs DEF TonightInv
<1>8. ASSUME NEW a \in Stored, B!ReadFile(a) PROVE TonightInv'
  <2>1. pc = "taring" /\ pc' = "taring" /\ night' = night /\ archives' = {Filled(x, a) : x \in archives}
    BY <1>8, ReadFileIs DEF B!ReadFile
  <2>2. \E x \in archives' : x.night = night
    BY <1>0, <2>1, FilledIs DEF TonightInv
  <2>3. \A x \in archives' : x.night = night => ~x.whole
    BY <1>0, <2>1, FilledIs DEF TonightInv
  <2> QED BY <2>1, <2>2, <2>3 DEF TonightInv
<1>9. CASE B!EndTar
  <2>1. pc = "taring" /\ night' = night
    BY <1>9 DEF B!EndTar
  <2>2. CASE archives' = {Ended(x) : x \in archives} /\ pc' = "prune files"
    <3>1. PICK x \in archives : x.night = night
      BY <2>1 DEF TonightInv
    <3>2. Ended(x) \in archives' /\ Ended(x).night = night /\ Ended(x).whole
      BY <1>0, <2>2, <3>1, EndedIs
    <3> QED BY <2>1, <2>2, <3>2 DEF TonightInv
  <2>3. CASE pc' = "record"
    BY <2>3 DEF TonightInv
  <2> QED BY <1>9, <2>2, <2>3, EndTarIs
<1>10. CASE B!PruneFiles
  <2>1. pc = "prune files" /\ pc' = "copy files" /\ night' = night /\ archives' = B!Recent(archives)
    BY <1>10 DEF B!PruneFiles, B!Goto
  <2> QED BY <1>0, <2>1, RecentHasTonight DEF TonightInv
<1>11. CASE UNCHANGED <<pc, night, dumps, archives>>
  BY <1>11 DEF TonightInv
<1> QED BY <1>1, <1>2, <1>3, <1>4, <1>5, <1>6, <1>7, <1>8, <1>9, <1>10, <1>11
  DEF BackupStepped, B!BackupNext, B!backupVars, B!Application

LEMMA OkStep ==
  ASSUME BackupTyped, TonightInv, OkInv, BackupStepped PROVE OkInv'
<1>1. CASE B!Start \/ B!StartDump \/ B!PruneDumps \/ B!Record \/ B!Die
  <2>1. pc' \in {"asleep", "dump", "dumping", "copy dump"}
    BY <1>1 DEF B!Start, B!StartDump, B!PruneDumps, B!Record, B!Die, B!Goto
  <2> QED BY <2>1 DEF OkInv
<1>2. CASE B!EndDump
  BY <1>2, EndDumpIs DEF OkInv
<1>3. CASE B!CopyDump
  <2>1. pc = "copy dump" /\ pc' = "tar" /\ night' = night /\ dumps' = dumps
    BY <1>3 DEF B!CopyDump, B!Copy, B!Goto
  <2>2. <<"dump", night>> \in remote' \/ status' = "FAILED"
    BY <1>3 DEF B!CopyDump, B!Copy, B!Fail
  <2> QED BY <2>1, <2>2 DEF OkInv, TonightInv
<1>4. CASE B!CopyFiles
  <2>1. pc = "copy files" /\ pc' = "record" /\ night' = night /\ dumps' = dumps /\ archives' = archives
    BY <1>4 DEF B!CopyFiles, B!Copy, B!Goto
  <2>2. \/ <<"files", night>> \in remote' /\ remote \subseteq remote' /\ status' = status
        \/ status' = "FAILED"
    BY <1>4 DEF B!CopyFiles, B!Copy, B!Fail
  <2> QED BY <2>1, <2>2 DEF OkInv, TonightInv
<1>5. CASE B!EndTar
  <2>1. pc = "taring" /\ night' = night /\ dumps' = dumps /\ remote' = remote
    BY <1>5 DEF B!EndTar
  <2> QED BY <1>5, <2>1, EndTarIs DEF OkInv
<1>6. CASE B!StartTar \/ (\E a \in Stored : B!ReadFile(a)) \/ B!PruneFiles
  <2>1. /\ pc \in {"tar", "taring", "prune files"} /\ pc' \in {"taring", "copy files"}
        /\ UNCHANGED <<night, dumps, remote, status>>
    BY <1>6 DEF B!StartTar, B!ReadFile, B!PruneFiles, B!Goto
  <2> QED BY <2>1 DEF OkInv
<1>7. CASE UNCHANGED <<pc, night, status, dumps, archives, remote>>
  BY <1>7 DEF OkInv
<1> QED BY <1>1, <1>2, <1>3, <1>4, <1>5, <1>6, <1>7 DEF BackupStepped, B!BackupNext, B!backupVars, B!Application

LEMMA ReadStep ==
  ASSUME BackupTyped, NightsInv, TonightInv, ReadInv, BackupStepped PROVE ReadInv'
<1>0. /\ night \in Nat /\ rows \in SUBSET Stored /\ {} \in SUBSET Stored
      /\ dumps \subseteq Kinds /\ archives \subseteq Kinds
  BY DEF BackupTyped
<1> DEFINE Told(d, x) == IF pc = "taring" THEN d.content \cap files \subseteq unread \cup x.content
                         ELSE x.whole => d.content \cap files \subseteq x.content
<1>1. \A d \in dumps' : d.content \cap fresh' = {}
  <2>1. fresh' \subseteq fresh
    BY DEF BackupStepped, B!BackupNext, B!backupVars, B!storeVars, B!Start, B!StartDump, B!EndDump, B!PruneDumps,
       B!CopyDump, B!StartTar, B!ReadFile, B!EndTar, B!PruneFiles, B!CopyFiles, B!Copy, B!Record, B!Die,
       B!Application, B!StoreNext, B!Store, B!List, B!Abandon, B!Unlist, B!Discard
  <2>2. CASE dumps' \subseteq dumps
    BY <2>1, <2>2 DEF ReadInv
  <2>3. CASE B!StartDump
    <3>1. dumps' = dumps \cup {B!Archive(rows, FALSE)} /\ B!Archive(rows, FALSE).content = rows
      BY <1>0, <2>3, ArchiveIs DEF B!StartDump
    <3>2. rows \cap fresh = {}
      BY DEF BackupTyped
    <3> QED BY <2>1, <3>1, <3>2 DEF ReadInv
  <2>4. CASE B!EndDump
    <3>1. \A d \in dumps : Ended(d).content = d.content
      BY <1>0, EndedIs
    <3>2. dumps' = {Ended(d) : d \in dumps} \/ dumps' \subseteq dumps
      BY <2>4, EndDumpIs
    <3> QED BY <2>1, <3>1, <3>2 DEF ReadInv
  <2>5. dumps' \subseteq dumps \/ B!StartDump \/ B!EndDump
    BY DEF BackupStepped, B!BackupNext, B!backupVars, B!Start, B!PruneDumps, B!Recent, B!CopyDump, B!StartTar,
       B!ReadFile, B!EndTar, B!PruneFiles, B!CopyFiles, B!Copy, B!Record, B!Die, B!Application
  <2> QED BY <2>2, <2>3, <2>4, <2>5
<1>2. SUFFICES \A d \in dumps', x \in archives' : d.night = night' /\ x.night = night' => Told(d, x)'
  BY <1>1 DEF ReadInv
<1>3. \A d \in dumps, x \in archives : d.night = night /\ x.night = night => Told(d, x)
  BY DEF ReadInv
<1>4. CASE B!Start
  <2>1. \A a \in dumps' \cup archives' : a.night \in 1..night
    BY <1>4 DEF B!Start, NightsInv
  <2>2. night' = night + 1
    BY <1>4 DEF B!Start
  <2> QED BY <1>0, <2>1, <2>2
<1>5. CASE B!StartDump \/ B!EndDump \/ B!PruneDumps \/ B!CopyDump
  <2>1. /\ pc \in {"dump", "dumping", "prune dumps", "copy dump"}
        /\ night' = night /\ archives' = archives
    BY <1>5 DEF B!StartDump, B!EndDump, B!PruneDumps, B!CopyDump, B!Copy
  <2> QED BY <2>1 DEF TonightInv
<1>6. CASE B!StartTar
  <2>1. /\ pc = "tar" /\ pc' = "taring" /\ night' = night /\ dumps' = dumps /\ files' = files
        /\ unread' = files /\ archives' = archives \cup {B!Archive({}, FALSE)}
    BY <1>6 DEF B!StartTar, B!Goto, B!storeVars
  <2> QED BY <2>1
<1>7. ASSUME NEW a \in Stored, B!ReadFile(a)
      PROVE  \A d \in dumps', x \in archives' : d.night = night' /\ x.night = night' => Told(d, x)'
  <2>1. /\ pc = "taring" /\ pc' = "taring" /\ night' = night /\ dumps' = dumps /\ files' = files
        /\ unread' = unread \ {a}
    BY <1>7 DEF B!ReadFile, B!storeVars
  <2>2. archives' = {Filled(x, a) : x \in archives}
    BY <1>7, ReadFileIs
  <2>3. \A x \in archives : /\ Filled(x, a).night = x.night
                            /\ x.night = night => Filled(x, a).content = x.content \cup ({a} \cap files)
    BY <1>0, FilledIs
  <2> SUFFICES ASSUME NEW d \in dumps, NEW x \in archives, d.night = night, x.night = night
               PROVE  d.content \cap files \subseteq (unread \ {a}) \cup Filled(x, a).content
    BY <2>1, <2>2, <2>3
  <2>4. d.content \cap files \subseteq unread \cup x.content
    BY <1>3, <2>1
  <2> QED BY <2>3, <2>4
<1>8. CASE B!EndTar
  <2>1. pc = "taring" /\ pc' # "taring" /\ night' = night /\ dumps' = dumps /\ files' = files
    BY <1>8, EndTarIs DEF B!EndTar, B!storeVars
  <2>2. CASE archives' = {Ended(x) : x \in archives} /\ unread = {}
    <3>1. \A x \in archives : Ended(x).night = x.night /\ Ended(x).content = x.content
      BY <1>0, EndedIs
    <3>2. \A d \in dumps, x \in archives : d.night = night /\ x.night = night => d.content \cap files \subseteq x.content
      BY <1>3, <2>1, <2>2
    <3> QED BY <2>1, <2>2, <3>1, <3>2
  <2>3. CASE archives' = {x \in archives : x.night # night}
    BY <2>1, <2>3
  <2> QED BY <1>8, <2>2, <2>3, EndTarIs
<1>9. CASE B!PruneFiles \/ B!CopyFiles \/ B!Record
  <2>1. /\ pc # "taring" /\ pc' # "taring" /\ night' = night /\ dumps' = dumps /\ files' = files
        /\ archives' \subseteq archives
    BY <1>9 DEF B!PruneFiles, B!CopyFiles, B!Copy, B!Record, B!Goto, B!Recent, B!storeVars
  <2> QED BY <1>3, <2>1
<1>10. CASE B!Die
  <2>1. pc' # "taring" /\ night' = night /\ dumps' = dumps /\ files' = files /\ archives' = archives
    BY <1>10 DEF B!Die, B!Goto, B!storeVars
  <2>2. CASE pc = "taring"
    BY <2>1, <2>2 DEF TonightInv
  <2>3. CASE pc # "taring"
    BY <1>3, <2>1, <2>3
  <2> QED BY <2>2, <2>3
<1>11. CASE B!Application
  <2>1. UNCHANGED <<pc, night, dumps, archives, unread>> /\ files' \subseteq files \cup fresh
    BY <1>11 DEF B!Application, B!StoreNext, B!Store, B!List, B!Abandon, B!Unlist, B!Discard
  <2>2. \A d \in dumps : d.content \cap files' \subseteq d.content \cap files
    BY <2>1 DEF ReadInv
  <2> QED BY <1>3, <2>1, <2>2
<1>12. CASE UNCHANGED B!backupVars
  BY <1>3, <1>12 DEF B!backupVars, B!storeVars
<1> QED BY <1>4, <1>5, <1>6, <1>7, <1>8, <1>9, <1>10, <1>11, <1>12 DEF BackupStepped, B!BackupNext

\* The last archive of a night that is whole and not old stays so.
LEMMA WholeStays ==
  ASSUME BackupTyped, NightsInv, TonightInv, BackupStepped, NEW n \in Nat, n + Keep >= night', pc # "asleep" => n < night
  PROVE  /\ (\E d \in dumps : d.whole /\ d.night = n) => \E d \in dumps' : d.whole /\ d.night = n
         /\ (\E x \in archives : x.whole /\ x.night = n) => \E x \in archives' : x.whole /\ x.night = n
<1>0. night \in Nat /\ dumps \subseteq Kinds /\ archives \subseteq Kinds
  BY DEF BackupTyped
<1>1. CASE B!EndDump
  <2>1. archives' = archives /\ n # night
    <3>1. pc = "dumping" /\ archives' = archives
      BY <1>1 DEF B!EndDump
    <3> QED BY <1>0, <3>1
  <2>2. CASE dumps' = {Ended(d) : d \in dumps}
    <3>1. \A d \in dumps : Ended(d).night = d.night /\ (d.whole => Ended(d).whole)
      BY <1>0, EndedIs
    <3> QED BY <2>1, <2>2, <3>1
  <2>3. CASE dumps' = {d \in dumps : d.night # night}
    BY <2>1, <2>3
  <2> QED BY <1>1, <2>2, <2>3, EndDumpIs
<1>2. CASE B!EndTar
  <2>1. dumps' = dumps /\ n # night
    <3>1. pc = "taring" /\ dumps' = dumps
      BY <1>2 DEF B!EndTar
    <3> QED BY <1>0, <3>1
  <2>2. CASE archives' = {Ended(x) : x \in archives}
    <3>1. \A x \in archives : Ended(x).night = x.night /\ (x.whole => Ended(x).whole)
      BY <1>0, EndedIs
    <3> QED BY <2>1, <2>2, <3>1
  <2>3. CASE archives' = {x \in archives : x.night # night}
    BY <2>1, <2>3
  <2> QED BY <1>2, <2>2, <2>3, EndTarIs
<1>3. ASSUME NEW a \in Stored, B!ReadFile(a)
      PROVE  dumps' = dumps /\ ((\E x \in archives : x.whole /\ x.night = n) => \E x \in archives' : x.whole /\ x.night = n)
  <2>1. dumps' = dumps /\ archives' = {Filled(x, a) : x \in archives}
    BY <1>3, ReadFileIs DEF B!ReadFile
  <2>2. \A x \in archives : Filled(x, a).night = x.night /\ Filled(x, a).whole = x.whole
    BY <1>0, FilledIs
  <2> QED BY <2>1, <2>2
<1>4. CASE B!PruneDumps \/ B!PruneFiles
  <2>1. /\ night' = night
        /\ dumps' = dumps \/ dumps' = {d \in dumps : d.night + Keep >= night}
        /\ archives' = archives \/ archives' = {x \in archives : x.night + Keep >= night}
    BY <1>4 DEF B!PruneDumps, B!PruneFiles, B!Recent
  <2> QED BY <2>1
<1>5. CASE dumps \subseteq dumps' /\ archives \subseteq archives'
  BY <1>5
<1> QED BY <1>1, <1>2, <1>3, <1>4, <1>5
  DEF BackupStepped, B!BackupNext, B!backupVars, B!Start, B!StartDump, B!CopyDump, B!StartTar, B!CopyFiles, B!Copy,
      B!Record, B!Die, B!Application

LEMMA CopiedStep ==
  ASSUME BackupInv, BackupStepped PROVE B!OkMeansBothCopied'
<1>0. /\ BackupTyped /\ NightsInv /\ TonightInv /\ OkInv /\ B!OkMeansBothCopied /\ BackupTyped' /\ NightsInv'
      /\ night \in Nat /\ health \in Seq(Report)
  BY BackupTypedStep, NightsStep DEF BackupInv, BackupTyped
<1>1. CASE health' = health
  <2> SUFFICES ASSUME Len(health) > 0, health[Len(health)].status = "OK"
               PROVE  /\ <<"dump", health[Len(health)].night>> \in remote' /\ <<"files", health[Len(health)].night>> \in remote'
                      /\ health[Len(health)].night + Keep >= night' =>
                           /\ \E d \in dumps' : d.whole /\ d.night = health[Len(health)].night
                           /\ \E x \in archives' : x.whole /\ x.night = health[Len(health)].night
    BY <1>1 DEF B!OkMeansBothCopied, B!ReportOK, B!Latest
  <2>1. PICK n : n = health[Len(health)].night
    OBVIOUS
  <2>2. n \in Nat /\ (pc # "asleep" => n < night)
    <3>1. Len(health) \in DOMAIN health /\ health[Len(health)] \in Report
      BY <1>0
    <3> QED BY <1>0, <2>1, <3>1 DEF NightsInv, Report
  <2>3. /\ <<"dump", n>> \in remote /\ <<"files", n>> \in remote
        /\ n + Keep >= night => /\ \E d \in dumps : d.whole /\ d.night = n
                                /\ \E x \in archives : x.whole /\ x.night = n
    BY <1>0, <2>1 DEF B!OkMeansBothCopied, B!ReportOK, B!Latest
  <2>4. remote \subseteq remote' /\ (night' = night \/ night' = night + 1)
    BY DEF BackupStepped, B!BackupNext, B!backupVars, B!Start, B!StartDump, B!EndDump, B!PruneDumps, B!CopyDump,
       B!StartTar, B!ReadFile, B!EndTar, B!PruneFiles, B!CopyFiles, B!Copy, B!Record, B!Die, B!Application
  <2>5. n + Keep >= night' => n + Keep >= night
    BY <1>0, <2>2, <2>4, KeepAssumption
  <2> QED BY <1>0, <2>1, <2>2, <2>3, <2>4, <2>5, WholeStays
<1>2. CASE B!Record
  <2>1. /\ pc = "record" /\ health' = Append(health, [night |-> night, status |-> status])
        /\ UNCHANGED <<night, dumps, archives, remote>>
    BY <1>2 DEF B!Record
  <2>2. Len(health') = Len(health) + 1 /\ health'[Len(health')] = [night |-> night, status |-> status]
    BY <1>0, <2>1
  <2>3. B!Latest' = [night |-> night, status |-> status]
    BY <2>2 DEF B!Latest
  <2> QED BY <1>0, <2>1, <2>3 DEF B!OkMeansBothCopied, B!ReportOK, OkInv
<1>3. health' = health \/ B!Record
  BY DEF BackupStepped, B!BackupNext, B!backupVars, B!Start, B!StartDump, B!EndDump, B!PruneDumps, B!CopyDump,
     B!StartTar, B!ReadFile, B!EndTar, B!PruneFiles, B!CopyFiles, B!Copy, B!Die, B!Application
<1> QED BY <1>1, <1>2, <1>3

LEMMA BackupStep == BackupInv /\ BackupStepped => BackupInv'
BY BackupTypedStep, NightsStep, TonightStep, OkStep, ReadStep, CopiedStep DEF BackupInv

\* Behind the last run that was OK, a history has failures alone; its number is 0 only after an OK.
LEMMA FailuresCounted ==
  ASSUME health \in Seq(Report), B!ConsecutiveFailures = 0 PROVE Len(health) = 0 \/ B!ReportOK
<1> DEFINE AllFailed(n) == \A i \in (n + 1)..Len(health) : health[i].status = "FAILED"
           Behind(n) == (n > 0 => health[n].status # "FAILED") /\ AllFailed(n)
           Upto(n) == 1..n
           T == {Upto(n) : n \in {m \in 0..Len(health) : AllFailed(m)}}
<1>1. /\ Len(health) \in Nat /\ IsFiniteSet(1..Len(health))
      /\ \A i \in 1..Len(health) : health[i].status \in {"OK", "FAILED"}
  <2>1. Len(health) \in Nat
    OBVIOUS
  <2>2. IsFiniteSet(1..Len(health))
    BY <2>1, FS_Interval, 1 \in Int, Len(health) \in Int
  <2>3. \A i \in 1..Len(health) : health[i] \in Report
    OBVIOUS
  <2> QED BY <2>1, <2>2, <2>3 DEF Report
<1>2. \E n \in 0..Len(health) : Behind(n)
  <2>1. T \subseteq SUBSET (1..Len(health))
    BY <1>1
  <2>2. T # {}
    <3>1. AllFailed(Len(health)) /\ Len(health) \in 0..Len(health)
      BY <1>1
    <3> QED BY <3>1
  <2>3. PICK s \in T : \A t \in T : t \subseteq s => t = s
    <3> DEFINE All == 1..Len(health)
    <3>1. IsFiniteSet(All) /\ T \subseteq SUBSET All
      BY <1>1, <2>1
    <3> HIDE DEF T, All
    <3> QED BY <2>2, <3>1, SmallestSubset
  <2>4. PICK n \in 0..Len(health) : s = Upto(n) /\ AllFailed(n)
    OBVIOUS
  <2>5. CASE n > 0 /\ health[n].status = "FAILED"
    <3>1. n - 1 \in 0..Len(health) /\ AllFailed(n - 1)
      BY <1>1, <2>4, <2>5
    <3>2. Upto(n - 1) \in T
      BY <3>1
    <3>3. Upto(n - 1) \subseteq s /\ n \in s /\ n \notin Upto(n - 1)
      BY <1>1, <2>4, <2>5
    <3> QED BY <2>3, <3>2, <3>3
  <2>6. CASE ~(n > 0 /\ health[n].status = "FAILED")
    BY <2>4, <2>6
  <2> QED BY <2>5, <2>6
<1>3. PICK n \in 0..Len(health) : Behind(n) /\ B!ConsecutiveFailures = Len(health) - n
  <2> DEFINE N == CHOOSE n \in 0..Len(health) : Behind(n)
  <2>1. N \in 0..Len(health) /\ Behind(N)
    BY <1>2
  <2>2. B!ConsecutiveFailures = Len(health) - N
    BY DEF B!ConsecutiveFailures
  <2> HIDE DEF N, Behind
  <2> QED BY <2>1, <2>2
<1>4. n = Len(health)
  BY <1>1, <1>3
<1> QED BY <1>1, <1>3, <1>4 DEF B!ReportOK, B!Latest

LEMMA BackupInvImplies == BackupInv => OkBackupRestores
<1> SUFFICES ASSUME BackupInv PROVE OkBackupRestores
  OBVIOUS
<1>0. /\ BackupTyped /\ NightsInv /\ TonightInv /\ ReadInv /\ B!OkMeansBothCopied
      /\ rows \subseteq files /\ health \in Seq(Report)
  BY DEF BackupInv, BackupTyped
<1>1. B!BackupTypeOK
  <2>1. \A i \in DOMAIN health : health[i].status \in {"OK", "FAILED"}
    <3>1. \A i \in DOMAIN health : health[i] \in Report
      BY <1>0
    <3> QED BY <3>1 DEF Report
  <2>2. \A a \in dumps \cup archives : a.night \in 1..night /\ a.content \subseteq Stored
    BY <1>0 DEF NightsInv, BackupTyped, Kinds
  <2>3. B!ListedIsStored
    BY <1>0 DEF B!ListedIsStored
  <2> QED BY <1>0, <2>1, <2>2, <2>3, FailuresCounted DEF B!BackupTypeOK
<1>2. B!UndisturbedIsWhole
  <2> SUFFICES ASSUME NEW d \in dumps, NEW x \in archives, d.night = night, x.night = night, d.whole, x.whole
               PROVE  d.content \cap rows \subseteq x.content
    BY DEF B!UndisturbedIsWhole
  <2>1. pc # "taring"
    BY <1>0 DEF TonightInv
  <2> QED BY <1>0, <2>1 DEF ReadInv
<1> QED BY <1>0, <1>1, <1>2 DEF OkBackupRestores

\* What pruning may do: it keeps a whole archive whenever there was one.
LEMMA PruningKeeps ==
  ASSUME BackupInv, BackupStepped
  PROVE  /\ (\E d \in dumps : d.whole) => \E d \in dumps' : d.whole
         /\ (\E x \in archives : x.whole) => \E x \in archives' : x.whole
<1>0. /\ BackupTyped /\ NightsInv /\ TonightInv
      /\ night \in Nat /\ dumps \subseteq Kinds /\ archives \subseteq Kinds
  BY DEF BackupInv, BackupTyped
<1>1. CASE B!EndDump
  <2>1. pc = "dumping" /\ archives' = archives
    BY <1>1 DEF B!EndDump
  <2>2. CASE dumps' = {Ended(d) : d \in dumps}
    <3>1. \A d \in dumps : d.whole => Ended(d).whole
      BY <1>0, EndedIs
    <3> QED BY <2>1, <2>2, <3>1
  <2>3. CASE dumps' = {d \in dumps : d.night # night}
    BY <1>0, <2>1, <2>3 DEF TonightInv
  <2> QED BY <1>1, <2>2, <2>3, EndDumpIs
<1>2. CASE B!EndTar
  <2>1. pc = "taring" /\ dumps' = dumps
    BY <1>2 DEF B!EndTar
  <2>2. CASE archives' = {Ended(x) : x \in archives}
    <3>1. \A x \in archives : x.whole => Ended(x).whole
      BY <1>0, EndedIs
    <3> QED BY <2>1, <2>2, <3>1
  <2>3. CASE archives' = {x \in archives : x.night # night}
    BY <1>0, <2>1, <2>3 DEF TonightInv
  <2> QED BY <1>2, <2>2, <2>3, EndTarIs
<1>3. ASSUME NEW a \in Stored, B!ReadFile(a)
      PROVE  dumps' = dumps /\ ((\E x \in archives : x.whole) => \E x \in archives' : x.whole)
  <2>1. dumps' = dumps /\ archives' = {Filled(x, a) : x \in archives}
    BY <1>3, ReadFileIs DEF B!ReadFile
  <2>2. \A x \in archives : Filled(x, a).whole = x.whole
    BY <1>0, FilledIs
  <2> QED BY <2>1, <2>2
<1>4. CASE B!PruneDumps
  <2>1. pc = "prune dumps" /\ dumps' = B!Recent(dumps) /\ archives' = archives
    BY <1>4 DEF B!PruneDumps
  <2>2. PICK d \in dumps : d.night = night /\ d.whole
    BY <1>0, <2>1 DEF TonightInv
  <2> QED BY <1>0, <2>1, <2>2, RecentHasTonight
<1>5. CASE B!PruneFiles
  <2>1. pc = "prune files" /\ archives' = B!Recent(archives) /\ dumps' = dumps
    BY <1>5 DEF B!PruneFiles
  <2>2. PICK x \in archives : x.night = night /\ x.whole
    BY <1>0, <2>1 DEF TonightInv
  <2> QED BY <1>0, <2>1, <2>2, RecentHasTonight
<1>6. CASE dumps \subseteq dumps' /\ archives \subseteq archives'
  BY <1>6
<1> QED BY <1>1, <1>2, <1>3, <1>4, <1>5, <1>6
  DEF BackupStepped, B!BackupNext, B!backupVars, B!Start, B!StartDump, B!CopyDump, B!StartTar, B!CopyFiles, B!Copy,
      B!Record, B!Die, B!Application

\* OkBackupRestores: an OK is said of two archives that were made and copied, and what nothing
\* disturbed restores whole, for any documents, nights and term of keeping.
THEOREM BackupsRestore == B!BackupSpec => []OkBackupRestores
<1>1. BackupInv /\ [B!BackupNext]_(B!backupVars) => BackupInv'
  BY BackupStep DEF BackupStepped
<1> QED BY <1>1, BackupInitially, BackupInvImplies, PTL DEF B!BackupSpec

\* AnArchiveIsKept: pruning never takes the last dump that can be restored, nor the last archive of
\* the files.
THEOREM LastArchiveStays == B!BackupSpec => AnArchiveIsKept
<1>1. BackupInv /\ [B!BackupNext]_(B!backupVars) => BackupInv'
  BY BackupStep DEF BackupStepped
<1>2. BackupInv /\ [B!BackupNext]_(B!backupVars) =>
        [/\ (\E d \in dumps : d.whole) => \E d \in dumps' : d.whole
         /\ (\E x \in archives : x.whole) => \E x \in archives' : x.whole]_(B!backupVars)
  BY PruningKeeps DEF BackupStepped
<1> QED BY <1>1, <1>2, BackupInitially, PTL DEF B!BackupSpec, AnArchiveIsKept, B!AnArchiveIsKept

\* Everything the run "documents" checks: a part that is not played stays where it started, so the
\* run's behaviours are behaviours of each part.
THEOREM DocumentsAllHold ==
  DocumentsSpec => []RowsAreBacked /\ ImplementsStore /\ []OkBackupRestores /\ AnArchiveIsKept
<1>1. [DocumentsNext]_<<part, allVars, nightVars>>
        => [AttachmentsNext]_allVars /\ [B!BackupNext]_(B!backupVars)
  <2>1. UNCHANGED nightVars => UNCHANGED B!backupVars
    BY DEF nightVars, B!backupVars, B!storeVars
  <2> QED BY <2>1 DEF DocumentsNext
<1>2. DocumentsSpec => AttachmentsSpec /\ B!BackupSpec
  BY <1>1, PTL DEF DocumentsSpec, DocumentsInit, AttachmentsSpec, B!BackupSpec
<1> QED BY <1>2, DocumentsAreBacked, DocumentsImplementTheStore, BackupsRestore, LastArchiveStays

===============================================================================
