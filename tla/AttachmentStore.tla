---------------------------- MODULE AttachmentStore ----------------------------
(***************************************************************************)
(* What the attachments promise to everything that reads them: documents   *)
(* come and go, each once, and at every moment a row that is listed has    *)
(* the whole of its file, while a file may be there before its row and     *)
(* after it.                                                               *)
(*                                                                         *)
(* The abstract specification that module Attachments implements step by   *)
(* step, and the store that the nightly backup of module Backup copies.    *)
(***************************************************************************)
CONSTANT Attachment

VARIABLES fresh, \* the attachments that may still be stored
          rows,  \* the attachments that are listed
          files  \* the attachments whose file is there, whole

storeVars == <<fresh, rows, files>>

StoreInit == fresh = Attachment /\ rows = {} /\ files = {}

\* An upload has written its file, and then its row; or it was given up before.
Store(a)   == a \in fresh /\ fresh' = fresh \ {a} /\ files' = files \cup {a} /\ UNCHANGED rows
List(a)    == a \in files \ rows /\ rows' = rows \cup {a} /\ UNCHANGED <<fresh, files>>
Abandon(a) == a \in fresh /\ fresh' = fresh \ {a} /\ UNCHANGED <<rows, files>>

\* A removal deletes a row, a retracted obligation all of its rows; only then do files go.
Unlist(gone) == gone \subseteq rows /\ gone # {} /\ rows' = rows \ gone /\ UNCHANGED <<fresh, files>>
Discard(a)   == a \in files \ rows /\ files' = files \ {a} /\ UNCHANGED <<fresh, rows>>

StoreNext ==
  \/ \E a \in Attachment : Store(a) \/ List(a) \/ Abandon(a) \/ Discard(a)
  \/ \E gone \in SUBSET Attachment : Unlist(gone)

StoreSpec == StoreInit /\ [][StoreNext]_storeVars

\* Every listed attachment can be downloaded whole.
ListedIsStored == rows \subseteq files
===============================================================================
