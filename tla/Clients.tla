-------------------------------- MODULE Clients --------------------------------
(***************************************************************************)
(* The register of clients: clients.service.ts, and the form that creates  *)
(* and edits them (ClientForm.tsx, its pages, ClientHeader.tsx), open in   *)
(* several tabs at once.                                                   *)
(*                                                                         *)
(* A request is as many steps as it has statements; each statement is      *)
(* atomic in PostgreSQL and the unique index on taxId is checked by the    *)
(* writing one.  A row keeps the fields the properties tell apart: kind,   *)
(* tax id, one optional field both kinds have (email) and one only an      *)
(* individual has (socialSecurityNo).                                      *)
(***************************************************************************)
EXTENDS Naturals, FiniteSets

CONSTANTS Client,     \* the ids uuidv7 gives to the clients created
          TaxId,      \* valid tax ids
          Text,       \* values of an optional field
          NoText,     \* an empty input in the form, NULL in a row
          Tab,        \* browser tabs
          MaxForms,   \* bound: forms opened
          MaxEdits    \* bound: inputs changed in a form

Kind == {"COMPANY", "INDIVIDUAL"}
Optional == {"email", "socialSecurityNo"}
Field == Optional \cup {"taxId"}

VARIABLES
  row,      \* Client -> its row, kind "none" before it is created
  archived, \* the clients with an archivedAt
  tab,      \* Tab -> the form it shows and the request it waits for
  forms     \* number of forms opened

clientVars == <<row, archived, tab, forms>>

NoRow == [kind |-> "none", taxId |-> NoText, email |-> NoText, socialSecurityNo |-> NoText]
EmptyForm == [NoRow EXCEPT !.kind = "COMPANY"]
Closed == [at |-> "closed", mode |-> "create", id |-> NoText, edits |-> 0, baseline |-> NoRow,
           form |-> NoRow, sent |-> {}, existing |-> NoRow, answer |-> "none"]

Exists(c) == row[c].kind # "none"
HoldersOf(taxId) == {c \in Client : Exists(c) /\ row[c].taxId = taxId}

ClientsInit ==
  /\ row = [c \in Client |-> NoRow]
  /\ archived = {}
  /\ tab = [t \in Tab |-> Closed]
  /\ forms = 0

-------------------------------------------------------------------------------
(* The form *)

\* ClientFormPage: a company, every input empty.
OpenNew(t) ==
  /\ tab[t].at = "closed" /\ forms < MaxForms
  /\ forms' = forms + 1
  /\ tab' = [tab EXCEPT ![t] = [Closed EXCEPT !.at = "form", !.form = EmptyForm]]
  /\ UNCHANGED <<row, archived>>

\* ClientEditPage: the row as it is when the form opens is the baseline of the edit,
\* whatever later refetches bring.
OpenEdit(t, c) ==
  /\ tab[t].at = "closed" /\ forms < MaxForms /\ Exists(c)
  /\ forms' = forms + 1
  /\ tab' = [tab EXCEPT ![t] = [Closed EXCEPT !.at = "form", !.mode = "edit", !.id = c,
                                              !.baseline = row[c], !.form = row[c]]]
  /\ UNCHANGED <<row, archived>>

Typing(t) == tab[t].at = "form" /\ tab[t].edits < MaxEdits

\* Variant: every input is shown for both kinds.
ShownAlways(kind) == Field

\* An input shows only the fields of the form's kind.
Shown(kind) == IF kind = "COMPANY" THEN Field \ {"socialSecurityNo"} ELSE Field

Type(t, f, v) ==
  /\ Typing(t) /\ f \in Shown(tab[t].form.kind)
  /\ v \in (IF f = "taxId" THEN TaxId ELSE Text) \cup {NoText}
  /\ v # tab[t].form[f]
  /\ tab' = [tab EXCEPT ![t].form[f] = v, ![t].edits = @ + 1]
  /\ UNCHANGED <<row, archived, forms>>

\* handleKindChange empties the inputs of the kind that is left; disabled on edit.
ChangeKind(t, kind) ==
  /\ Typing(t) /\ tab[t].mode = "create" /\ kind # tab[t].form.kind
  /\ tab' = [tab EXCEPT ![t].form.kind = kind, ![t].form.socialSecurityNo = NoText, ![t].edits = @ + 1]
  /\ UNCHANGED <<row, archived, forms>>

\* Variant: an emptied input is just not sent.
NeverCleared(form, baseline) == {}

\* clearedFields: a field that had a value and is now empty; PATCH cannot clear one.
ClearedFields(form, baseline) == {f \in Optional : baseline[f] # NoText /\ form[f] = NoText}

\* toCandidate: the fields of the payload, without the empty optional ones.
Candidate(form) == {f \in Shown(form.kind) : f = "taxId" \/ form[f] # NoText}

\* Variant: an edit sends the whole form.
EveryField(form, baseline) == Candidate(form)

\* toUpdate: of those, the ones that differ from the baseline.
Changes(form, baseline) == {f \in Candidate(form) : form[f] # baseline[f]}

\* handleSubmit: refused while the tax id is empty or a field is being cleared.
Submit(t) ==
  LET f == tab[t].form
      sent == IF tab[t].mode = "create" THEN Candidate(f) ELSE Changes(f, tab[t].baseline)
  IN /\ tab[t].at = "form" /\ f.taxId # NoText
     /\ tab[t].mode = "edit" => ClearedFields(f, tab[t].baseline) = {}
     /\ tab' = [tab EXCEPT ![t].at = IF tab[t].mode = "create" THEN "check" ELSE "find",
                           ![t].sent = sent, ![t].answer = "none"]
     /\ UNCHANGED <<row, archived, forms>>

\* The page navigates away from a form that was saved; a refused one stays open with the
\* error until the user submits again or leaves.
Leave(t) ==
  /\ tab[t].at \in {"form", "saved"}
  /\ tab' = [tab EXCEPT ![t] = Closed]
  /\ UNCHANGED <<row, archived, forms>>

-------------------------------------------------------------------------------
(* The requests *)

Refuse(t, code) == tab' = [tab EXCEPT ![t].at = "form", ![t].answer = code] /\ UNCHANGED <<row, archived, forms>>

\* Variant: a tax id that is sent is checked even when it is the client's own.
FindAndAlwaysCheck(t) ==
  LET c == tab[t].id
  IN /\ tab[t].at = "find"
     /\ IF c \in archived THEN Refuse(t, "clients.archived")
        ELSE /\ tab' = [tab EXCEPT ![t].existing = row[c],
                          ![t].at = IF "taxId" \in tab[t].sent THEN "check" ELSE "write"]
             /\ UNCHANGED <<row, archived, forms>>

\* update's first read, and its checks on what it returned.
FindExisting(t) ==
  LET c == tab[t].id
  IN /\ tab[t].at = "find"
     /\ IF c \in archived THEN Refuse(t, "clients.archived")
        ELSE /\ tab' = [tab EXCEPT ![t].existing = row[c],
                          ![t].at = IF "taxId" \in tab[t].sent /\ tab[t].form.taxId # row[c].taxId
                                    THEN "check" ELSE "write"]
             /\ UNCHANGED <<row, archived, forms>>

\* assertTaxIdFree: a read of its own, before the write of create and of update.
AssertTaxIdFree(t) ==
  /\ tab[t].at = "check"
  /\ IF HoldersOf(tab[t].form.taxId) # {} THEN Refuse(t, "clients.tax_id_taken")
     ELSE tab' = [tab EXCEPT ![t].at = "write"] /\ UNCHANGED <<row, archived, forms>>

\* toTaxIdConflictOr.  The driver adapter does not fill error.meta.target in (the comments of
\* platforms.service.ts:57 and obligations.service.ts:257), so targetsTaxId finds no target.
ConflictAnswer == "common.internal_error"

\* The write of create and of update; the unique index refuses a tax id another row holds.
Write(t) ==
  LET req == tab[t]
      before == IF req.mode = "create" THEN NoRow ELSE row[req.id]
      written == [f \in DOMAIN NoRow |-> IF f \in req.sent THEN req.form[f]
                                         ELSE IF f = "kind" THEN req.form.kind ELSE before[f]]
  IN /\ req.at = "write"
     /\ \E c \in Client :
          /\ IF req.mode = "create" THEN ~Exists(c) ELSE c = req.id
          /\ IF HoldersOf(written.taxId) \ {c} # {} THEN Refuse(t, ConflictAnswer)
             ELSE /\ row' = [row EXCEPT ![c] = written]
                  /\ tab' = [tab EXCEPT ![t].at = "saved", ![t].answer = "ok"]
                  /\ UNCHANGED <<archived, forms>>

\* Variant: archive does not look for the client first.
ArchiveAny(c) == c \notin archived /\ archived' = archived \cup {c} /\ UNCHANGED <<row, tab, forms>>

\* Archive and restore, buttons of ClientHeader: a findOne that changes nothing, then the UPDATE.
Archive(c) == Exists(c) /\ c \notin archived /\ archived' = archived \cup {c} /\ UNCHANGED <<row, tab, forms>>
Restore(c) == c \in archived /\ archived' = archived \ {c} /\ UNCHANGED <<row, tab, forms>>

ClientsNext ==
  \/ \E t \in Tab : \/ OpenNew(t) \/ Submit(t) \/ Leave(t)
                    \/ FindExisting(t) \/ AssertTaxIdFree(t) \/ Write(t)
                    \/ \E c \in Client : OpenEdit(t, c)
                    \/ \E k \in Kind : ChangeKind(t, k)
                    \/ \E f \in Field, v \in TaxId \cup Text \cup {NoText} : Type(t, f, v)
  \/ \E c \in Client : Archive(c) \/ Restore(c)

ClientsSpec == ClientsInit /\ [][ClientsNext]_clientVars

-------------------------------------------------------------------------------
(* Properties *)

ClientsTypeOK ==
  /\ \A c \in Client : row[c].kind \in Kind \cup {"none"} /\ row[c].taxId \in TaxId \cup {NoText}
  /\ archived \subseteq {c \in Client : Exists(c)}
  /\ \A t \in Tab : tab[t].sent \subseteq Field /\ tab[t].form.kind \in Kind \cup {"none"}
  /\ forms \in 0..MaxForms

\* Of two tabs that edit a client, neither puts back a value the other replaced: what a save
\* changes is what its own user changed, however old the page is ("a stale field the user never
\* touched would be sent back over a fresh one", ClientForm.tsx:136).
NoLostUpdate ==
  [][\A t \in Tab, f \in Field :
       tab[t].at = "write" /\ tab'[t].at = "saved" /\ tab[t].mode = "edit"
         /\ tab[t].form[f] = tab[t].baseline[f]
       => row'[tab[t].id][f] = row[tab[t].id][f]]_clientVars

\* A save that answers ok never seemed to empty a field while the row keeps its value, unless
\* somebody else filled it in since the form was opened.
NothingSeemsCleared ==
  \A t \in Tab, f \in Optional :
    tab[t].at = "saved" /\ tab[t].mode = "edit" /\ tab[t].form[f] = NoText => tab[t].baseline[f] = NoText

\* The kind CHECK of the table (client_kind_fields) never has to refuse a row: whatever was typed
\* before the kind was switched, a company has no social security number.
KindFieldsHold == \A c \in Client : row[c].kind = "COMPANY" => row[c].socialSecurityNo = NoText

\* A client never conflicts with itself: a save refused for its tax id met another client's, even
\* when a second tab stored the very tax id this one sends, unless it did so between the two
\* reads of the request.
NoConflictWithItself ==
  [][\A t \in Tab :
       tab'[t].answer = "clients.tax_id_taken" /\ tab[t].answer # "clients.tax_id_taken"
       => \/ HoldersOf(tab[t].form.taxId) \ {tab[t].id} # {}
          \/ row[tab[t].id].taxId # tab[t].existing.taxId]_clientVars

\* clients.service.ts:111: the unique index's refusal is turned into clients.tax_id_taken "instead
\* of letting it fall through to the catch-all filter as an opaque 500".
RaceIsNamed == \A t \in Tab : tab[t].answer # "common.internal_error"
===============================================================================
