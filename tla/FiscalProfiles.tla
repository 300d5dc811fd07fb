---------------------------- MODULE FiscalProfiles -----------------------------
(***************************************************************************)
(* A client's fiscal profile: the form that edits it (FiscalProfileForm),  *)
(* the consistency rules shared by form and server                         *)
(* (checkFiscalProfileConsistency), the upsert and its audit event         *)
(* (fiscal-profiles.service.ts, audit.service.ts), and the entries of the  *)
(* catalogue that then apply to the client.                                *)
(*                                                                         *)
(* isVatCashBasis and startedAt, which no rule and no condition reads, are *)
(* left out.                                                               *)
(***************************************************************************)
EXTENDS FiscalCatalogue, FiniteSets

CONSTANTS Client, KindOf(_),  \* the clients and their immutable kinds
          Tab,
          MaxEdits,           \* bound: inputs changed in one opening of the form
          MaxSaves            \* bound: forms submitted

VatRegime == {"MONTHLY", "QUARTERLY", "EXEMPT", "NOT_APPLICABLE"}
IncomeTax == {"CIT", "PIT_CATEGORY_B", "PIT_EMPLOYMENT_ONLY"}
Profile == [hasOpenActivity: BOOLEAN, vatRegime: VatRegime, incomeTax: IncomeTax,
            hasEmployees: BOOLEAN, hasWithholding: BOOLEAN]
NoProfile == [none |-> TRUE]

VARIABLES
  profile,  \* Client -> its row, or NoProfile
  audit,    \* the audit events of profiles, in order: the client, before and after
  tab,      \* Tab -> its form and its request
  saves,
  log       \* Client -> the writes its row really saw, in order (for the properties only)

profileVars == <<profile, audit, tab, saves, log>>

\* A page of a client: its query, what it last returned, and the form and the request it holds.
Away == [at |-> "away", client |-> "nobody", query |-> "pending", shown |-> NoProfile, writesSeen |-> 0,
         values |-> NoProfile, new |-> FALSE, edits |-> 0, before |-> NoProfile, after |-> NoProfile]

ProfilesInit ==
  /\ profile = [c \in Client |-> NoProfile]
  /\ audit = <<>>
  /\ tab = [t \in Tab |-> Away]
  /\ saves = 0
  /\ log = [c \in Client |-> <<>>]

\* Variant: the income tax regime is not compared with the kind.
ViolationsButIncomeTax(kind, input) ==
  (IF kind = "COMPANY" /\ ~input.hasOpenActivity
     THEN {"open_activity_required_for_company"} ELSE {}) \cup
  (IF ~input.hasOpenActivity /\ input.vatRegime # "NOT_APPLICABLE"
     THEN {"vat_regime_requires_open_activity"} ELSE {}) \cup
  (IF kind = "INDIVIDUAL" /\ input.hasEmployees
     THEN {"employees_flag_not_allowed_for_individual"} ELSE {})

\* checkFiscalProfileConsistency: every rule the values break.
Violations(kind, input) ==
  (IF kind = "COMPANY" /\ ~input.hasOpenActivity
     THEN {"open_activity_required_for_company"} ELSE {}) \cup
  (IF ~input.hasOpenActivity /\ input.vatRegime # "NOT_APPLICABLE"
     THEN {"vat_regime_requires_open_activity"} ELSE {}) \cup
  (IF (input.incomeTax = "CIT") # (kind = "COMPANY")
     THEN {"income_tax_incompatible_with_kind"} ELSE {}) \cup
  (IF kind = "INDIVIDUAL" /\ input.hasEmployees
     THEN {"employees_flag_not_allowed_for_individual"} ELSE {})

\* Variant: one set of defaults, but for the income tax.
DefaultsForAny(kind) ==
  [hasOpenActivity |-> TRUE, vatRegime |-> "MONTHLY", incomeTax |-> "CIT",
   hasEmployees |-> FALSE, hasWithholding |-> FALSE]

DefaultsFor(kind) ==
  IF kind = "COMPANY"
  THEN [hasOpenActivity |-> TRUE, vatRegime |-> "MONTHLY", incomeTax |-> "CIT",
        hasEmployees |-> FALSE, hasWithholding |-> FALSE]
  ELSE [hasOpenActivity |-> FALSE, vatRegime |-> "NOT_APPLICABLE", incomeTax |-> "PIT_CATEGORY_B",
        hasEmployees |-> FALSE, hasWithholding |-> FALSE]

-------------------------------------------------------------------------------
(* FiscalProfileCard and FiscalProfileForm *)

Visit(t, c) ==
  /\ tab[t].at = "away" /\ saves < MaxSaves
  /\ tab' = [tab EXCEPT ![t] = [Away EXCEPT !.at = "card", !.client = c, !.writesSeen = Len(log[c])]]
  /\ UNCHANGED <<profile, audit, saves, log>>

Leave(t) ==
  /\ tab[t].at = "card" /\ tab' = [tab EXCEPT ![t] = Away]
  /\ UNCHANGED <<profile, audit, saves, log>>

\* The form of what the query returned: defaults when it answered that there is no profile.
Opened(page) ==
  [page EXCEPT !.at = "form", !.edits = 0, !.new = page.shown = NoProfile,
               !.values = IF page.shown = NoProfile THEN DefaultsFor(KindOf(page.client)) ELSE page.shown]

\* The query of the card, and its refetches: no profile is an answer (404).  A form that was
\* taken away by a failed refetch comes back, opened anew.
Fetch(t) ==
  LET c == tab[t].client
      page == [tab[t] EXCEPT !.query = "answered", !.shown = profile[c],
                             !.writesSeen = IF tab[t].at = "form" THEN @ ELSE Len(log[c])]
  IN /\ tab[t].at \in {"card", "form", "hidden"}
     /\ tab' = [tab EXCEPT ![t] = IF page.at = "hidden" THEN Opened(page) ELSE page]
     /\ UNCHANGED <<profile, audit, saves, log>>

\* A failure keeps what an earlier answer returned, and takes the form away: canEdit is false.
FetchFails(t) ==
  /\ tab[t].at \in {"card", "form", "hidden"} /\ tab[t].query # "failed"
  /\ tab' = [tab EXCEPT ![t].query = "failed", ![t].at = IF @ = "form" THEN "hidden" ELSE @]
  /\ UNCHANGED <<profile, audit, saves, log>>

\* Variant: a query that failed is taken for a profile that does not exist.
OpenFormAfterFailure(t) ==
  /\ tab[t].at = "card" /\ tab[t].query # "pending"
  /\ tab' = [tab EXCEPT ![t] = Opened(tab[t])]
  /\ UNCHANGED <<profile, audit, saves, log>>

\* Variant: the form opens with what the query returned.
OpenFormAsFetched(t) ==
  /\ tab[t].at = "card" /\ tab[t].query = "answered"
  /\ tab' = [tab EXCEPT ![t].at = "form", ![t].edits = 0, ![t].values = tab[t].shown]
  /\ UNCHANGED <<profile, audit, saves, log>>

OpenForm(t) ==
  /\ tab[t].at = "card" /\ tab[t].query = "answered"
  /\ tab' = [tab EXCEPT ![t] = Opened(tab[t])]
  /\ UNCHANGED <<profile, audit, saves, log>>

\* A company has no input for its open activity, an individual none for employees.
Edit(t, values) ==
  LET kind == KindOf(tab[t].client)
      now == tab[t].values
  IN /\ tab[t].at = "form" /\ tab[t].edits < MaxEdits
     /\ Cardinality({f \in DOMAIN now : now[f] # values[f]}) = 1
     /\ kind = "COMPANY" => values.hasOpenActivity = now.hasOpenActivity
     /\ kind = "INDIVIDUAL" => values.hasEmployees = now.hasEmployees
     /\ tab' = [tab EXCEPT ![t].values = values, ![t].edits = @ + 1]
     /\ UNCHANGED <<profile, audit, saves, log>>

\* onSubmit: not while a violation shows.
Save(t) ==
  /\ tab[t].at = "form" /\ saves < MaxSaves
  /\ Violations(KindOf(tab[t].client), tab[t].values) = {}
  /\ tab' = [tab EXCEPT ![t].at = "check"]
  /\ saves' = saves + 1
  /\ UNCHANGED <<profile, audit, log>>

Cancel(t) ==
  /\ tab[t].at \in {"form", "refused", "hidden"}
  /\ tab' = [tab EXCEPT ![t].at = "card", ![t].values = NoProfile, ![t].edits = 0, ![t].new = FALSE,
                        ![t].before = NoProfile, ![t].after = NoProfile]
  /\ UNCHANGED <<profile, audit, saves, log>>

-------------------------------------------------------------------------------
(* upsert *)

\* The client's kind, the rules, then the read of the row for the audit's sake.
ReadBefore(t) ==
  LET c == tab[t].client
  IN /\ tab[t].at = "check"
     /\ tab' = [tab EXCEPT ![t].at = IF Violations(KindOf(c), tab[t].values) # {} THEN "refused" ELSE "upsert",
                           ![t].before = profile[c]]
     /\ UNCHANGED <<profile, audit, saves, log>>

Upsert(t) ==
  LET c == tab[t].client
  IN /\ tab[t].at = "upsert"
     /\ profile' = [profile EXCEPT ![c] = tab[t].values]
     /\ log' = [log EXCEPT ![c] = Append(@, [from |-> profile[c], to |-> tab[t].values])]
     /\ tab' = [tab EXCEPT ![t].at = "audit", ![t].after = tab[t].values]
     /\ UNCHANGED <<audit, saves>>

\* audit.record: an INSERT of its own; the answer refetches the card before the form closes.
Record(t) ==
  LET c == tab[t].client
  IN /\ tab[t].at = "audit"
     /\ audit' = Append(audit, [client |-> c, from |-> tab[t].before, to |-> tab[t].after])
     /\ tab' = [tab EXCEPT ![t] = [Away EXCEPT !.at = "card", !.client = c, !.query = "answered",
                                               !.shown = profile[c], !.writesSeen = Len(log[c])]]
     /\ UNCHANGED <<profile, saves, log>>

\* That INSERT fails, or the process stops before it: the profile stays, unaudited.
RecordFails(t) ==
  /\ tab[t].at = "audit"
  /\ tab' = [tab EXCEPT ![t].at = "form"]
  /\ UNCHANGED <<profile, audit, saves, log>>

ProfilesNext ==
  \E t \in Tab : \/ \E c \in Client : Visit(t, c)
                 \/ Leave(t) \/ Fetch(t) \/ FetchFails(t) \/ OpenForm(t)
                 \/ \E values \in Profile : Edit(t, values)
                 \/ Save(t) \/ Cancel(t) \/ ReadBefore(t) \/ Upsert(t) \/ Record(t) \/ RecordFails(t)

ProfilesSpec == ProfilesInit /\ [][ProfilesNext]_profileVars

-------------------------------------------------------------------------------
(* Properties *)

ProfilesTypeOK ==
  /\ profile \in [Client -> Profile \cup {NoProfile}]
  /\ \A i \in DOMAIN audit : audit[i].client \in Client /\ audit[i].to \in Profile
  /\ \A t \in Tab : tab[t].at \notin {"away", "card"} => tab[t].values \in Profile

\* A form never opens with violations showing (the comment of defaultsFor), and what it lets
\* through the server never refuses.
FormAndServerAgree ==
  \A t \in Tab : /\ tab[t].at = "form" /\ tab[t].edits = 0
                      => Violations(KindOf(tab[t].client), tab[t].values) = {}
                 /\ tab[t].at # "refused"

\* A save that began from the defaults replaces a profile only when it was written after the
\* page's last answer before the form opened.
ReplacesNothingKnown(t) ==
  tab[t].at = "upsert" /\ tab'[t].at = "audit" /\ tab[t].new
    => LET c == tab[t].client IN profile[c] = NoProfile \/ Len(log[c]) > tab[t].writesSeen

\* FiscalProfileCard.tsx:61: a failed fetch is not a missing profile, so the form it opens never
\* puts the defaults over a profile the page could have known of.
DefaultsReplaceNothingKnown == [][\A t \in Tab : ReplacesNothingKnown(t)]_profileVars

\* What a rule of the catalogue sees of a client: its profile and its kind.
Subject(kind, values) == [f \in DOMAIN values \cup {"kind"} |-> IF f = "kind" THEN kind ELSE values[f]]

CodesOf(kind, values) == {e.code : e \in {d \in FiscalCatalog : AppliesTo(d, Subject(kind, values))}}

\* What a client owes never contradicts itself, whatever was saved over what: one VAT regime at
\* most, its return and its payment together, no VAT without an open activity, and one of the
\* two income tax returns.
ObligationsAreCoherent ==
  \A c \in Client : profile[c] # NoProfile =>
    LET codes == CodesOf(KindOf(c), profile[c])
    IN /\ ~({"VAT_MONTHLY_RETURN", "VAT_QUARTERLY_RETURN"} \subseteq codes)
       /\ "VAT_MONTHLY_RETURN" \in codes <=> "VAT_PAYMENT_MONTHLY" \in codes
       /\ "VAT_QUARTERLY_RETURN" \in codes <=> "VAT_PAYMENT_QUARTERLY" \in codes
       /\ profile[c].vatRegime \in {"MONTHLY", "QUARTERLY"} => "EFATURA_INVOICE_REPORTING" \in codes
       /\ Cardinality(codes \cap {"MODEL_22_CIT_RETURN", "MODEL_3_PIT_RETURN"}) = 1
       /\ ("MODEL_22_CIT_RETURN" \in codes) <=> (profile[c].incomeTax = "CIT")

\* "Field-level before/after, so the audit log says what actually moved" (the comment of diff in
\* fiscal-profiles.service.ts): an event's before is what its write replaced.
AuditSaysWhatMoved ==
  \A i \in DOMAIN audit : [from |-> audit[i].from, to |-> audit[i].to] \in
                            {log[audit[i].client][j] : j \in DOMAIN log[audit[i].client]}
===============================================================================
