-------------------------------- MODULE MCOffice --------------------------------
(***************************************************************************)
(* The records of the office: clients, employments, fiscal profiles, and   *)
(* the obligations made by hand.  These components share no state, so one  *)
(* run checks them one after another: the first state says which part is   *)
(* played, and the others keep their initial state.                        *)
(* Fiscal profiles are played twice: one browser tab with every edit of a  *)
(* form ("profiles"), and two tabs that only save ("two tabs").            *)
(***************************************************************************)
EXTENDS Employments, TLC

CONSTANTS
  Client, TaxId, Text, None, MaxForms, MaxEdits,
  Taxpayer,               \* clients with a fiscal profile
  Firm,                   \* those of them that are companies
  Shared,                 \* those that two tabs work on
  OneTab, EditsAlone, SavesAlone, EditsTogether, SavesTogether,
  Rule, AdHoc, Generation, Editor

ASSUME ClientsAssumption == None \notin Client \cup {"CATALOG", "CUSTOM"} /\ MaxForms \in Nat
ASSUME TaxpayersAssumption == Shared \subseteq Taxpayer

VARIABLES
  part,
  row, archived, clientTab, forms,
  profile, audit, formTab, saves, log,
  day, closed, codes, changes, definition, instance, lastId, gen, edit

C == INSTANCE Clients WITH NoText <- None, tab <- clientTab

MCKindOf(c) == IF c \in Firm THEN "COMPANY" ELSE "INDIVIDUAL"

P == INSTANCE FiscalProfiles WITH
       Client <- Taxpayer, KindOf <- MCKindOf, Tab <- OneTab,
       MaxEdits <- EditsAlone, MaxSaves <- SavesAlone, tab <- formTab

T == INSTANCE FiscalProfiles WITH
       Client <- Shared, KindOf <- MCKindOf,
       MaxEdits <- EditsTogether, MaxSaves <- SavesTogether, tab <- formTab

O == INSTANCE Obligations WITH
       Catalog <- Rule, Annual <- {}, Custom <- AdHoc, YearLength <- 2, Years <- 1,
       Status <- {"PENDING"}, ValidFrom <- 1, MaxChanges <- 1, MaxRows <- 1,
       Client <- {"company"}, today <- day, archived <- closed, profile <- codes

clientVars     == <<row, archived, clientTab, forms>>
profileVars    == <<profile, audit, formTab, saves, log>>
obligationVars == <<day, closed, codes, changes, definition, instance, lastId, gen, edit>>

allVars == <<part, clientVars, employmentVars, profileVars, obligationVars>>

Init ==
  /\ part \in {"clients", "employments", "profiles", "two tabs", "ad hoc"}
  /\ C!ClientsInit /\ EmploymentsInit /\ O!Init
  /\ IF part = "two tabs" THEN T!ProfilesInit ELSE P!ProfilesInit

Next ==
  \/ part = "clients" /\ C!ClientsNext
     /\ UNCHANGED <<part, employmentVars, profileVars, obligationVars>>
  \/ part = "employments" /\ EmploymentsNext
     /\ UNCHANGED <<part, clientVars, profileVars, obligationVars>>
  \/ part = "profiles" /\ P!ProfilesNext
     /\ UNCHANGED <<part, clientVars, employmentVars, obligationVars>>
  \/ part = "two tabs" /\ T!ProfilesNext
     /\ UNCHANGED <<part, clientVars, employmentVars, obligationVars>>
  \/ part = "ad hoc" /\ O!Next
     /\ UNCHANGED <<part, clientVars, employmentVars, profileVars>>

Spec == Init /\ [][Next]_allVars

\* Clients: no save loses another tab's change, or meets its own tax id.
SavesOfClientsAreSound == C!NoLostUpdate /\ C!NoConflictWithItself

\* Clients: an input that was emptied is empty in the row, and the kind's fields stay its own.
FieldsHold == C!ClientsTypeOK /\ C!NothingSeemsCleared /\ C!KindFieldsHold

\* Fiscal profiles: the form and the server accept the same, and what a profile makes of the
\* catalogue is coherent.
ProfilesAreCoherent ==
  part # "two tabs" => P!ProfilesTypeOK /\ P!FormAndServerAgree /\ P!ObligationsAreCoherent

\* Fiscal profiles: the defaults of a form never replace a profile the page knew.
DefaultsReplaceNothingKnown ==
  [][part = "two tabs" => \A t \in Tab : T!ReplacesNothingKnown(t)]_allVars

\* Obligations: a generation takes away what the accountant added by hand only under a code of the
\* catalogue whose definition is the accountant's own, or that another generation entered between
\* the check of the code and the INSERT.
AdHocSurvives == O!AdHocSurvives

-------------------------------------------------------------------------------
(* What the documents claim and the code does not do.  Named in the cfg in   *)
(* place of the properties, each is violated.                               *)

\* clients.service.ts:111: a race for a tax id is answered like the check.
RaceIsNamed == C!RaceIsNamed

\* fiscal-profiles.service.ts:71: the audit log says what actually moved (with MaxEdits <- 1 in T).
AuditSaysWhatMoved == part = "two tabs" => T!AuditSaysWhatMoved

\* ledger-hq-design.md:582: what was created ad hoc is the accountant's.
HandmadeIsTheAccountants == O!HandmadeIsTheAccountants

\* phase-2-obligations-design.md:103: definition and instance in one transaction.
DefinitionComesWithInstance == part = "ad hoc" => O!DefinitionComesWithInstance
===============================================================================
