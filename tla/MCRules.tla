-------------------------------- MODULE MCRules --------------------------------
(***************************************************************************)
(* The algorithms - how money is put on charges, and when an obligation is *)
(* due - and the billing screens that read the ledger while it changes.    *)
(* They share no state, so one run checks them one after the other: the    *)
(* first state says which part is played, and the others have one initial  *)
(* state, which they keep.                                                 *)
(***************************************************************************)
EXTENDS Allocation, FiscalCalendar, PaymentForm

CONSTANTS
  Client, Charge, Payment, Reason, None, \* ids, and the reasons of write-offs
  Amount,                                \* cents
  Due,                                   \* the charges a page finds due
  LastDay,                               \* bound: the days that are closed
  MaxWriteOffs                           \* bound: write-offs in flight at once

ASSUME LedgerAssumption ==
  /\ IsFiniteSet(Charge) /\ IsFiniteSet(Payment)
  /\ Amount \subseteq Nat /\ None \notin Client \cup Reason /\ LastDay \in Nat \ {0} /\ MaxWriteOffs \in Nat

VARIABLES
  part,
  charge, payment, allocated, drawn, links, overdue, page,
  now, issued, received, allocation, checked, forgiven, stood

L == INSTANCE LedgerReads

P == INSTANCE PeriodSummary WITH today <- now, charge <- issued, payment <- received

pageVars    == <<charge, payment, allocated, drawn, links, overdue, page>>
closingVars == <<now, issued, received, allocation, checked, forgiven, stood>>
rulesVars   == <<part, vars, fiscalVars, pageVars, closingVars, formVars>>

NoMoney ==
  /\ openCharges = <<>> /\ sources = <<>> /\ remainingCents = <<>> /\ allocations = <<>>
  /\ chargeIndex = 0 /\ fundIndex = 1 /\ remainingOnCharge = 0

OneEntry ==
  /\ entry = (CHOOSE e \in FiscalCatalog : TRUE) /\ year = FirstYear
  /\ cursor = 0 /\ candidate = 0 /\ periods = <<>> /\ today = 0

RulesInit ==
  /\ part \in {"allocation", "calendar", "page", "closing", "dialog"}
  /\ IF part = "allocation" THEN Init ELSE NoMoney
  /\ IF part = "calendar" THEN FiscalInit ELSE OneEntry
  /\ L!LedgerReadsInit /\ P!SummaryInit /\ FormInit

RulesNext ==
  \/ part = "allocation" /\ Next
     /\ UNCHANGED <<part, fiscalVars, pageVars, closingVars, formVars>>
  \/ part = "calendar" /\ FiscalNext
     /\ UNCHANGED <<part, vars, pageVars, closingVars, formVars>>
  \/ part = "page" /\ L!LedgerReadsNext
     /\ UNCHANGED <<part, vars, fiscalVars, closingVars, formVars>>
  \/ part = "closing" /\ P!SummaryNext
     /\ UNCHANGED <<part, vars, fiscalVars, pageVars, formVars>>
  \/ part = "dialog" /\ FormNext
     /\ UNCHANGED <<part, vars, fiscalVars, pageVars, closingVars>>

RulesSpec == RulesInit /\ [][RulesNext]_rulesVars

\* What the form proposes is what the server does, and what paper adds up to.
AllAgreeOnAllocation == TypeOK /\ ConfirmsAsProposed /\ PaperAgreesWithAllocation

\* Every deadline is a working day, the first one, in its order and its year, and the periods
\* of a year tile it; Easter, which moves four of the holidays, is the paschal Sunday.
DeadlinesHold ==
  /\ FiscalTypeOK /\ EasterIsPaschal
  /\ FirstBusinessDay /\ NoDeadlineBeforeItsYear /\ DeadlinesInOrder /\ PeriodsTileTheYear

\* A page read while payments and write-offs commit never understates what is owed.
NoDebtIsHidden == L!NoDebtIsHidden

\* The ledger cancels exactly what was open, and its credit is money of listed payments.
LedgerPageIsExact == L!ForgivenEntryIsExact /\ L!CreditIsBacked

\* The summary of a closed day is the position as it stood, but for what the dates of a charge say.
ClosingIsAsItStood == P!ClosingIsAsItStood

-------------------------------------------------------------------------------
(* What the documents claim and the code does not do.  Named in the cfg in   *)
(* place of the properties, each is violated.                               *)

\* reports.service.ts:109: a client whose money covers its debt is not in arrears.
CoveredClientIsNotListed == L!CoveredClientIsNotListed

\* reports.service.ts:190: the charges that existed at close.
OnlyChargesOfThen == P!OnlyChargesOfThen

\* reports.service.ts:190: and had not been forgiven by then.
ForgivenByThen == P!ForgivenByThen

\* reports.service.ts:155: the unspent money as it stood.
UnappliedCreditStands == P!UnappliedCreditStands
===============================================================================
