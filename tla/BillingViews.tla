---------------------------- MODULE BillingViews ----------------------------
(***************************************************************************)
(* The figures the billing screens compute from the ledger's tables, over  *)
(* a committed state: the running balance of a client's own page, the      *)
(* gross debt of the receivables list and the credit still to be spent.    *)
(***************************************************************************)
EXTENDS Billing, FiniteSets, Functions

ASSUME TablesAreFinite == IsFiniteSet(Charge) /\ IsFiniteSet(Payment)

\* The figures of getClientLedger, getReceivables and getAvailableCredit.

ChargesOf(k)  == {c \in Charge : charge[c].client = k}
PaymentsOf(k) == {p \in Payment : payment[p].client = k}
Open(c)       == charge[c].cents - allocated[c]
Total(f(_), S) == SumFunction([x \in S |-> f(x)])

\* Variant: a write-off cancels the whole charge, what was already paid included.
BalanceCentsForgivingAll(k) ==
  LET Billed(c) == charge[c].cents   Paid(p) == payment[p].cents IN
  Total(Billed, {c \in ChargesOf(k) : ~WrittenOff(c)}) - Total(Paid, PaymentsOf(k))

BalanceCents(k) ==
  LET Billed(c) == charge[c].cents   Paid(p) == payment[p].cents IN
  Total(Billed, ChargesOf(k)) - Total(Paid, PaymentsOf(k))
    - Total(Open, {c \in ChargesOf(k) : WrittenOff(c)})

GrossOutstandingCents(k) == Total(Open, {c \in ChargesOf(k) : ~WrittenOff(c)})

AvailableCreditCents(k) ==
  LET Credit(p) == payment[p].cents - drawn[p] IN Total(Credit, PaymentsOf(k))

\* The client's own page and the receivables list agree: the running balance of
\* the ledger, write-offs cancelled, is what is owed less the credit not spent.
LedgerAgreesWithReceivables ==
  \A k \in Client : BalanceCents(k) = GrossOutstandingCents(k) - AvailableCreditCents(k)
==============================================================================
