------------------------------ MODULE Allocation ------------------------------
(***************************************************************************)
(* How a client's money meets its charges: the walk of proposeAllocation   *)
(* (packages/domain/src/billing/allocate.ts), whose proposals              *)
(* recordPayment and the credit sweep confirm, and settleOnPaper           *)
(* (settle-on-paper.ts), which nets the same money against the same        *)
(* charges for the receivables list and the at-risk report.                *)
(*                                                                         *)
(* One turn of a loop is one action.  A charge or a payment is its place   *)
(* in the list the walk was called with.                                   *)
(***************************************************************************)
EXTENDS Integers, SequencesExt

CONSTANTS
  Day,         \* due dates and dates of receipt
  Cents,       \* amounts outstanding, or available
  MaxCharges, MaxSources   \* lengths of the lists

ASSUME Bounds == Day \cup Cents \cup {MaxCharges, MaxSources} \subseteq Nat

VARIABLES
  openCharges, sources,    \* what the walk was called with
  chargeIndex, fundIndex,  \* the charge and the fund in hand
  remainingOnCharge,
  remainingCents,          \* what is left of each source
  allocations

vars == <<openCharges, sources, chargeIndex, fundIndex, remainingOnCharge, remainingCents, allocations>>

ChargeBalance    == [dueOn: Day, outstandingCents: Cents]
AllocationSource == [receivedOn: Day, availableCents: Cents]

\* Variant: what has nothing left is walked too.
AnyMoney(cents) == TRUE

\* Array.filter
HasMoney(cents) == cents > 0

\* Array.sort, which is stable: every place once, oldest first.
Older(date, i, j) == date[i] < date[j] \/ (date[i] = date[j] /\ i < j)

OldestFirst(places, date) ==
  CHOOSE list \in [1..Cardinality(places) -> places] :
    Range(list) = places /\ \A m, n \in DOMAIN list : m < n => Older(date, list[m], list[n])

DueOn(list)      == [i \in DOMAIN list |-> list[i].dueOn]
ReceivedOn(list) == [i \in DOMAIN list |-> list[i].receivedOn]

charges == OldestFirst({i \in DOMAIN openCharges : HasMoney(openCharges[i].outstandingCents)}, DueOn(openCharges))
funds   == OldestFirst({i \in DOMAIN sources : HasMoney(sources[i].availableCents)}, ReceivedOn(sources))

TypeOK ==
  /\ openCharges \in BoundedSeq(ChargeBalance, MaxCharges)
  /\ sources \in BoundedSeq(AllocationSource, MaxSources)
  /\ chargeIndex \in 0..Len(charges)
  /\ fundIndex \in 1..(Len(funds) + 1)
  /\ remainingOnCharge \in Nat
  /\ remainingCents \in [DOMAIN sources -> Nat]
  /\ allocations \in Seq([source: DOMAIN sources, charge: DOMAIN openCharges, cents: Nat])

Init ==
  /\ openCharges \in BoundedSeq(ChargeBalance, MaxCharges)
  /\ sources \in BoundedSeq(AllocationSource, MaxSources)
  /\ chargeIndex = 0 /\ fundIndex = 1
  /\ remainingOnCharge = 0
  /\ remainingCents = [i \in DOMAIN sources |-> sources[i].availableCents]
  /\ allocations = <<>>

\* The outer loop: the next charge, unless there is no money left.
NextCharge ==
  /\ remainingOnCharge = 0 /\ fundIndex <= Len(funds)
  /\ chargeIndex < Len(charges)
  /\ chargeIndex' = chargeIndex + 1
  /\ remainingOnCharge' = openCharges[charges[chargeIndex + 1]].outstandingCents
  /\ UNCHANGED <<openCharges, sources, fundIndex, remainingCents, allocations>>

\* Variants: the source is not asked how much it has left, or is left behind early.
WholeCharge(wanted, available) == wanted
DoneAtOneCent(rest) == rest <= 1

\* Math.min
Smaller(wanted, available) == IF wanted <= available THEN wanted ELSE available
Spent(rest) == rest = 0

\* The inner loop: what the fund in hand can give to the charge in hand.
Allocate ==
  LET source == funds[fundIndex]
      amount == Smaller(remainingOnCharge, remainingCents[source])
  IN
  /\ remainingOnCharge > 0 /\ fundIndex <= Len(funds)
  /\ allocations' = Append(allocations,
                      [source |-> source, charge |-> charges[chargeIndex], cents |-> amount])
  /\ remainingCents' = [remainingCents EXCEPT ![source] = @ - amount]
  /\ remainingOnCharge' = remainingOnCharge - amount
  /\ fundIndex' = IF Spent(remainingCents[source] - amount) THEN fundIndex + 1 ELSE fundIndex
  /\ UNCHANGED <<openCharges, sources, chargeIndex>>

Returned ==
  fundIndex > Len(funds) \/ (remainingOnCharge = 0 /\ chargeIndex = Len(charges))

Next == NextCharge \/ Allocate

Spec == Init /\ [][Next]_vars

------------------------------------------------------------------------------
\* Variant: a charge the credit covers to the cent counts as uncovered.
CoversBeyond(credit, cents) == credit > cents

Covers(credit, cents) == credit >= cents

\* No due date: every charge is covered.
NoDate == -1

\* settleOnPaper: the loop pays the charges oldest first and stops at the first one that what
\* is left of the credit does not cover.
SettleOnPaper(list, creditCents) ==
  LET cents == [i \in DOMAIN list |-> list[i].outstandingCents]
      gross == SumFunction(cents)
      sorted == OldestFirst(DOMAIN list, DueOn(list))
      LeftBefore(n) == creditCents - SumFunction([m \in 1..(n - 1) |-> cents[sorted[m]]])
      uncovered == {n \in DOMAIN sorted : ~Covers(LeftBefore(n), cents[sorted[n]])}
  IN [grossCents |-> gross,
      outstandingCents |-> IF gross > creditCents THEN gross - creditCents ELSE 0,
      oldestUncoveredDueOn |-> IF uncovered = {} THEN NoDate ELSE list[sorted[Min(uncovered)]].dueOn]

------------------------------------------------------------------------------
\* What the walk gives in the allocations numbered in a set, in all.
InAll(numbers) == SumFunction([n \in numbers |-> allocations[n].cents])

\* What it gives from source i to charge c, in however many allocations, and what it leaves of c.
Given(i, c) == InAll({n \in DOMAIN allocations : allocations[n].source = i /\ allocations[n].charge = c})
Left(c) == openCharges[c].outstandingCents - InAll({n \in DOMAIN allocations : allocations[n].charge = c})

AvailableUpTo(n) == SumFunction([f \in 1..n |-> sources[funds[f]].availableCents])
OwedUpTo(n) == SumFunction([c \in 1..n |-> openCharges[charges[c]].outstandingCents])

\* Lay the debts end to end, oldest first, and the money beside them, oldest first:
\* each source settles just the stretch of each debt it lies beside (FIFO on both
\* sides, nothing exceeded, nothing held back).
FirstInFirstOut ==
  Returned =>
    \A f \in DOMAIN funds, c \in DOMAIN charges :
      LET lower == IF AvailableUpTo(f - 1) > OwedUpTo(c - 1) THEN AvailableUpTo(f - 1) ELSE OwedUpTo(c - 1)
          upper == IF AvailableUpTo(f) < OwedUpTo(c) THEN AvailableUpTo(f) ELSE OwedUpTo(c)
      IN Given(funds[f], charges[c]) = IF upper > lower THEN upper - lower ELSE 0

\* What is proposed can be confirmed as it is: recordPaymentSchema and applyCreditSchema
\* want every amount positive; and a payment meets a charge in one allocation only.
ConfirmsAsProposed ==
  \A m, n \in DOMAIN allocations :
    /\ allocations[m].cents > 0
    /\ m # n => \/ allocations[m].source # allocations[n].source
                \/ allocations[m].charge # allocations[n].charge

\* The receivables list and the at-risk report say of a client just what spending its
\* credit would leave: the same debt, of the same oldest date.
PaperAgreesWithAllocation ==
  Returned =>
    LET credit == SumFunction([i \in DOMAIN sources |-> sources[i].availableCents])
        paper  == SettleOnPaper(openCharges, credit)
        unsettled == {c \in DOMAIN openCharges : Left(c) > 0}
    IN /\ paper.outstandingCents = SumFunction([c \in DOMAIN openCharges |-> Left(c)])
       /\ (unsettled = {}) = (paper.oldestUncoveredDueOn = NoDate)
       /\ unsettled # {} =>
            /\ \E c \in unsettled : openCharges[c].dueOn = paper.oldestUncoveredDueOn
            /\ \A c \in unsettled : openCharges[c].dueOn >= paper.oldestUncoveredDueOn
=============================================================================
