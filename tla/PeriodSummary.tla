----------------------------- MODULE PeriodSummary -----------------------------
(***************************************************************************)
(* The position at the close of a past period (ReportsService.             *)
(* periodSummary), rebuilt from the dates the ledger's rows carry while    *)
(* the ledger goes on: charges issued, some of them dated back or ahead,   *)
(* payments, credit applied and debts forgiven long after the close.       *)
(*                                                                         *)
(* Dates are days; the summary adds up every client, so that clients are   *)
(* left out.  A transaction does not straddle midnight; a write-off, which *)
(* is no transaction, may.                                                 *)
(***************************************************************************)
EXTENDS Integers, Functions

CONSTANTS
  Charge, Payment,   \* ids
  Amount,            \* cents
  MaxWriteOffs,      \* bound: write-offs in flight at once
  LastDay            \* bound: the days are 1..LastDay

Date    == 1..LastDay
NoDay  == 0             \* NULL, or no row
Always == LastDay + 1

VARIABLES
  today,
  charge,      \* Charge -> [cents, issuedOn, writtenOffAt, made]; made, the day of its INSERT, is history
  payment,     \* Payment -> [cents, receivedOn]
  allocation,  \* <<payment, charge, createdAt>> -> cents of the PaymentAllocation rows
  checked,     \* Charge -> the write-offs that found it unforgiven and have yet to stamp it
  forgiven,    \* history: Charge -> the day of its first stamp, and the cents open then
  stood        \* history: day -> charge -> the debt in the tables when the day ended

summaryVars == <<today, charge, payment, allocation, checked, forgiven, stood>>

Sum(f) == SumFunction(f)

NoCharge  == [cents |-> 0, issuedOn |-> NoDay, writtenOffAt |-> Always, made |-> NoDay]
NoPayment == [cents |-> 0, receivedOn |-> NoDay]
NotForgiven == [on |-> Always, cents |-> 0]

SummaryInit ==
  /\ today = 1
  /\ charge = [c \in Charge |-> NoCharge]
  /\ payment = [p \in Payment |-> NoPayment]
  /\ allocation = [r \in Payment \X Charge \X Date |-> 0]
  /\ checked = [c \in Charge |-> 0]
  /\ forgiven = [c \in Charge |-> NotForgiven]
  /\ stood = [d \in Date |-> [c \in Charge |-> 0]]

Issued(c)      == charge[c].issuedOn # NoDay
Received(p)    == payment[p].receivedOn # NoDay
AllocatedTo(c) == Sum([r \in Payment \X {c} \X Date |-> allocation[r]])
Drawn(p)       == Sum([r \in {p} \X Charge \X Date |-> allocation[r]])
Outstanding(c) == charge[c].cents - AllocatedTo(c)
WrittenOff(c)  == charge[c].writtenOffAt # Always

-------------------------------------------------------------------------------
(* The ledger goes on (BillingService) *)

\* createAdHocCharge: issued now.
Bill(c, n) ==
  /\ ~Issued(c)
  /\ charge' = [charge EXCEPT ![c] = [cents |-> n, issuedOn |-> today, writtenOffAt |-> Always, made |-> today]]
  /\ UNCHANGED <<today, payment, allocation, checked, forgiven, stood>>

\* generateCharges: issued when its period began, which may be long ago, or to come: POST
\* /billing/charges/generate takes any asOf.
BillRetainer(c, n, start) ==
  /\ ~Issued(c)
  /\ charge' = [charge EXCEPT ![c] = [cents |-> n, issuedOn |-> start, writtenOffAt |-> Always, made |-> today]]
  /\ UNCHANGED <<today, payment, allocation, checked, forgiven, stood>>

\* writeOffCharge: the read, which refuses a charge that is written off, ...
CheckWriteOff(c) ==
  /\ Issued(c) /\ ~WrittenOff(c) /\ Sum(checked) < MaxWriteOffs
  /\ checked' = [checked EXCEPT ![c] = @ + 1]
  /\ UNCHANGED <<today, charge, payment, allocation, forgiven, stood>>

\* ... and the UPDATE, by id alone: a second one moves writtenOffAt.
StampWriteOff(c) ==
  /\ checked[c] > 0
  /\ checked' = [checked EXCEPT ![c] = @ - 1]
  /\ charge' = [charge EXCEPT ![c].writtenOffAt = today]
  /\ forgiven' = IF WrittenOff(c) THEN forgiven
                 ELSE [forgiven EXCEPT ![c] = [on |-> today, cents |-> Outstanding(c)]]
  /\ UNCHANGED <<today, payment, allocation, stood>>

\* recordPayment, without its allocations: ApplyCredit makes them, on the same day or later.
RecordPayment(p, n, receivedOn) ==
  /\ ~Received(p)
  /\ payment' = [payment EXCEPT ![p] = [cents |-> n, receivedOn |-> receivedOn]]
  /\ UNCHANGED <<today, charge, allocation, checked, forgiven, stood>>

ApplyCredit(p, c, n) ==
  /\ Received(p) /\ Issued(c) /\ ~WrittenOff(c)
  /\ n <= Outstanding(c) /\ n <= payment[p].cents - Drawn(p)
  /\ allocation' = [allocation EXCEPT ![<<p, c, today>>] = @ + n]
  /\ UNCHANGED <<today, charge, payment, checked, forgiven, stood>>

Midnight ==
  /\ today < LastDay
  /\ today' = today + 1
  /\ stood' = [stood EXCEPT ![today] =
       [c \in Charge |-> IF Issued(c) /\ ~WrittenOff(c) THEN Outstanding(c) ELSE 0]]
  /\ UNCHANGED <<charge, payment, allocation, checked, forgiven>>

SummaryNext ==
  \/ \E c \in Charge, n \in Amount : Bill(c, n) \/ \E start \in Date : BillRetainer(c, n, start)
  \/ \E c \in Charge : CheckWriteOff(c) \/ StampWriteOff(c)
  \/ \E p \in Payment, n \in Amount, d \in Date : RecordPayment(p, n, d)
  \/ \E p \in Payment, c \in Charge, n \in Amount : ApplyCredit(p, c, n)
  \/ Midnight

SummarySpec == SummaryInit /\ [][SummaryNext]_summaryVars

-------------------------------------------------------------------------------
(* The summary *)

\* Charges that existed at close and had not been forgiven by then.
IssuedAndOpen(to) == {c \in Charge : Issued(c) /\ charge[c].issuedOn <= to /\ charge[c].writtenOffAt > to}

\* Variant: money counts from the day it was received.
SettledByReceipt(c, to) ==
  Sum([r \in {x \in Payment \X {c} \X Date : payment[x[1]].receivedOn <= to} |-> allocation[r]])

Settled(c, to) == Sum([r \in {x \in Payment \X {c} \X Date : x[3] <= to} |-> allocation[r]])

OutstandingAtCloseCents(to) ==
  Sum([c \in IssuedAndOpen(to) |->
         IF charge[c].cents > Settled(c, to) THEN charge[c].cents - Settled(c, to) ELSE 0])

UnappliedCreditAtCloseCents(to) ==
  LET received  == Sum([p \in {x \in Payment : Received(x) /\ payment[x].receivedOn <= to} |-> payment[p].cents])
      allocated == Sum([r \in {x \in Payment \X Charge \X Date : x[3] <= to} |-> allocation[r]])
  IN IF received > allocated THEN received - allocated ELSE 0

-------------------------------------------------------------------------------
(* Properties *)

\* What keeps a charge of a closed day from being counted as it stood.
DatedAhead(c, to) == charge[c].made \in 1..to /\ charge[c].issuedOn > to  \* it is left out
DatedBack(c, to)  == charge[c].made > to /\ charge[c].issuedOn \in 1..to  \* it is counted in full
Restamped(c, to)  == forgiven[c].on <= to /\ charge[c].writtenOffAt > to  \* it is owed again

AsItStood(c, to) ==
  CASE DatedAhead(c, to)                      -> 0
    [] DatedBack(c, to)                       -> charge[c].cents
    [] Restamped(c, to) /\ ~DatedAhead(c, to) -> forgiven[c].cents
    [] OTHER                                  -> stood[to][c]

\* The summary of a closed day is the position as it stood when the day ended, whenever it is
\* asked for and whatever was paid, applied or forgiven since, charge by charge but for those
\* whose own dates say otherwise: dated to another side of the close than they were made, or
\* forgiven before it by a write-off that a second one overwrote after it.
ClosingIsAsItStood ==
  \A to \in 1..(today - 1) : OutstandingAtCloseCents(to) = Sum([c \in Charge |-> AsItStood(c, to)])

\* reports.service.ts:190: "Charges that existed at close".
OnlyChargesOfThen ==
  \A to \in 1..(today - 1), c \in Charge : ~DatedAhead(c, to) /\ ~DatedBack(c, to)

\* reports.service.ts:190: "and had not been forgiven by then".
ForgivenByThen == \A to \in 1..(today - 1), c \in Charge : ~Restamped(c, to)

\* reports.service.ts:155: the unspent money is "by the same 'as it stood at to' rule" what it was.
UnappliedCreditStands ==
  [][\A to \in 1..(today - 1) : UnappliedCreditAtCloseCents(to)' = UnappliedCreditAtCloseCents(to)]_summaryVars
===============================================================================
