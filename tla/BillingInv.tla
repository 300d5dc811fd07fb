------------------------------ MODULE BillingInv ------------------------------
(***************************************************************************)
(* Why the ledger's safety holds: the inductive invariant of Billing.  It  *)
(* says what a request may rely on between two of its statements, that is, *)
(* what its row locks protect while other requests go on.                  *)
(***************************************************************************)
EXTENDS BillingViews

\* The statements of an allocation in progress.
Processing == {"lockPayment", "lockCharge", "checkCredit", "checkBalance", "insert"}

\* The cents of the allocation in progress.
InHand(r) == IF pc[r] \in Processing THEN item[r].cents ELSE 0

\* A row that is not there bills and brings nothing, and cannot be locked.
AbsentRows ==
  /\ \A c \in Charge : ~Issued(c) => charge[c] = NoCharge
  /\ \A p \in Payment : ~Received(p) => payment[p] = NoPayment /\ paymentLock[p] = None

\* A free slot, or one that only writes off, has nothing pending and no lock.
FreeSlots ==
  \A r \in Request :
    pc[r] \in {"idle", "stamp"} =>
      /\ call[r].own = None
      /\ \A c \in Charge : txAllocated[r][c] = 0 /\ chargeLock[c] # r
      /\ \A p \in Payment : txDrawn[r][p] = 0 /\ paymentLock[p] # r
      /\ txLinks[r] = {}

\* A request in a transaction acts for a client, with the amount it was given.
ActsForClient ==
  \A r \in Request :
    /\ pc[r] \notin {"idle", "stamp"} => call[r].client \in Client
    /\ call[r].own # None => call[r].cents \in Amount

\* A payment being recorded is new and belongs to one request.
OwnPayment ==
  \A r \in Request : \A p \in Payment :
    call[r].own = p =>
      /\ payment[p] = NoPayment
      /\ drawn[p] = 0
      /\ \A q \in Request : q # r => call[q].own # p

\* The allocation in progress names rows that exist, or the payment being recorded.
ItemInProgress ==
  \A r \in Request :
    /\ pc[r] \in Processing \cup {"stamp"} => item[r].charge \in Charge /\ Issued(item[r].charge)
    /\ pc[r] = "stamp" => call[r].reason \in Reason
    /\ pc[r] \in Processing =>
         /\ item[r].payment \in Payment
         /\ item[r].cents > 0
         /\ IF call[r].own = None THEN Received(item[r].payment)
                                  ELSE item[r].payment = call[r].own
    /\ pc[r] \in {"lockPayment", "checkCredit"} => call[r].own = None

\* The locks the allocation in progress holds.
ItemLocked ==
  \A r \in Request :
    /\ pc[r] \in {"lockCharge", "checkCredit", "checkBalance", "insert"} /\ call[r].own = None
         => paymentLock[item[r].payment] = r
    /\ pc[r] \in {"checkCredit", "checkBalance", "insert"} => chargeLock[item[r].charge] = r

\* What was checked still holds when it is acted upon.
CheckedStaysTrue ==
  \A r \in Request :
    /\ pc[r] \in {"checkBalance", "insert"} /\ call[r].own = None => EnoughCredit(r)
    /\ pc[r] = "insert" => EnoughBalance(r)

\* Pending allocations stay within the charge, under its lock, for an open charge
\* of the request's client.
PendingOnCharges ==
  \A r \in Request : \A c \in Charge :
    /\ allocated[c] + txAllocated[r][c] <= charge[c].cents
    /\ txAllocated[r][c] > 0 =>
         /\ chargeLock[c] = r
         /\ ~WrittenOff(c)
         /\ charge[c].client = call[r].client

\* Pending allocations stay within the payment: under its lock for credit, within
\* the body's sum for the payment being recorded.
PendingOnPayment(r, p) ==
  IF call[r].own = p
  THEN txDrawn[r][p] + From(rest[r], p) + InHand(r) <= call[r].cents
  ELSE /\ drawn[p] + txDrawn[r][p] <= payment[p].cents
       /\ txDrawn[r][p] > 0 => paymentLock[p] = r /\ payment[p].client = call[r].client

PendingOnPayments == \A r \in Request : \A p \in Payment : PendingOnPayment(r, p)

\* Links, committed or pending, join rows of one client.
LinksOfOneClient ==
  /\ \A l \in links :
       Issued(l[2]) /\ payment[l[1]].client = charge[l[2]].client
  /\ \A r \in Request : \A l \in txLinks[r] :
       /\ charge[l[2]].client = call[r].client
       /\ l[1] = call[r].own \/ payment[l[1]].client = call[r].client

\* Money is neither made nor lost: what the payments of a client gave is what its charges got,
\* in the tables and in every transaction that is open.
MoneyBalances ==
  /\ \A k \in Client : SumFunctionOnSet(allocated, ChargesOf(k)) = SumFunctionOnSet(drawn, PaymentsOf(k))
  /\ \A r \in Request : SumFunctionOnSet(txAllocated[r], Charge) = SumFunctionOnSet(txDrawn[r], Payment)

\* A transaction forgets nothing of its body: what it inserted, the allocation in
\* progress and what its loop has still to walk make up the whole.
BodyKept(r) ==
  LET OnItsWay(p, c) == pc[r] \in Processing /\ item[r].payment = p /\ item[r].charge = c
      Way(it)        == IF it /\ pc[r] \in Processing THEN item[r].cents ELSE 0 IN
  /\ \A c \in Charge : Onto(call[r].body, c) = txAllocated[r][c] + Onto(rest[r], c) + Way(item[r].charge = c)
  /\ \A p \in Payment : From(call[r].body, p) = txDrawn[r][p] + From(rest[r], p) + Way(item[r].payment = p)
  /\ \A p \in Payment, c \in Charge :
       call[r].body[p][c] > 0 <=> <<p, c>> \in txLinks[r] \/ rest[r][p][c] > 0 \/ OnItsWay(p, c)

BodiesKept == \A r \in Request : pc[r] \notin {"idle", "stamp"} => BodyKept(r)

\* What the row locks of recordPayment, applyCredit and writeOffCharge guarantee between
\* statements.
RowsInv ==
  /\ TypeOK
  /\ AbsentRows
  /\ FreeSlots
  /\ ActsForClient
  /\ OwnPayment
  /\ ItemInProgress
  /\ ItemLocked
  /\ CheckedStaysTrue
  /\ PendingOnCharges
  /\ PendingOnPayments
  /\ LinksOfOneClient

\* The inductive invariant of the ledger.
IInv == RowsInv /\ MoneyBalances /\ BodiesKept
==============================================================================
