------------------------------- MODULE Billing -------------------------------
(***************************************************************************)
(* The ledger core of apps/api/src/billing/billing.service.ts: charges,    *)
(* payments and the allocations between them, as concurrent requests write *)
(* them through Prisma interactive transactions on Postgres.               *)
(*                                                                         *)
(* Postgres runs READ COMMITTED: every statement of a transaction sees     *)
(* what is committed when the statement starts, plus the transaction's own *)
(* rows.  SELECT ... FOR UPDATE holds its row until the transaction ends.  *)
(* A statement is one action here; between two statements of a transaction *)
(* any other request may take a step.                                      *)
(*                                                                         *)
(* The views charge_balances and payment_credits aggregate the append-only *)
(* PaymentAllocation rows.  Rows are never updated or deleted, so the model*)
(* keeps the two sums themselves (allocated, drawn) and which payment was  *)
(* ever allocated to which charge (links), not the rows.                   *)
(***************************************************************************)
EXTENDS LedgerBodies

CONSTANTS
  Client,      \* clients of the practice
  Request,     \* concurrent HTTP requests or cron calls (slots, reused)
  Amount,      \* amounts in cents a request may carry
  Body,        \* the allocations a request may ask for
  Reason,      \* write-off reasons an operator may give
  None         \* SQL NULL: no row, no holder, no value

ASSUME AmountsArePositive == Amount \subseteq Nat \ {0}
ASSUME BodiesAreAmounts == Body \subseteq Bodies
ASSUME SomeRequest == Request # {}
ASSUME NoneIsNoValue == None \notin Client \cup Charge \cup Payment \cup Request \cup Reason

VARIABLES
  \* committed tables
  charge,      \* the Charge rows
  payment,     \* the Payment rows
  allocated,   \* charge_balances."allocatedCents": what was allocated to a charge
  drawn,       \* payment_credits."allocatedCents": what was taken from a payment
  links,       \* the (payment, charge) pairs of PaymentAllocation
  \* row locks (FOR UPDATE)
  chargeLock, paymentLock,
  \* the requests in flight
  pc,          \* the statement a request runs next
  call,        \* what the request was called with
  rest,        \* the part of its body that its loop has not walked yet
  item,        \* the allocation (or the write-off) being processed
  txAllocated, txDrawn, txLinks   \* a transaction's own, uncommitted allocations

tables == <<charge, payment, allocated, drawn, links>>
locks  == <<chargeLock, paymentLock>>
tx     == <<txAllocated, txDrawn, txLinks>>
vars   == <<tables, locks, pc, call, rest, item, tx>>

NoCharge  == [client |-> None, cents |-> 0, reason |-> None]
NoPayment == [client |-> None, cents |-> 0]
NoCall    == [client |-> None, own |-> None, cents |-> 0, reason |-> None, body |-> NoBody]
NoItem    == [payment |-> None, charge |-> None, cents |-> 0]

Statement == {"idle", "walk", "lockPayment", "lockCharge", "checkCredit",
              "checkBalance", "insert", "stamp"}

TypeOK ==
  /\ charge \in [Charge -> [client: Client \cup {None}, cents: Nat, reason: Reason \cup {None}]]
  /\ payment \in [Payment -> [client: Client \cup {None}, cents: Nat]]
  /\ allocated \in [Charge -> Nat]
  /\ drawn \in [Payment -> Nat]
  /\ links \subseteq Payment \X Charge
  /\ chargeLock \in [Charge -> Request \cup {None}]
  /\ paymentLock \in [Payment -> Request \cup {None}]
  /\ pc \in [Request -> Statement]
  /\ call \in [Request -> [client: Client \cup {None}, own: Payment \cup {None},
                           cents: Nat, reason: Reason \cup {None}, body: Bodies]]
  /\ rest \in [Request -> Bodies]
  /\ item \in [Request -> [payment: Payment \cup {None}, charge: Charge \cup {None}, cents: Nat]]
  /\ txAllocated \in [Request -> [Charge -> Nat]]
  /\ txDrawn \in [Request -> [Payment -> Nat]]
  /\ txLinks \in [Request -> SUBSET (Payment \X Charge)]

NothingInFlight ==
  /\ chargeLock = [c \in Charge |-> None]
  /\ paymentLock = [p \in Payment |-> None]
  /\ pc = [r \in Request |-> "idle"]
  /\ call = [r \in Request |-> NoCall]
  /\ rest = [r \in Request |-> NoBody]
  /\ item = [r \in Request |-> NoItem]
  /\ txAllocated = [r \in Request |-> [c \in Charge |-> 0]]
  /\ txDrawn = [r \in Request |-> [p \in Payment |-> 0]]
  /\ txLinks = [r \in Request |-> {}]

Init ==
  /\ charge = [c \in Charge |-> NoCharge]
  /\ payment = [p \in Payment |-> NoPayment]
  /\ allocated = [c \in Charge |-> 0]
  /\ drawn = [p \in Payment |-> 0]
  /\ links = {}
  /\ NothingInFlight

------------------------------------------------------------------------------
\* Rows and views as a statement of request r reads them.

Issued(c)   == charge[c].client # None
Received(p) == payment[p].client # None
WrittenOff(c) == charge[c].reason # None

OutstandingCents(r, c) == charge[c].cents - allocated[c] - txAllocated[r][c]
CreditCents(r, p)      == payment[p].cents - drawn[p] - txDrawn[r][p]

\* Bodies only name rows an earlier response listed: ids are uuids made by the server.
KnownCharges  == {c \in Charge : Issued(c)}
KnownPayments == {p \in Payment : Received(p)}

------------------------------------------------------------------------------
\* The end of a transaction gives its locks back and frees the slot.

Release(r) ==
  /\ chargeLock' = [c \in Charge |-> IF chargeLock[c] = r THEN None ELSE chargeLock[c]]
  /\ paymentLock' = [p \in Payment |-> IF paymentLock[p] = r THEN None ELSE paymentLock[p]]
  /\ pc' = [pc EXCEPT ![r] = "idle"]
  /\ call' = [call EXCEPT ![r] = NoCall]
  /\ rest' = [rest EXCEPT ![r] = NoBody]
  /\ item' = [item EXCEPT ![r] = NoItem]
  /\ txAllocated' = [txAllocated EXCEPT ![r] = [c \in Charge |-> 0]]
  /\ txDrawn' = [txDrawn EXCEPT ![r] = [p \in Payment |-> 0]]
  /\ txLinks' = [txLinks EXCEPT ![r] = {}]

\* Variant: a transaction that is never closed keeps its row locks.
RollbackKeepingLocks(r) ==
  /\ pc' = [pc EXCEPT ![r] = "idle"]
  /\ call' = [call EXCEPT ![r] = NoCall]
  /\ rest' = [rest EXCEPT ![r] = NoBody]
  /\ item' = [item EXCEPT ![r] = NoItem]
  /\ txAllocated' = [txAllocated EXCEPT ![r] = [c \in Charge |-> 0]]
  /\ txDrawn' = [txDrawn EXCEPT ![r] = [p \in Payment |-> 0]]
  /\ txLinks' = [txLinks EXCEPT ![r] = {}]
  /\ UNCHANGED <<tables, locks>>

Rollback(r) == Release(r) /\ UNCHANGED tables

\* Request r commits its allocation rows: the sums of both views grow by them.
CommitAllocations(r) ==
  /\ allocated' = [c \in Charge |-> allocated[c] + txAllocated[r][c]]
  /\ drawn' = [p \in Payment |-> drawn[p] + txDrawn[r][p]]
  /\ links' = links \cup txLinks[r]
  /\ Release(r)

\* The next statement of r, once its guard held.
Goto(r, s) ==
  /\ pc' = [pc EXCEPT ![r] = s]
  /\ UNCHANGED <<tables, call, rest, item, tx>>

------------------------------------------------------------------------------
\* createAdHocCharge: one INSERT.

CreateAdHocCharge(c, k, n) ==
  /\ ~Issued(c)
  /\ charge' = [charge EXCEPT ![c] = [client |-> k, cents |-> n, reason |-> None]]
  /\ UNCHANGED <<payment, allocated, drawn, links, locks, pc, call, rest, item, tx>>

\* recordPayment: the arithmetic check of the body, then the transaction's first
\* INSERT.  Every allocation is from the new payment.
RecordPayment(r, p, k, n, body) ==
  /\ pc[r] = "idle"
  /\ ~Received(p) /\ \A q \in Request : call[q].own # p
  /\ Pairs(body) \subseteq {p} \X KnownCharges
  /\ From(body, p) <= n
  /\ pc' = [pc EXCEPT ![r] = "walk"]
  /\ call' = [call EXCEPT ![r] = [client |-> k, own |-> p, cents |-> n, reason |-> None, body |-> body]]
  /\ rest' = [rest EXCEPT ![r] = body]
  /\ UNCHANGED <<tables, locks, item, tx>>

\* applyCredit, confirmed with a list that is not empty: any payment, any charge.
ApplyCredit(r, k, body) ==
  /\ pc[r] = "idle"
  /\ Pairs(body) # {} /\ Pairs(body) \subseteq KnownPayments \X KnownCharges
  /\ pc' = [pc EXCEPT ![r] = "walk"]
  /\ call' = [call EXCEPT ![r] = [client |-> k, own |-> None, cents |-> 0, reason |-> None, body |-> body]]
  /\ rest' = [rest EXCEPT ![r] = body]
  /\ UNCHANGED <<tables, locks, item, tx>>

\* The loop takes the next line of the body: n cents of payment p for charge c.
\* The lines come in any order, and a pair may be on several.
TakeLine(r, p, c, n) ==
  /\ n <= rest[r][p][c]
  /\ rest' = [rest EXCEPT ![r][p][c] = @ - n]
  /\ item' = [item EXCEPT ![r] = [payment |-> p, charge |-> c, cents |-> n]]

NextOfPayment(r, c, n) ==
  /\ pc[r] = "walk" /\ call[r].own # None
  /\ TakeLine(r, call[r].own, c, n)
  /\ pc' = [pc EXCEPT ![r] = "lockCharge"]
  /\ UNCHANGED <<tables, locks, call, tx>>

NextOfCredit(r, p, c, n) ==
  /\ pc[r] = "walk" /\ call[r].own = None
  /\ TakeLine(r, p, c, n)
  /\ pc' = [pc EXCEPT ![r] = "lockPayment"]
  /\ UNCHANGED <<tables, locks, call, tx>>

\* Variants: the row is read without FOR UPDATE.
SeePayment(r) ==
  /\ pc[r] = "lockPayment"
  /\ UNCHANGED locks
  /\ Goto(r, "lockCharge")

SeeCharge(r) ==
  /\ pc[r] = "lockCharge"
  /\ UNCHANGED locks
  /\ Goto(r, IF call[r].own = None THEN "checkCredit" ELSE "checkBalance")

LockPayment(r) ==
  LET p == item[r].payment IN
  /\ pc[r] = "lockPayment"
  /\ paymentLock[p] \in {None, r}
  /\ paymentLock' = [paymentLock EXCEPT ![p] = r]
  /\ UNCHANGED chargeLock
  /\ Goto(r, "lockCharge")

LockCharge(r) ==
  LET c == item[r].charge IN
  /\ pc[r] = "lockCharge"
  /\ chargeLock[c] \in {None, r}
  /\ chargeLock' = [chargeLock EXCEPT ![c] = r]
  /\ UNCHANGED paymentLock
  /\ Goto(r, IF call[r].own = None THEN "checkCredit" ELSE "checkBalance")

\* The row of payment_credits the statement asks for, and enough of it.
EnoughCredit(r) ==
  LET p == item[r].payment IN
  /\ payment[p].client = call[r].client
  /\ item[r].cents <= CreditCents(r, p)

CheckCredit(r) ==
  /\ pc[r] = "checkCredit"
  /\ IF EnoughCredit(r) THEN Goto(r, "checkBalance") /\ UNCHANGED locks ELSE Rollback(r)

\* Variants: the statement is not bound to the client, or reads forgiven charges too.
EnoughBalanceOfAnyClient(r) ==
  LET c == item[r].charge IN
  /\ ~WrittenOff(c)
  /\ item[r].cents <= OutstandingCents(r, c)

EnoughBalanceEvenForgiven(r) ==
  LET c == item[r].charge IN
  /\ charge[c].client = call[r].client
  /\ item[r].cents <= OutstandingCents(r, c)

\* The row of charge_balances the statement asks for, and enough of it.
EnoughBalance(r) ==
  LET c == item[r].charge IN
  /\ charge[c].client = call[r].client
  /\ ~WrittenOff(c)
  /\ item[r].cents <= OutstandingCents(r, c)

CheckBalance(r) ==
  /\ pc[r] = "checkBalance"
  /\ IF EnoughBalance(r) THEN Goto(r, "insert") /\ UNCHANGED locks ELSE Rollback(r)

\* Variant: the row is inserted by the client itself, outside the transaction.
InsertOutsideTransaction(r) ==
  LET p == item[r].payment  c == item[r].charge  n == item[r].cents IN
  /\ pc[r] = "insert"
  /\ allocated' = [allocated EXCEPT ![c] = @ + n]
  /\ drawn' = [drawn EXCEPT ![p] = @ + n]
  /\ links' = links \cup {<<p, c>>}
  /\ pc' = [pc EXCEPT ![r] = "walk"]
  /\ item' = [item EXCEPT ![r] = NoItem]
  /\ UNCHANGED <<charge, payment, locks, call, rest, tx>>

InsertAllocation(r) ==
  LET p == item[r].payment  c == item[r].charge  n == item[r].cents IN
  /\ pc[r] = "insert"
  /\ txAllocated' = [txAllocated EXCEPT ![r][c] = @ + n]
  /\ txDrawn' = [txDrawn EXCEPT ![r][p] = @ + n]
  /\ txLinks' = [txLinks EXCEPT ![r] = @ \cup {<<p, c>>}]
  /\ pc' = [pc EXCEPT ![r] = "walk"]
  /\ item' = [item EXCEPT ![r] = NoItem]
  /\ UNCHANGED <<tables, locks, call, rest>>

CommitPayment(r) ==
  /\ pc[r] = "walk" /\ call[r].own # None /\ rest[r] = NoBody
  /\ payment' = [payment EXCEPT ![call[r].own] = [client |-> call[r].client, cents |-> call[r].cents]]
  /\ CommitAllocations(r)
  /\ UNCHANGED charge

CommitCredit(r) ==
  /\ pc[r] = "walk" /\ call[r].own = None /\ rest[r] = NoBody
  /\ CommitAllocations(r)
  /\ UNCHANGED <<charge, payment>>

\* writeOffCharge: a read outside any transaction, then an UPDATE by id alone.
ReadWriteOff(r, c, why) ==
  /\ pc[r] = "idle"
  /\ Issued(c) /\ ~WrittenOff(c)
  /\ pc' = [pc EXCEPT ![r] = "stamp"]
  /\ call' = [call EXCEPT ![r] = [NoCall EXCEPT !.reason = why]]
  /\ item' = [item EXCEPT ![r] = [NoItem EXCEPT !.charge = c]]
  /\ UNCHANGED <<tables, locks, rest, tx>>

\* The UPDATE waits for the row's lock, takes it and gives it back at once.
StampWriteOff(r) ==
  LET c == item[r].charge IN
  /\ pc[r] = "stamp"
  /\ chargeLock[c] = None
  /\ charge' = [charge EXCEPT ![c].reason = call[r].reason]
  /\ Release(r)
  /\ UNCHANGED <<payment, allocated, drawn, links>>

------------------------------------------------------------------------------
\* What Postgres, Prisma and the process do to a request.

\* r waits for a row that q has locked.
WaitsFor(r, q) ==
  /\ r # q
  /\ \/ pc[r] = "lockPayment" /\ paymentLock[item[r].payment] = q
     \/ pc[r] \in {"lockCharge", "stamp"} /\ chargeLock[item[r].charge] = q

\* A waiter waits for one holder only, so the requests of a wait cycle are a set
\* in which everyone waits for a member and is waited for by one.
InWaitCycle(r) ==
  \E S \in SUBSET Request :
    /\ r \in S
    /\ \A q \in S : (\E s \in S : WaitsFor(q, s)) /\ (\E s \in S : WaitsFor(s, q))

\* Postgres aborts a member of a wait cycle (40P01).
DeadlockVictim(r) == pc[r] # "idle" /\ InWaitCycle(r) /\ Rollback(r)

\* Prisma's transaction timeout, a lost connection or a stop of the API process.
Abort(r) == pc[r] # "idle" /\ Rollback(r)

------------------------------------------------------------------------------
Progress(r) ==
  \/ \E c \in KnownCharges, n \in Amount : NextOfPayment(r, c, n)
  \/ \E p \in KnownPayments, c \in KnownCharges, n \in Amount : NextOfCredit(r, p, c, n)
  \/ LockPayment(r)
  \/ LockCharge(r)
  \/ CheckCredit(r)
  \/ CheckBalance(r)
  \/ InsertAllocation(r)
  \/ CommitPayment(r)
  \/ CommitCredit(r)
  \/ StampWriteOff(r)

Next ==
  \/ \E c \in Charge, k \in Client, n \in Amount : CreateAdHocCharge(c, k, n)
  \/ \E r \in Request :
       \/ \E p \in Payment, k \in Client, n \in Amount, body \in Body : RecordPayment(r, p, k, n, body)
       \/ \E k \in Client, body \in Body : ApplyCredit(r, k, body)
       \/ \E c \in Charge, why \in Reason : ReadWriteOff(r, c, why)
       \/ Progress(r)
       \/ DeadlockVictim(r)
       \/ Abort(r)

Spec == Init /\ [][Next]_vars

\* A request goes on; Postgres hands a row lock to its waiters in the order they
\* asked, and its deadlock detector aborts a member of every wait cycle.  Nothing
\* makes a request fail (Abort) or arrive.
Fairness == \A r \in Request : SF_vars(Progress(r)) /\ WF_vars(DeadlockVictim(r))

FairSpec == Spec /\ Fairness

------------------------------------------------------------------------------
\* Safety.

\* Allocations never exceed what a charge bills, whatever payments and credit
\* are recorded against it at the same time (recordPayment, applyCredit).
NoOverAllocation == \A c \in Charge : allocated[c] <= charge[c].cents

\* A payment never settles more than was received: the credit of the
\* payment_credits view is never negative.
NoOverdraw == \A p \in Payment : drawn[p] <= payment[p].cents

\* One client's money never settles another client's debt, although a request
\* may carry a proposal made for another client.
SameClient == \A l \in links : payment[l[1]].client = charge[l[2]].client

\* Once a write-off is committed no money is allocated to the charge any more,
\* even by a transaction that began before it.
ForgivenDebtTakesNoMoney == [][\A c \in Charge : WrittenOff(c) => allocated'[c] = allocated[c]]_vars

\* The comment in writeOffCharge: a second write-off must not overwrite the
\* reason a debt was forgiven for.
WriteOffReasonIsFinal ==
  [][\A c \in Charge : WrittenOff(c) => charge'[c].reason = charge[c].reason]_vars

\* The comment in applyCredit: recordPayment cannot deadlock against it.
PaymentCannotDeadlockCredit ==
  ~ \E r, q \in Request :
      /\ InWaitCycle(r) /\ InWaitCycle(q)
      /\ call[r].own # None
      /\ call[q].own = None /\ pc[q] = "lockCharge"

\* A request that began is answered: no wait for a row lock lasts for ever.
EveryRequestEnds == \A r \in Request : pc[r] # "idle" ~> pc[r] = "idle"

------------------------------------------------------------------------------
\* The abstract ledger, over the committed tables and the requests in a transaction.

Asked ==
  [r \in Request |->
     IF pc[r] \in {"idle", "stamp"} THEN [client |-> None, own |-> None, cents |-> 0, body |-> NoBody]
     ELSE [client |-> call[r].client, own |-> call[r].own, cents |-> call[r].cents, body |-> call[r].body]]

Ledger == INSTANCE AtomicLedger WITH asked <- Asked

\* All or nothing: a request changes the tables in one step, by its payment and by
\* every allocation of its body, and is then over; a request that ends in any other
\* way - refused, deadlocked, timed out, lost - leaves no trace in them, and no
\* other statement is seen.
ImplementsLedger == Ledger!Spec
==============================================================================
