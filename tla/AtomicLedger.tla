----------------------------- MODULE AtomicLedger -----------------------------
(***************************************************************************)
(* What the ledger promises: a request that records a payment or applies   *)
(* credit is either carried out whole, in one step that enters its payment *)
(* and every allocation of its body, or leaves the tables as they were.    *)
(* Billing implements it statement by statement, with locks, rollbacks and *)
(* lost requests.                                                          *)
(***************************************************************************)
EXTENDS LedgerTables

CONSTANTS
  Request,     \* requests in flight at once
  Body         \* the allocations a request may ask for

VARIABLE asked \* what each request in flight asks for

NoAsk == [client |-> None, own |-> None, cents |-> 0, body |-> NoBody]

\* A payment of its own to record, or credit to apply.
Asks == [client: Client, own: Payment, cents: Amount, body: Body] \cup
        [client: Client, own: {None}, cents: {0}, body: Body]

AtomicInit == Init /\ asked = [r \in Request |-> NoAsk]

\* A request comes.
Ask(r) ==
  /\ asked[r] = NoAsk
  /\ asked'[r] \in Asks
  /\ asked' = [asked EXCEPT ![r] = asked'[r]]
  /\ UNCHANGED vars

Close(r) == asked' = [asked EXCEPT ![r] = NoAsk]

\* It is refused, or lost.
Refuse(r) == asked[r] # NoAsk /\ Close(r) /\ UNCHANGED vars

\* It is carried out.
Commit(r) ==
  LET a == asked[r] IN
  /\ a # NoAsk
  /\ IF a.own = None THEN UNCHANGED payment ELSE Receive(a.own, a.client, a.cents)
  /\ Settle(a.client, a.body)
  /\ Close(r)

AtomicNext ==
  \/ \E c \in Charge, k \in Client, n \in Amount : Owe(c, k, n) /\ UNCHANGED asked
  \/ \E c \in Charge, why \in Reason : Forgive(c, why) /\ UNCHANGED asked
  \/ \E r \in Request :
       \/ Ask(r)
       \/ Refuse(r)
       \/ Commit(r)

Spec == AtomicInit /\ [][AtomicNext]_<<vars, asked>>
===============================================================================
