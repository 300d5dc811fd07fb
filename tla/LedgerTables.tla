----------------------------- MODULE LedgerTables -----------------------------
(***************************************************************************)
(* The tables of the ledger as other requests and the views see them, and  *)
(* what a commit does to them.                                             *)
(***************************************************************************)
EXTENDS LedgerBodies

CONSTANTS Client, Amount, Reason, None

VARIABLES charge, payment, allocated, drawn, links

vars == <<charge, payment, allocated, drawn, links>>

NoCharge  == [client |-> None, cents |-> 0, reason |-> None]
NoPayment == [client |-> None, cents |-> 0]

Init ==
  /\ charge = [c \in Charge |-> NoCharge]
  /\ payment = [p \in Payment |-> NoPayment]
  /\ allocated = [c \in Charge |-> 0]
  /\ drawn = [p \in Payment |-> 0]
  /\ links = {}

\* A client comes to owe something.
Owe(c, k, n) ==
  /\ charge[c] = NoCharge
  /\ charge' = [charge EXCEPT ![c] = [client |-> k, cents |-> n, reason |-> None]]
  /\ UNCHANGED <<payment, allocated, drawn, links>>

\* A debt is forgiven.  A second reason may replace the first: two requests that
\* both read the charge as open both stamp it.
Forgive(c, why) ==
  /\ charge[c].client # None
  /\ charge' = [charge EXCEPT ![c].reason = why]
  /\ UNCHANGED <<payment, allocated, drawn, links>>

\* A payment of client k is new.
Receive(p, k, n) ==
  /\ payment[p] = NoPayment
  /\ payment' = [payment EXCEPT ![p] = [client |-> k, cents |-> n]]

\* The whole body, and nothing else, is allocated: money of client k on debts of
\* client k that nobody has forgiven, never beyond what is owed and never beyond
\* what was received.
Settle(k, body) ==
  /\ allocated' = [c \in Charge |-> allocated[c] + Onto(body, c)]
  /\ drawn' = [p \in Payment |-> drawn[p] + From(body, p)]
  /\ links' = links \cup Pairs(body)
  /\ \A c \in Charge : Onto(body, c) > 0 =>
       charge[c].client = k /\ charge[c].reason = None /\ allocated'[c] <= charge[c].cents
  /\ \A p \in Payment : From(body, p) > 0 =>
       payment'[p].client = k /\ drawn'[p] <= payment'[p].cents
  /\ UNCHANGED charge
===============================================================================
