----------------------------- MODULE LedgerBodies -----------------------------
(***************************************************************************)
(* The allocations a request asks for: the body of recordPayment or of     *)
(* applyCredit, as the cents it puts from each payment on each charge.  A  *)
(* body may name a pair on several lines, which add up.                    *)
(***************************************************************************)
EXTENDS Integers, Functions

CONSTANTS
  Charge,      \* ids a Charge row may get
  Payment      \* ids a Payment row may get

Bodies == [Payment -> [Charge -> Nat]]

NoBody == [p \in Payment |-> [c \in Charge |-> 0]]

\* The cents the body takes from payment p, and those it puts on charge c.
From(body, p) == SumFunctionOnSet(body[p], Charge)
Onto(body, c) == SumFunctionOnSet([p \in Payment |-> body[p][c]], Payment)

Pairs(body) == {l \in Payment \X Charge : body[l[1]][l[2]] > 0}
===============================================================================
