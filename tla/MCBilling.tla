------------------------------ MODULE MCBilling ------------------------------
EXTENDS BillingInv, TLC

\* Bodies of at most 2 cents, and those of them without two cents on one pair: nothing,
\* one line, or two that share the payment, the charge or neither.
MCBody ==
  {body \in [Payment -> [Charge -> {0} \cup Amount]] : SumFunction([p \in Payment |-> From(body, p)]) <= 2}

MCLines == {body \in MCBody : \A p \in Payment, c \in Charge : body[p][c] <= 1}

\* Ids, slots and clients are interchangeable.
Symmetry == Permutations(Client) \cup Permutations(Charge) \cup Permutations(Payment)
              \cup Permutations(Request)

\* Liveness starts from books already open, which the runs on safety reach from
\* the empty ones: every charge of 1 cent issued to one client, and one payment of
\* 2 cents in credit.
OpenBooks ==
  /\ charge = [c \in Charge |-> [client |-> CHOOSE k \in Client : TRUE, cents |-> 1, reason |-> None]]
  /\ payment = [p \in Payment |->
                  IF p = CHOOSE paid \in Payment : TRUE
                  THEN [client |-> CHOOSE k \in Client : TRUE, cents |-> 2] ELSE NoPayment]
  /\ allocated = [c \in Charge |-> 0]
  /\ drawn = [p \in Payment |-> 0]
  /\ links = {}
  /\ NothingInFlight

OpenBooksSpec == OpenBooks /\ [][Next]_vars /\ Fairness
==============================================================================
