---------------------------- MODULE BillingProofs ----------------------------
(***************************************************************************)
(* RowsInv is inductive, so the ledger's safety holds for any number of    *)
(* clients, rows and concurrent requests; and every committed step of      *)
(* Billing is one step of AtomicLedger.  One lemma per action shows that   *)
(* it preserves RowsInv, one step of its proof per part of RowsInv.  Then  *)
(* the sums: no step makes or loses money (MoneyBalances).                 *)
(***************************************************************************)
EXTENDS BillingInv, Sums

USE NoneIsNoValue, AmountsArePositive
USE DEF vars, tables, locks, tx, NoCharge, NoPayment, NoCall, NoItem, Statement, Processing,
        Issued, Received, WrittenOff, KnownCharges, KnownPayments

(* Bodies: what taking a line out does to the sums of payments and charges. *)

LEMMA NoBodyIsEmpty ==
  /\ NoBody \in Bodies /\ Pairs(NoBody) = {}
  /\ \A p \in Payment : From(NoBody, p) = 0
  /\ \A c \in Charge : Onto(NoBody, c) = 0
<1>1. NoBody \in Bodies /\ Pairs(NoBody) = {} /\ \A p \in Payment, c \in Charge : NoBody[p][c] = 0
  BY DEF NoBody, Bodies, Pairs
<1>2. ASSUME NEW p \in Payment PROVE From(NoBody, p) = 0
  BY <1>1, TablesAreFinite, SumOfZeros DEF From
<1>3. ASSUME NEW c \in Charge PROVE Onto(NoBody, c) = 0
  <2>1. \A p \in Payment : [q \in Payment |-> NoBody[q][c]][p] = 0
    BY <1>1
  <2> QED BY <2>1, TablesAreFinite, SumOfZeros DEF Onto
<1> QED BY <1>1, <1>2, <1>3

LEMMA BodySums ==
  ASSUME NEW b \in Bodies
  PROVE  (\A p \in Payment : From(b, p) \in Nat) /\ (\A c \in Charge : Onto(b, c) \in Nat)
<1>1. ASSUME NEW p \in Payment PROVE From(b, p) \in Nat
  <2>1. \A c \in Charge : b[p][c] \in Nat
    BY DEF Bodies
  <2> QED BY <2>1, TablesAreFinite, SumIsNatural DEF From
<1>2. ASSUME NEW c \in Charge PROVE Onto(b, c) \in Nat
  <2> DEFINE f == [q \in Payment |-> b[q][c]]
  <2>1. \A p \in Payment : f[p] \in Nat
    BY DEF Bodies
  <2> HIDE DEF f
  <2>2. SumFunctionOnSet(f, Payment) \in Nat
    BY <2>1, TablesAreFinite, SumIsNatural
  <2> QED BY <2>2 DEF Onto, f
<1> QED BY <1>1, <1>2

LEMMA RowTaken ==
  ASSUME NEW f, NEW g, NEW n \in Nat, NEW c \in Charge, f[c] \in Nat, g[c] = f[c] - n,
         Summable(f, Charge), Summable(g, Charge), \A d \in Charge \ {c} : f[d] = g[d]
  PROVE  SumFunctionOnSet(g, Charge) = SumFunctionOnSet(f, Charge) - n
<1>1. SumFunctionOnSet(g, Charge) = SumFunctionOnSet(f, Charge) + (g[c] - f[c])
  BY SumChanges
<1>2. SumFunctionOnSet(f, Charge) \in Int
  BY SumIsInteger DEF Summable
<1> QED BY <1>1, <1>2

\* Body b without n of the cents it puts from p on c.
Without(b, p, c, n) == [b EXCEPT ![p][c] = @ - n]

LEMMA LineTaken ==
  ASSUME NEW b \in Bodies, NEW p \in Payment, NEW c \in Charge, NEW n \in Nat, n <= b[p][c]
  PROVE  LET e == Without(b, p, c, n) IN
         /\ e \in Bodies
         /\ \A q \in Payment, d \in Charge : e[q][d] = IF q = p /\ d = c THEN b[p][c] - n ELSE b[q][d]
         /\ \A q \in Payment : From(b, q) = From(e, q) + (IF q = p THEN n ELSE 0)
         /\ \A d \in Charge : Onto(b, d) = Onto(e, d) + (IF d = c THEN n ELSE 0)
<1> PICK e : e = Without(b, p, c, n)
  OBVIOUS
<1>0. e = [b EXCEPT ![p][c] = @ - n]
  BY DEF Without
<1>1. /\ e \in Bodies
      /\ \A q \in Payment, d \in Charge : e[q][d] = IF q = p /\ d = c THEN b[p][c] - n ELSE b[q][d]
  BY <1>0 DEF Bodies
<1>2. \A q \in Payment, d \in Charge : b[q][d] \in Nat /\ e[q][d] \in Nat
  BY <1>1 DEF Bodies
<1>3. ASSUME NEW q \in Payment PROVE From(b, q) = From(e, q) + (IF q = p THEN n ELSE 0)
  <2>1. Summable(b[q], Charge) /\ Summable(e[q], Charge) /\ From(b, q) \in Nat /\ From(e, q) \in Nat
    BY <1>1, <1>2, TablesAreFinite, BodySums DEF Summable
  <2>2. CASE q = p
    <3>1. \A d \in Charge \ {c} : b[q][d] = e[q][d]
      BY <1>1, <2>2
    <3>2. b[q][c] \in Nat /\ e[q][c] = b[q][c] - n
      BY <1>1, <1>2, <2>2
    <3>3. SumFunctionOnSet(e[q], Charge) = SumFunctionOnSet(b[q], Charge) - n
      BY <2>1, <3>1, <3>2, RowTaken
    <3> QED BY <2>1, <2>2, <3>3 DEF From
  <2>3. CASE q # p
    <3>1. \A d \in Charge : b[q][d] = e[q][d]
      BY <1>1, <2>3
    <3>2. From(b, q) = From(e, q)
      BY <3>1, TablesAreFinite, SumOfSame DEF From
    <3> QED BY <2>1, <2>3, <3>2
  <2> QED BY <2>2, <2>3
<1>4. ASSUME NEW d \in Charge PROVE Onto(b, d) = Onto(e, d) + (IF d = c THEN n ELSE 0)
  <2> DEFINE f == [q \in Payment |-> b[q][d]]  g == [q \in Payment |-> e[q][d]]
  <2>1. \A q \in Payment : f[q] = b[q][d] /\ g[q] = e[q][d] /\ f[q] \in Nat /\ g[q] \in Nat
    BY <1>2
  <2>2. Onto(b, d) = SumFunctionOnSet(f, Payment) /\ Onto(e, d) = SumFunctionOnSet(g, Payment)
    BY DEF Onto
  <2>3. Onto(b, d) \in Nat /\ Onto(e, d) \in Nat
    BY <1>1, BodySums
  <2> HIDE DEF f, g
  <2>4. Summable(f, Payment) /\ Summable(g, Payment)
    BY <2>1, TablesAreFinite DEF Summable
  <2>5. CASE d = c
    <3>1. \A q \in Payment \ {p} : f[q] = g[q]
      BY <1>1, <2>1
    <3>2. Onto(e, d) = Onto(b, d) + (g[p] - f[p])
      BY <2>2, <2>4, <3>1, SumChanges
    <3> QED BY <1>1, <1>2, <2>1, <2>3, <2>5, <3>2
  <2>6. CASE d # c
    <3>1. \A q \in Payment : f[q] = g[q]
      BY <1>1, <2>1, <2>6
    <3>2. Onto(b, d) = Onto(e, d)
      BY <2>2, <3>1, TablesAreFinite, SumOfSame
    <3> QED BY <2>3, <2>6, <3>2
  <2> QED BY <2>5, <2>6
<1> QED BY <1>1, <1>3, <1>4

\* What request r's loop has still to take from payment p.
LEMMA RestIsNatural ==
  ASSUME TypeOK, NEW r \in Request
  PROVE  /\ rest[r] \in Bodies /\ call[r].body \in Bodies
         /\ \A p \in Payment : From(rest[r], p) \in Nat
<1>1. rest[r] \in Bodies /\ call[r].body \in Bodies
  BY DEF TypeOK, Bodies
<1> QED BY <1>1, BodySums

LEMMA BodiesAreBodies == Body \subseteq Bodies /\ NoBody \in Bodies
BY BodiesAreAmounts, NoBodyIsEmpty

\* The loop's next line: it leaves what it does not take.
LEMMA RestTaken ==
  ASSUME TypeOK, NEW r \in Request, NEW p \in Payment, NEW c \in Charge, NEW n \in Amount, TakeLine(r, p, c, n)
  PROVE  /\ rest' \in [Request -> Bodies]
         /\ item' = [item EXCEPT ![r] = [payment |-> p, charge |-> c, cents |-> n]]
         /\ \A q \in Request \ {r} : rest'[q] = rest[q]
         /\ \A q \in Payment, d \in Charge : rest'[r][q][d] = IF q = p /\ d = c THEN rest[r][p][c] - n ELSE rest[r][q][d]
         /\ \A q \in Payment : From(rest[r], q) = From(rest'[r], q) + (IF q = p THEN n ELSE 0)
         /\ \A d \in Charge : Onto(rest[r], d) = Onto(rest'[r], d) + (IF d = c THEN n ELSE 0)
<1> PICK old : old = rest[r]
  OBVIOUS
<1> PICK new : new = Without(old, p, c, n)
  OBVIOUS
<1>1. rest' = [rest EXCEPT ![r] = new] /\ rest \in [Request -> Bodies]
  BY DEF TakeLine, TypeOK, Without
<1>2. old \in Bodies /\ n \in Nat /\ n <= old[p][c]
  BY <1>1 DEF TakeLine
<1>3. /\ new \in Bodies
      /\ \A q \in Payment, d \in Charge : new[q][d] = IF q = p /\ d = c THEN old[p][c] - n ELSE old[q][d]
      /\ \A q \in Payment : From(old, q) = From(new, q) + (IF q = p THEN n ELSE 0)
      /\ \A d \in Charge : Onto(old, d) = Onto(new, d) + (IF d = c THEN n ELSE 0)
  BY <1>2, LineTaken
<1>4. rest' \in [Request -> Bodies] /\ rest'[r] = new /\ \A q \in Request \ {r} : rest'[q] = rest[q]
  BY <1>1, <1>3
<1>5. item' = [item EXCEPT ![r] = [payment |-> p, charge |-> c, cents |-> n]]
  BY DEF TakeLine
<1> QED BY <1>3, <1>4, <1>5

------------------------------------------------------------------------------

\* The empty books satisfy the invariant.
LEMMA InitIInv == Init => RowsInv
<1> SUFFICES ASSUME Init PROVE RowsInv
    OBVIOUS
<1> USE DEF Init, NothingInFlight
<1>1. TypeOK BY BodiesAreBodies DEF TypeOK
<1>2. AbsentRows /\ FreeSlots /\ ActsForClient /\ OwnPayment
  BY DEF AbsentRows, FreeSlots, ActsForClient, OwnPayment
<1>3. ItemInProgress /\ ItemLocked /\ CheckedStaysTrue
  BY DEF ItemInProgress, ItemLocked, CheckedStaysTrue
<1>4. PendingOnCharges /\ PendingOnPayments /\ LinksOfOneClient
  BY DEF PendingOnCharges, PendingOnPayments, PendingOnPayment, LinksOfOneClient, InHand
<1>5. QED BY <1>1, <1>2, <1>3, <1>4 DEF RowsInv

\* The INSERT of an allocation keeps the invariant: it is within the charge and the
\* payment because CheckedStaysTrue still holds of the rows it locked.
LEMMA InsertIInv ==
  ASSUME RowsInv, NEW r \in Request, InsertAllocation(r)
  PROVE  RowsInv'
<1> USE DEF RowsInv, InsertAllocation
<1>1. TypeOK' BY DEF TypeOK, ItemInProgress
<1>2. AbsentRows' BY DEF AbsentRows
<1>3. FreeSlots' BY DEF TypeOK, FreeSlots
<1>4. ActsForClient' BY DEF TypeOK, ActsForClient
<1>5. OwnPayment' BY DEF TypeOK, OwnPayment
<1>6. ItemInProgress' BY DEF TypeOK, ItemInProgress
<1>7. ItemLocked' BY DEF TypeOK, ItemLocked
<1>8. CheckedStaysTrue' BY DEF TypeOK, CheckedStaysTrue, EnoughCredit, EnoughBalance, CreditCents, OutstandingCents
<1>9. PendingOnCharges' BY DEF TypeOK, PendingOnCharges, CheckedStaysTrue, EnoughBalance, OutstandingCents, ItemLocked, ItemInProgress
<1>10. PendingOnPayments'
  <2>1. \A q \in Request, p \in Payment : From(rest[q], p) \in Nat
    BY RestIsNatural
  <2> QED BY <2>1 DEF TypeOK, PendingOnPayments, PendingOnPayment, CheckedStaysTrue, EnoughCredit, CreditCents,
                      ItemLocked, ItemInProgress, InHand
<1>11. LinksOfOneClient'
  <2>1. ASSUME NEW q \in Request, NEW l \in txLinks'[q]
        PROVE  /\ charge[l[2]].client = call[q].client
               /\ l[1] = call[q].own \/ payment[l[1]].client = call[q].client
    <3>1. CASE l \in txLinks[q]
      BY <3>1 DEF LinksOfOneClient
    <3>2. CASE l \notin txLinks[q]
      <4>1. q = r /\ l = <<item[r].payment, item[r].charge>>
        BY <2>1, <3>2 DEF TypeOK
      <4>2. EnoughBalance(r) /\ (call[r].own = None => EnoughCredit(r))
        BY DEF CheckedStaysTrue
      <4>3. QED BY <4>1, <4>2 DEF EnoughBalance, EnoughCredit, ItemInProgress
    <3>3. QED BY <3>1, <3>2
  <2>2. QED BY <2>1 DEF LinksOfOneClient
<1>12. QED BY <1>1, <1>2, <1>3, <1>4, <1>5, <1>6, <1>7, <1>8, <1>9, <1>10, <1>11

\* A new charge keeps the invariant: nothing referred to a row that was not there.
LEMMA CreateIInv ==
  ASSUME RowsInv, NEW c \in Charge, NEW k \in Client, NEW n \in Amount, CreateAdHocCharge(c, k, n)
  PROVE  RowsInv'
<1> USE DEF RowsInv, CreateAdHocCharge
<1>1. TypeOK'
  BY DEF TypeOK
<1>2. AbsentRows'
  BY DEF TypeOK, AbsentRows
<1>3. FreeSlots'
  BY DEF TypeOK, FreeSlots
<1>4. ActsForClient'
  BY DEF TypeOK, ActsForClient
<1>5. OwnPayment'
  BY DEF TypeOK, OwnPayment
<1>6. ItemInProgress'
  BY DEF TypeOK, ItemInProgress
<1>7. ItemLocked'
  BY DEF TypeOK, ItemLocked
<1>8. CheckedStaysTrue'
  BY DEF TypeOK, CheckedStaysTrue, EnoughCredit, EnoughBalance, CreditCents, OutstandingCents, ItemInProgress, AbsentRows
<1>9. PendingOnCharges'
  BY DEF TypeOK, PendingOnCharges, AbsentRows
<1>10. PendingOnPayments'
  BY DEF TypeOK, PendingOnPayments, PendingOnPayment, InHand
<1>11. LinksOfOneClient'
  <2>1. \A l \in links : Issued(l[2])' /\ payment'[l[1]].client = charge'[l[2]].client
    BY DEF TypeOK, LinksOfOneClient
  <2>2. ASSUME NEW r \in Request, NEW l \in txLinks[r]
        PROVE  charge'[l[2]] = charge[l[2]]
    <3>1. call[r].client \in Client
      BY DEF FreeSlots, ActsForClient
    <3> QED BY <3>1 DEF TypeOK, LinksOfOneClient
  <2> QED BY <2>1, <2>2 DEF LinksOfOneClient
<1>12. QED BY <1>1, <1>2, <1>3, <1>4, <1>5, <1>6, <1>7, <1>8, <1>9, <1>10, <1>11

\* The start of recordPayment keeps the invariant: its payment is new to every request.
LEMMA RecordPaymentIInv ==
  ASSUME RowsInv, NEW r \in Request, NEW p \in Payment, NEW k \in Client, NEW n \in Amount,
         NEW body \in Body, RecordPayment(r, p, k, n, body)
  PROVE  RowsInv'
<1> USE DEF RowsInv, RecordPayment
<1>1. TypeOK'
  BY BodiesAreBodies DEF TypeOK
<1>2. AbsentRows'
  BY DEF TypeOK, AbsentRows
<1>3. FreeSlots'
  BY DEF TypeOK, FreeSlots
<1>4. ActsForClient'
  BY DEF TypeOK, ActsForClient
<1>5. OwnPayment'
  <2> SUFFICES ASSUME NEW q \in Request, NEW p1 \in Payment, call'[q].own = p1
               PROVE  /\ payment'[p1] = NoPayment /\ drawn'[p1] = 0
                      /\ \A s \in Request : s # q => call'[s].own # p1
    BY DEF OwnPayment
  <2>1. CASE q = r
    <3>1. p1 = p
      BY <2>1 DEF TypeOK
    <3>2. payment[p] = NoPayment /\ call[r].own # p /\ drawn[p] \in Nat /\ txDrawn[r][p] \in Nat
      BY DEF TypeOK, AbsentRows
    <3>3. drawn[p] + txDrawn[r][p] <= payment[p].cents
      BY <3>2 DEF PendingOnPayments, PendingOnPayment
    <3>4. drawn[p] = 0
      BY <3>2, <3>3
    <3> QED BY <3>1, <3>2, <3>4 DEF TypeOK
  <2>2. CASE q # r
    BY <2>2 DEF TypeOK, OwnPayment
  <2> QED BY <2>1, <2>2
<1>6. ItemInProgress'
  BY DEF TypeOK, ItemInProgress
<1>7. ItemLocked'
  BY DEF TypeOK, ItemLocked
<1>8. CheckedStaysTrue'
  BY DEF TypeOK, CheckedStaysTrue, EnoughCredit, EnoughBalance, CreditCents, OutstandingCents
<1>9. PendingOnCharges'
  BY DEF TypeOK, PendingOnCharges, FreeSlots
<1>10. PendingOnPayments'
  <2> SUFFICES ASSUME NEW q \in Request, NEW x \in Payment PROVE PendingOnPayment(q, x)'
    BY DEF PendingOnPayments
  <2>1. PendingOnPayment(q, x)
    BY DEF PendingOnPayments
  <2>2. CASE q = r
    <3>1. /\ pc'[r] = "walk" /\ rest'[r] = body /\ call'[r].own = p /\ call'[r].cents = n
          /\ txDrawn'[r][x] = 0
      BY DEF TypeOK, FreeSlots
    <3>2. From(body, p) \in Nat /\ n \in Nat
      BY BodySums, BodiesAreBodies
    <3>3. CASE x = p
      BY <2>2, <3>1, <3>2, <3>3 DEF PendingOnPayment, InHand
    <3>4. CASE x # p
      <4>1. call[r].own # x
        BY DEF FreeSlots
      <4> QED BY <2>1, <2>2, <3>1, <3>4, <4>1 DEF PendingOnPayment
    <3> QED BY <3>3, <3>4
  <2>3. CASE q # r
    <3>1. pc'[q] = pc[q] /\ call'[q] = call[q] /\ rest'[q] = rest[q]
      BY <2>3 DEF TypeOK
    <3> QED BY <2>1, <3>1 DEF PendingOnPayment, InHand
  <2> QED BY <2>2, <2>3
<1>11. LinksOfOneClient'
  BY DEF TypeOK, LinksOfOneClient, FreeSlots
<1>12. QED BY <1>1, <1>2, <1>3, <1>4, <1>5, <1>6, <1>7, <1>8, <1>9, <1>10, <1>11

\* The start of applyCredit keeps the invariant: it claims nothing yet.
LEMMA ApplyCreditIInv ==
  ASSUME RowsInv, NEW r \in Request, NEW k \in Client, NEW body \in Body, ApplyCredit(r, k, body)
  PROVE  RowsInv'
<1> USE DEF RowsInv, ApplyCredit
<1>1. TypeOK'
  BY BodiesAreBodies DEF TypeOK
<1>2. AbsentRows'
  BY DEF TypeOK, AbsentRows
<1>3. FreeSlots'
  BY DEF TypeOK, FreeSlots
<1>4. ActsForClient'
  BY DEF TypeOK, ActsForClient
<1>5. OwnPayment'
  BY DEF TypeOK, OwnPayment
<1>6. ItemInProgress'
  BY DEF TypeOK, ItemInProgress
<1>7. ItemLocked'
  BY DEF TypeOK, ItemLocked
<1>8. CheckedStaysTrue'
  BY DEF TypeOK, CheckedStaysTrue, EnoughCredit, EnoughBalance, CreditCents, OutstandingCents
<1>9. PendingOnCharges'
  BY DEF TypeOK, PendingOnCharges, FreeSlots
<1>10. PendingOnPayments'
  BY DEF TypeOK, PendingOnPayments, PendingOnPayment, InHand, FreeSlots
<1>11. LinksOfOneClient'
  BY DEF TypeOK, LinksOfOneClient, FreeSlots
<1>12. QED BY <1>1, <1>2, <1>3, <1>4, <1>5, <1>6, <1>7, <1>8, <1>9, <1>10, <1>11

\* Taking the next allocation of a payment body moves it from the rest to the one in hand.
LEMMA NextOfPaymentIInv ==
  ASSUME RowsInv, NEW r \in Request, NEW c \in KnownCharges, NEW n \in Amount, NextOfPayment(r, c, n)
  PROVE  RowsInv'
<1>0. call[r].own \in Payment /\ c \in Charge /\ TypeOK /\ TakeLine(r, call[r].own, c, n)
  BY DEF RowsInv, TypeOK, NextOfPayment, KnownCharges
<1>a. /\ rest' \in [Request -> Bodies]
      /\ \A q \in Request \ {r} : rest'[q] = rest[q]
      /\ From(rest[r], call[r].own) = From(rest'[r], call[r].own) + n
  BY <1>0, RestTaken
<1> USE DEF RowsInv, NextOfPayment, TakeLine
<1>1. TypeOK'
  BY <1>a, <1>0 DEF TypeOK
<1>2. AbsentRows'
  BY DEF TypeOK, AbsentRows
<1>3. FreeSlots'
  BY DEF TypeOK, FreeSlots
<1>4. ActsForClient'
  BY DEF TypeOK, ActsForClient
<1>5. OwnPayment'
  BY DEF TypeOK, OwnPayment
<1>6. ItemInProgress'
  BY DEF TypeOK, ItemInProgress
<1>7. ItemLocked'
  BY DEF TypeOK, ItemLocked
<1>8. CheckedStaysTrue'
  BY DEF TypeOK, CheckedStaysTrue, EnoughCredit, EnoughBalance, CreditCents, OutstandingCents
<1>9. PendingOnCharges'
  BY DEF TypeOK, PendingOnCharges
<1>10. PendingOnPayments'
  <2> SUFFICES ASSUME NEW q \in Request, NEW x \in Payment PROVE PendingOnPayment(q, x)'
    BY DEF PendingOnPayments
  <2>1. PendingOnPayment(q, x)
    BY DEF PendingOnPayments
  <2>2. CASE q = r
    <3>1. pc'[r] = "lockCharge" /\ item'[r].cents = n /\ pc[r] = "walk" /\ n \in Nat
      BY DEF TypeOK
    <3>2. From(rest'[r], call[r].own) \in Nat /\ txDrawn[r][x] \in Nat
      BY <1>0, <1>a, BodySums DEF TypeOK
    <3> QED BY <2>1, <2>2, <3>1, <1>a, <3>2 DEF PendingOnPayment, InHand
  <2>3. CASE q # r
    <3>1. pc'[q] = pc[q] /\ rest'[q] = rest[q] /\ item'[q] = item[q]
      BY <2>3 DEF TypeOK
    <3> QED BY <2>1, <3>1 DEF PendingOnPayment, InHand
  <2> QED BY <2>2, <2>3
<1>11. LinksOfOneClient'
  BY DEF TypeOK, LinksOfOneClient
<1>12. QED BY <1>1, <1>2, <1>3, <1>4, <1>5, <1>6, <1>7, <1>8, <1>9, <1>10, <1>11

\* Taking the next allocation of a credit body keeps the invariant: it is in nobody's sum.
LEMMA NextOfCreditIInv ==
  ASSUME RowsInv, NEW r \in Request, NEW p \in KnownPayments, NEW c \in KnownCharges, NEW n \in Amount,
         NextOfCredit(r, p, c, n)
  PROVE  RowsInv'
<1> USE DEF RowsInv, NextOfCredit, TakeLine
<1>1. TypeOK'
  <2>1. rest' \in [Request -> Bodies]
    BY RestTaken
  <2> QED BY <2>1 DEF TypeOK
<1>2. AbsentRows'
  BY DEF TypeOK, AbsentRows
<1>3. FreeSlots'
  BY DEF TypeOK, FreeSlots
<1>4. ActsForClient'
  BY DEF TypeOK, ActsForClient
<1>5. OwnPayment'
  <2> SUFFICES ASSUME NEW q \in Request, NEW p1 \in Payment, call'[q].own = p1
               PROVE  /\ payment'[p1] = NoPayment /\ drawn'[p1] = 0
                      /\ \A s \in Request : s # q => call'[s].own # p1
    BY DEF OwnPayment
  <2> QED BY DEF OwnPayment
<1>6. ItemInProgress'
  BY DEF TypeOK, ItemInProgress
<1>7. ItemLocked'
  BY DEF TypeOK, ItemLocked
<1>8. CheckedStaysTrue'
  BY DEF TypeOK, CheckedStaysTrue, EnoughCredit, EnoughBalance, CreditCents, OutstandingCents
<1>9. PendingOnCharges'
  BY DEF TypeOK, PendingOnCharges
<1>10. PendingOnPayments'
  BY DEF TypeOK, PendingOnPayments, PendingOnPayment, InHand
<1>11. LinksOfOneClient'
  BY DEF TypeOK, LinksOfOneClient
<1>12. QED BY <1>1, <1>2, <1>3, <1>4, <1>5, <1>6, <1>7, <1>8, <1>9, <1>10, <1>11

\* The FOR UPDATE on a payment keeps the invariant: only a free row changes hands.
LEMMA LockPaymentIInv ==
  ASSUME RowsInv, NEW r \in Request, LockPayment(r)
  PROVE  RowsInv'
<1> USE DEF RowsInv, LockPayment, Goto
<1>1. TypeOK'
  BY DEF TypeOK
<1>2. AbsentRows'
  BY DEF TypeOK, AbsentRows, ItemInProgress
<1>3. FreeSlots'
  BY DEF TypeOK, FreeSlots
<1>4. ActsForClient'
  BY DEF TypeOK, ActsForClient
<1>5. OwnPayment'
  BY DEF TypeOK, OwnPayment
<1>6. ItemInProgress'
  BY DEF TypeOK, ItemInProgress
<1>7. ItemLocked'
  BY DEF TypeOK, ItemLocked, ItemInProgress
<1>8. CheckedStaysTrue'
  BY DEF TypeOK, CheckedStaysTrue, EnoughCredit, EnoughBalance, CreditCents, OutstandingCents
<1>9. PendingOnCharges'
  BY DEF TypeOK, PendingOnCharges
<1>10. PendingOnPayments'
  BY DEF TypeOK, PendingOnPayments, PendingOnPayment, InHand
<1>11. LinksOfOneClient'
  BY DEF TypeOK, LinksOfOneClient
<1>12. QED BY <1>1, <1>2, <1>3, <1>4, <1>5, <1>6, <1>7, <1>8, <1>9, <1>10, <1>11

\* The FOR UPDATE on a charge keeps the invariant: only a free row changes hands.
LEMMA LockChargeIInv ==
  ASSUME RowsInv, NEW r \in Request, LockCharge(r)
  PROVE  RowsInv'
<1> USE DEF RowsInv, LockCharge, Goto
<1>1. TypeOK'
  BY DEF TypeOK
<1>2. AbsentRows'
  BY DEF TypeOK, AbsentRows
<1>3. FreeSlots'
  BY DEF TypeOK, FreeSlots
<1>4. ActsForClient'
  BY DEF TypeOK, ActsForClient
<1>5. OwnPayment'
  <2> SUFFICES ASSUME NEW q \in Request, NEW p1 \in Payment, call'[q].own = p1
               PROVE  /\ payment'[p1] = NoPayment /\ drawn'[p1] = 0
                      /\ \A s \in Request : s # q => call'[s].own # p1
    BY DEF OwnPayment
  <2> QED BY DEF OwnPayment
<1>6. ItemInProgress'
  BY DEF TypeOK, ItemInProgress
<1>7. ItemLocked'
  BY DEF TypeOK, ItemLocked, ItemInProgress
<1>8. CheckedStaysTrue'
  BY DEF TypeOK, CheckedStaysTrue, EnoughCredit, EnoughBalance, CreditCents, OutstandingCents
<1>9. PendingOnCharges'
  BY DEF TypeOK, PendingOnCharges
<1>10. PendingOnPayments'
  BY DEF TypeOK, PendingOnPayments, PendingOnPayment, InHand
<1>11. LinksOfOneClient'
  BY DEF TypeOK, LinksOfOneClient
<1>12. QED BY <1>1, <1>2, <1>3, <1>4, <1>5, <1>6, <1>7, <1>8, <1>9, <1>10, <1>11

\* The read of writeOffCharge keeps the invariant: it takes no lock and writes nothing.
LEMMA ReadWriteOffIInv ==
  ASSUME RowsInv, NEW r \in Request, NEW c \in Charge, NEW why \in Reason, ReadWriteOff(r, c, why)
  PROVE  RowsInv'
<1> USE DEF RowsInv, ReadWriteOff
<1>1. TypeOK'
  BY BodiesAreBodies DEF TypeOK
<1>2. AbsentRows'
  BY DEF TypeOK, AbsentRows
<1>3. FreeSlots'
  BY DEF TypeOK, FreeSlots
<1>4. ActsForClient'
  BY DEF TypeOK, ActsForClient, FreeSlots
<1>5. OwnPayment'
  <2> SUFFICES ASSUME NEW q \in Request, NEW p1 \in Payment, call'[q].own = p1
               PROVE  /\ payment'[p1] = NoPayment /\ drawn'[p1] = 0
                      /\ \A s \in Request : s # q => call'[s].own # p1
    BY DEF OwnPayment
  <2>1. q # r
    BY DEF TypeOK
  <2> QED BY <2>1 DEF TypeOK, OwnPayment
<1>6. ItemInProgress'
  BY DEF TypeOK, ItemInProgress
<1>7. ItemLocked'
  BY DEF TypeOK, ItemLocked
<1>8. CheckedStaysTrue'
  BY DEF TypeOK, CheckedStaysTrue, EnoughCredit, EnoughBalance, CreditCents, OutstandingCents
<1>9. PendingOnCharges'
  BY DEF TypeOK, PendingOnCharges, FreeSlots
<1>10. PendingOnPayments'
  BY DEF TypeOK, PendingOnPayments, PendingOnPayment, InHand, FreeSlots
<1>11. LinksOfOneClient'
  BY DEF TypeOK, LinksOfOneClient, FreeSlots
<1>12. QED BY <1>1, <1>2, <1>3, <1>4, <1>5, <1>6, <1>7, <1>8, <1>9, <1>10, <1>11

------------------------------------------------------------------------------
\* The end of a transaction, as the other requests and its own slot see it.
Freed(r) ==
  /\ \A c \in Charge : chargeLock'[c] = IF chargeLock[c] = r THEN None ELSE chargeLock[c]
  /\ \A p \in Payment : paymentLock'[p] = IF paymentLock[p] = r THEN None ELSE paymentLock[p]
  /\ \A q \in Request : q # r =>
       /\ pc'[q] = pc[q] /\ call'[q] = call[q] /\ rest'[q] = rest[q] /\ item'[q] = item[q]
       /\ txAllocated'[q] = txAllocated[q] /\ txDrawn'[q] = txDrawn[q] /\ txLinks'[q] = txLinks[q]
  /\ pc'[r] = "idle" /\ call'[r].own = None /\ rest'[r] = NoBody
  /\ \A c \in Charge : txAllocated'[r][c] = 0 /\ chargeLock'[c] # r
  /\ \A p \in Payment : txDrawn'[r][p] = 0 /\ paymentLock'[p] # r
  /\ txLinks'[r] = {}

\* The end of a transaction leaves request r free and touches no other request.
LEMMA Released == ASSUME TypeOK, NEW r \in Request, Release(r) PROVE Freed(r)
  BY DEF TypeOK, Release, Freed

\* A rollback keeps the invariant: it only gives back r's locks and forgets r's rows.
LEMMA RollbackIInv ==
  ASSUME RowsInv, NEW r \in Request, Rollback(r)
  PROVE  RowsInv'
<1> USE DEF RowsInv, Rollback
<1>1. TypeOK'
  BY BodiesAreBodies DEF TypeOK, Release
<1> Freed(r)
  BY Released
<1> USE DEF Freed
<1>2. AbsentRows'
  BY DEF AbsentRows
<1>3. FreeSlots'
  BY DEF FreeSlots
<1>4. ActsForClient'
  BY DEF ActsForClient
<1>5. OwnPayment'
  <2> SUFFICES ASSUME NEW q \in Request, NEW p \in Payment, call'[q].own = p
               PROVE  /\ payment'[p] = NoPayment /\ drawn'[p] = 0
                      /\ \A s \in Request : s # q => call'[s].own # p
    BY DEF OwnPayment
  <2>1. q # r /\ call[q].own = p
    OBVIOUS
  <2> QED BY <2>1 DEF OwnPayment
<1>6. ItemInProgress'
  BY DEF ItemInProgress
<1>7. ItemLocked'
  BY DEF ItemLocked, ItemInProgress
<1>8. CheckedStaysTrue'
  BY DEF TypeOK, CheckedStaysTrue, EnoughCredit, EnoughBalance, CreditCents, OutstandingCents
<1>9. PendingOnCharges'
  <2> SUFFICES ASSUME NEW q \in Request, NEW c \in Charge
               PROVE  /\ (allocated[c] + txAllocated[q][c] <= charge[c].cents)'
                      /\ txAllocated'[q][c] > 0 =>
                           chargeLock'[c] = q /\ ~WrittenOff(c)' /\ charge'[c].client = call'[q].client
    BY DEF PendingOnCharges
  <2>1. /\ allocated[c] \in Nat /\ txAllocated[q][c] \in Nat /\ txAllocated[r][c] \in Nat
        /\ charge[c].cents \in Nat
    BY DEF TypeOK
  <2>2. CASE q = r
    BY <2>1, <2>2 DEF TypeOK, PendingOnCharges
  <2>3. CASE q # r
    BY <2>1, <2>3 DEF TypeOK, PendingOnCharges
  <2> QED BY <2>2, <2>3
<1>10. PendingOnPayments'
  <2> SUFFICES ASSUME NEW q \in Request, NEW p \in Payment
               PROVE  PendingOnPayment(q, p)'
    BY DEF PendingOnPayments
  <2>1. /\ drawn[p] \in Nat /\ txDrawn[q][p] \in Nat /\ txDrawn[r][p] \in Nat
        /\ payment[p].cents \in Nat /\ From(rest[q], p) \in Nat /\ item[q].cents \in Nat /\ call[q].cents \in Nat
    BY RestIsNatural DEF TypeOK
  <2>2. PendingOnPayment(q, p) /\ PendingOnPayment(r, p)
    BY DEF PendingOnPayments
  <2>3. CASE q = r
    BY <2>1, <2>2, <2>3 DEF PendingOnPayment, InHand, OwnPayment
  <2>4. CASE q # r
    BY <2>1, <2>2, <2>4 DEF PendingOnPayment, InHand
  <2> QED BY <2>3, <2>4
<1>11. LinksOfOneClient'
  BY DEF TypeOK, LinksOfOneClient
<1>12. QED BY <1>1, <1>2, <1>3, <1>4, <1>5, <1>6, <1>7, <1>8, <1>9, <1>10, <1>11

\* The UPDATE of a write-off keeps the invariant: the charge is locked by nobody, so no
\* request has checked it, or has pending allocations on it.
LEMMA StampIInv ==
  ASSUME RowsInv, NEW r \in Request, StampWriteOff(r)
  PROVE  RowsInv'
<1> USE DEF RowsInv, StampWriteOff
<1>1. TypeOK'
  <2>1. charge' \in [Charge -> [client: Client \cup {None}, cents: Nat, reason: Reason \cup {None}]]
    <3>1. item[r].charge \in Charge /\ call[r].reason \in Reason
      BY DEF ItemInProgress
    <3> DEFINE row == charge[item[r].charge]
    <3>2. row \in [client: Client \cup {None}, cents: Nat, reason: Reason \cup {None}]
      BY <3>1 DEF TypeOK
    <3>3. charge' = [charge EXCEPT ![item[r].charge] = [row EXCEPT !.reason = call[r].reason]]
      OBVIOUS
    <3> HIDE DEF row
    <3>4. [row EXCEPT !.reason = call[r].reason] \in
            [client: Client \cup {None}, cents: Nat, reason: Reason \cup {None}]
      BY <3>1, <3>2
    <3> QED BY <3>1, <3>3, <3>4 DEF TypeOK
  <2> QED BY <2>1, BodiesAreBodies DEF TypeOK, Release
<1> Freed(r)
  BY Released
<1> USE DEF Freed
<1>2. AbsentRows'
  BY DEF AbsentRows, TypeOK, ItemInProgress
<1>3. FreeSlots'
  BY DEF FreeSlots
<1>4. ActsForClient'
  BY DEF ActsForClient
<1>5. OwnPayment'
  <2> SUFFICES ASSUME NEW q \in Request, NEW p \in Payment, call'[q].own = p
               PROVE  /\ payment'[p] = NoPayment /\ drawn'[p] = 0
                      /\ \A s \in Request : s # q => call'[s].own # p
    BY DEF OwnPayment
  <2>1. q # r /\ call[q].own = p
    OBVIOUS
  <2> QED BY <2>1 DEF OwnPayment
<1>6. ItemInProgress'
  <2>1. \A c \in Charge : Issued(c)' <=> Issued(c)
    BY DEF TypeOK
  <2>2. ASSUME NEW q \in Request, q # r
        PROVE  /\ pc'[q] = pc[q] /\ call'[q] = call[q] /\ item'[q] = item[q]
               /\ \A p \in Payment : Received(p)' <=> Received(p)
    BY <2>2
  <2> QED BY <2>1, <2>2 DEF ItemInProgress
<1>7. ItemLocked'
  BY DEF ItemLocked, ItemInProgress
<1>8. CheckedStaysTrue'
  <2> SUFFICES ASSUME NEW q \in Request, q # r
               PROVE  /\ pc[q] \in {"checkBalance", "insert"} /\ call[q].own = None => EnoughCredit(q)'
                      /\ pc[q] = "insert" => EnoughBalance(q)'
    BY DEF CheckedStaysTrue
  <2>1. pc'[q] = pc[q] /\ call'[q] = call[q] /\ item'[q] = item[q] /\ txAllocated'[q] = txAllocated[q] /\ txDrawn'[q] = txDrawn[q]
    OBVIOUS
  <2>2. EnoughCredit(q)' <=> EnoughCredit(q)
    BY <2>1 DEF EnoughCredit, CreditCents
  <2>3. ASSUME pc[q] = "insert" PROVE EnoughBalance(q)'
    <3>1. EnoughBalance(q) /\ item[q].charge \in Charge /\ chargeLock[item[q].charge] = q
      BY <2>3 DEF CheckedStaysTrue, ItemLocked, ItemInProgress
    <3>2. item[q].charge # item[r].charge
      BY <3>1
    <3>3. charge'[item[q].charge] = charge[item[q].charge]
      BY <3>1, <3>2 DEF TypeOK
    <3> QED BY <2>1, <3>1, <3>3 DEF EnoughBalance, OutstandingCents
  <2> QED BY <2>2, <2>3 DEF CheckedStaysTrue
<1>9. PendingOnCharges'
  <2> SUFFICES ASSUME NEW q \in Request, NEW c \in Charge
               PROVE  /\ (allocated[c] + txAllocated[q][c] <= charge[c].cents)'
                      /\ txAllocated'[q][c] > 0 =>
                           chargeLock'[c] = q /\ ~WrittenOff(c)' /\ charge'[c].client = call'[q].client
    BY DEF PendingOnCharges
  <2>1. /\ allocated[c] \in Nat /\ txAllocated[q][c] \in Nat /\ txAllocated[r][c] \in Nat
        /\ charge[c].cents \in Nat
    BY DEF TypeOK
  <2>2. CASE q = r
    BY <2>1, <2>2 DEF TypeOK, PendingOnCharges, ItemInProgress
  <2>3. CASE q # r
    BY <2>1, <2>3 DEF TypeOK, PendingOnCharges, ItemInProgress
  <2> QED BY <2>2, <2>3
<1>10. PendingOnPayments'
  <2> SUFFICES ASSUME NEW q \in Request, NEW p \in Payment
               PROVE  PendingOnPayment(q, p)'
    BY DEF PendingOnPayments
  <2>1. /\ drawn[p] \in Nat /\ txDrawn[q][p] \in Nat /\ txDrawn[r][p] \in Nat
        /\ payment[p].cents \in Nat /\ From(rest[q], p) \in Nat /\ item[q].cents \in Nat /\ call[q].cents \in Nat
    BY RestIsNatural DEF TypeOK
  <2>2. PendingOnPayment(q, p) /\ PendingOnPayment(r, p)
    BY DEF PendingOnPayments
  <2>3. CASE q = r
    BY <2>1, <2>2, <2>3 DEF PendingOnPayment, InHand, OwnPayment
  <2>4. CASE q # r
    BY <2>1, <2>2, <2>4 DEF PendingOnPayment, InHand
  <2> QED BY <2>3, <2>4
<1>11. LinksOfOneClient'
  BY DEF TypeOK, LinksOfOneClient
<1>12. QED BY <1>1, <1>2, <1>3, <1>4, <1>5, <1>6, <1>7, <1>8, <1>9, <1>10, <1>11

\* The COMMIT of recordPayment keeps the invariant: what was pending within the body's
\* sum becomes what is drawn from the new row.
LEMMA CommitPaymentIInv ==
  ASSUME RowsInv, NEW r \in Request, CommitPayment(r)
  PROVE  RowsInv'
<1> USE DEF RowsInv, CommitPayment, CommitAllocations
<1>1. TypeOK'
  BY BodiesAreBodies DEF TypeOK, Release
<1> Freed(r)
  BY Released
<1> USE DEF Freed
<1>2. AbsentRows'
  <2>1. \A p \in Payment : call[r].own # p => payment'[p] = payment[p]
    BY DEF TypeOK
  <2>2. \A p \in Payment : call[r].own = p => Received(p)'
    BY DEF TypeOK, ActsForClient
  <2> QED BY <2>1, <2>2 DEF AbsentRows
<1>3. FreeSlots'
  BY DEF FreeSlots
<1>4. ActsForClient'
  BY DEF ActsForClient
<1>5. OwnPayment'
  <2> SUFFICES ASSUME NEW q \in Request, NEW p \in Payment, call'[q].own = p
               PROVE  /\ payment'[p] = NoPayment /\ drawn'[p] = 0
                      /\ \A s \in Request : s # q => call'[s].own # p
    BY DEF OwnPayment
  <2>1. q # r /\ call[q].own = p
    OBVIOUS
  <2>2. call[r].own # p /\ txDrawn[r][p] = 0
    BY <2>1 DEF TypeOK, OwnPayment, PendingOnPayments, PendingOnPayment
  <2>3. payment'[p] = payment[p] /\ drawn'[p] = drawn[p]
    BY <2>2 DEF TypeOK
  <2>4. ASSUME NEW s \in Request, s # q PROVE call'[s].own # p
    BY <2>1, <2>4 DEF OwnPayment
  <2> QED BY <2>1, <2>3, <2>4 DEF OwnPayment
<1>6. ItemInProgress'
  BY DEF ItemInProgress, TypeOK, OwnPayment
<1>7. ItemLocked'
  BY DEF ItemLocked, ItemInProgress
<1>8. CheckedStaysTrue'
  <2> SUFFICES ASSUME NEW q \in Request, q # r, pc[q] \in {"checkBalance", "insert"}
               PROVE  /\ call[q].own = None => EnoughCredit(q)'
                      /\ pc[q] = "insert" => EnoughBalance(q)'
    BY DEF CheckedStaysTrue
  <2>1. ASSUME call[q].own = None PROVE EnoughCredit(q)'
    <3> DEFINE p == item[q].payment
    <3>1. p \in Payment /\ Received(p) /\ paymentLock[p] = q /\ EnoughCredit(q)
      BY <2>1 DEF ItemInProgress, ItemLocked, CheckedStaysTrue
    <3>2. call[r].own # p /\ txDrawn[r][p] = 0
      BY <3>1 DEF TypeOK, OwnPayment, PendingOnPayments, PendingOnPayment
    <3> QED BY <3>1, <3>2 DEF TypeOK, EnoughCredit, CreditCents
  <2>2. ASSUME pc[q] = "insert" PROVE EnoughBalance(q)'
    <3> DEFINE c == item[q].charge
    <3>1. c \in Charge /\ chargeLock[c] = q /\ EnoughBalance(q)
      BY <2>2 DEF ItemInProgress, ItemLocked, CheckedStaysTrue
    <3>2. txAllocated[r][c] = 0
      BY <3>1 DEF TypeOK, PendingOnCharges
    <3> QED BY <3>1, <3>2 DEF TypeOK, EnoughBalance, OutstandingCents
  <2> QED BY <2>1, <2>2
<1>9. PendingOnCharges'
  <2> SUFFICES ASSUME NEW q \in Request, NEW c \in Charge
               PROVE  /\ (allocated[c] + txAllocated[q][c] <= charge[c].cents)'
                      /\ txAllocated'[q][c] > 0 =>
                           chargeLock'[c] = q /\ ~WrittenOff(c)' /\ charge'[c].client = call'[q].client
    BY DEF PendingOnCharges
  <2>1. /\ allocated[c] \in Nat /\ txAllocated[q][c] \in Nat /\ txAllocated[r][c] \in Nat
        /\ charge[c].cents \in Nat
    BY DEF TypeOK
  <2>2. CASE q = r
    BY <2>1, <2>2 DEF TypeOK, PendingOnCharges
  <2>3. CASE q # r
    BY <2>1, <2>3 DEF TypeOK, PendingOnCharges
  <2> QED BY <2>2, <2>3
<1>10. PendingOnPayments'
  <2> SUFFICES ASSUME NEW q \in Request, NEW p \in Payment
               PROVE  PendingOnPayment(q, p)'
    BY DEF PendingOnPayments
  <2>1. /\ drawn[p] \in Nat /\ txDrawn[q][p] \in Nat /\ txDrawn[r][p] \in Nat
        /\ payment[p].cents \in Nat /\ From(rest[q], p) \in Nat /\ item[q].cents \in Nat /\ call[q].cents \in Nat
    BY RestIsNatural DEF TypeOK
  <2>2. PendingOnPayment(q, p) /\ PendingOnPayment(r, p)
    BY DEF PendingOnPayments
  <2>3. CASE q = r
    <3>1. CASE call[r].own = p
      <4>1. drawn[p] = 0 /\ From(rest[r], p) = 0 /\ InHand(r) = 0
        BY <3>1, NoBodyIsEmpty DEF OwnPayment, InHand
      <4>2. txDrawn[r][p] <= call[r].cents
        BY <2>1, <2>2, <3>1, <4>1 DEF PendingOnPayment
      <4>3. drawn'[p] = txDrawn[r][p] /\ payment'[p].cents = call[r].cents
        BY <2>1, <3>1, <4>1 DEF TypeOK
      <4>4. txDrawn'[r][p] = 0 /\ call'[r].own # p
        OBVIOUS
      <4> QED BY <2>1, <2>3, <4>2, <4>3, <4>4 DEF PendingOnPayment
    <3>2. CASE call[r].own # p
      BY <2>1, <2>2, <2>3, <3>2 DEF PendingOnPayment, TypeOK
    <3> QED BY <3>1, <3>2
  <2>4. CASE q # r
    <3>1. /\ pc'[q] = pc[q] /\ call'[q] = call[q] /\ rest'[q] = rest[q] /\ item'[q] = item[q]
          /\ txDrawn'[q] = txDrawn[q] /\ (paymentLock'[p] = q <=> paymentLock[p] = q)
      BY <2>4 DEF TypeOK
    <3>2. From(rest[q], p)' = From(rest[q], p) /\ InHand(q)' = InHand(q)
      BY <3>1 DEF InHand
    <3>3. CASE call[q].own = p
      BY <2>2, <3>1, <3>2, <3>3 DEF PendingOnPayment
    <3>4. CASE call[q].own # p
      <4>1. /\ drawn[p] + txDrawn[q][p] <= payment[p].cents
            /\ txDrawn[q][p] > 0 => paymentLock[p] = q /\ payment[p].client = call[q].client
        BY <2>2, <3>4 DEF PendingOnPayment
      <4>2. CASE call[r].own = p
        <5>1. drawn[p] = 0 /\ payment[p].cents = 0 /\ txDrawn[q][p] = 0
          BY <2>1, <4>1, <4>2 DEF OwnPayment, NoPayment
        <5>2. drawn'[p] = txDrawn[r][p] /\ payment'[p].cents = call[r].cents
          BY <2>1, <4>2, <5>1 DEF TypeOK
        <5>3. txDrawn[r][p] <= call[r].cents
          BY <2>1, <2>2, <4>2, NoBodyIsEmpty DEF PendingOnPayment, InHand
        <5> QED BY <2>1, <3>1, <3>4, <5>1, <5>2, <5>3 DEF PendingOnPayment
      <4>3. CASE call[r].own # p
        <5>1. payment'[p] = payment[p] /\ drawn'[p] = drawn[p] + txDrawn[r][p]
          BY <4>3 DEF TypeOK
        <5>2. drawn[p] + txDrawn[r][p] <= payment[p].cents
          BY <2>2, <4>3 DEF PendingOnPayment
        <5>3. txDrawn[q][p] > 0 => txDrawn[r][p] = 0
          BY <2>1, <2>2, <2>4, <4>1, <4>3 DEF PendingOnPayment
        <5> QED BY <2>1, <3>1, <3>4, <4>1, <5>1, <5>2, <5>3 DEF PendingOnPayment
      <4> QED BY <4>2, <4>3
    <3> QED BY <3>3, <3>4
  <2> QED BY <2>3, <2>4
<1>11. LinksOfOneClient'
  <2>1. ASSUME NEW l \in links PROVE Issued(l[2]) /\ payment'[l[1]].client = charge[l[2]].client
    <3>1. l \in Payment \X Charge /\ Issued(l[2]) /\ payment[l[1]].client = charge[l[2]].client
      BY DEF TypeOK, LinksOfOneClient
    <3>2. call[r].own # l[1]
      BY <3>1 DEF OwnPayment
    <3> QED BY <3>1, <3>2 DEF TypeOK
  <2>2. ASSUME NEW l \in txLinks[r] PROVE Issued(l[2]) /\ payment'[l[1]].client = charge[l[2]].client
    <3>1. l \in Payment \X Charge /\ charge[l[2]].client = call[r].client /\ call[r].client \in Client
      BY DEF TypeOK, LinksOfOneClient, ActsForClient
    <3>2. l[1] = call[r].own \/ payment[l[1]].client = call[r].client
      BY DEF LinksOfOneClient
    <3> QED BY <3>1, <3>2 DEF TypeOK
  <2>3. ASSUME NEW q \in Request, q # r, NEW l \in txLinks[q]
        PROVE  l[1] = call[q].own \/ payment'[l[1]].client = call[q].client
    <3>1. l[1] \in Payment /\ pc[q] \notin {"idle", "stamp"}
      BY DEF TypeOK, FreeSlots
    <3> call[q].client \in Client
      BY <3>1 DEF ActsForClient
    <3>2. l[1] = call[q].own \/ (payment[l[1]].client = call[q].client /\ l[1] # call[r].own)
      BY <3>1 DEF LinksOfOneClient, OwnPayment
    <3> QED BY <3>1, <3>2 DEF TypeOK
  <2> QED BY <2>1, <2>2, <2>3 DEF LinksOfOneClient
<1>12. QED BY <1>1, <1>2, <1>3, <1>4, <1>5, <1>6, <1>7, <1>8, <1>9, <1>10, <1>11

\* The COMMIT of applyCredit keeps the invariant: what was pending under r's locks
\* becomes what is allocated.
LEMMA CommitCreditIInv ==
  ASSUME RowsInv, NEW r \in Request, CommitCredit(r)
  PROVE  RowsInv'
<1> USE DEF RowsInv, CommitCredit, CommitAllocations
<1>1. TypeOK'
  BY BodiesAreBodies DEF TypeOK, Release
<1> Freed(r)
  BY Released
<1> USE DEF Freed
<1>2. AbsentRows'
  BY DEF AbsentRows
<1>3. FreeSlots'
  BY DEF FreeSlots
<1>4. ActsForClient'
  BY DEF ActsForClient
<1>5. OwnPayment'
  <2> SUFFICES ASSUME NEW q \in Request, NEW p \in Payment, call'[q].own = p
               PROVE  /\ payment'[p] = NoPayment /\ drawn'[p] = 0
                      /\ \A s \in Request : s # q => call'[s].own # p
    BY DEF OwnPayment
  <2>1. q # r /\ call[q].own = p
    OBVIOUS
  <2>2. call[r].own # p /\ txDrawn[r][p] = 0
    BY <2>1 DEF TypeOK, OwnPayment, PendingOnPayments, PendingOnPayment
  <2>3. payment'[p] = payment[p] /\ drawn'[p] = drawn[p]
    BY <2>2 DEF TypeOK
  <2>4. ASSUME NEW s \in Request, s # q PROVE call'[s].own # p
    BY <2>1, <2>4 DEF OwnPayment
  <2> QED BY <2>1, <2>3, <2>4 DEF OwnPayment
<1>6. ItemInProgress'
  BY DEF ItemInProgress
<1>7. ItemLocked'
  BY DEF ItemLocked, ItemInProgress
<1>8. CheckedStaysTrue'
  <2> SUFFICES ASSUME NEW q \in Request, q # r, pc[q] \in {"checkBalance", "insert"}
               PROVE  /\ call[q].own = None => EnoughCredit(q)'
                      /\ pc[q] = "insert" => EnoughBalance(q)'
    BY DEF CheckedStaysTrue
  <2>1. ASSUME call[q].own = None PROVE EnoughCredit(q)'
    <3> DEFINE p == item[q].payment
    <3>1. p \in Payment /\ Received(p) /\ paymentLock[p] = q /\ EnoughCredit(q)
      BY <2>1 DEF ItemInProgress, ItemLocked, CheckedStaysTrue
    <3>2. call[r].own # p /\ txDrawn[r][p] = 0
      BY <3>1 DEF TypeOK, OwnPayment, PendingOnPayments, PendingOnPayment
    <3> QED BY <3>1, <3>2 DEF TypeOK, EnoughCredit, CreditCents
  <2>2. ASSUME pc[q] = "insert" PROVE EnoughBalance(q)'
    <3> DEFINE c == item[q].charge
    <3>1. c \in Charge /\ chargeLock[c] = q /\ EnoughBalance(q)
      BY <2>2 DEF ItemInProgress, ItemLocked, CheckedStaysTrue
    <3>2. txAllocated[r][c] = 0
      BY <3>1 DEF TypeOK, PendingOnCharges
    <3> QED BY <3>1, <3>2 DEF TypeOK, EnoughBalance, OutstandingCents
  <2> QED BY <2>1, <2>2
<1>9. PendingOnCharges'
  <2> SUFFICES ASSUME NEW q \in Request, NEW c \in Charge
               PROVE  /\ (allocated[c] + txAllocated[q][c] <= charge[c].cents)'
                      /\ txAllocated'[q][c] > 0 =>
                           chargeLock'[c] = q /\ ~WrittenOff(c)' /\ charge'[c].client = call'[q].client
    BY DEF PendingOnCharges
  <2>1. /\ allocated[c] \in Nat /\ txAllocated[q][c] \in Nat /\ txAllocated[r][c] \in Nat
        /\ charge[c].cents \in Nat
    BY DEF TypeOK
  <2>2. CASE q = r
    BY <2>1, <2>2 DEF TypeOK, PendingOnCharges
  <2>3. CASE q # r
    BY <2>1, <2>3 DEF TypeOK, PendingOnCharges
  <2> QED BY <2>2, <2>3
<1>10. PendingOnPayments'
  <2> SUFFICES ASSUME NEW q \in Request, NEW p \in Payment
               PROVE  PendingOnPayment(q, p)'
    BY DEF PendingOnPayments
  <2>1. /\ drawn[p] \in Nat /\ txDrawn[q][p] \in Nat /\ txDrawn[r][p] \in Nat
        /\ payment[p].cents \in Nat /\ From(rest[q], p) \in Nat /\ item[q].cents \in Nat /\ call[q].cents \in Nat
    BY RestIsNatural DEF TypeOK
  <2>2. PendingOnPayment(q, p) /\ PendingOnPayment(r, p)
    BY DEF PendingOnPayments
  <2>3. CASE q = r
    BY <2>1, <2>2, <2>3 DEF PendingOnPayment, InHand, TypeOK
  <2>4. CASE q # r
    BY <2>1, <2>2, <2>4 DEF PendingOnPayment, InHand, TypeOK
  <2> QED BY <2>3, <2>4
<1>11. LinksOfOneClient'
  <2>1. ASSUME NEW l \in links PROVE Issued(l[2]) /\ payment'[l[1]].client = charge[l[2]].client
    <3>1. l \in Payment \X Charge /\ Issued(l[2]) /\ payment[l[1]].client = charge[l[2]].client
      BY DEF TypeOK, LinksOfOneClient
    <3>2. call[r].own # l[1]
      BY <3>1 DEF OwnPayment
    <3> QED BY <3>1, <3>2 DEF TypeOK
  <2>2. ASSUME NEW l \in txLinks[r] PROVE Issued(l[2]) /\ payment'[l[1]].client = charge[l[2]].client
    <3>1. l \in Payment \X Charge /\ charge[l[2]].client = call[r].client /\ call[r].client \in Client
      BY DEF TypeOK, LinksOfOneClient, ActsForClient
    <3>2. l[1] = call[r].own \/ payment[l[1]].client = call[r].client
      BY DEF LinksOfOneClient
    <3> QED BY <3>1, <3>2 DEF TypeOK
  <2>3. ASSUME NEW q \in Request, q # r, NEW l \in txLinks[q]
        PROVE  l[1] = call[q].own \/ payment'[l[1]].client = call[q].client
    <3>1. l[1] \in Payment /\ pc[q] \notin {"idle", "stamp"}
      BY DEF TypeOK, FreeSlots
    <3> call[q].client \in Client
      BY <3>1 DEF ActsForClient
    <3>2. l[1] = call[q].own \/ (payment[l[1]].client = call[q].client /\ l[1] # call[r].own)
      BY <3>1 DEF LinksOfOneClient, OwnPayment
    <3> QED BY <3>1, <3>2 DEF TypeOK
  <2> QED BY <2>1, <2>2, <2>3 DEF LinksOfOneClient
<1>12. QED BY <1>1, <1>2, <1>3, <1>4, <1>5, <1>6, <1>7, <1>8, <1>9, <1>10, <1>11

\* The read of payment_credits keeps the invariant, whether the credit is enough or not.
LEMMA CheckCreditIInv ==
  ASSUME RowsInv, NEW r \in Request, CheckCredit(r)
  PROVE  RowsInv'
<1>1. CASE ~EnoughCredit(r)
  BY <1>1, RollbackIInv DEF CheckCredit
<1>2. CASE EnoughCredit(r)
  <2> USE <1>2 DEF RowsInv, CheckCredit, Goto
  <2>1. TypeOK'
    BY DEF TypeOK
  <2>2. AbsentRows'
    BY DEF TypeOK, AbsentRows
  <2>3. FreeSlots'
    BY DEF TypeOK, FreeSlots
  <2>4. ActsForClient'
    BY DEF TypeOK, ActsForClient
  <2>5. OwnPayment'
    BY DEF TypeOK, OwnPayment
  <2>6. ItemInProgress'
    BY DEF TypeOK, ItemInProgress
  <2>7. ItemLocked'
    BY DEF TypeOK, ItemLocked
  <2>8. CheckedStaysTrue'
    BY DEF TypeOK, CheckedStaysTrue, EnoughCredit, EnoughBalance, CreditCents, OutstandingCents
  <2>9. PendingOnCharges'
    BY DEF TypeOK, PendingOnCharges
  <2>10. PendingOnPayments'
    <3>1. \A q \in Request : InHand(q)' = InHand(q)
      BY DEF TypeOK, InHand
    <3> QED BY <3>1 DEF PendingOnPayments, PendingOnPayment
  <2>11. LinksOfOneClient'
    BY DEF TypeOK, LinksOfOneClient
  <2>12. QED BY <2>1, <2>2, <2>3, <2>4, <2>5, <2>6, <2>7, <2>8, <2>9, <2>10, <2>11
<1>3. QED BY <1>1, <1>2

\* The read of charge_balances keeps the invariant, whether the balance is enough or not.
LEMMA CheckBalanceIInv ==
  ASSUME RowsInv, NEW r \in Request, CheckBalance(r)
  PROVE  RowsInv'
<1>1. CASE ~EnoughBalance(r)
  BY <1>1, RollbackIInv DEF CheckBalance
<1>2. CASE EnoughBalance(r)
  <2> USE <1>2 DEF RowsInv, CheckBalance, Goto
  <2>1. TypeOK'
    BY DEF TypeOK
  <2>2. AbsentRows'
    BY DEF TypeOK, AbsentRows
  <2>3. FreeSlots'
    BY DEF TypeOK, FreeSlots
  <2>4. ActsForClient'
    BY DEF TypeOK, ActsForClient
  <2>5. OwnPayment'
    BY DEF TypeOK, OwnPayment
  <2>6. ItemInProgress'
    BY DEF TypeOK, ItemInProgress
  <2>7. ItemLocked'
    BY DEF TypeOK, ItemLocked
  <2>8. CheckedStaysTrue'
    BY DEF TypeOK, CheckedStaysTrue, EnoughCredit, EnoughBalance, CreditCents, OutstandingCents
  <2>9. PendingOnCharges'
    BY DEF TypeOK, PendingOnCharges
  <2>10. PendingOnPayments'
    <3>1. \A q \in Request : InHand(q)' = InHand(q)
      BY DEF TypeOK, InHand
    <3> QED BY <3>1 DEF PendingOnPayments, PendingOnPayment
  <2>11. LinksOfOneClient'
    BY DEF TypeOK, LinksOfOneClient
  <2>12. QED BY <2>1, <2>2, <2>3, <2>4, <2>5, <2>6, <2>7, <2>8, <2>9, <2>10, <2>11
<1>3. QED BY <1>1, <1>2

------------------------------------------------------------------------------
\* Every statement of a request in flight keeps the invariant.
LEMMA ProgressIInv ==
  ASSUME RowsInv, NEW r \in Request, Progress(r)
  PROVE  RowsInv'
<1>1. CASE \E c \in KnownCharges, n \in Amount : NextOfPayment(r, c, n)
  BY <1>1, NextOfPaymentIInv
<1>2. CASE \E p \in KnownPayments, c \in KnownCharges, n \in Amount : NextOfCredit(r, p, c, n)
  BY <1>2, NextOfCreditIInv
<1>3. CASE LockPayment(r)
  BY <1>3, LockPaymentIInv
<1>4. CASE LockCharge(r)
  BY <1>4, LockChargeIInv
<1>5. CASE CheckCredit(r)
  BY <1>5, CheckCreditIInv
<1>6. CASE CheckBalance(r)
  BY <1>6, CheckBalanceIInv
<1>7. CASE InsertAllocation(r)
  BY <1>7, InsertIInv
<1>8. CASE CommitPayment(r)
  BY <1>8, CommitPaymentIInv
<1>9. CASE CommitCredit(r)
  BY <1>9, CommitCreditIInv
<1>10. CASE StampWriteOff(r)
  BY <1>10, StampIInv
<1> QED BY <1>1, <1>2, <1>3, <1>4, <1>5, <1>6, <1>7, <1>8, <1>9, <1>10 DEF Progress

\* The invariant is inductive.
LEMMA NextIInv == RowsInv /\ [Next]_vars => RowsInv'
<1> SUFFICES ASSUME RowsInv, [Next]_vars PROVE RowsInv'
  OBVIOUS
<1>1. CASE UNCHANGED vars
  BY <1>1 DEF RowsInv, TypeOK, AbsentRows, FreeSlots, ActsForClient, OwnPayment, ItemInProgress,
              ItemLocked, CheckedStaysTrue, PendingOnCharges, PendingOnPayments, PendingOnPayment,
              LinksOfOneClient, InHand, EnoughCredit, EnoughBalance, CreditCents, OutstandingCents
<1>2. ASSUME NEW c \in Charge, NEW k \in Client, NEW n \in Amount, CreateAdHocCharge(c, k, n)
      PROVE  RowsInv'
  BY <1>2, CreateIInv
<1>3. ASSUME NEW r \in Request, NEW p \in Payment, NEW k \in Client, NEW n \in Amount,
             NEW body \in Body, RecordPayment(r, p, k, n, body)
      PROVE  RowsInv'
  BY <1>3, RecordPaymentIInv
<1>4. ASSUME NEW r \in Request, NEW k \in Client, NEW body \in Body, ApplyCredit(r, k, body)
      PROVE  RowsInv'
  BY <1>4, ApplyCreditIInv
<1>5. ASSUME NEW r \in Request, NEW c \in Charge, NEW why \in Reason, ReadWriteOff(r, c, why)
      PROVE  RowsInv'
  BY <1>5, ReadWriteOffIInv
<1>6. ASSUME NEW r \in Request, Progress(r)
      PROVE  RowsInv'
  BY <1>6, ProgressIInv
<1>7. ASSUME NEW r \in Request, DeadlockVictim(r) \/ Abort(r)
      PROVE  RowsInv'
  BY <1>7, RollbackIInv DEF DeadlockVictim, Abort
<1> QED BY <1>1, <1>2, <1>3, <1>4, <1>5, <1>6, <1>7 DEF Next

\* Every reachable state satisfies the inductive invariant: what the row locks of
\* recordPayment, applyCredit and writeOffCharge protect, for any number of
\* clients, charges, payments and concurrent requests, and any amounts.
LEMMA RowsInvariance == Spec => []RowsInv
<1> QED BY InitIInv, NextIInv, PTL DEF Spec

\* The tables, locks and transactions keep their types.
THEOREM TypeCorrect == Spec => []TypeOK
<1>1. RowsInv => TypeOK BY DEF RowsInv
<1> QED BY <1>1, RowsInvariance, PTL

\* No interleaving of payments and credit allocates more to a charge than it bills.
THEOREM ChargesNeverOverAllocated == Spec => []NoOverAllocation
<1>1. RowsInv => NoOverAllocation
  <2> SUFFICES ASSUME RowsInv, NEW c \in Charge PROVE allocated[c] <= charge[c].cents
    BY DEF NoOverAllocation
  <2>1. PICK r \in Request : TRUE
    BY SomeRequest
  <2> QED BY DEF RowsInv, PendingOnCharges, TypeOK
<1> QED BY <1>1, RowsInvariance, PTL

\* No payment settles more than was received, so no payment's credit is negative.
THEOREM PaymentsNeverOverdrawn == Spec => []NoOverdraw
<1>1. RowsInv => NoOverdraw
  <2> SUFFICES ASSUME RowsInv, NEW p \in Payment PROVE drawn[p] <= payment[p].cents
    BY DEF NoOverdraw
  <2>1. PICK r \in Request : TRUE
    BY SomeRequest
  <2>2. PendingOnPayment(r, p)
    BY DEF RowsInv, PendingOnPayments
  <2>3. CASE call[r].own = p
    <3>1. drawn[p] = 0 /\ payment[p] = NoPayment
      BY <2>3 DEF RowsInv, OwnPayment
    <3> QED BY <3>1
  <2>4. CASE call[r].own # p
    BY <2>2, <2>4 DEF PendingOnPayment, RowsInv, TypeOK
  <2> QED BY <2>3, <2>4
<1> QED BY <1>1, RowsInvariance, PTL

\* One client's money never settles another client's debt.
THEOREM MoneyStaysWithItsClient == Spec => []SameClient
<1>1. RowsInv => SameClient BY DEF RowsInv, LinksOfOneClient, SameClient
<1> QED BY <1>1, RowsInvariance, PTL

------------------------------------------------------------------------------
\* What a commit of request r adds to the tables.
LEMMA CommitAdds ==
  ASSUME RowsInv, NEW r \in Request, pc[r] = "walk", rest[r] = NoBody, CommitAllocations(r)
  PROVE  /\ \A c \in Charge :
              \/ allocated'[c] = allocated[c]
              \/ /\ allocated'[c] > allocated[c]
                 /\ allocated'[c] <= charge[c].cents
                 /\ charge[c].client = call[r].client /\ charge[c].reason = None
         /\ \A p \in Payment \ {call[r].own} :
              \/ drawn'[p] = drawn[p]
              \/ /\ drawn'[p] > drawn[p]
                 /\ drawn'[p] <= payment[p].cents
                 /\ payment[p].client = call[r].client
         /\ \A p \in Payment : call[r].own = p => drawn[p] = 0 /\ drawn'[p] <= call[r].cents
<1> USE DEF RowsInv, CommitAllocations
<1>1. ASSUME NEW c \in Charge
      PROVE  \/ allocated'[c] = allocated[c]
             \/ /\ allocated'[c] > allocated[c]
                /\ allocated'[c] <= charge[c].cents
                /\ charge[c].client = call[r].client /\ charge[c].reason = None
  <2>1. allocated[c] \in Nat /\ txAllocated[r][c] \in Nat /\ allocated'[c] = allocated[c] + txAllocated[r][c]
    BY DEF TypeOK
  <2> QED BY <2>1 DEF PendingOnCharges
<1>2. ASSUME NEW p \in Payment
      PROVE  /\ drawn[p] \in Nat /\ txDrawn[r][p] \in Nat /\ drawn'[p] = drawn[p] + txDrawn[r][p]
             /\ PendingOnPayment(r, p) /\ From(rest[r], p) = 0 /\ InHand(r) = 0 /\ call[r].cents \in Nat
  BY NoBodyIsEmpty DEF TypeOK, PendingOnPayments, InHand
<1>3. \A p \in Payment : call[r].own = p => drawn[p] = 0
  BY DEF OwnPayment
<1> QED BY <1>1, <1>2, <1>3 DEF PendingOnPayment

\* No money is allocated to a charge that has been written off, even by a
\* transaction that began before the write-off.
THEOREM ForgivenDebtIsLeftAlone == Spec => ForgivenDebtTakesNoMoney
<1>1. RowsInv /\ [Next]_vars => [\A c \in Charge : WrittenOff(c) => allocated'[c] = allocated[c]]_vars
  <2> SUFFICES ASSUME RowsInv, Next, NEW c \in Charge, WrittenOff(c) PROVE allocated'[c] = allocated[c]
    OBVIOUS
  <2>1. CASE \E r \in Request : CommitPayment(r) \/ CommitCredit(r)
    <3>1. PICK r \in Request : CommitPayment(r) \/ CommitCredit(r)
      BY <2>1
    <3> QED BY <3>1, CommitAdds DEF CommitPayment, CommitCredit
  <2>2. CASE UNCHANGED allocated
    BY <2>2
  <2>3. ASSUME NEW r \in Request, Progress(r)
        PROVE  CommitPayment(r) \/ CommitCredit(r) \/ UNCHANGED allocated
    BY <2>3 DEF Progress, NextOfPayment, NextOfCredit, LockPayment, LockCharge, CheckCredit,
                CheckBalance, InsertAllocation, StampWriteOff, Rollback, Goto
  <2>4. ASSUME NEW r \in Request,
               \/ \E p \in Payment, k \in Client, n \in Amount, body \in Body : RecordPayment(r, p, k, n, body)
               \/ \E k \in Client, body \in Body : ApplyCredit(r, k, body)
               \/ \E d \in Charge, why \in Reason : ReadWriteOff(r, d, why)
               \/ DeadlockVictim(r)
               \/ Abort(r)
        PROVE  UNCHANGED allocated
    BY <2>4 DEF RecordPayment, ApplyCredit, ReadWriteOff, DeadlockVictim, Abort, Rollback
  <2>5. (\E r \in Request : CommitPayment(r) \/ CommitCredit(r)) \/ UNCHANGED allocated
    BY <2>3, <2>4 DEF Next, CreateAdHocCharge
  <2> QED BY <2>1, <2>2, <2>5
<1> QED BY <1>1, RowsInvariance, PTL DEF Spec, ForgivenDebtTakesNoMoney

------------------------------------------------------------------------------
(* Bodies.  A transaction forgets nothing of what it was asked for.          *)

\* A request that takes no step keeps its body.
LEMMA OthersKeep ==
  ASSUME BodiesKept, NEW q \in Request, pc'[q] = pc[q], call'[q] = call[q], rest'[q] = rest[q], item'[q] = item[q],
         txAllocated'[q] = txAllocated[q], txDrawn'[q] = txDrawn[q], txLinks'[q] = txLinks[q]
  PROVE  pc'[q] \notin {"idle", "stamp"} => BodyKept(q)'
BY DEF BodiesKept, BodyKept

\* At the start of a transaction its loop has the whole body to walk.
LEMMA StartKeeps ==
  ASSUME RowsInv, BodiesKept, NEW r \in Request, NEW body \in Body,
         pc[r] = "idle", pc' = [pc EXCEPT ![r] = "walk"], rest' = [rest EXCEPT ![r] = body],
         call'[r].body = body, \A q \in Request \ {r} : call'[q] = call[q], UNCHANGED <<item, tx>>
  PROVE  BodiesKept'
<1>1. pc'[r] = "walk" /\ rest'[r] = body /\ \A q \in Request \ {r} : pc'[q] = pc[q] /\ rest'[q] = rest[q]
  BY DEF RowsInv, TypeOK
<1>2. /\ \A c \in Charge : txAllocated'[r][c] = 0
      /\ \A p \in Payment : txDrawn'[r][p] = 0
      /\ txLinks'[r] = {}
  BY DEF RowsInv, FreeSlots
<1>3. (\A p \in Payment : From(body, p) \in Nat) /\ (\A c \in Charge : Onto(body, c) \in Nat)
  BY BodiesAreBodies, BodySums
<1>4. BodyKept(r)'
  BY <1>1, <1>2, <1>3 DEF BodyKept
<1>5. ASSUME NEW q \in Request \ {r} PROVE pc'[q] \notin {"idle", "stamp"} => BodyKept(q)'
  BY <1>1, OthersKeep
<1> QED BY <1>4, <1>5 DEF BodiesKept

\* The line the loop takes is on its way.
LEMMA TakeKeeps ==
  ASSUME RowsInv, BodiesKept, NEW r \in Request, NEW p \in Payment, NEW c \in Charge, NEW n \in Amount,
         NEW s \in Processing, pc[r] = "walk", pc' = [pc EXCEPT ![r] = s], TakeLine(r, p, c, n), UNCHANGED <<call, tx>>
  PROVE  BodiesKept'
<1>1. /\ pc'[r] = s /\ item'[r] = [payment |-> p, charge |-> c, cents |-> n]
      /\ rest'[r] = [rest[r] EXCEPT ![p][c] = @ - n] /\ n <= rest[r][p][c]
      /\ \A q \in Request \ {r} : pc'[q] = pc[q] /\ rest'[q] = rest[q] /\ item'[q] = item[q]
  BY DEF TakeLine, RowsInv, TypeOK
<1>2. n \in Nat \ {0}
  OBVIOUS
<1>3. rest[r] \in Bodies /\ call[r].body \in Bodies
  BY RestIsNatural DEF RowsInv
<1> PICK old : old = rest[r]
  OBVIOUS
<1> PICK new : new = rest'[r]
  OBVIOUS
<1>4. /\ new \in Bodies
      /\ \A q \in Payment, d \in Charge : new[q][d] = IF q = p /\ d = c THEN old[p][c] - n ELSE old[q][d]
      /\ \A q \in Payment : From(old, q) = From(new, q) + (IF q = p THEN n ELSE 0)
      /\ \A d \in Charge : Onto(old, d) = Onto(new, d) + (IF d = c THEN n ELSE 0)
  BY RestTaken DEF RowsInv
<1>5. /\ \A q \in Payment : From(new, q) \in Nat
      /\ \A q \in Payment, d \in Charge : new[q][d] \in Nat /\ old[q][d] \in Nat
      /\ \A d \in Charge : Onto(new, d) \in Nat
  <2>1. \A q \in Payment, d \in Charge : new[q][d] \in Nat /\ old[q][d] \in Nat
    BY <1>3, <1>4 DEF Bodies
  <2> QED BY <1>4, <2>1, BodySums
<1>6. /\ \A d \in Charge : txAllocated[r][d] \in Nat
      /\ \A q \in Payment : txDrawn[r][q] \in Nat
  BY DEF RowsInv, TypeOK
<1>7. /\ \A d \in Charge : Onto(call[r].body, d) = txAllocated[r][d] + Onto(old, d) + 0
      /\ \A q \in Payment : From(call[r].body, q) = txDrawn[r][q] + From(old, q) + 0
      /\ \A q \in Payment, d \in Charge : call[r].body[q][d] > 0 <=> <<q, d>> \in txLinks[r] \/ old[q][d] > 0
  BY DEF BodiesKept, BodyKept
<1>8. ASSUME NEW d \in Charge
      PROVE  Onto(call[r].body, d) = txAllocated[r][d] + Onto(new, d) + (IF c = d THEN n ELSE 0)
  BY <1>2, <1>4, <1>5, <1>6, <1>7
<1>9. ASSUME NEW q \in Payment
      PROVE  From(call[r].body, q) = txDrawn[r][q] + From(new, q) + (IF p = q THEN n ELSE 0)
  BY <1>2, <1>4, <1>5, <1>6, <1>7
<1>10. ASSUME NEW q \in Payment, NEW d \in Charge
       PROVE  old[q][d] > 0 <=> new[q][d] > 0 \/ (p = q /\ c = d)
  BY <1>1, <1>2, <1>4, <1>5
<1>11. BodyKept(r)'
  <2>1. /\ pc'[r] \in Processing /\ item'[r].payment = p /\ item'[r].charge = c /\ item'[r].cents = n
        /\ rest'[r] = new /\ call'[r] = call[r]
        /\ txAllocated'[r] = txAllocated[r] /\ txDrawn'[r] = txDrawn[r] /\ txLinks'[r] = txLinks[r]
    BY <1>1
  <2>2. ASSUME NEW q \in Payment, NEW d \in Charge
        PROVE  call[r].body[q][d] > 0 <=> <<q, d>> \in txLinks[r] \/ new[q][d] > 0 \/ (p = q /\ c = d)
    BY <1>7, <1>10
  <2> QED BY <1>8, <1>9, <2>1, <2>2 DEF BodyKept
<1>12. ASSUME NEW q \in Request \ {r} PROVE pc'[q] \notin {"idle", "stamp"} => BodyKept(q)'
  BY <1>1, OthersKeep
<1> QED BY <1>11, <1>12 DEF BodiesKept

\* The line on its way is inserted.
LEMMA InsertKeeps ==
  ASSUME RowsInv, BodiesKept, NEW r \in Request, InsertAllocation(r)
  PROVE  BodiesKept'
<1> PICK p, c, n : p = item[r].payment /\ c = item[r].charge /\ n = item[r].cents
  OBVIOUS
<1>1. p \in Payment /\ c \in Charge /\ n \in Nat \ {0}
  BY DEF InsertAllocation, RowsInv, ItemInProgress, TypeOK
<1>2. /\ pc[r] = "insert" /\ pc'[r] = "walk" /\ call' = call /\ rest' = rest
      /\ \A d \in Charge : /\ txAllocated[r][d] \in Nat
                           /\ txAllocated'[r][d] = txAllocated[r][d] + (IF c = d THEN n ELSE 0)
      /\ \A q \in Payment : /\ txDrawn[r][q] \in Nat
                            /\ txDrawn'[r][q] = txDrawn[r][q] + (IF p = q THEN n ELSE 0)
      /\ txLinks'[r] = txLinks[r] \cup {<<p, c>>}
  BY <1>1 DEF InsertAllocation, RowsInv, TypeOK
<1>3. ASSUME NEW q \in Request \ {r}
      PROVE  /\ pc'[q] = pc[q] /\ item'[q] = item[q]
             /\ txAllocated'[q] = txAllocated[q] /\ txDrawn'[q] = txDrawn[q] /\ txLinks'[q] = txLinks[q]
  BY DEF InsertAllocation, RowsInv, TypeOK
<1>4. /\ \A q \in Payment : From(rest[r], q) \in Nat
      /\ \A d \in Charge : Onto(rest[r], d) \in Nat
  BY RestIsNatural, BodySums DEF RowsInv
<1>5. /\ \A d \in Charge : Onto(call[r].body, d) = txAllocated[r][d] + Onto(rest[r], d) + (IF c = d THEN n ELSE 0)
      /\ \A q \in Payment : From(call[r].body, q) = txDrawn[r][q] + From(rest[r], q) + (IF p = q THEN n ELSE 0)
      /\ \A q \in Payment, d \in Charge :
           call[r].body[q][d] > 0 <=> <<q, d>> \in txLinks[r] \/ rest[r][q][d] > 0 \/ (p = q /\ c = d)
  BY <1>2 DEF BodiesKept, BodyKept
<1>6. ASSUME NEW d \in Charge
      PROVE  Onto(call[r].body, d) = txAllocated'[r][d] + Onto(rest[r], d) + 0
  BY <1>1, <1>2, <1>4, <1>5
<1>7. ASSUME NEW q \in Payment
      PROVE  From(call[r].body, q) = txDrawn'[r][q] + From(rest[r], q) + 0
  BY <1>1, <1>2, <1>4, <1>5
<1>8. ASSUME NEW q \in Payment, NEW d \in Charge
      PROVE  call[r].body[q][d] > 0 <=> <<q, d>> \in txLinks'[r] \/ rest[r][q][d] > 0
  BY <1>2, <1>5
<1>9. BodyKept(r)'
  BY <1>2, <1>6, <1>7, <1>8 DEF BodyKept
<1>10. ASSUME NEW q \in Request \ {r} PROVE pc'[q] \notin {"idle", "stamp"} => BodyKept(q)'
  BY <1>2, <1>3, OthersKeep
<1> QED BY <1>9, <1>10 DEF BodiesKept

\* A statement that moves nothing keeps the bodies.
LEMMA GotoKeeps ==
  ASSUME RowsInv, BodiesKept, NEW r \in Request, NEW s \in Processing, pc[r] \in Processing, Goto(r, s)
  PROVE  BodiesKept'
<1>1. pc'[r] = s /\ \A q \in Request \ {r} : pc'[q] = pc[q]
  BY DEF Goto, RowsInv, TypeOK
<1>2. BodyKept(r)'
  <2>1. BodyKept(r)
    BY DEF BodiesKept
  <2> QED BY <1>1, <2>1 DEF BodyKept, Goto
<1>3. ASSUME NEW q \in Request \ {r} PROVE pc'[q] \notin {"idle", "stamp"} => BodyKept(q)'
  BY <1>1, OthersKeep DEF Goto
<1> QED BY <1>2, <1>3 DEF BodiesKept

\* The end of a transaction leaves the other requests their bodies.
LEMMA ReleaseKeeps ==
  ASSUME RowsInv, BodiesKept, NEW r \in Request, Release(r)
  PROVE  BodiesKept'
<1>1. Freed(r)
  BY Released DEF RowsInv
<1>2. ASSUME NEW q \in Request \ {r} PROVE pc'[q] \notin {"idle", "stamp"} => BodyKept(q)'
  BY <1>1, OthersKeep DEF Freed
<1> QED BY <1>1, <1>2 DEF BodiesKept, Freed

LEMMA BodiesStep == RowsInv /\ BodiesKept /\ [Next]_vars => BodiesKept'
<1> SUFFICES ASSUME RowsInv, BodiesKept, [Next]_vars PROVE BodiesKept'
  OBVIOUS
<1>1. CASE UNCHANGED <<pc, call, rest, item, tx>>
  BY <1>1 DEF BodiesKept, BodyKept
<1>2. ASSUME NEW r \in Request, Rollback(r) PROVE BodiesKept'
  BY <1>2, ReleaseKeeps DEF Rollback
<1>3. ASSUME NEW r \in Request, Progress(r) PROVE BodiesKept'
  <2>1. ASSUME NEW c \in KnownCharges, NEW n \in Amount, NextOfPayment(r, c, n) PROVE BodiesKept'
    <3>1. call[r].own \in Payment
      BY <2>1 DEF NextOfPayment, RowsInv, TypeOK
    <3> QED BY <2>1, <3>1, TakeKeeps DEF NextOfPayment
  <2>2. ASSUME NEW p \in KnownPayments, NEW c \in KnownCharges, NEW n \in Amount, NextOfCredit(r, p, c, n)
        PROVE  BodiesKept'
    BY <2>2, TakeKeeps DEF NextOfCredit
  <2>3. CASE LockPayment(r) \/ LockCharge(r)
    BY <2>3, GotoKeeps DEF LockPayment, LockCharge
  <2>4. CASE CheckCredit(r) \/ CheckBalance(r)
    BY <1>2, <2>4, GotoKeeps DEF CheckCredit, CheckBalance
  <2>5. CASE InsertAllocation(r)
    BY <2>5, InsertKeeps
  <2>6. CASE CommitPayment(r) \/ CommitCredit(r) \/ StampWriteOff(r)
    BY <2>6, ReleaseKeeps DEF CommitPayment, CommitCredit, CommitAllocations, StampWriteOff
  <2> QED BY <1>3, <2>1, <2>2, <2>3, <2>4, <2>5, <2>6 DEF Progress
<1>4. ASSUME NEW r \in Request, NEW p \in Payment, NEW k \in Client, NEW n \in Amount, NEW body \in Body,
             RecordPayment(r, p, k, n, body)
      PROVE  BodiesKept'
  <2>1. call'[r].body = body /\ \A q \in Request \ {r} : call'[q] = call[q]
    BY <1>4 DEF RecordPayment, RowsInv, TypeOK
  <2> QED BY <1>4, <2>1, StartKeeps DEF RecordPayment
<1>5. ASSUME NEW r \in Request, NEW k \in Client, NEW body \in Body, ApplyCredit(r, k, body) PROVE BodiesKept'
  <2>1. call'[r].body = body /\ \A q \in Request \ {r} : call'[q] = call[q]
    BY <1>5 DEF ApplyCredit, RowsInv, TypeOK
  <2> QED BY <1>5, <2>1, StartKeeps DEF ApplyCredit
<1>6. ASSUME NEW r \in Request, NEW c \in Charge, NEW why \in Reason, ReadWriteOff(r, c, why) PROVE BodiesKept'
  <2>1. pc'[r] = "stamp" /\ \A q \in Request \ {r} : pc'[q] = pc[q] /\ call'[q] = call[q] /\ item'[q] = item[q]
    BY <1>6 DEF ReadWriteOff, RowsInv, TypeOK
  <2>2. ASSUME NEW q \in Request \ {r} PROVE pc'[q] \notin {"idle", "stamp"} => BodyKept(q)'
    BY <1>6, <2>1, OthersKeep DEF ReadWriteOff
  <2> QED BY <2>1, <2>2 DEF BodiesKept
<1>7. ASSUME NEW r \in Request, DeadlockVictim(r) \/ Abort(r) PROVE BodiesKept'
  BY <1>2, <1>7 DEF DeadlockVictim, Abort
<1>8. ASSUME NEW c \in Charge, NEW k \in Client, NEW n \in Amount, CreateAdHocCharge(c, k, n) PROVE BodiesKept'
  BY <1>1, <1>8 DEF CreateAdHocCharge
<1>9. CASE UNCHANGED vars
  BY <1>1, <1>9
<1> QED BY <1>3, <1>4, <1>5, <1>6, <1>7, <1>8, <1>9 DEF Next

LEMMA BodiesInvariance == Spec => []BodiesKept
<1>1. Init => BodiesKept
  BY DEF Init, NothingInFlight, BodiesKept
<1> QED BY <1>1, BodiesStep, RowsInvariance, PTL DEF Spec

------------------------------------------------------------------------------
(* The abstract ledger.  A request that began is answered by one Commit or by *)
(* Refuse; no other statement of it is seen.                                 *)

\* Whether a request is in a transaction, and what it asks for, is all that is seen of it.
LEMMA AskedIsSeen ==
  ASSUME UNCHANGED call, \A q \in Request : pc'[q] \in {"idle", "stamp"} <=> pc[q] \in {"idle", "stamp"}
  PROVE  Asked' = Asked
BY DEF Asked

LEMMA NobodyAsks == Ledger!NoAsk = [client |-> None, own |-> None, cents |-> 0, body |-> NoBody]
BY DEF Ledger!NoAsk, Ledger!NoBody, NoBody

LEMMA AskedEnds ==
  ASSUME RowsInv, NEW r \in Request, Release(r)
  PROVE  Asked' = [Asked EXCEPT ![r] = Ledger!NoAsk]
<1>1. Freed(r)
  BY Released DEF RowsInv
<1>2. Asked'[r] = Ledger!NoAsk
  BY <1>1, NobodyAsks DEF Asked, Freed
<1>3. \A q \in Request \ {r} : Asked'[q] = Asked[q]
  BY <1>1 DEF Asked, Freed
<1>4. Asked = [q \in Request |-> Asked[q]] /\ Asked' = [q \in Request |-> Asked'[q]]
  BY DEF Asked
<1> QED BY <1>2, <1>3, <1>4

\* A rollback is a refusal; one of a write-off is not seen.
LEMMA RollbackImplements ==
  ASSUME RowsInv, NEW r \in Request, pc[r] # "idle", Rollback(r)
  PROVE  Ledger!AtomicNext \/ UNCHANGED <<tables, Asked>>
<1>1. UNCHANGED tables /\ Asked' = [Asked EXCEPT ![r] = Ledger!NoAsk]
  BY AskedEnds DEF Rollback
<1>2. CASE pc[r] = "stamp"
  <2>1. Asked[r] = Ledger!NoAsk
    BY <1>2, NobodyAsks DEF Asked
  <2>2. Asked = [q \in Request |-> Asked[q]]
    BY DEF Asked
  <2> QED BY <1>1, <2>1, <2>2
<1>3. CASE pc[r] # "stamp"
  <2>1. Asked[r].client \in Client
    BY <1>3 DEF Asked, RowsInv, ActsForClient
  <2>2. Asked[r] # Ledger!NoAsk
    BY <2>1 DEF Ledger!NoAsk
  <2> QED BY <1>1, <2>2 DEF Ledger!AtomicNext, Ledger!Refuse, Ledger!Close, Ledger!vars
<1> QED BY <1>2, <1>3

\* The start of a transaction is a request that comes.
LEMMA StartImplements ==
  ASSUME RowsInv, NEW r \in Request, NEW a \in Ledger!Asks, pc[r] = "idle", pc' = [pc EXCEPT ![r] = "walk"],
         UNCHANGED tables, \A q \in Request \ {r} : call'[q] = call[q],
         a = [client |-> call'[r].client, own |-> call'[r].own, cents |-> call'[r].cents, body |-> call'[r].body]
  PROVE  Ledger!AtomicNext
<1>1. pc'[r] = "walk" /\ \A q \in Request \ {r} : pc'[q] = pc[q]
  BY DEF RowsInv, TypeOK
<1>2. Asked[r] = Ledger!NoAsk
  BY NobodyAsks DEF Asked
<1>3. Asked'[r] = a
  BY <1>1 DEF Asked
<1>4. Asked' = [Asked EXCEPT ![r] = a]
  BY <1>1, <1>3 DEF Asked
<1> QED BY <1>2, <1>3, <1>4 DEF Ledger!AtomicNext, Ledger!Ask, Ledger!vars

\* The empty books are the empty books of the abstract ledger, with nothing asked.
LEMMA InitImplements == Init => Ledger!AtomicInit
BY DEF Init, NothingInFlight, Asked, Ledger!AtomicInit, Ledger!Init, Ledger!NoCharge, Ledger!NoPayment,
       Ledger!NoAsk, Ledger!NoBody, NoBody

\* createAdHocCharge is Owe.
LEMMA CreateImplements ==
  ASSUME RowsInv, NEW c \in Charge, NEW k \in Client, NEW n \in Amount, CreateAdHocCharge(c, k, n)
  PROVE  Ledger!AtomicNext
<1>1. charge[c] = NoCharge
  BY DEF CreateAdHocCharge, RowsInv, AbsentRows
<1>2. Asked' = Asked
  BY AskedIsSeen DEF CreateAdHocCharge
<1> QED BY <1>1, <1>2 DEF CreateAdHocCharge, Ledger!AtomicNext, Ledger!Owe, Ledger!NoCharge

\* The UPDATE of writeOffCharge is Forgive.
LEMMA StampImplements ==
  ASSUME RowsInv, NEW r \in Request, StampWriteOff(r)
  PROVE  Ledger!AtomicNext
<1>1. item[r].charge \in Charge /\ Issued(item[r].charge) /\ call[r].reason \in Reason
  BY DEF StampWriteOff, RowsInv, ItemInProgress
<1>2. Asked' = Asked
  <2>1. Asked[r] = Ledger!NoAsk
    BY NobodyAsks DEF StampWriteOff, Asked
  <2>2. Asked' = [Asked EXCEPT ![r] = Ledger!NoAsk]
    BY AskedEnds DEF StampWriteOff
  <2>3. Asked = [q \in Request |-> Asked[q]]
    BY DEF Asked
  <2> QED BY <2>1, <2>2, <2>3
<1> QED BY <1>1, <1>2 DEF StampWriteOff, Ledger!AtomicNext, Ledger!Forgive

\* When the loop has walked its body, the transaction's rows are the whole of it.
LEMMA WholeBody ==
  ASSUME RowsInv, BodiesKept, NEW r \in Request, pc[r] = "walk", rest[r] = NoBody
  PROVE  /\ \A c \in Charge : txAllocated[r][c] = Onto(call[r].body, c)
         /\ \A p \in Payment : txDrawn[r][p] = From(call[r].body, p)
         /\ txLinks[r] = Pairs(call[r].body)
<1>1. /\ \A c \in Charge : txAllocated[r][c] \in Nat
      /\ \A p \in Payment : txDrawn[r][p] \in Nat
      /\ txLinks[r] \subseteq Payment \X Charge
  BY DEF RowsInv, TypeOK
<1>2. /\ \A c \in Charge : Onto(call[r].body, c) = txAllocated[r][c] + Onto(rest[r], c) + 0
      /\ \A p \in Payment : From(call[r].body, p) = txDrawn[r][p] + From(rest[r], p) + 0
      /\ \A p \in Payment, c \in Charge : call[r].body[p][c] > 0 <=> <<p, c>> \in txLinks[r] \/ rest[r][p][c] > 0
  BY DEF BodiesKept, BodyKept
<1>3. \A p \in Payment, c \in Charge : rest[r][p][c] = 0
  BY DEF NoBody
<1>4. txLinks[r] = Pairs(call[r].body)
  BY <1>1, <1>2, <1>3 DEF Pairs
<1>5. (\A c \in Charge : Onto(rest[r], c) = 0) /\ (\A p \in Payment : From(rest[r], p) = 0)
  BY NoBodyIsEmpty
<1> QED BY <1>1, <1>2, <1>4, <1>5

\* The abstract ledger adds up as this one does.
LEMMA LedgerSums == \A f, S : Ledger!SumFunctionOnSet(f, S) = SumFunctionOnSet(f, S)
BY DEF Ledger!SumFunctionOnSet, Ledger!FoldFunctionOnSet, Ledger!MapThenFoldSet,
       SumFunctionOnSet, FoldFunctionOnSet, MapThenFoldSet

\* A COMMIT carries out the whole request.
LEMMA CommitImplements ==
  ASSUME RowsInv, BodiesKept, NEW r \in Request, pc[r] = "walk", rest[r] = NoBody, CommitAllocations(r),
         UNCHANGED charge,
         IF call[r].own = None THEN UNCHANGED payment
         ELSE payment' = [payment EXCEPT ![call[r].own] = [client |-> call[r].client, cents |-> call[r].cents]]
  PROVE  Ledger!AtomicNext
<1> PICK k, p, n, body : k = call[r].client /\ p = call[r].own /\ n = call[r].cents /\ body = call[r].body
  OBVIOUS
<1>1. k \in Client /\ p \in Payment \cup {None} /\ body \in Bodies /\ n \in Nat
  BY RestIsNatural DEF RowsInv, TypeOK, ActsForClient
<1>2. /\ \A q \in Payment : p # q => payment'[q] = payment[q]
      /\ p # None => payment'[p] = [client |-> k, cents |-> n]
  BY <1>1 DEF RowsInv, TypeOK
<1>3. Asked[r] = [client |-> k, own |-> p, cents |-> n, body |-> body] /\ Asked[r] # Ledger!NoAsk
  BY <1>1 DEF Asked, Ledger!NoAsk
<1>4. Asked' = [Asked EXCEPT ![r] = Ledger!NoAsk]
  BY AskedEnds DEF CommitAllocations
<1>5. IF p = None THEN UNCHANGED payment ELSE Ledger!Receive(p, k, n)
  BY <1>1 DEF RowsInv, OwnPayment, Ledger!Receive, Ledger!NoPayment
<1>6. /\ allocated' = [c \in Charge |-> allocated[c] + Onto(body, c)]
      /\ drawn' = [q \in Payment |-> drawn[q] + From(body, q)]
      /\ links' = links \cup Pairs(body)
  BY WholeBody DEF CommitAllocations
<1>7. ASSUME NEW c \in Charge, Onto(body, c) > 0
      PROVE  charge[c].client = k /\ charge[c].reason = None /\ allocated'[c] <= charge[c].cents
  <2>1. txAllocated[r][c] > 0 /\ allocated'[c] = allocated[c] + txAllocated[r][c]
    BY <1>7, WholeBody DEF CommitAllocations
  <2> QED BY <2>1 DEF RowsInv, PendingOnCharges
<1>8. ASSUME NEW q \in Payment, From(body, q) > 0
      PROVE  payment'[q].client = k /\ drawn'[q] <= payment'[q].cents
  <2>1. txDrawn[r][q] > 0 /\ drawn'[q] = drawn[q] + txDrawn[r][q]
    BY <1>8, WholeBody DEF CommitAllocations
  <2>2. CASE q = p
    <3>1. drawn'[q] <= call[r].cents
      BY <2>2, CommitAdds
    <3> QED BY <1>2, <2>2, <3>1
  <2>3. CASE q # p
    <3>1. PendingOnPayment(r, q)
      BY DEF RowsInv, PendingOnPayments
    <3> QED BY <1>2, <2>1, <2>3, <3>1 DEF PendingOnPayment
  <2> QED BY <2>2, <2>3
<1>9. Ledger!Settle(k, body)
  <2>1. /\ \A c \in Charge : Ledger!Onto(body, c) = Onto(body, c)
        /\ \A q \in Payment : Ledger!From(body, q) = From(body, q)
        /\ Ledger!Pairs(body) = Pairs(body)
    <3>1. \A c \in Charge : Ledger!Onto(body, c) = Onto(body, c)
      BY LedgerSums DEF Ledger!Onto, Onto
    <3>2. \A q \in Payment : Ledger!From(body, q) = From(body, q)
      BY LedgerSums DEF Ledger!From, From
    <3>3. Ledger!Pairs(body) = Pairs(body)
      BY DEF Ledger!Pairs, Pairs
    <3> QED BY <3>1, <3>2, <3>3
  <2> QED BY <1>6, <1>7, <1>8, <2>1 DEF Ledger!Settle
<1>10. Ledger!Commit(r)
  BY <1>3, <1>4, <1>5, <1>9 DEF Ledger!Commit, Ledger!Close
<1> QED BY <1>10 DEF Ledger!AtomicNext

\* Statement by statement, the billing service implements the ledger in which every
\* request is one step, its whole body or nothing: a refusal, a rollback, a timeout or
\* a deadlock leaves no trace, and no request is seen half done.
THEOREM BillingImplementsLedger == Spec => ImplementsLedger
<1>1. RowsInv /\ BodiesKept /\ [Next]_vars => [Ledger!AtomicNext]_<<Ledger!vars, Asked>>
  <2> SUFFICES ASSUME RowsInv, BodiesKept, Next PROVE Ledger!AtomicNext \/ UNCHANGED <<tables, Asked>>
    BY DEF Ledger!vars, Asked
  <2>1. ASSUME NEW c \in Charge, NEW k \in Client, NEW n \in Amount, CreateAdHocCharge(c, k, n)
        PROVE  Ledger!AtomicNext
    BY <2>1, CreateImplements
  <2>2. ASSUME NEW r \in Request, NEW p \in Payment, NEW k \in Client, NEW n \in Amount, NEW body \in Body,
               RecordPayment(r, p, k, n, body)
        PROVE  Ledger!AtomicNext
    <3> DEFINE a == [client |-> k, own |-> p, cents |-> n, body |-> body]
    <3>1. call'[r] = [client |-> k, own |-> p, cents |-> n, reason |-> None, body |-> body]
      BY <2>2 DEF RecordPayment, RowsInv, TypeOK
    <3>2. a \in Ledger!Asks
      BY DEF Ledger!Asks
    <3>3. a = [client |-> call'[r].client, own |-> call'[r].own, cents |-> call'[r].cents, body |-> call'[r].body]
      BY <3>1
    <3>4. \A q \in Request \ {r} : call'[q] = call[q]
      BY <2>2 DEF RecordPayment, RowsInv, TypeOK
    <3> HIDE DEF a
    <3> QED BY <2>2, <3>2, <3>3, <3>4, StartImplements DEF RecordPayment
  <2>3. ASSUME NEW r \in Request, NEW k \in Client, NEW body \in Body, ApplyCredit(r, k, body)
        PROVE  Ledger!AtomicNext
    <3> DEFINE a == [client |-> k, own |-> None, cents |-> 0, body |-> body]
    <3>1. call'[r] = [client |-> k, own |-> None, cents |-> 0, reason |-> None, body |-> body]
      BY <2>3 DEF ApplyCredit, RowsInv, TypeOK
    <3>2. a \in Ledger!Asks
      BY DEF Ledger!Asks
    <3>3. a = [client |-> call'[r].client, own |-> call'[r].own, cents |-> call'[r].cents, body |-> call'[r].body]
      BY <3>1
    <3>4. \A q \in Request \ {r} : call'[q] = call[q]
      BY <2>3 DEF ApplyCredit, RowsInv, TypeOK
    <3> HIDE DEF a
    <3> QED BY <2>3, <3>2, <3>3, <3>4, StartImplements DEF ApplyCredit
  <2>4. ASSUME NEW r \in Request, NEW c \in Charge, NEW why \in Reason, ReadWriteOff(r, c, why)
        PROVE  UNCHANGED <<tables, Asked>>
    <3>1. pc[r] = "idle" /\ pc'[r] = "stamp" /\ \A q \in Request \ {r} : pc'[q] = pc[q] /\ call'[q] = call[q]
      BY <2>4 DEF ReadWriteOff, RowsInv, TypeOK
    <3>2. Asked' = Asked
      BY <3>1 DEF Asked
    <3> QED BY <2>4, <3>2 DEF ReadWriteOff
  <2>5. ASSUME NEW r \in Request, DeadlockVictim(r) \/ Abort(r)
        PROVE  Ledger!AtomicNext \/ UNCHANGED <<tables, Asked>>
    BY <2>5, RollbackImplements DEF DeadlockVictim, Abort
  <2>6. ASSUME NEW r \in Request, Progress(r)
        PROVE  Ledger!AtomicNext \/ UNCHANGED <<tables, Asked>>
    <3> DEFINE Within == /\ UNCHANGED <<tables, call>>
                         /\ \A q \in Request : pc'[q] \in {"idle", "stamp"} <=> pc[q] \in {"idle", "stamp"}
    <3>1. CASE Within
      BY <3>1, AskedIsSeen
    <3>2. CASE (CheckCredit(r) \/ CheckBalance(r)) /\ Rollback(r)
      <4>1. pc[r] # "idle"
        BY <3>2 DEF CheckCredit, CheckBalance
      <4> QED BY <3>2, <4>1, RollbackImplements
    <3>3. CASE CommitPayment(r)
      <4>1. call[r].own # None /\ pc[r] = "walk" /\ rest[r] = NoBody /\ CommitAllocations(r) /\ UNCHANGED charge
        BY <3>3 DEF CommitPayment
      <4>2. payment' = [payment EXCEPT ![call[r].own] = [client |-> call[r].client, cents |-> call[r].cents]]
        BY <3>3 DEF CommitPayment
      <4> QED BY <4>1, <4>2, CommitImplements
    <3>4. CASE CommitCredit(r)
      <4>1. call[r].own = None /\ pc[r] = "walk" /\ rest[r] = NoBody /\ CommitAllocations(r) /\ UNCHANGED <<charge, payment>>
        BY <3>4 DEF CommitCredit
      <4> QED BY <4>1, CommitImplements
    <3>5. CASE StampWriteOff(r)
      BY <3>5, StampImplements
    <3>6. CASE \/ \E c \in KnownCharges, m \in Amount : NextOfPayment(r, c, m)
               \/ \E p \in KnownPayments, c \in KnownCharges, m \in Amount : NextOfCredit(r, p, c, m)
      <4>1. Within
        BY <3>6 DEF NextOfPayment, NextOfCredit, RowsInv, TypeOK
      <4> QED BY <3>1, <4>1
    <3>7. CASE LockPayment(r) \/ LockCharge(r) \/ InsertAllocation(r)
      <4>1. Within
        BY <3>7 DEF LockPayment, LockCharge, InsertAllocation, Goto, RowsInv, TypeOK
      <4> QED BY <3>1, <4>1
    <3>8. CASE (CheckCredit(r) \/ CheckBalance(r)) /\ ~Rollback(r)
      <4>1. Within
        BY <3>8 DEF CheckCredit, CheckBalance, Goto, RowsInv, TypeOK
      <4> QED BY <3>1, <4>1
    <3> QED BY <2>6, <3>2, <3>3, <3>4, <3>5, <3>6, <3>7, <3>8 DEF Progress
  <2> QED BY <2>1, <2>2, <2>3, <2>4, <2>5, <2>6 DEF Next
<1> QED BY <1>1, InitImplements, RowsInvariance, BodiesInvariance, PTL DEF Spec, ImplementsLedger, Ledger!Spec

------------------------------------------------------------------------------
(* Money.  A commit puts on the charges of its client what it takes from the *)
(* payments of that client, the new one included, and nothing anywhere else. *)

LEMMA InitMoney == Init => MoneyBalances
<1> SUFFICES ASSUME Init PROVE MoneyBalances
  OBVIOUS
<1> USE TablesAreFinite
<1>1. ASSUME NEW k \in Client
      PROVE  SumFunctionOnSet(allocated, ChargesOf(k)) = SumFunctionOnSet(drawn, PaymentsOf(k))
  <2>1. IsFiniteSet(ChargesOf(k)) /\ IsFiniteSet(PaymentsOf(k))
    BY FS_Subset DEF ChargesOf, PaymentsOf
  <2>2. (\A c \in ChargesOf(k) : allocated[c] = 0) /\ (\A p \in PaymentsOf(k) : drawn[p] = 0)
    BY DEF Init, ChargesOf, PaymentsOf
  <2> QED BY <2>1, <2>2, SumOfZeros
<1>2. ASSUME NEW r \in Request
      PROVE  SumFunctionOnSet(txAllocated[r], Charge) = SumFunctionOnSet(txDrawn[r], Payment)
  <2>1. (\A c \in Charge : txAllocated[r][c] = 0) /\ (\A p \in Payment : txDrawn[r][p] = 0)
    BY DEF Init, NothingInFlight
  <2> QED BY <2>1, SumOfZeros
<1> QED BY <1>1, <1>2 DEF MoneyBalances

\* Where the tables of allocations are left alone and no row changes hands, the clients' sums stay.
LEMMA MoneyStays ==
  ASSUME RowsInv, MoneyBalances, UNCHANGED <<allocated, drawn, payment>>,
         \A c \in Charge : charge'[c].client = charge[c].client,
         \A r \in Request : \/ UNCHANGED <<txAllocated[r], txDrawn[r]>>
                            \/ /\ \A c \in Charge : txAllocated'[r][c] = 0
                               /\ \A p \in Payment : txDrawn'[r][p] = 0
  PROVE  MoneyBalances'
<1>1. ASSUME NEW k \in Client
      PROVE  SumFunctionOnSet(allocated', ChargesOf(k)') = SumFunctionOnSet(drawn', PaymentsOf(k)')
  <2>1. ChargesOf(k)' = ChargesOf(k) /\ PaymentsOf(k)' = PaymentsOf(k)
    BY DEF ChargesOf, PaymentsOf
  <2> QED BY <2>1 DEF MoneyBalances
<1>2. ASSUME NEW r \in Request
      PROVE  SumFunctionOnSet(txAllocated'[r], Charge) = SumFunctionOnSet(txDrawn'[r], Payment)
  <2>1. CASE UNCHANGED <<txAllocated[r], txDrawn[r]>>
    BY <2>1 DEF MoneyBalances
  <2>2. CASE (\A c \in Charge : txAllocated'[r][c] = 0) /\ (\A p \in Payment : txDrawn'[r][p] = 0)
    BY <2>2, TablesAreFinite, SumOfZeros
  <2> QED BY <2>1, <2>2
<1> QED BY <1>1, <1>2 DEF MoneyBalances

\* A transaction that ends has nothing pending any more.
LEMMA ReleasedSlot ==
  ASSUME RowsInv, NEW r \in Request, Release(r), NEW q \in Request
  PROVE  \/ q # r /\ UNCHANGED <<txAllocated[q], txDrawn[q]>>
         \/ /\ q = r
            /\ \A c \in Charge : txAllocated'[q][c] = 0
            /\ \A p \in Payment : txDrawn'[q][p] = 0
BY DEF Release, RowsInv, TypeOK

\* createAdHocCharge: nothing was allocated to a charge that was not there.
LEMMA CreateMoney ==
  ASSUME RowsInv, MoneyBalances, NEW c \in Charge, NEW k \in Client, NEW n \in Amount, CreateAdHocCharge(c, k, n)
  PROVE  MoneyBalances'
<1> USE DEF CreateAdHocCharge
<1>1. allocated[c] = 0
  <2>1. PICK r \in Request : TRUE
    BY SomeRequest
  <2>2. charge[c].cents = 0 /\ allocated[c] \in Nat /\ txAllocated[r][c] \in Nat
    BY DEF RowsInv, AbsentRows, TypeOK, NoCharge
  <2>3. allocated[c] + txAllocated[r][c] <= charge[c].cents
    BY DEF RowsInv, PendingOnCharges
  <2> QED BY <2>2, <2>3
<1>2. ASSUME NEW j \in Client
      PROVE  SumFunctionOnSet(allocated, ChargesOf(j)') = SumFunctionOnSet(drawn, PaymentsOf(j))
  <2>1. Summable(allocated, ChargesOf(j)') /\ IsFiniteSet(ChargesOf(j))
    BY TablesAreFinite, FS_Subset DEF Summable, ChargesOf, RowsInv, TypeOK
  <2>2. CASE c \in ChargesOf(j)'
    <3>1. ChargesOf(j)' \ {c} = ChargesOf(j)
      BY NoneIsNoValue, <2>2 DEF ChargesOf, RowsInv, TypeOK, Issued
    <3>2. SumFunctionOnSet(allocated, ChargesOf(j)') = allocated[c] + SumFunctionOnSet(allocated, ChargesOf(j))
      BY <2>1, <2>2, <3>1, SumTakesOut
    <3>3. SumFunctionOnSet(allocated, ChargesOf(j)) \in Int
      BY <2>1, SumIsInteger DEF Summable, ChargesOf, RowsInv, TypeOK
    <3> QED BY <1>1, <3>2, <3>3 DEF MoneyBalances
  <2>3. CASE c \notin ChargesOf(j)'
    <3>1. ChargesOf(j)' = ChargesOf(j)
      BY NoneIsNoValue, <2>3 DEF ChargesOf, RowsInv, TypeOK, Issued
    <3> QED BY <3>1 DEF MoneyBalances
  <2> QED BY <2>2, <2>3
<1>3. \A j \in Client : PaymentsOf(j)' = PaymentsOf(j)
  BY DEF PaymentsOf
<1> QED BY <1>2, <1>3 DEF MoneyBalances, tx

\* The INSERT of an allocation adds as much to both sums of its transaction.
LEMMA InsertMoney ==
  ASSUME RowsInv, MoneyBalances, NEW r \in Request, InsertAllocation(r)
  PROVE  MoneyBalances'
<1> DEFINE p == item[r].payment  c == item[r].charge  n == item[r].cents
<1>1. p \in Payment /\ c \in Charge /\ n \in Nat
  BY DEF InsertAllocation, RowsInv, ItemInProgress, Processing, TypeOK
<1>2. \A q \in Request : Summable(txAllocated[q], Charge) /\ Summable(txDrawn[q], Payment)
  BY TablesAreFinite DEF Summable, RowsInv, TypeOK
<1>3. /\ \A x \in Charge : txAllocated'[r][x] = IF x = c THEN txAllocated[r][x] + n ELSE txAllocated[r][x]
      /\ \A x \in Payment : txDrawn'[r][x] = IF x = p THEN txDrawn[r][x] + n ELSE txDrawn[r][x]
  BY <1>1 DEF InsertAllocation, RowsInv, TypeOK
<1>4. \A q \in Request \ {r} : txAllocated'[q] = txAllocated[q] /\ txDrawn'[q] = txDrawn[q]
  BY DEF InsertAllocation, RowsInv, TypeOK
<1>5. Summable(txAllocated'[r], Charge) /\ Summable(txDrawn'[r], Payment)
  BY <1>1, <1>2, <1>3 DEF Summable
<1>6. SumFunctionOnSet(txAllocated'[r], Charge)
        = SumFunctionOnSet(txAllocated[r], Charge) + (txAllocated'[r][c] - txAllocated[r][c])
  <2>1. \A x \in Charge \ {c} : txAllocated[r][x] = txAllocated'[r][x]
    BY <1>3
  <2> HIDE DEF c
  <2> QED BY <1>1, <1>2, <1>5, <2>1, SumChanges
<1>7. SumFunctionOnSet(txDrawn'[r], Payment)
        = SumFunctionOnSet(txDrawn[r], Payment) + (txDrawn'[r][p] - txDrawn[r][p])
  <2>1. \A x \in Payment \ {p} : txDrawn[r][x] = txDrawn'[r][x]
    BY <1>3
  <2> HIDE DEF p
  <2> QED BY <1>1, <1>2, <1>5, <2>1, SumChanges
<1>8. txAllocated[r][c] \in Nat /\ txDrawn[r][p] \in Nat
  BY <1>1 DEF RowsInv, TypeOK
<1>9. txAllocated'[r][c] - txAllocated[r][c] = n /\ txDrawn'[r][p] - txDrawn[r][p] = n
  BY <1>1, <1>3, <1>8
<1>10. SumFunctionOnSet(txAllocated'[r], Charge) = SumFunctionOnSet(txDrawn'[r], Payment)
  BY <1>6, <1>7, <1>9 DEF MoneyBalances
<1>11. \A k \in Client : ChargesOf(k)' = ChargesOf(k) /\ PaymentsOf(k)' = PaymentsOf(k)
  BY DEF InsertAllocation, ChargesOf, PaymentsOf, tables
<1>12. UNCHANGED <<allocated, drawn>>
  BY DEF InsertAllocation, tables
<1> QED BY <1>4, <1>10, <1>11, <1>12 DEF MoneyBalances

\* The COMMIT of r adds the sums of its transaction to those of its client.
LEMMA CommitMoney ==
  ASSUME RowsInv, MoneyBalances, NEW r \in Request, pc[r] = "walk", CommitAllocations(r), UNCHANGED charge,
         \A p \in Payment : call[r].own # p => payment'[p] = payment[p],
         call[r].own # None => payment'[call[r].own].client = call[r].client
  PROVE  MoneyBalances'
<1> DEFINE k == call[r].client
<1>1. /\ \A c \in Charge : /\ allocated[c] \in Int /\ txAllocated[r][c] \in Int
                           /\ allocated'[c] = allocated[c] + txAllocated[r][c]
      /\ \A p \in Payment : /\ drawn[p] \in Int /\ txDrawn[r][p] \in Int
                            /\ drawn'[p] = drawn[p] + txDrawn[r][p]
  BY DEF CommitAllocations, RowsInv, TypeOK
<1>2. Summable(txAllocated[r], Charge) /\ Summable(txDrawn[r], Payment)
  BY <1>1, TablesAreFinite DEF Summable
<1>3. \A c \in Charge : txAllocated[r][c] # 0 => charge[c].client = k
  BY DEF RowsInv, PendingOnCharges, TypeOK
<1>4. \A p \in Payment : txDrawn[r][p] # 0 => payment'[p].client = k
  <2> SUFFICES ASSUME NEW p \in Payment, txDrawn[r][p] # 0 PROVE payment'[p].client = k
    OBVIOUS
  <2>1. PendingOnPayment(r, p) /\ txDrawn[r][p] \in Nat
    BY DEF RowsInv, PendingOnPayments, TypeOK
  <2>2. CASE call[r].own = p
    BY <2>2, NoneIsNoValue
  <2>3. CASE call[r].own # p
    BY <2>1, <2>3 DEF PendingOnPayment
  <2> QED BY <2>2, <2>3
<1>5. ASSUME NEW j \in Client
      PROVE  SumFunctionOnSet(allocated', ChargesOf(j)') = SumFunctionOnSet(drawn', PaymentsOf(j)')
  <2> DEFINE C == ChargesOf(j)  P == PaymentsOf(j)  Q == PaymentsOf(j)'
  <2>1. C \in SUBSET Charge /\ P \in SUBSET Payment /\ Q \in SUBSET Payment /\ ChargesOf(j)' = C
    BY DEF ChargesOf, PaymentsOf
  <2>2. /\ Summable(allocated, C) /\ Summable(txAllocated[r], C)
        /\ Summable(drawn, Q) /\ Summable(txDrawn[r], Q)
    BY <1>1, <2>1, TablesAreFinite, FS_Subset DEF Summable
  <2>3. SumFunctionOnSet(allocated', C) = SumFunctionOnSet(allocated, C) + SumFunctionOnSet(txAllocated[r], C)
    BY <1>1, <2>1, <2>2, SumAdds
  <2>4. SumFunctionOnSet(drawn', Q) = SumFunctionOnSet(drawn, Q) + SumFunctionOnSet(txDrawn[r], Q)
    BY <1>1, <2>1, <2>2, SumAdds
  <2>5. SumFunctionOnSet(drawn, Q) = SumFunctionOnSet(drawn, P)
    <3>1. P \in SUBSET Q /\ \A p \in Q \ P : drawn[p] = 0
      <4>1. ASSUME NEW p \in Payment, call[r].own = p PROVE drawn[p] = 0 /\ payment[p].client = None
        BY <4>1 DEF RowsInv, OwnPayment, NoPayment
      <4> QED BY <4>1, NoneIsNoValue DEF PaymentsOf
    <3> HIDE DEF P, Q
    <3> QED BY <2>2, <3>1, SumOfTheRest
  <2>6. SumFunctionOnSet(allocated, C) = SumFunctionOnSet(drawn, P)
    BY DEF MoneyBalances
  <2>7. SumFunctionOnSet(txAllocated[r], C) = SumFunctionOnSet(txDrawn[r], Q)
    <3>1. CASE j = k
      <4>1. (\A c \in Charge \ C : txAllocated[r][c] = 0) /\ (\A p \in Payment \ Q : txDrawn[r][p] = 0)
        BY <1>3, <1>4, <3>1 DEF ChargesOf, PaymentsOf
      <4> HIDE DEF C, Q
      <4>2. SumFunctionOnSet(txAllocated[r], Charge) = SumFunctionOnSet(txAllocated[r], C)
        BY <1>2, <2>1, <4>1, SumOfTheRest
      <4>3. SumFunctionOnSet(txDrawn[r], Payment) = SumFunctionOnSet(txDrawn[r], Q)
        BY <1>2, <2>1, <4>1, SumOfTheRest
      <4> QED BY <4>2, <4>3 DEF MoneyBalances
    <3>2. CASE j # k
      <4>1. (\A c \in C : txAllocated[r][c] = 0) /\ (\A p \in Q : txDrawn[r][p] = 0)
        BY <1>3, <1>4, <3>2 DEF ChargesOf, PaymentsOf
      <4> HIDE DEF C, Q
      <4> QED BY <2>2, <4>1, SumOfZeros DEF Summable
    <3> QED BY <3>1, <3>2
  <2>8. SumFunctionOnSet(allocated', C) = SumFunctionOnSet(drawn', Q)
    <3> HIDE DEF C, P, Q
    <3> QED BY <2>3, <2>4, <2>5, <2>6, <2>7
  <2>9. SumFunctionOnSet(allocated', ChargesOf(j)') = SumFunctionOnSet(allocated', C)
    BY <2>1
  <2> QED BY <2>8, <2>9
<1>6. ASSUME NEW q \in Request
      PROVE  SumFunctionOnSet(txAllocated'[q], Charge) = SumFunctionOnSet(txDrawn'[q], Payment)
  <2>1. CASE q # r
    BY <2>1, ReleasedSlot DEF CommitAllocations, MoneyBalances
  <2>2. CASE q = r
    <3>1. (\A c \in Charge : txAllocated'[q][c] = 0) /\ (\A p \in Payment : txDrawn'[q][p] = 0)
      BY <2>2, ReleasedSlot DEF CommitAllocations
    <3> QED BY <3>1, TablesAreFinite, SumOfZeros
  <2> QED BY <2>1, <2>2
<1> QED BY <1>5, <1>6 DEF MoneyBalances

LEMMA CommitsMoney ==
  ASSUME RowsInv, MoneyBalances, NEW r \in Request, CommitPayment(r) \/ CommitCredit(r)
  PROVE  MoneyBalances'
<1>1. CASE CommitPayment(r)
  <2>1. call[r].own \in Payment
    BY <1>1 DEF CommitPayment, RowsInv, TypeOK
  <2>2. \A p \in Payment : call[r].own # p => payment'[p] = payment[p]
    BY <1>1 DEF CommitPayment, RowsInv, TypeOK
  <2>3. payment'[call[r].own].client = call[r].client
    BY <1>1, <2>1 DEF CommitPayment, RowsInv, TypeOK
  <2> QED BY <1>1, <2>2, <2>3, CommitMoney DEF CommitPayment
<1>2. CASE CommitCredit(r)
  BY <1>2, CommitMoney DEF CommitCredit
<1> QED BY <1>1, <1>2

LEMMA MoneyStep == RowsInv /\ MoneyBalances /\ [Next]_vars => MoneyBalances'
<1> SUFFICES ASSUME RowsInv, MoneyBalances, [Next]_vars PROVE MoneyBalances'
  OBVIOUS
<1> DEFINE Quiet == UNCHANGED <<tables, tx>>
<1>1. CASE Quiet
  BY <1>1, MoneyStays DEF tables, tx
<1>2. ASSUME NEW r \in Request, Rollback(r) PROVE MoneyBalances'
  BY <1>2, MoneyStays, ReleasedSlot DEF Rollback, tables
<1>3. ASSUME NEW r \in Request, StampWriteOff(r) PROVE MoneyBalances'
  <2>1. \A c \in Charge : charge'[c].client = charge[c].client
    BY <1>3 DEF StampWriteOff, RowsInv, TypeOK
  <2> QED BY <1>3, <2>1, MoneyStays, ReleasedSlot DEF StampWriteOff
<1>4. ASSUME NEW r \in Request, Progress(r) PROVE MoneyBalances'
  <2>1. CASE InsertAllocation(r)
    BY <2>1, InsertMoney
  <2>2. CASE CommitPayment(r) \/ CommitCredit(r)
    BY <2>2, CommitsMoney
  <2>3. CASE CheckCredit(r) \/ CheckBalance(r)
    BY <2>3, <1>1, <1>2 DEF CheckCredit, CheckBalance, Goto
  <2>4. CASE LockPayment(r) \/ LockCharge(r)
    BY <2>4, <1>1 DEF LockPayment, LockCharge, Goto
  <2>5. CASE \/ \E c \in KnownCharges, n \in Amount : NextOfPayment(r, c, n)
             \/ \E p \in KnownPayments, c \in KnownCharges, n \in Amount : NextOfCredit(r, p, c, n)
    BY <2>5, <1>1 DEF NextOfPayment, NextOfCredit, TakeLine
  <2> QED BY <1>3, <1>4, <2>1, <2>2, <2>3, <2>4, <2>5 DEF Progress
<1>5. ASSUME NEW r \in Request,
             \/ \E p \in Payment, k \in Client, n \in Amount, body \in Body : RecordPayment(r, p, k, n, body)
             \/ \E k \in Client, body \in Body : ApplyCredit(r, k, body)
             \/ \E c \in Charge, why \in Reason : ReadWriteOff(r, c, why)
      PROVE  MoneyBalances'
  BY <1>1, <1>5 DEF RecordPayment, ApplyCredit, ReadWriteOff
<1>6. ASSUME NEW r \in Request, DeadlockVictim(r) \/ Abort(r) PROVE MoneyBalances'
  BY <1>2, <1>6 DEF DeadlockVictim, Abort
<1>7. CASE UNCHANGED vars
  BY <1>1, <1>7 DEF vars
<1> QED BY <1>4, <1>5, <1>6, <1>7, CreateMoney DEF Next

\* Every reachable state satisfies the inductive invariant: what the row locks protect between two
\* statements, and that no money is made or lost, in the tables and in open transactions.
THEOREM Invariance == Spec => []IInv
<1>1. Init => MoneyBalances
  BY InitMoney
<1>2. RowsInv /\ MoneyBalances /\ [Next]_vars => MoneyBalances'
  BY MoneyStep
<1> QED BY <1>1, <1>2, RowsInvariance, BodiesInvariance, PTL DEF Spec, IInv

\* The running balance of a client's own page is what the receivables list calls owed, less the
\* credit it calls unspent: getClientLedger and getReceivables tell one story.
THEOREM PageAgreesWithReceivables == Spec => []LedgerAgreesWithReceivables
<1>1. RowsInv /\ MoneyBalances => LedgerAgreesWithReceivables
  <2> SUFFICES ASSUME RowsInv, MoneyBalances, NEW k \in Client
               PROVE  BalanceCents(k) = GrossOutstandingCents(k) - AvailableCreditCents(k)
    BY DEF LedgerAgreesWithReceivables
  <2> DEFINE C == ChargesOf(k)  W == {c \in C : WrittenOff(c)}  P == PaymentsOf(k)
             billed == [c \in Charge |-> charge[c].cents]
             open == [c \in Charge |-> charge[c].cents - allocated[c]]
             paid == [p \in Payment |-> payment[p].cents]
             credit == [p \in Payment |-> payment[p].cents - drawn[p]]
             Sum(f, S) == SumFunctionOnSet(f, S)
  <2>1. /\ C \in SUBSET Charge /\ P \in SUBSET Payment /\ W \in SUBSET C
        /\ IsFiniteSet(C) /\ IsFiniteSet(P) /\ IsFiniteSet(W) /\ IsFiniteSet(C \ W)
    BY TablesAreFinite, FS_Subset DEF ChargesOf, PaymentsOf
  <2>2. /\ \A c \in C : charge[c].cents \in Int /\ allocated[c] \in Int
        /\ \A p \in P : payment[p].cents \in Int /\ drawn[p] \in Int
    BY DEF RowsInv, TypeOK, ChargesOf, PaymentsOf
  <2>3. /\ Summable(billed, C) /\ Summable(open, C) /\ Summable(allocated, C)
        /\ Summable(paid, P) /\ Summable(credit, P) /\ Summable(drawn, P)
    BY <2>1, <2>2 DEF Summable
  <2>4. BalanceCents(k) = Sum(billed, C) - Sum(paid, P) - Sum(open, W)
    <3>1. SumFunction([x \in C |-> charge[x].cents]) = Sum(billed, C)
      BY <2>1, SumOfSame DEF SumFunction
    <3>2. SumFunction([x \in P |-> payment[x].cents]) = Sum(paid, P)
      BY <2>1, SumOfSame DEF SumFunction
    <3>3. SumFunction([x \in W |-> Open(x)]) = Sum(open, W)
      BY <2>1, SumOfSame DEF SumFunction, Open
    <3> QED BY <3>1, <3>2, <3>3 DEF BalanceCents, Total
  <2>5. GrossOutstandingCents(k) = Sum(open, C \ W)
    <3>1. SumFunction([x \in C \ W |-> Open(x)]) = Sum(open, C \ W)
      BY <2>1, SumOfSame DEF SumFunction, Open
    <3>2. {c \in C : ~WrittenOff(c)} = C \ W
      OBVIOUS
    <3> QED BY <3>1, <3>2 DEF GrossOutstandingCents, Total
  <2>6. AvailableCreditCents(k) = Sum(credit, P)
    <3>1. SumFunction([x \in P |-> payment[x].cents - drawn[x]]) = Sum(credit, P)
      BY <2>1, SumOfSame DEF SumFunction
    <3> QED BY <3>1 DEF AvailableCreditCents, Total
  <2>7. Sum(open, C) = Sum(open, W) + Sum(open, C \ W)
    BY <2>1, <2>3, SumSplits
  <2>8. Sum(open, C) = Sum(billed, C) - Sum(allocated, C)
    <3>1. \A c \in C : open[c] = billed[c] - allocated[c]
      BY <2>1
    <3> HIDE DEF open, billed, C
    <3> QED BY <2>3, <3>1, SumSubtracts
  <2>9. Sum(credit, P) = Sum(paid, P) - Sum(drawn, P)
    <3>1. \A p \in P : credit[p] = paid[p] - drawn[p]
      BY <2>1
    <3> HIDE DEF credit, paid, P
    <3> QED BY <2>3, <3>1, SumSubtracts
  <2>10. Sum(allocated, C) = Sum(drawn, P)
    BY DEF MoneyBalances
  <2>11. /\ Sum(open, C) \in Int /\ Sum(billed, C) \in Int /\ Sum(allocated, C) \in Int
         /\ Sum(paid, P) \in Int /\ Sum(drawn, P) \in Int /\ Sum(credit, P) \in Int
    BY <2>3, SumIsInteger
  <2>12. Sum(open, W) \in Int /\ Sum(open, C \ W) \in Int
    BY <2>1, <2>3, SumIsInteger DEF Summable
  <2> HIDE DEF billed, open, paid, credit, C, W, P, Sum
  <2> QED BY <2>4, <2>5, <2>6, <2>7, <2>8, <2>9, <2>10, <2>11, <2>12
<1> QED BY <1>1, Invariance, PTL DEF IInv
==============================================================================
