------------------------------ MODULE RulesProofs ------------------------------
(***************************************************************************)
(* The parts of MCRules that read the ledger, write to it by a dialog or   *)
(* share money out, for any clients, charges, payments, amounts, days and  *)
(* lengths of lists: what the payment dialog confirms, what a page shows   *)
(* whose queries run one after the other while the ledger changes, what a  *)
(* later summary says of a day that is over, and how a client's money      *)
(* meets its charges; and for every year, when the obligations of the      *)
(* catalogue are due.                                                      *)
(***************************************************************************)
EXTENDS MCRules, Sums, SequenceTheorems

(***************************************************************************)
(* The payment dialog (PaymentForm).                                       *)
(***************************************************************************)

(***************************************************************************)
(* A confirmation sent while another one may have recorded its money says  *)
(* so (again).  What makes that inductive: an open dialog that does not    *)
(* expect a repetition has sent nothing but the confirmation it waits for, *)
(* and a dialog that was opened anew has sent nothing.                     *)
(***************************************************************************)
OfOpenings == \A r \in DOMAIN request : request[r].opening <= opening

WaitsForItsOnly ==
  dialog /\ ~form.mayRepeat =>
    \A r \in Confirmations : request[r].opening = opening => r = form.confirm /\ IsPending(r)

LaterOnesSaySo ==
  \A r, s \in Confirmations : r < s /\ request[r].opening = request[s].opening => request[s].again

FormInv == FormTypeOK /\ OfOpenings /\ PaidAsProposed /\ WaitsForItsOnly /\ LaterOnesSaySo

LEMMA FormInvImplies == FormInv => DialogPaysOnce
BY DEF FormInv, DialogPaysOnce, PaidOnce, LaterOnesSaySo

\* The sets of the fields, named so that a proof about records need not open them.
Flag     == BOOLEAN
Ticks    == 0..GuardMs
Numbers  == 0..MaxRequests
Openings == 1..MaxOpenings
FormSet == [typed : Typed, built : Typed, settling : Ticks, propose : Numbers,
            confirm : Numbers, age : Ticks, mayRepeat : Flag]
RequestSet == [kind : {"propose", "confirm"}, opening : Openings, typed : Typed, rows : Typed,
               state : {"sent", "served", "answered", "failed"}, recorded : Flag, age : Ticks, again : Flag]

LEMMA SetsAreNamed == FormOf = FormSet /\ RequestOf = RequestSet
BY DEF FormOf, FormSet, RequestOf, RequestSet, Flag, Ticks, Numbers, Openings

LEMMA NothingTyped == NotTyped \in Typed /\ NotBuilt \in Typed /\ Empty \in FormOf
BY FormAssumption DEF NotTyped, NotBuilt, Typed, Empty, FormOf

LEMMA FormInitially == FormInit => FormInv
<1> SUFFICES ASSUME FormInit PROVE FormInv
  OBVIOUS
<1>1. request \in Seq(RequestOf) /\ Len(request) = 0 /\ DOMAIN request = {}
  BY DEF FormInit
<1>2. form \in FormOf /\ form.propose = 0 /\ form.confirm = 0
  BY NothingTyped DEF FormInit, Empty
<1>3. dialog = FALSE /\ opening \in 0..MaxOpenings
  BY FormAssumption DEF FormInit
<1>4. FormTypeOK
  <2>1. dialog \in BOOLEAN /\ ~dialog /\ opening \in 0..MaxOpenings
    BY <1>3
  <2>2. request \in Seq(RequestOf) /\ Len(request) <= MaxRequests
    BY <1>1, FormAssumption
  <2>3. form \in FormOf /\ form.propose <= Len(request) /\ form.confirm <= Len(request)
    BY <1>1, <1>2
  <2> QED BY <2>1, <2>2, <2>3 DEF FormTypeOK
<1> QED
  BY <1>1, <1>3, <1>4 DEF FormInv, OfOpenings, PaidAsProposed, WaitsForItsOnly, LaterOnesSaySo, Confirmations

(***************************************************************************)
(* The two ways in which the requests change: one is sent, or one is       *)
(* served, answered or failed, which leaves what it asked for.             *)
(***************************************************************************)
OneMore(q) ==
  /\ q \in RequestOf
  /\ request' \in Seq(RequestOf) /\ Len(request') = Len(request) + 1 /\ Len(request') <= MaxRequests
  /\ \A i \in 1..Len(request) : request'[i] = request[i]
  /\ request'[Len(request) + 1] = q

OneMoved(r) ==
  /\ request' \in Seq(RequestOf) /\ Len(request') = Len(request)
  /\ \A i \in 1..Len(request) :
       /\ request'[i].kind = request[i].kind /\ request'[i].opening = request[i].opening
       /\ request'[i].typed = request[i].typed /\ request'[i].rows = request[i].rows
       /\ request'[i].again = request[i].again
       /\ (i # r => request'[i] = request[i])

Sent(kind) ==
  [kind |-> kind, opening |-> opening, typed |-> form.typed, rows |-> form.built,
   state |-> "sent", recorded |-> FALSE, age |-> form.age, again |-> form.mayRepeat]

LEMMA SendIsOneMore ==
  ASSUME FormTypeOK, dialog, NEW kind \in {"propose", "confirm"}, Send(kind)
  PROVE  OneMore(Sent(kind))
<1>1. Sent(kind) \in RequestOf
  BY FormAssumption DEF Sent, FormTypeOK, RequestOf, FormOf
<1>2. request' = Append(request, Sent(kind)) /\ Len(request) < MaxRequests
  BY DEF Send, Sent
<1>3. request \in Seq(RequestOf)
  BY DEF FormTypeOK
<1> HIDE DEF Sent
<1>4. /\ Append(request, Sent(kind)) \in Seq(RequestOf)
      /\ Len(Append(request, Sent(kind))) = Len(request) + 1
      /\ \A i \in 1..Len(request) : Append(request, Sent(kind))[i] = request[i]
      /\ Append(request, Sent(kind))[Len(request) + 1] = Sent(kind)
  BY <1>1, <1>3, AppendProperties
<1>5. Len(request) \in Nat
  BY <1>3, LenProperties
<1> QED BY <1>1, <1>2, <1>4, <1>5, FormAssumption DEF OneMore

LEMMA MovedStaysARequest ==
  ASSUME NEW q \in RequestSet, NEW s \in {"served", "answered", "failed"}, NEW b \in Flag
  PROVE  [q EXCEPT !.state = s] \in RequestSet /\ [q EXCEPT !.state = s, !.recorded = b] \in RequestSet
BY DEF RequestSet

LEMMA StateIsOneMoved ==
  ASSUME FormTypeOK, NEW r \in DOMAIN request,
         NEW s \in {"served", "answered", "failed"}, NEW b \in BOOLEAN,
         \/ request' = [request EXCEPT ![r].state = s]
         \/ request' = [request EXCEPT ![r].state = s, ![r].recorded = b]
  PROVE  OneMoved(r) /\ request'[r].state = s
<1>1. request \in Seq(RequestOf) /\ r \in 1..Len(request) /\ Len(request) \in Nat
  BY LenProperties DEF FormTypeOK
<1>0. b \in Flag
  BY DEF Flag
<1>2. request = [i \in 1..Len(request) |-> request[i]] /\ \A i \in 1..Len(request) : request[i] \in RequestOf
  BY <1>1
<1>3. PICK q \in RequestOf :
        /\ request' = [request EXCEPT ![r] = q]
        /\ q.state = s
        /\ q.kind = request[r].kind /\ q.opening = request[r].opening
        /\ q.typed = request[r].typed /\ q.rows = request[r].rows /\ q.again = request[r].again
  <2>1. CASE request' = [request EXCEPT ![r].state = s]
    <3>1. [request[r] EXCEPT !.state = s] \in RequestSet
      BY <1>1, <1>2, <1>0, SetsAreNamed, MovedStaysARequest
    <3> QED BY <2>1, <3>1, <1>1, <1>2, SetsAreNamed DEF RequestSet
  <2>2. CASE request' = [request EXCEPT ![r].state = s, ![r].recorded = b]
    <3>1. [request[r] EXCEPT !.state = s, !.recorded = b] \in RequestSet
      BY <1>1, <1>2, <1>0, SetsAreNamed, MovedStaysARequest
    <3> QED BY <2>2, <3>1, <1>1, <1>2, SetsAreNamed DEF RequestSet
  <2> QED BY <2>1, <2>2
<1>4. request' \in Seq(RequestOf) /\ Len(request') = Len(request)
  BY <1>1, <1>3, ExceptSeq
<1>5. \A i \in 1..Len(request) : request'[i] = IF i = r THEN q ELSE request[i]
  BY <1>1, <1>2, <1>3
<1> QED BY <1>1, <1>3, <1>4, <1>5 DEF OneMoved

-------------------------------------------------------------------------------
(* The type of the form, and the parts about the requests alone *)

LEMMA TypeSent ==
  ASSUME FormTypeOK, NEW q, OneMore(q), UNCHANGED <<dialog, opening>>,
         \/ form' = [form EXCEPT !.propose = Len(request')]
         \/ form' = [form EXCEPT !.confirm = Len(request')]
  PROVE  FormTypeOK'
<1>1. Len(request) \in Nat /\ Len(request') \in 0..MaxRequests
  BY LenProperties, FormAssumption DEF FormTypeOK, OneMore
<1>2. PICK n : n = Len(request')
  OBVIOUS
<1>3. form \in FormSet /\ n \in Numbers
  BY <1>1, <1>2, SetsAreNamed DEF FormTypeOK, Numbers
<1>4. /\ form' \in FormSet
      /\ form'.propose \in {n, form.propose} /\ form'.confirm \in {n, form.confirm}
  BY <1>2, <1>3 DEF FormSet
<1>5. form.propose <= n /\ form.confirm <= n
  <2>1. form.propose \in Nat /\ form.confirm \in Nat
    <3>1. form.propose \in Numbers /\ form.confirm \in Numbers
      BY <1>3 DEF FormSet
    <3> QED BY <3>1, FormAssumption DEF Numbers
  <2> QED BY <1>1, <1>2, <2>1 DEF FormTypeOK, OneMore
<1>6. form'.propose <= Len(request') /\ form'.confirm <= Len(request')
  BY <1>1, <1>2, <1>4, <1>5
<1> QED BY <1>4, <1>6, SetsAreNamed DEF FormTypeOK, OneMore

LEMMA TypeMoved ==
  ASSUME FormTypeOK, UNCHANGED opening, dialog' \in BOOLEAN, dialog' => dialog,
         NEW r, OneMoved(r) \/ UNCHANGED request,
         form' \in FormOf, form'.propose <= Len(request), form'.confirm <= Len(request)
  PROVE  FormTypeOK'
BY DEF FormTypeOK, OneMoved

\* Whatever is sent was built for what is typed, by a dialog that had sent nothing yet or says so.
LEMMA AfterSending ==
  ASSUME FormInv, NEW kind \in {"propose", "confirm"}, OneMore(Sent(kind)), dialog,
         UNCHANGED <<dialog, opening>>, form'.mayRepeat = form.mayRepeat,
         kind = "propose" => form'.confirm = form.confirm,
         kind = "confirm" => /\ form.built = form.typed /\ ~IsPending(form.confirm)
                             /\ form'.confirm = Len(request')
  PROVE  OfOpenings' /\ PaidAsProposed' /\ WaitsForItsOnly' /\ LaterOnesSaySo'
<1> DEFINE n == Len(request)
<1>1. n \in Nat /\ DOMAIN request = 1..n /\ DOMAIN request' = 1..(n + 1)
  BY LenProperties DEF FormInv, FormTypeOK, OneMore
<1>2. \A i \in 1..n : request'[i] = request[i]
  BY DEF OneMore
<1>3. /\ request'[n + 1].kind = kind /\ request'[n + 1].opening = opening
      /\ request'[n + 1].typed = form.typed /\ request'[n + 1].rows = form.built
      /\ request'[n + 1].state = "sent" /\ request'[n + 1].again = form.mayRepeat
  BY DEF OneMore, Sent
<1>4. opening \in Nat /\ Len(request') = n + 1
  BY DEF FormInv, FormTypeOK, OneMore
<1>5. \A r \in Confirmations' : (r \in Confirmations /\ r \in 1..n) \/ (r = n + 1 /\ kind = "confirm")
  BY <1>1, <1>2, <1>3 DEF Confirmations
<1>6. \A r \in Confirmations : r \in 1..n
  BY <1>1 DEF Confirmations
<1>7. kind = "confirm" => form.mayRepeat \/ \A r \in Confirmations : request[r].opening # opening
  BY DEF FormInv, WaitsForItsOnly
<1> HIDE DEF n
<1>8. OfOpenings'
  BY <1>1, <1>2, <1>3, <1>4 DEF FormInv, OfOpenings
<1>9. PaidAsProposed'
  BY <1>2, <1>3, <1>5 DEF FormInv, PaidAsProposed
<1>10. WaitsForItsOnly'
  <2> SUFFICES ASSUME ~form.mayRepeat, NEW r \in Confirmations', request'[r].opening = opening
               PROVE  r = form'.confirm /\ r # 0 /\ request'[r].state \in {"sent", "served"}
    BY <1>1, <1>5 DEF WaitsForItsOnly, IsPending
  <2>1. CASE kind = "confirm"
    <3>1. r = n + 1
      BY <2>1, <1>2, <1>5, <1>7
    <3> QED BY <2>1, <3>1, <1>1, <1>3, <1>4
  <2>2. CASE kind = "propose"
    <3>1. r \in Confirmations /\ r \in 1..n /\ request[r].opening = opening
      BY <2>2, <1>2, <1>5
    <3>2. r = form.confirm /\ IsPending(r)
      BY <3>1 DEF FormInv, WaitsForItsOnly
    <3> QED BY <2>2, <3>1, <3>2, <1>2 DEF IsPending
  <2> QED BY <2>1, <2>2
<1>11. LaterOnesSaySo'
  <2> SUFFICES ASSUME NEW r \in Confirmations', NEW s \in Confirmations',
                      r < s, request'[r].opening = request'[s].opening
               PROVE  request'[s].again
    BY DEF LaterOnesSaySo
  <2>1. CASE s \in 1..n
    <3>1. r \in 1..n /\ r \in Confirmations /\ s \in Confirmations
      BY <2>1, <1>1, <1>5
    <3> QED BY <2>1, <3>1, <1>2 DEF FormInv, LaterOnesSaySo
  <2>2. CASE s = n + 1 /\ kind = "confirm"
    <3>1. r \in 1..n /\ r \in Confirmations /\ request[r].opening = opening
      BY <2>2, <1>1, <1>2, <1>3, <1>5
    <3> QED BY <2>2, <3>1, <1>3, <1>7
  <2> QED BY <2>1, <2>2, <1>5
<1> QED BY <1>8, <1>9, <1>10, <1>11

\* An answer, a failure or an edit leaves what was asked, and what the dialog waits for.
LEMMA AfterMoving ==
  ASSUME FormInv, NEW r, OneMoved(r) \/ UNCHANGED request, UNCHANGED opening,
         dialog' /\ ~form'.mayRepeat =>
           /\ dialog /\ ~form.mayRepeat
           /\ \A q \in Confirmations :
                request[q].opening = opening => form'.confirm = q /\ request'[q].state \in {"sent", "served"}
  PROVE  OfOpenings' /\ PaidAsProposed' /\ WaitsForItsOnly' /\ LaterOnesSaySo'
<1>1. DOMAIN request' = DOMAIN request
  BY DEF FormInv, FormTypeOK, OneMoved
<1>2. \A i \in DOMAIN request :
        /\ request'[i].kind = request[i].kind /\ request'[i].opening = request[i].opening
        /\ request'[i].typed = request[i].typed /\ request'[i].rows = request[i].rows
        /\ request'[i].again = request[i].again
  BY DEF FormInv, FormTypeOK, OneMoved
<1>3. Confirmations' = Confirmations /\ \A q \in Confirmations : q \in DOMAIN request /\ q # 0
  BY <1>1, <1>2 DEF Confirmations, FormInv, FormTypeOK
<1>4. OfOpenings' /\ PaidAsProposed' /\ LaterOnesSaySo'
  BY <1>1, <1>2, <1>3 DEF FormInv, OfOpenings, PaidAsProposed, LaterOnesSaySo
<1>5. WaitsForItsOnly'
  BY <1>2, <1>3 DEF WaitsForItsOnly, IsPending
<1> QED BY <1>4, <1>5

-------------------------------------------------------------------------------
(* The steps *)

LEMMA Waits ==
  ASSUME FormInv, dialog, ~form.mayRepeat, NEW q \in Confirmations, request[q].opening = opening
  PROVE  q = form.confirm /\ q # 0 /\ request[q].state \in {"sent", "served"}
BY DEF FormInv, WaitsForItsOnly, IsPending

LEMMA FormStep == FormInv /\ [FormNext]_formVars => FormInv'
<1> SUFFICES ASSUME FormInv, [FormNext]_formVars PROVE FormInv'
  OBVIOUS
<1>0. FormTypeOK /\ form \in FormOf
  BY DEF FormInv, FormTypeOK
<1>1. CASE OpenDialog
  <2>1. /\ UNCHANGED request /\ dialog' = TRUE /\ opening' = opening + 1 /\ form' = Empty
        /\ opening < MaxOpenings
    BY <1>1 DEF OpenDialog
  <2>2. opening \in 0..MaxOpenings /\ Len(request) \in Nat
    BY <1>0, LenProperties DEF FormTypeOK
  <2>3. form' \in FormOf /\ form'.propose = 0 /\ form'.confirm = 0
    BY <2>1, NothingTyped DEF Empty
  <2>4. FormTypeOK'
    BY <1>0, <2>1, <2>2, <2>3, FormAssumption DEF FormTypeOK
  <2>5. \A q \in DOMAIN request : request[q].opening \in Nat /\ request[q].opening <= opening
    <3> SUFFICES ASSUME NEW q \in DOMAIN request
                 PROVE  request[q].opening \in Nat /\ request[q].opening <= opening
      OBVIOUS
    <3>1. request[q] \in RequestSet
      BY <1>0, SetsAreNamed DEF FormTypeOK
    <3>2. request[q].opening \in Openings
      BY <3>1 DEF RequestSet
    <3> QED BY <3>2, FormAssumption DEF FormInv, OfOpenings, Openings
  <2>6. OfOpenings' /\ WaitsForItsOnly'
    BY <2>1, <2>2, <2>5 DEF OfOpenings, WaitsForItsOnly, Confirmations
  <2>7. PaidAsProposed' /\ LaterOnesSaySo'
    BY <2>1 DEF FormInv, PaidAsProposed, LaterOnesSaySo, Confirmations
  <2> QED BY <2>4, <2>6, <2>7 DEF FormInv
<1>2. CASE Cancel
  <2>1. UNCHANGED <<opening, form, request>> /\ dialog' = FALSE
    BY <1>2 DEF Cancel
  <2>2. FormTypeOK'
    BY <1>0, <2>1 DEF FormTypeOK
  <2> QED BY <2>1, <2>2, AfterMoving DEF FormInv
<1>3. ASSUME NEW typed \in Typed, Edit(typed) PROVE FormInv'
  <2>1. UNCHANGED <<dialog, opening, request>> /\ dialog
    BY <1>3 DEF Edit
  <2>2. form' \in FormOf /\ form'.propose = 0 /\ form'.confirm = 0
        /\ form'.mayRepeat = (form.mayRepeat \/ IsPending(form.confirm))
    <3>1. IsPending(form.confirm) \in BOOLEAN
      BY DEF IsPending
    <3>2. PICK b : b = (form.mayRepeat \/ IsPending(form.confirm))
      OBVIOUS
    <3>3. form' = [form EXCEPT !.typed = typed, !.built = NotBuilt, !.settling = 0, !.propose = 0,
                               !.confirm = 0, !.mayRepeat = b]
      BY <1>3, <3>2 DEF Edit
    <3>4. form \in FormSet /\ 0 \in Ticks /\ 0 \in Numbers
      BY <1>0, SetsAreNamed, FormAssumption DEF Ticks, Numbers
    <3>5. b \in Flag
      BY <3>2 DEF Flag
    <3>6. form' \in FormSet /\ form'.propose = 0 /\ form'.confirm = 0 /\ form'.mayRepeat = b
      BY <3>3, <3>4, <3>5, NothingTyped DEF FormSet
    <3> QED BY <3>2, <3>6, SetsAreNamed
  <2>3. FormTypeOK'
    BY <1>0, <2>1, <2>2, LenProperties DEF FormTypeOK
  <2>4. ~form'.mayRepeat => ~form.mayRepeat /\ \A q \in Confirmations : request[q].opening # opening
    BY <2>1, <2>2, Waits DEF IsPending
  <2> QED BY <2>1, <2>3, <2>4, AfterMoving DEF FormInv
<1>4. CASE SubmitProposal
  <2>1. /\ UNCHANGED <<dialog, opening>> /\ dialog /\ Send("propose")
        /\ form' = [form EXCEPT !.propose = Len(request')]
    BY <1>4 DEF SubmitProposal
  <2>2. OneMore(Sent("propose"))
    BY <1>0, <2>1, SendIsOneMore
  <2>3. FormTypeOK'
    BY <1>0, <2>1, <2>2, TypeSent
  <2>4. form'.mayRepeat = form.mayRepeat /\ form'.confirm = form.confirm
    BY <1>0, <2>1 DEF FormOf
  <2> QED BY <2>1, <2>2, <2>3, <2>4, AfterSending DEF FormInv
<1>5. CASE SubmitConfirm
  <2>1. /\ UNCHANGED <<dialog, opening>> /\ dialog /\ Send("confirm")
        /\ form' = [form EXCEPT !.confirm = Len(request')]
        /\ form.built = form.typed /\ ~IsPending(form.confirm)
    BY <1>5 DEF SubmitConfirm, HasProposal
  <2>2. OneMore(Sent("confirm"))
    BY <1>0, <2>1, SendIsOneMore
  <2>3. FormTypeOK'
    BY <1>0, <2>1, <2>2, TypeSent
  <2>4. form'.mayRepeat = form.mayRepeat /\ form'.confirm = Len(request')
    BY <1>0, <2>1 DEF FormOf
  <2> QED BY <2>1, <2>2, <2>3, <2>4, AfterSending DEF FormInv
<1>6. CASE Tick
  <2>1. UNCHANGED <<dialog, opening, request>>
    BY <1>6 DEF Tick
  <2>2. /\ form' \in FormOf /\ form'.propose = form.propose /\ form'.confirm = form.confirm
        /\ form'.mayRepeat = form.mayRepeat
    <3>1. PICK n, a : /\ n = (IF form.settling > 0 THEN form.settling - 1 ELSE 0)
                      /\ a = (IF form.age < GuardMs THEN form.age + 1 ELSE form.age)
      OBVIOUS
    <3>2. form' = [form EXCEPT !.settling = n, !.age = a]
      BY <1>6, <3>1 DEF Tick
    <3>3. form \in FormSet /\ form.settling \in Ticks /\ form.age \in Ticks
      BY <1>0, SetsAreNamed DEF FormSet
    <3>4. n \in Ticks /\ a \in Ticks
      BY <3>1, <3>3, FormAssumption DEF Ticks
    <3> QED BY <3>2, <3>3, <3>4, SetsAreNamed DEF FormSet
  <2>3. FormTypeOK'
    BY <1>0, <2>1, <2>2 DEF FormTypeOK
  <2> QED BY <2>1, <2>2, <2>3, Waits, AfterMoving DEF FormInv
<1>7. ASSUME NEW r \in DOMAIN request, Serve(r) PROVE FormInv'
  <2>1. /\ UNCHANGED <<dialog, opening, form>>
        /\ request' = [request EXCEPT ![r].state = "served", ![r].recorded = request[r].kind = "confirm"]
    BY <1>7 DEF Serve
  <2>2. OneMoved(r) /\ request'[r].state = "served"
    BY <1>0, <2>1, StateIsOneMoved
  <2>3. FormTypeOK'
    BY <1>0, <2>1, <2>2, TypeMoved DEF FormTypeOK
  <2>4. \A q \in DOMAIN request : request'[q].state = IF q = r THEN "served" ELSE request[q].state
    BY <1>0, <2>2 DEF OneMoved, FormTypeOK
  <2> QED BY <2>1, <2>2, <2>3, <2>4, Waits, AfterMoving DEF FormInv, Confirmations
<1>8. ASSUME NEW r \in DOMAIN request, Proposed(r) PROVE FormInv'
  <2>1. /\ UNCHANGED <<dialog, opening>> /\ request[r].kind = "propose"
        /\ request' = [request EXCEPT ![r].state = "answered"]
    BY <1>8 DEF Proposed
  <2>2. OneMoved(r)
    BY <1>0, <2>1, StateIsOneMoved
  <2>3. request[r] \in RequestOf
    BY <1>0 DEF FormTypeOK
  <2>4. /\ form' \in FormOf /\ form'.propose = form.propose /\ form'.confirm = form.confirm
        /\ form'.mayRepeat = form.mayRepeat
    <3>1. form \in FormSet /\ request[r] \in RequestSet
      BY <1>0, <2>3, SetsAreNamed
    <3>2. PICK n : n = IF form.settling = 0 THEN GuardMs ELSE form.settling
      OBVIOUS
    <3>3. form' = form \/ form' = [form EXCEPT !.settling = n, !.built = request[r].typed, !.age = 0]
      BY <1>8, <3>2 DEF Proposed
    <3>4. 0 \in Ticks /\ n \in Ticks
      <4>1. form.settling \in Ticks
        BY <3>1 DEF FormSet
      <4> QED BY <4>1, <3>2, FormAssumption DEF Ticks
    <3>5. request[r].typed \in Typed
      BY <3>1 DEF RequestSet
    <3> QED BY <3>1, <3>3, <3>4, <3>5, SetsAreNamed DEF FormSet
  <2>5. FormTypeOK'
    BY <1>0, <2>1, <2>2, <2>4, TypeMoved DEF FormTypeOK
  <2>6. \A q \in Confirmations : q # r /\ request'[q] = request[q]
    BY <1>0, <2>1, <2>2 DEF OneMoved, Confirmations, FormTypeOK
  <2> QED BY <2>1, <2>2, <2>4, <2>5, <2>6, Waits, AfterMoving DEF FormInv
<1>9. ASSUME NEW r \in DOMAIN request, Recorded(r) PROVE FormInv'
  <2>1. /\ UNCHANGED <<opening, form>> /\ dialog' = FALSE
        /\ request' = [request EXCEPT ![r].state = "answered"]
    BY <1>9 DEF Recorded
  <2>2. OneMoved(r)
    BY <1>0, <2>1, StateIsOneMoved
  <2>3. FormTypeOK'
    BY <1>0, <2>1, <2>2, TypeMoved DEF FormTypeOK
  <2> QED BY <2>1, <2>2, <2>3, AfterMoving DEF FormInv
<1>10. ASSUME NEW r \in DOMAIN request, Fails(r) PROVE FormInv'
  <2>1. /\ UNCHANGED <<dialog, opening>>
        /\ request' = [request EXCEPT ![r].state = "failed"]
        /\ form' = IF Mounted(r) THEN [form EXCEPT !.mayRepeat = @ \/ request[r].kind = "confirm"] ELSE form
    BY <1>10 DEF Fails
  <2>2. OneMoved(r)
    BY <1>0, <2>1, StateIsOneMoved
  <2>3. /\ form' \in FormOf /\ form'.propose = form.propose /\ form'.confirm = form.confirm
        /\ form'.mayRepeat = (form.mayRepeat \/ (Mounted(r) /\ request[r].kind = "confirm"))
    <3>1. Mounted(r) \in BOOLEAN
      BY <1>0 DEF Mounted, FormTypeOK
    <3> QED BY <1>0, <2>1, <3>1 DEF FormOf
  <2>4. FormTypeOK'
    BY <1>0, <2>1, <2>2, <2>3, TypeMoved DEF FormTypeOK
  <2>5. \A q \in Confirmations : q # r => request'[q] = request[q]
    BY <1>0, <2>2 DEF OneMoved, Confirmations, FormTypeOK
  <2>6. dialog' /\ ~form'.mayRepeat =>
          \A q \in Confirmations : request[q].opening = opening => q # r
    BY <2>1, <2>3 DEF Mounted, Confirmations
  <2> QED BY <2>1, <2>2, <2>3, <2>4, <2>5, <2>6, Waits, AfterMoving DEF FormInv
<1>11. CASE UNCHANGED formVars
  BY <1>11 DEF formVars, FormInv, FormTypeOK, OfOpenings, PaidAsProposed, WaitsForItsOnly, LaterOnesSaySo,
               Confirmations, IsPending
<1> QED
  BY <1>1, <1>2, <1>3, <1>4, <1>5, <1>6, <1>7, <1>8, <1>9, <1>10, <1>11 DEF FormNext

\* Whatever is typed, lost and overtaken, the dialog confirms the allocation proposed for the
\* amount and the date on screen, and one opening of it records a second payment only after a
\* confirmation failed or was edited over.
THEOREM DialogPaysAsProposedOnce == FormSpec => []DialogPaysOnce
BY FormInvImplies, FormInitially, FormStep, PTL DEF FormSpec

-------------------------------------------------------------------------------
(***************************************************************************)
(* Pages read while the ledger changes (LedgerReads).                      *)
(***************************************************************************)

\* The sums of the instances are those of Sums.
LEMMA TotalIsSum == ASSUME NEW f PROVE L!Total(f) = SumFunctionOnSet(f, DOMAIN f)
BY DEF L!Total, L!SumFunction, L!SumFunctionOnSet, L!FoldFunctionOnSet, L!MapThenFoldSet,
       SumFunctionOnSet, FoldFunctionOnSet, MapThenFoldSet

ChargeRows  == [client : Client \cup {None}, cents : Nat, reason : Reason \cup {None}]
PaymentRows == [client : Client \cup {None}, cents : Nat]

LedgerTyped ==
  /\ charge \in [Charge -> ChargeRows] /\ allocated \in [Charge -> Nat]
  /\ payment \in [Payment -> PaymentRows] /\ drawn \in [Payment -> Nat]

\* What a charge, and what a payment, counts for in the sums of client k.
OwedBy(k, c)       == IF c \in L!OpenCharges(k) THEN L!Outstanding(c) ELSE 0
ReceivedFrom(k, p) == IF p \in L!PaymentsOf(k) THEN payment[p].cents ELSE 0
UnspentOf(k, p)    == IF p \in L!PaymentsOf(k) THEN payment[p].cents - drawn[p] ELSE 0

Received(k) == SumFunctionOnSet([p \in Payment |-> ReceivedFrom(k, p)], Payment)

LEMMA LedgerParts ==
  ASSUME LedgerTyped, NEW k
  PROVE  /\ \A c \in Charge : L!Outstanding(c) \in Int /\ OwedBy(k, c) \in Nat
         /\ \A p \in Payment : ReceivedFrom(k, p) \in Nat /\ UnspentOf(k, p) \in Int
         /\ L!OpenCharges(k) \in SUBSET Charge /\ L!PaymentsOf(k) \in SUBSET Payment
<1>1. \A c \in Charge : charge[c] \in ChargeRows /\ allocated[c] \in Nat
  BY DEF LedgerTyped
<1>2. \A p \in Payment : payment[p] \in PaymentRows /\ drawn[p] \in Nat
  BY DEF LedgerTyped
<1>3. \A c \in Charge : L!Outstanding(c) \in Int /\ (c \in L!OpenCharges(k) => L!Outstanding(c) > 0)
  BY <1>1 DEF L!Outstanding, L!OpenCharges, ChargeRows
<1>4. \A c \in Charge : OwedBy(k, c) \in Nat
  BY <1>3 DEF OwedBy
<1>5. \A p \in Payment : ReceivedFrom(k, p) \in Nat /\ UnspentOf(k, p) \in Int
  BY <1>2 DEF ReceivedFrom, UnspentOf, PaymentRows
<1>6. L!OpenCharges(k) \in SUBSET Charge /\ L!PaymentsOf(k) \in SUBSET Payment
  BY DEF L!OpenCharges, L!ChargesOf, L!PaymentsOf
<1> QED BY <1>3, <1>4, <1>5, <1>6

\* The figures as sums over every charge, and over every payment.
LEMMA FiguresAreSums ==
  LedgerTyped =>
    \A k : /\ L!Gross(k) = SumFunctionOnSet([c \in Charge |-> OwedBy(k, c)], Charge)
           /\ L!Credit(k) = SumFunctionOnSet([p \in Payment |-> UnspentOf(k, p)], Payment)
           /\ L!Gross(k) \in Nat /\ L!Credit(k) \in Int /\ Received(k) \in Nat /\ L!Credit(k) <= Received(k)
<1> SUFFICES ASSUME LedgerTyped, NEW k
             PROVE  /\ L!Gross(k) = SumFunctionOnSet([c \in Charge |-> OwedBy(k, c)], Charge)
                    /\ L!Credit(k) = SumFunctionOnSet([p \in Payment |-> UnspentOf(k, p)], Payment)
                    /\ L!Gross(k) \in Nat /\ L!Credit(k) \in Int /\ Received(k) \in Nat /\ L!Credit(k) <= Received(k)
  OBVIOUS
<1> DEFINE owed == [c \in Charge |-> OwedBy(k, c)]
           unspent == [p \in Payment |-> UnspentOf(k, p)]
           came == [p \in Payment |-> ReceivedFrom(k, p)]
           open == [c \in L!OpenCharges(k) |-> L!Outstanding(c)]
           rest == [p \in L!PaymentsOf(k) |-> payment[p].cents - drawn[p]]
<1>1. IsFiniteSet(Charge) /\ IsFiniteSet(Payment)
  BY LedgerAssumption
<1>2. L!Gross(k) = SumFunctionOnSet(open, L!OpenCharges(k)) /\ L!Credit(k) = SumFunctionOnSet(rest, L!PaymentsOf(k))
  BY TotalIsSum DEF L!Gross, L!Credit
<1>3. /\ \A c \in Charge : owed[c] = IF c \in L!OpenCharges(k) THEN open[c] ELSE 0
      /\ \A p \in Payment : unspent[p] = IF p \in L!PaymentsOf(k) THEN rest[p] ELSE 0
  BY DEF OwedBy, UnspentOf
<1>4. /\ \A c \in L!OpenCharges(k) : open[c] \in Int
      /\ \A p \in L!PaymentsOf(k) : rest[p] \in Int
  <2>1. \A p \in Payment : payment[p].cents \in Nat /\ drawn[p] \in Nat
    BY DEF LedgerTyped, PaymentRows
  <2> QED BY <2>1, LedgerParts
<1>5. /\ \A c \in Charge : owed[c] \in Nat
      /\ \A p \in Payment : unspent[p] \in Int /\ came[p] \in Nat /\ unspent[p] <= came[p]
  <2>1. \A p \in Payment : payment[p].cents \in Nat /\ drawn[p] \in Nat
    BY DEF LedgerTyped, PaymentRows
  <2>2. \A p \in Payment : UnspentOf(k, p) <= ReceivedFrom(k, p)
    BY <2>1 DEF UnspentOf, ReceivedFrom
  <2> QED BY <2>2, LedgerParts
<1>6. L!OpenCharges(k) \in SUBSET Charge /\ L!PaymentsOf(k) \in SUBSET Payment
  BY LedgerParts
<1> HIDE DEF owed, unspent, came, open, rest
<1>7. L!Gross(k) = SumFunctionOnSet(owed, Charge)
  BY <1>1, <1>2, <1>3, <1>4, <1>6, SumOfSome
<1>8. L!Credit(k) = SumFunctionOnSet(unspent, Payment)
  BY <1>1, <1>2, <1>3, <1>4, <1>6, SumOfSome
<1>9. SumFunctionOnSet(owed, Charge) \in Nat /\ SumFunctionOnSet(came, Payment) \in Nat
  BY <1>1, <1>5, SumIsNatural
<1>10. Summable(unspent, Payment) /\ Summable(came, Payment)
  BY <1>1, <1>5 DEF Summable
<1>11. SumFunctionOnSet(unspent, Payment) \in Int /\ SumFunctionOnSet(unspent, Payment) <= SumFunctionOnSet(came, Payment)
  BY <1>5, <1>10, SumIsInteger, SumIsMonotone
<1>12. Received(k) = SumFunctionOnSet(came, Payment)
  BY DEF Received, came
<1> QED BY <1>7, <1>8, <1>9, <1>11, <1>12 DEF owed, unspent

\* What is left to read of a page.
AllOfLedger == <<"credit", "charges", "payments", "allocated">>
ButCredit   == <<"charges", "payments", "allocated">>
LastTwo     == <<"payments", "allocated">>
LastOne     == <<"allocated">>
AllAtRisk   == <<"overdue", "open", "credit">>
OpenAndRest == <<"open", "credit">>
OnlyCredit  == <<"credit">>

LEMMA Orders ==
  /\ L!Reads["ledger"] = AllOfLedger /\ L!Reads["receivables"] = OpenAndRest /\ L!Reads["atRisk"] = AllAtRisk
  /\ DOMAIN L!Reads = {"ledger", "receivables", "atRisk"}
  /\ Head(AllOfLedger) = "credit" /\ Tail(AllOfLedger) = ButCredit
  /\ Head(ButCredit) = "charges" /\ Tail(ButCredit) = LastTwo
  /\ Head(LastTwo) = "payments" /\ Tail(LastTwo) = LastOne
  /\ Head(LastOne) = "allocated" /\ Tail(LastOne) = <<>>
  /\ Head(AllAtRisk) = "overdue" /\ Tail(AllAtRisk) = OpenAndRest
  /\ Head(OpenAndRest) = "open" /\ Tail(OpenAndRest) = OnlyCredit
  /\ Head(OnlyCredit) = "credit" /\ Tail(OnlyCredit) = <<>>
BY DEF L!Reads, AllOfLedger, ButCredit, LastTwo, LastOne, AllAtRisk, OpenAndRest, OnlyCredit

LEMMA OrdersDiffer ==
  /\ <<>> \notin {AllOfLedger, ButCredit, LastTwo, LastOne, AllAtRisk, OpenAndRest, OnlyCredit}
  /\ OnlyCredit \notin {AllOfLedger, ButCredit, LastTwo, LastOne, AllAtRisk, OpenAndRest}
  /\ AllOfLedger \notin {ButCredit, LastTwo, LastOne}
  /\ ButCredit \notin {LastTwo, LastOne, AllAtRisk, OpenAndRest} /\ LastTwo \notin {LastOne, AllAtRisk, OpenAndRest}
  /\ LastOne \notin {AllAtRisk, OpenAndRest}
<1>1. /\ Len(AllOfLedger) = 4 /\ Len(ButCredit) = 3 /\ Len(LastTwo) = 2 /\ Len(LastOne) = 1
      /\ Len(AllAtRisk) = 3 /\ Len(OpenAndRest) = 2 /\ Len(OnlyCredit) = 1 /\ Len(<<>>) = 0
  BY DEF AllOfLedger, ButCredit, LastTwo, LastOne, AllAtRisk, OpenAndRest, OnlyCredit
<1>2. <<>> \notin {AllOfLedger, ButCredit, LastTwo, LastOne, AllAtRisk, OpenAndRest, OnlyCredit}
  BY <1>1
<1>3. /\ OnlyCredit \notin {AllOfLedger, ButCredit, LastTwo, AllAtRisk, OpenAndRest}
      /\ AllOfLedger \notin {ButCredit, LastTwo, LastOne} /\ ButCredit \notin {LastTwo, LastOne, OpenAndRest}
      /\ LastTwo \notin {LastOne, AllAtRisk} /\ LastOne \notin {AllAtRisk, OpenAndRest}
  BY <1>1
<1>4. OnlyCredit # LastOne /\ ButCredit # AllAtRisk /\ LastTwo # OpenAndRest
  BY Orders
<1> QED BY <1>2, <1>3, <1>4

Fields == {"of", "client", "todo", "overdue", "credit", "charges", "payments", "allocated", "open", "issued",
           "net", "covered"}

Asked(of, lists) == page.of = of /\ page.client \in Client /\ page.todo \in lists

\* What a page that is being read may rely on: since it read the open charges they only shrank, but
\* for those issued, which it counts; the credit it read was money received; and the charges it
\* read still bill the client what they did.
PageInv ==
  /\ DOMAIN page = Fields /\ page.issued \in Nat
  /\ \/ page.of = "none" /\ page.todo = <<>>
     \/ Asked("ledger", {AllOfLedger, ButCredit, LastTwo, LastOne, <<>>})
     \/ Asked("receivables", {OpenAndRest, OnlyCredit, <<>>})
     \/ Asked("atRisk", {AllAtRisk, OpenAndRest, OnlyCredit, <<>>})
  /\ page.todo = OnlyCredit =>
       /\ L!Total(page.open) \in Int
       /\ \A k \in Client : k = page.client => L!Gross(k) <= L!Total(page.open) + page.issued
  /\ page.todo \in {ButCredit, LastTwo} =>
       /\ page.credit \in Int
       /\ \A k \in Client : k = page.client => page.credit <= Received(k)
  /\ page.todo \in {LastTwo, LastOne} =>
       \A c \in DOMAIN page.charges :
         /\ c \in Charge /\ charge[c].client = page.client
         /\ page.charges[c].cents = charge[c].cents
  /\ page.todo = LastOne => page.credit <= L!Total(page.payments)
  /\ L!NoDebtIsHidden /\ L!ForgivenEntryIsExact /\ L!CreditIsBacked

LEMMA NotedIs ==
  ASSUME DOMAIN page = Fields, NEW i, L!Noted(i)
  PROVE  /\ ~L!Complete /\ DOMAIN page' = Fields /\ page'.issued = page.issued + i
         /\ \A f \in Fields \ {"issued", "covered"} : page'[f] = page[f]
<1>1. ~L!Complete /\ \E yes : page' = [page EXCEPT !.issued = @ + i, !.covered = yes]
  BY DEF L!Noted
<1> QED BY <1>1 DEF Fields

\* A commit, while the page is read.
LEMMA CommitHolds ==
  ASSUME PageInv, NEW i \in Nat, L!Noted(i),
         \A c \in Charge : charge[c].client \in Client =>
            charge'[c].client = charge[c].client /\ charge'[c].cents = charge[c].cents,
         \A k \in Client : Received(k) \in Nat /\ Received(k)' \in Nat /\ Received(k) <= Received(k)',
         \A k \in Client : L!Gross(k) \in Nat /\ L!Gross(k)' \in Nat,
         \A k \in Client : k = page.client /\ page.todo = OnlyCredit => L!Gross(k)' <= L!Gross(k) + i
  PROVE  PageInv'
<1>1. ~L!Complete /\ DOMAIN page' = Fields /\ page'.issued = page.issued + i
  BY NotedIs DEF PageInv
<1>2. /\ page'.of = page.of /\ page'.client = page.client /\ page'.todo = page.todo
      /\ page'.open = page.open /\ page'.credit = page.credit /\ page'.charges = page.charges
      /\ page'.payments = page.payments
  <2>1. \A f \in {"of", "client", "todo", "open", "credit", "charges", "payments"} : page'[f] = page[f]
    BY NotedIs DEF PageInv, Fields
  <2> QED BY <2>1
<1>3. page'.issued \in Nat
  BY <1>1 DEF PageInv
<1>4. \/ page'.of = "none" /\ page'.todo = <<>>
      \/ Asked("ledger", {AllOfLedger, ButCredit, LastTwo, LastOne, <<>>})'
      \/ Asked("receivables", {OpenAndRest, OnlyCredit, <<>>})'
      \/ Asked("atRisk", {AllAtRisk, OpenAndRest, OnlyCredit, <<>>})'
  BY <1>2 DEF PageInv, Asked
<1>5. page.of = "none" \/ (page.todo # <<>> /\ page.client \in Client)
  BY <1>1 DEF PageInv, L!Complete, Asked
<1>6. L!NoDebtIsHidden' /\ L!ForgivenEntryIsExact' /\ L!CreditIsBacked'
  BY <1>2, <1>5 DEF L!NoDebtIsHidden, L!ForgivenEntryIsExact, L!CreditIsBacked, L!Shown
<1>7. ASSUME page'.todo = OnlyCredit
      PROVE  /\ L!Total(page'.open) \in Int
             /\ \A k \in Client : k = page'.client => L!Gross(k)' <= L!Total(page'.open) + page'.issued
  <2>1. L!Total(page.open) \in Int /\ page.issued \in Nat
    BY <1>2, <1>7 DEF PageInv
  <2>2. ASSUME NEW k \in Client, k = page.client PROVE L!Gross(k)' <= L!Total(page.open) + page'.issued
    <3>1. L!Gross(k) <= L!Total(page.open) + page.issued
      BY <1>2, <1>7, <2>2 DEF PageInv
    <3>2. L!Gross(k)' <= L!Gross(k) + i /\ L!Gross(k) \in Nat /\ L!Gross(k)' \in Nat
      BY <1>2, <1>7, <2>2
    <3> QED BY <1>1, <2>1, <3>1, <3>2
  <2> QED BY <1>2, <2>1, <2>2
<1>8. ASSUME page'.todo \in {ButCredit, LastTwo}
      PROVE  /\ page'.credit \in Int
             /\ \A k \in Client : k = page'.client => page'.credit <= Received(k)'
  <2>1. page.credit \in Int /\ \A k \in Client : k = page.client => page.credit <= Received(k)
    BY <1>2, <1>8 DEF PageInv
  <2> QED BY <1>2, <2>1
<1>9. ASSUME page'.todo \in {LastTwo, LastOne}
      PROVE  \A c \in DOMAIN page'.charges :
               /\ c \in Charge /\ charge'[c].client = page'.client
               /\ page'.charges[c].cents = charge'[c].cents
  <2>1. page.client \in Client
    BY <1>2, <1>5, <1>9, OrdersDiffer DEF PageInv, Asked
  <2> QED BY <1>2, <1>9, <2>1 DEF PageInv
<1>10. page'.todo = LastOne => page'.credit <= L!Total(page'.payments)
  BY <1>2 DEF PageInv
<1> QED BY <1>1, <1>3, <1>4, <1>6, <1>7, <1>8, <1>9, <1>10 DEF PageInv

\* What the figures follow when single charges and payments move, before and after a step.
Figures ==
  \A k : /\ L!Gross(k) = SumFunctionOnSet([c \in Charge |-> OwedBy(k, c)], Charge)
         /\ L!Gross(k) \in Nat /\ Received(k) \in Nat
         /\ \A c \in Charge : OwedBy(k, c) \in Nat
         /\ \A p \in Payment : ReceivedFrom(k, p) \in Nat

LEMMA FiguresNow == LedgerTyped => Figures
<1>1. LedgerTyped => \A k : /\ \A c \in Charge : OwedBy(k, c) \in Nat
                           /\ \A p \in Payment : ReceivedFrom(k, p) \in Nat
  BY LedgerParts
<1> QED BY <1>1, FiguresAreSums DEF Figures

LEMMA FiguresThen == LedgerTyped' => Figures'
BY FiguresNow, PTL

LEMMA FiguresBothTimes ==
  ASSUME LedgerTyped, LedgerTyped', NEW k
  PROVE  /\ L!Gross(k) = SumFunctionOnSet([c \in Charge |-> OwedBy(k, c)], Charge)
         /\ L!Gross(k)' = SumFunctionOnSet([c \in Charge |-> OwedBy(k, c)'], Charge)
         /\ Summable([c \in Charge |-> OwedBy(k, c)], Charge)
         /\ Summable([c \in Charge |-> OwedBy(k, c)'], Charge)
         /\ Received(k) = SumFunctionOnSet([p \in Payment |-> ReceivedFrom(k, p)], Payment)
         /\ Received(k)' = SumFunctionOnSet([p \in Payment |-> ReceivedFrom(k, p)'], Payment)
         /\ Summable([p \in Payment |-> ReceivedFrom(k, p)], Payment)
         /\ Summable([p \in Payment |-> ReceivedFrom(k, p)'], Payment)
         /\ L!Gross(k) \in Nat /\ L!Gross(k)' \in Nat /\ Received(k) \in Nat /\ Received(k)' \in Nat
<1>1. /\ L!Gross(k) = SumFunctionOnSet([c \in Charge |-> OwedBy(k, c)], Charge)
      /\ L!Gross(k) \in Nat /\ Received(k) \in Nat
  BY FiguresAreSums
<1>3. /\ L!Gross(k)' = SumFunctionOnSet([c \in Charge |-> OwedBy(k, c)'], Charge)
      /\ L!Gross(k)' \in Nat /\ Received(k)' \in Nat
      /\ \A c \in Charge : OwedBy(k, c)' \in Nat
      /\ \A p \in Payment : ReceivedFrom(k, p)' \in Nat
  BY FiguresThen DEF Figures
<1>4. /\ \A c \in Charge : OwedBy(k, c) \in Nat
      /\ \A p \in Payment : ReceivedFrom(k, p) \in Nat
  BY LedgerParts
<1>5. /\ Summable([c \in Charge |-> OwedBy(k, c)], Charge)
      /\ Summable([c \in Charge |-> OwedBy(k, c)'], Charge)
      /\ Summable([p \in Payment |-> ReceivedFrom(k, p)], Payment)
      /\ Summable([p \in Payment |-> ReceivedFrom(k, p)'], Payment)
  BY <1>3, <1>4, LedgerAssumption DEF Summable
<1>6. Received(k)' = SumFunctionOnSet([p \in Payment |-> ReceivedFrom(k, p)'], Payment)
  BY DEF Received
<1> QED BY <1>1, <1>3, <1>5, <1>6 DEF Received

LEMMA FewerOwed ==
  ASSUME LedgerTyped, LedgerTyped', NEW k, \A c \in Charge : OwedBy(k, c)' <= OwedBy(k, c)
  PROVE  L!Gross(k)' <= L!Gross(k)
<1> DEFINE f == [c \in Charge |-> OwedBy(k, c)']
           e == [c \in Charge |-> OwedBy(k, c)]
<1>1. \A c \in Charge : f[c] <= e[c]
  OBVIOUS
<1>2. /\ L!Gross(k) = SumFunctionOnSet(e, Charge) /\ L!Gross(k)' = SumFunctionOnSet(f, Charge)
      /\ Summable(f, Charge) /\ Summable(e, Charge)
  BY FiguresBothTimes
<1> HIDE DEF f, e
<1> QED BY <1>1, <1>2, SumIsMonotone

LEMMA OneMoreOwed ==
  ASSUME LedgerTyped, LedgerTyped', NEW k, NEW d \in Charge, NEW n \in Nat,
         OwedBy(k, d) = 0, OwedBy(k, d)' <= n,
         \A c \in Charge \ {d} : OwedBy(k, c)' = OwedBy(k, c)
  PROVE  L!Gross(k)' <= L!Gross(k) + n
<1> DEFINE f == [c \in Charge |-> OwedBy(k, c)]
           e == [c \in Charge |-> OwedBy(k, c)']
<1>1. (\A c \in Charge \ {d} : f[c] = e[c]) /\ f[d] = 0 /\ e[d] <= n
  OBVIOUS
<1>2. /\ L!Gross(k) = SumFunctionOnSet(f, Charge) /\ L!Gross(k)' = SumFunctionOnSet(e, Charge)
      /\ Summable(f, Charge) /\ Summable(e, Charge) /\ L!Gross(k) \in Nat /\ L!Gross(k)' \in Nat
  BY FiguresBothTimes
<1> HIDE DEF f, e
<1>3. SumFunctionOnSet(e, Charge) = SumFunctionOnSet(f, Charge) + (e[d] - f[d])
  BY <1>1, <1>2, SumChanges
<1>4. e[d] \in Int
  BY <1>2 DEF Summable
<1> QED BY <1>1, <1>2, <1>3, <1>4

LEMMA MoreReceived ==
  ASSUME LedgerTyped, LedgerTyped', NEW k, \A p \in Payment : ReceivedFrom(k, p) <= ReceivedFrom(k, p)'
  PROVE  Received(k) <= Received(k)'
<1> DEFINE f == [p \in Payment |-> ReceivedFrom(k, p)]
           e == [p \in Payment |-> ReceivedFrom(k, p)']
<1>1. \A p \in Payment : f[p] <= e[p]
  OBVIOUS
<1>2. /\ Received(k) = SumFunctionOnSet(f, Payment) /\ Received(k)' = SumFunctionOnSet(e, Payment)
      /\ Summable(f, Payment) /\ Summable(e, Payment)
  BY FiguresBothTimes
<1> HIDE DEF f, e
<1> QED BY <1>1, <1>2, SumIsMonotone

\* What every commit is to a page: what it may lose, and what it may count on.
LEMMA CommitOf ==
  ASSUME LedgerTyped, LedgerTyped', PageInv, NEW i \in Nat, L!Noted(i),
         \A c \in Charge : charge[c].client \in Client =>
            charge'[c].client = charge[c].client /\ charge'[c].cents = charge[c].cents,
         \A k \in Client, p \in Payment : ReceivedFrom(k, p) <= ReceivedFrom(k, p)',
         \A k \in Client : k = page.client /\ page.todo = OnlyCredit => L!Gross(k)' <= L!Gross(k) + i
  PROVE  PageInv'
<1>1. \A k \in Client : Received(k) <= Received(k)'
  BY MoreReceived
<1>2. \A k \in Client : /\ Received(k) \in Nat /\ Received(k)' \in Nat
                        /\ L!Gross(k) \in Nat /\ L!Gross(k)' \in Nat
  BY FiguresBothTimes
<1> QED BY <1>1, <1>2, CommitHolds

LEMMA IssueHolds ==
  ASSUME LedgerTyped, PageInv, NEW d \in Charge, NEW j \in Client, NEW n \in Amount, L!IssueCharge(d, j, n)
  PROVE  LedgerTyped' /\ PageInv'
<1> DEFINE i == IF d \in Due /\ j = page.client /\ page.todo = OnlyCredit THEN n ELSE 0
<1>1. /\ charge[d] = L!NoCharge /\ charge' = [charge EXCEPT ![d] = [client |-> j, cents |-> n, reason |-> None]]
      /\ UNCHANGED <<payment, allocated, drawn>> /\ L!Noted(i)
  BY DEF L!IssueCharge, L!Owe, OnlyCredit
<1>2. n \in Nat /\ i \in Nat /\ None \notin Client
  BY LedgerAssumption
<1>3. /\ charge'[d] = [client |-> j, cents |-> n, reason |-> None] /\ charge'[d] \in ChargeRows
      /\ \A c \in Charge \ {d} : charge'[c] = charge[c]
      /\ charge[d].client = None /\ charge' \in [Charge -> ChargeRows]
  BY <1>1, <1>2 DEF LedgerTyped, ChargeRows, L!NoCharge
<1>4. LedgerTyped'
  BY <1>1, <1>3 DEF LedgerTyped
<1>5. \A c \in Charge : charge[c].client \in Client =>
            charge'[c].client = charge[c].client /\ charge'[c].cents = charge[c].cents
  BY <1>2, <1>3
<1>6. \A k \in Client, p \in Payment : ReceivedFrom(k, p) <= ReceivedFrom(k, p)'
  <2>1. \A k \in Client, p \in Payment : ReceivedFrom(k, p)' = ReceivedFrom(k, p)
    BY <1>1 DEF ReceivedFrom, L!PaymentsOf
  <2>2. \A k \in Client, p \in Payment : ReceivedFrom(k, p) \in Nat
    BY LedgerParts
  <2> QED BY <2>1, <2>2
<1>7. ASSUME NEW k \in Client, k = page.client, page.todo = OnlyCredit PROVE L!Gross(k)' <= L!Gross(k) + i
  <2>1. \A c \in Charge \ {d} : OwedBy(k, c)' = OwedBy(k, c)
    BY <1>1, <1>3 DEF OwedBy, L!OpenCharges, L!ChargesOf, L!Outstanding
  <2>2. OwedBy(k, d) = 0
    BY <1>2, <1>3 DEF OwedBy, L!OpenCharges, L!ChargesOf
  <2>3. OwedBy(k, d)' <= i
    <3>1. allocated'[d] \in Nat /\ charge'[d].client = j /\ charge'[d].cents = n
      BY <1>1, <1>3 DEF LedgerTyped
    <3>2. CASE d \in Due /\ j = k
      <4>1. i = n
        BY <1>7, <3>2
      <4> HIDE DEF i
      <4> QED BY <1>2, <3>1, <4>1 DEF OwedBy, L!OpenCharges, L!ChargesOf, L!Outstanding
    <3>3. CASE ~(d \in Due /\ j = k)
      <4>1. OwedBy(k, d)' = 0
        BY <3>1, <3>3 DEF OwedBy, L!OpenCharges, L!ChargesOf
      <4> QED BY <1>2, <4>1
    <3> QED BY <3>2, <3>3
  <2> HIDE DEF i
  <2> QED BY <1>2, <1>4, <2>1, <2>2, <2>3, OneMoreOwed
<1> HIDE DEF i
<1> QED BY <1>1, <1>2, <1>4, <1>5, <1>6, <1>7, CommitOf

LEMMA WriteOffHolds ==
  ASSUME LedgerTyped, PageInv, NEW d \in Charge, NEW why \in Reason, L!WriteOff(d, why)
  PROVE  LedgerTyped' /\ PageInv'
<1>1. /\ charge' = [charge EXCEPT ![d].reason = why]
      /\ UNCHANGED <<payment, allocated, drawn>> /\ L!Noted(0)
  BY DEF L!WriteOff, L!Forgive
<1>2. why # None
  BY LedgerAssumption
<1>3. /\ charge'[d] = [charge[d] EXCEPT !.reason = why] /\ \A c \in Charge \ {d} : charge'[c] = charge[c]
      /\ charge[d] \in ChargeRows /\ DOMAIN charge' = Charge
  BY <1>1 DEF LedgerTyped
<1>4. /\ charge'[d] \in ChargeRows /\ charge'[d].reason = why
      /\ charge'[d].client = charge[d].client /\ charge'[d].cents = charge[d].cents
  BY <1>3 DEF ChargeRows
<1>5. charge' \in [Charge -> ChargeRows]
  BY <1>1, <1>3, <1>4 DEF LedgerTyped
<1>6. LedgerTyped'
  BY <1>1, <1>5 DEF LedgerTyped
<1>7. \A c \in Charge : charge[c].client \in Client =>
            charge'[c].client = charge[c].client /\ charge'[c].cents = charge[c].cents
  BY <1>3, <1>4
<1>8. \A k \in Client, p \in Payment : ReceivedFrom(k, p) <= ReceivedFrom(k, p)'
  <2>1. \A k \in Client, p \in Payment : ReceivedFrom(k, p)' = ReceivedFrom(k, p)
    BY <1>1 DEF ReceivedFrom, L!PaymentsOf
  <2>2. \A k \in Client, p \in Payment : ReceivedFrom(k, p) \in Nat
    BY LedgerParts
  <2> QED BY <2>1, <2>2
<1>9. ASSUME NEW k \in Client PROVE L!Gross(k)' <= L!Gross(k) + 0
  <2>1. \A c \in Charge \ {d} : OwedBy(k, c)' = OwedBy(k, c)
    BY <1>1, <1>3 DEF OwedBy, L!OpenCharges, L!ChargesOf, L!Outstanding
  <2>2. OwedBy(k, d)' = 0
    BY <1>2, <1>4 DEF OwedBy, L!OpenCharges
  <2>3. \A c \in Charge : OwedBy(k, c)' <= OwedBy(k, c)
    <3>1. \A c \in Charge : OwedBy(k, c) \in Nat
      BY LedgerParts
    <3> QED BY <2>1, <2>2, <3>1
  <2>4. L!Gross(k)' <= L!Gross(k) /\ L!Gross(k) \in Nat
    BY <1>6, <2>3, FewerOwed, FiguresBothTimes
  <2> QED BY <2>4
<1>10. 0 \in Nat
  OBVIOUS
<1> QED BY <1>1, <1>6, <1>7, <1>8, <1>9, <1>10, CommitOf

\* What a body takes from a payment, and puts on a charge, are cents.
LEMMA GiftSums ==
  ASSUME NEW body \in L!Gifts
  PROVE  (\A c \in Charge : L!Onto(body, c) \in Nat) /\ (\A p \in Payment : L!From(body, p) \in Nat)
<1>1. \A p \in Payment, c \in Charge : body[p][c] \in {0} \cup Amount
  BY DEF L!Gifts
<1>2. \A p \in Payment, c \in Charge : body[p][c] \in Nat
  <2>1. {0} \cup Amount \subseteq Nat
    BY LedgerAssumption
  <2> QED BY <1>1, <2>1
<1>3. \A f, S : L!SumFunctionOnSet(f, S) = SumFunctionOnSet(f, S)
  BY DEF L!SumFunctionOnSet, L!FoldFunctionOnSet, L!MapThenFoldSet,
         SumFunctionOnSet, FoldFunctionOnSet, MapThenFoldSet
<1>4. ASSUME NEW c \in Charge PROVE L!Onto(body, c) \in Nat
  <2> DEFINE f == [p \in Payment |-> body[p][c]]
  <2>1. \A p \in Payment : f[p] \in Nat
    BY <1>2
  <2>2. L!Onto(body, c) = SumFunctionOnSet(f, Payment)
    BY <1>3 DEF L!Onto
  <2> HIDE DEF f
  <2> QED BY <2>1, <2>2, LedgerAssumption, SumIsNatural
<1>5. ASSUME NEW p \in Payment PROVE L!From(body, p) \in Nat
  <2>1. \A c \in Charge : body[p][c] \in Nat
    BY <1>2
  <2>2. L!From(body, p) = SumFunctionOnSet(body[p], Charge)
    BY <1>3 DEF L!From
  <2> QED BY <2>1, <2>2, LedgerAssumption, SumIsNatural
<1> QED BY <1>4, <1>5

\* Money that settles debts, of payments old or new.
LEMMA SettleHolds ==
  ASSUME LedgerTyped, PageInv, NEW j \in Client, NEW body \in L!Gifts, L!Settle(j, body), L!Noted(0),
         payment' \in [Payment -> PaymentRows],
         \A p \in Payment : payment[p].client \in Client => payment'[p] = payment[p]
  PROVE  LedgerTyped' /\ PageInv'
<1>0. /\ charge' = charge
      /\ allocated' = [c \in Charge |-> allocated[c] + L!Onto(body, c)]
      /\ drawn' = [p \in Payment |-> drawn[p] + L!From(body, p)]
  BY DEF L!Settle
<1>1. charge' = charge /\ \A c \in Charge : allocated'[c] \in Nat /\ allocated'[c] >= allocated[c]
  <2>1. ASSUME NEW c \in Charge PROVE allocated'[c] \in Nat /\ allocated'[c] >= allocated[c]
    <3>1. allocated[c] \in Nat /\ L!Onto(body, c) \in Nat /\ allocated'[c] = allocated[c] + L!Onto(body, c)
      BY <1>0, GiftSums DEF LedgerTyped
    <3> QED BY <3>1
  <2> QED BY <1>0, <2>1
<1>2. LedgerTyped'
  <2>1. allocated' \in [Charge -> Nat]
    BY <1>0, <1>1
  <2>2. ASSUME NEW p \in Payment PROVE drawn[p] + L!From(body, p) \in Nat
    <3>1. drawn[p] \in Nat /\ L!From(body, p) \in Nat
      BY GiftSums DEF LedgerTyped
    <3> QED BY <3>1
  <2>3. drawn' \in [Payment -> Nat]
    BY <1>0, <2>2
  <2> QED BY <1>0, <2>1, <2>3 DEF LedgerTyped
<1>3. \A c \in Charge : charge[c].client \in Client =>
            charge'[c].client = charge[c].client /\ charge'[c].cents = charge[c].cents
  BY <1>1
<1>4. ASSUME NEW k \in Client, NEW p \in Payment PROVE ReceivedFrom(k, p) <= ReceivedFrom(k, p)'
  <2>1. payment[p].cents \in Nat /\ payment'[p].cents \in Nat
    <3>1. payment[p] \in PaymentRows /\ payment'[p] \in PaymentRows
      BY DEF LedgerTyped
    <3> QED BY <3>1 DEF PaymentRows
  <2>2. CASE payment[p].client = k
    <3>1. payment'[p] = payment[p]
      BY <2>2
    <3>2. ReceivedFrom(k, p)' = ReceivedFrom(k, p) /\ ReceivedFrom(k, p) \in Nat
      BY <2>1, <3>1 DEF ReceivedFrom, L!PaymentsOf
    <3> QED BY <3>2
  <2>3. CASE payment[p].client # k
    <3>1. ReceivedFrom(k, p) = 0 /\ ReceivedFrom(k, p)' \in Nat
      BY <2>1, <2>3 DEF ReceivedFrom, L!PaymentsOf
    <3> QED BY <3>1
  <2> QED BY <2>2, <2>3
<1>5. ASSUME NEW k \in Client PROVE L!Gross(k)' <= L!Gross(k) + 0
  <2>1. ASSUME NEW c \in Charge PROVE OwedBy(k, c)' <= OwedBy(k, c)
    <3>1. charge[c].cents \in Nat /\ allocated[c] \in Nat /\ allocated'[c] \in Nat
      BY <1>1 DEF LedgerTyped, ChargeRows
    <3>2. L!Outstanding(c)' <= L!Outstanding(c) /\ L!Outstanding(c) \in Int /\ L!Outstanding(c)' \in Int
      BY <1>1, <3>1 DEF L!Outstanding
    <3>3. (c \in L!OpenCharges(k))' => c \in L!OpenCharges(k)
      BY <1>1, <3>2 DEF L!OpenCharges, L!ChargesOf
    <3>4. OwedBy(k, c) \in Nat
      BY LedgerParts
    <3>5. CASE (c \in L!OpenCharges(k))'
      <4>1. OwedBy(k, c)' = L!Outstanding(c)' /\ OwedBy(k, c) = L!Outstanding(c)
        BY <3>3, <3>5 DEF OwedBy
      <4> QED BY <3>2, <4>1
    <3>6. CASE ~(c \in L!OpenCharges(k))'
      <4>1. OwedBy(k, c)' = 0
        BY <3>6 DEF OwedBy
      <4> QED BY <3>4, <4>1
    <3> QED BY <3>5, <3>6
  <2>2. L!Gross(k)' <= L!Gross(k) /\ L!Gross(k) \in Nat
    BY <1>2, <2>1, FewerOwed, FiguresBothTimes
  <2> QED BY <2>2
<1>6. 0 \in Nat
  OBVIOUS
<1> QED BY <1>2, <1>3, <1>4, <1>5, <1>6, CommitOf

LEMMA RecordHolds ==
  ASSUME LedgerTyped, PageInv, NEW q \in Payment, NEW j \in Client, NEW n \in Amount, L!RecordPayment(q, j, n)
  PROVE  LedgerTyped' /\ PageInv'
<1>1. PICK body \in L!Gifts : L!Settle(j, body)
  BY DEF L!RecordPayment
<1>3. /\ payment[q] = L!NoPayment /\ payment' = [payment EXCEPT ![q] = [client |-> j, cents |-> n]]
      /\ L!Noted(0)
  BY DEF L!RecordPayment, L!Receive
<1>4. n \in Nat /\ None \notin Client
  BY LedgerAssumption
<1>5. payment' \in [Payment -> PaymentRows]
  <2>1. [client |-> j, cents |-> n] \in PaymentRows
    BY <1>4 DEF PaymentRows
  <2> QED BY <1>3, <2>1 DEF LedgerTyped
<1>6. \A p \in Payment : payment[p].client \in Client => payment'[p] = payment[p]
  BY <1>3, <1>4 DEF LedgerTyped, L!NoPayment
<1> QED BY <1>1, <1>3, <1>5, <1>6, SettleHolds

LEMMA ApplyHolds ==
  ASSUME LedgerTyped, PageInv, NEW j \in Client, L!ApplyCredit(j)
  PROVE  LedgerTyped' /\ PageInv'
<1>1. PICK body \in L!Gifts : L!Settle(j, body)
  BY DEF L!ApplyCredit
<1>2. payment' = payment /\ L!Noted(0)
  BY DEF L!ApplyCredit
<1> QED BY <1>1, <1>2, SettleHolds DEF LedgerTyped

LEMMA WorkHolds ==
  ASSUME LedgerTyped, PageInv, L!WorkChanges PROVE LedgerTyped' /\ PageInv'
BY DEF L!WorkChanges, L!vars, LedgerTyped, PageInv, Asked, Received, ReceivedFrom, L!PaymentsOf, L!Gross,
       L!OpenCharges, L!ChargesOf, L!Outstanding, L!NoDebtIsHidden, L!ForgivenEntryIsExact, L!CreditIsBacked,
       L!Shown, L!Seen, L!ForgivenCents

(***************************************************************************)
(* The page's own statements.                                              *)
(***************************************************************************)
LEMMA AskHolds ==
  ASSUME LedgerTyped, PageInv, NEW of \in DOMAIN L!Reads, NEW j \in Client, L!Ask(of, j)
  PROVE  LedgerTyped' /\ PageInv'
<1>1. UNCHANGED <<charge, payment, allocated, drawn>>
  BY DEF L!Ask, L!vars
<1>2. \E yes : page' = [L!Blank EXCEPT !.of = of, !.client = j, !.todo = L!Reads[of], !.covered = yes]
  BY DEF L!Ask
<1>3. /\ DOMAIN page' = Fields /\ page'.of = of /\ page'.client = j /\ page'.todo = L!Reads[of]
      /\ page'.issued = 0
  BY <1>2 DEF L!Blank, Fields
<1>4. page'.todo \in {AllOfLedger, OpenAndRest, AllAtRisk} /\ page'.todo # <<>>
  BY <1>3, Orders, OrdersDiffer
<1>5. \/ Asked("ledger", {AllOfLedger, ButCredit, LastTwo, LastOne, <<>>})'
      \/ Asked("receivables", {OpenAndRest, OnlyCredit, <<>>})'
      \/ Asked("atRisk", {AllAtRisk, OpenAndRest, OnlyCredit, <<>>})'
  BY <1>3, Orders DEF Asked
<1>6. page'.todo # OnlyCredit /\ page'.todo \notin {ButCredit, LastTwo, LastOne}
  BY <1>4, OrdersDiffer
<1>7. L!NoDebtIsHidden' /\ L!ForgivenEntryIsExact' /\ L!CreditIsBacked'
  BY <1>4 DEF L!NoDebtIsHidden, L!ForgivenEntryIsExact, L!CreditIsBacked, L!Shown
<1>8. LedgerTyped'
  BY <1>1 DEF LedgerTyped
<1> QED BY <1>3, <1>5, <1>6, <1>7, <1>8 DEF PageInv

\* A statement answers one field, and leaves the others.
LEMMA ReadIs ==
  ASSUME PageInv, L!Read, NEW what \in {"overdue", "open", "credit", "charges", "payments", "allocated"},
         Head(page.todo) = what
  PROVE  /\ DOMAIN page' = Fields /\ page'[what] = L!Found(what, page.client)
         /\ page'.todo = IF what = "overdue" /\ ~overdue THEN <<>> ELSE Tail(page.todo)
         /\ page'.net = L!OnPaper(L!Gross(page.client), L!Credit(page.client))
         /\ \A f \in Fields \ {what, "todo", "net"} : page'[f] = page[f]
         /\ UNCHANGED <<charge, payment, allocated, drawn>>
<1> DEFINE rest == IF what = "overdue" /\ ~overdue THEN <<>> ELSE Tail(page.todo)
           found == L!Found(what, page.client)
           left == L!OnPaper(L!Gross(page.client), L!Credit(page.client))
<1>1. page' = [page EXCEPT ![what] = found, !.todo = rest, !.net = left]
  BY DEF L!Read
<1>2. DOMAIN page = Fields /\ what \in Fields /\ what # "todo" /\ what # "net"
  BY DEF PageInv, Fields
<1>3. UNCHANGED <<charge, payment, allocated, drawn>>
  BY DEF L!Read, L!vars
<1> HIDE DEF rest, found, left
<1>4. DOMAIN page' = Fields /\ page'[what] = found /\ page'["todo"] = rest /\ page'["net"] = left
  BY <1>1, <1>2 DEF Fields
<1>5. \A f \in Fields \ {what, "todo", "net"} : page'[f] = page[f]
  BY <1>1, <1>2
<1> QED BY <1>3, <1>4, <1>5 DEF rest, found, left

\* What the lists still to read leave to be shown.
LEMMA ReadCases ==
  ASSUME PageInv, L!Read
  PROVE  /\ page.client \in Client
         /\ \/ page.of = "ledger" /\ page.todo \in {AllOfLedger, ButCredit, LastTwo, LastOne}
            \/ page.of \in {"receivables", "atRisk"} /\ page.todo \in {OpenAndRest, OnlyCredit}
            \/ page.of = "atRisk" /\ page.todo = AllAtRisk
<1>1. page.todo # <<>>
  BY DEF L!Read
<1> QED BY <1>1 DEF PageInv, Asked

\* The credit, first on a ledger.
LEMMA LedgerCredit ==
  ASSUME LedgerTyped, PageInv, L!Read, page.of = "ledger", page.todo = AllOfLedger
  PROVE  LedgerTyped' /\ PageInv'
<1>1. Head(page.todo) = "credit" /\ Tail(page.todo) = ButCredit
  BY Orders
<1>2. /\ DOMAIN page' = Fields /\ page'["credit"] = L!Found("credit", page.client) /\ page'.todo = ButCredit
      /\ \A f \in Fields \ {"credit", "todo", "net"} : page'[f] = page[f]
      /\ UNCHANGED <<charge, payment, allocated, drawn>>
  BY <1>1, ReadIs
<1>3. page'.of = "ledger" /\ page'.client = page.client /\ page'.issued \in Nat /\ page.client \in Client
  <2>1. page'["of"] = page["of"] /\ page'["client"] = page["client"] /\ page'["issued"] = page["issued"]
    BY <1>2 DEF Fields
  <2> QED BY <2>1, ReadCases DEF PageInv
<1>4. page'.credit = L!Credit(page.client)
  BY <1>2 DEF L!Found
<1>5. \A k \in Client : k = page'.client => page'.credit \in Int /\ page'.credit <= Received(k)'
  <2>1. \A k \in Client : Received(k)' = Received(k)
    BY <1>2 DEF Received, ReceivedFrom, L!PaymentsOf
  <2> QED BY <1>3, <1>4, <2>1, FiguresAreSums
<1>6. LedgerTyped'
  BY <1>2 DEF LedgerTyped
<1>7. L!NoDebtIsHidden' /\ L!ForgivenEntryIsExact' /\ L!CreditIsBacked'
  BY <1>2, OrdersDiffer DEF L!NoDebtIsHidden, L!ForgivenEntryIsExact, L!CreditIsBacked, L!Shown
<1>8. Asked("ledger", {AllOfLedger, ButCredit, LastTwo, LastOne, <<>>})'
  BY <1>2, <1>3 DEF Asked
<1> QED BY <1>2, <1>3, <1>5, <1>6, <1>7, <1>8, OrdersDiffer DEF PageInv

LEMMA LedgerCharges ==
  ASSUME LedgerTyped, PageInv, L!Read, page.of = "ledger", page.todo = ButCredit
  PROVE  LedgerTyped' /\ PageInv'
<1>1. Head(page.todo) = "charges" /\ Tail(page.todo) = LastTwo
  BY Orders
<1>2. /\ DOMAIN page' = Fields /\ page'["charges"] = L!Found("charges", page.client) /\ page'.todo = LastTwo
      /\ \A f \in Fields \ {"charges", "todo", "net"} : page'[f] = page[f]
      /\ UNCHANGED <<charge, payment, allocated, drawn>>
  BY <1>1, ReadIs
<1>3. /\ page'.of = "ledger" /\ page'.client = page.client /\ page'.issued \in Nat /\ page.client \in Client
      /\ page'.credit = page.credit
  <2>1. /\ page'["of"] = page["of"] /\ page'["client"] = page["client"] /\ page'["issued"] = page["issued"]
        /\ page'["credit"] = page["credit"]
    BY <1>2 DEF Fields
  <2> QED BY <2>1, ReadCases DEF PageInv
<1>4. page'.charges = [c \in L!ChargesOf(page.client) |-> charge[c]]
  BY <1>2 DEF L!Found
<1>5. /\ page'.credit \in Int
      /\ \A k \in Client : k = page'.client => page'.credit <= Received(k)'
  <2>1. \A k \in Client : Received(k)' = Received(k)
    BY <1>2 DEF Received, ReceivedFrom, L!PaymentsOf
  <2> QED BY <1>3, <2>1 DEF PageInv
<1>6. LedgerTyped'
  BY <1>2 DEF LedgerTyped
<1>7. L!NoDebtIsHidden' /\ L!ForgivenEntryIsExact' /\ L!CreditIsBacked'
  BY <1>2, OrdersDiffer DEF L!NoDebtIsHidden, L!ForgivenEntryIsExact, L!CreditIsBacked, L!Shown
<1>8. Asked("ledger", {AllOfLedger, ButCredit, LastTwo, LastOne, <<>>})'
  BY <1>2, <1>3 DEF Asked
<1>9. \A c \in DOMAIN page'.charges :
        c \in Charge /\ charge'[c].client = page'.client /\ page'.charges[c].cents = charge'[c].cents
  BY <1>2, <1>3, <1>4 DEF L!ChargesOf
<1> QED BY <1>2, <1>3, <1>5, <1>6, <1>7, <1>8, <1>9, OrdersDiffer DEF PageInv

LEMMA LedgerPayments ==
  ASSUME LedgerTyped, PageInv, L!Read, page.of = "ledger", page.todo = LastTwo
  PROVE  LedgerTyped' /\ PageInv'
<1>1. Head(page.todo) = "payments" /\ Tail(page.todo) = LastOne
  BY Orders
<1>2. /\ DOMAIN page' = Fields /\ page'["payments"] = L!Found("payments", page.client) /\ page'.todo = LastOne
      /\ \A f \in Fields \ {"payments", "todo", "net"} : page'[f] = page[f]
      /\ UNCHANGED <<charge, payment, allocated, drawn>>
  BY <1>1, ReadIs
<1>3. /\ page'.of = "ledger" /\ page'.client = page.client /\ page'.issued \in Nat /\ page.client \in Client
      /\ page'.credit = page.credit /\ page'.charges = page.charges
  <2>1. /\ page'["of"] = page["of"] /\ page'["client"] = page["client"] /\ page'["issued"] = page["issued"]
        /\ page'["credit"] = page["credit"] /\ page'["charges"] = page["charges"]
    BY <1>2 DEF Fields
  <2> QED BY <2>1, ReadCases DEF PageInv
<1>4. page'.credit <= L!Total(page'.payments)
  <2> DEFINE k == page.client
             listed == [p \in L!PaymentsOf(k) |-> payment[p].cents]
             came == [p \in Payment |-> ReceivedFrom(k, p)]
  <2>1. page'.payments = listed /\ DOMAIN listed = L!PaymentsOf(k)
    BY <1>2 DEF L!Found
  <2>2. L!PaymentsOf(k) \in SUBSET Payment /\ \A p \in Payment : payment[p].cents \in Int
    BY DEF L!PaymentsOf, LedgerTyped, PaymentRows
  <2>3. /\ \A p \in L!PaymentsOf(k) : listed[p] \in Int
        /\ \A p \in Payment : came[p] = IF p \in L!PaymentsOf(k) THEN listed[p] ELSE 0
    BY <2>2 DEF ReceivedFrom
  <2>4. Received(k) = SumFunctionOnSet(came, Payment)
    BY DEF Received
  <2> HIDE DEF listed, came
  <2>5. SumFunctionOnSet(listed, L!PaymentsOf(k)) = SumFunctionOnSet(came, Payment)
    BY <2>2, <2>3, LedgerAssumption, SumOfSome
  <2>6. L!Total(listed) = Received(k)
    BY <2>1, <2>4, <2>5, TotalIsSum
  <2>7. page.credit <= Received(k)
    BY <1>3 DEF PageInv
  <2> QED BY <1>3, <2>1, <2>6, <2>7
<1>6. LedgerTyped'
  BY <1>2 DEF LedgerTyped
<1>7. L!NoDebtIsHidden' /\ L!ForgivenEntryIsExact' /\ L!CreditIsBacked'
  BY <1>2, OrdersDiffer DEF L!NoDebtIsHidden, L!ForgivenEntryIsExact, L!CreditIsBacked, L!Shown
<1>8. Asked("ledger", {AllOfLedger, ButCredit, LastTwo, LastOne, <<>>})'
  BY <1>2, <1>3 DEF Asked
<1>9. \A c \in DOMAIN page'.charges :
        c \in Charge /\ charge'[c].client = page'.client /\ page'.charges[c].cents = charge'[c].cents
  BY <1>2, <1>3 DEF PageInv
<1> QED BY <1>2, <1>3, <1>4, <1>6, <1>7, <1>8, <1>9, OrdersDiffer DEF PageInv

\* The allocations come last: what they say was open is what is.
LEMMA LedgerAllocated ==
  ASSUME LedgerTyped, PageInv, L!Read, page.of = "ledger", page.todo = LastOne
  PROVE  LedgerTyped' /\ PageInv'
<1>1. Head(page.todo) = "allocated" /\ Tail(page.todo) = <<>>
  BY Orders
<1>2. /\ DOMAIN page' = Fields /\ page'["allocated"] = L!Found("allocated", page.client) /\ page'.todo = <<>>
      /\ \A f \in Fields \ {"allocated", "todo", "net"} : page'[f] = page[f]
      /\ UNCHANGED <<charge, payment, allocated, drawn>>
  BY <1>1, ReadIs
<1>3. /\ page'.of = "ledger" /\ page'.client = page.client /\ page'.issued \in Nat /\ page.client \in Client
      /\ page'.credit = page.credit /\ page'.charges = page.charges /\ page'.payments = page.payments
  <2>1. /\ page'["of"] = page["of"] /\ page'["client"] = page["client"] /\ page'["issued"] = page["issued"]
        /\ page'["credit"] = page["credit"] /\ page'["charges"] = page["charges"]
        /\ page'["payments"] = page["payments"]
    BY <1>2 DEF Fields
  <2> QED BY <2>1, ReadCases DEF PageInv
<1>4. page'.allocated = [c \in L!ChargesOf(page.client) |-> allocated[c]]
  BY <1>2 DEF L!Found
<1>5. \A c \in DOMAIN page'.charges : L!ForgivenCents(c)' = L!Outstanding(c)'
  <2> SUFFICES ASSUME NEW c \in DOMAIN page.charges PROVE L!ForgivenCents(c)' = L!Outstanding(c)'
    BY <1>3
  <2>1. c \in L!ChargesOf(page.client) /\ page.charges[c].cents = charge[c].cents
    BY DEF PageInv, L!ChargesOf
  <2>2. c \in DOMAIN page'.allocated /\ page'.allocated[c] = allocated[c]
    BY <1>4, <2>1
  <2> QED BY <1>2, <1>3, <2>1, <2>2 DEF L!ForgivenCents, L!Outstanding
<1>6. LedgerTyped'
  BY <1>2 DEF LedgerTyped
<1>7. L!NoDebtIsHidden' /\ L!ForgivenEntryIsExact'
  BY <1>3, <1>5 DEF L!NoDebtIsHidden, L!ForgivenEntryIsExact, L!Shown
<1>8. L!CreditIsBacked'
  BY <1>3 DEF L!CreditIsBacked, PageInv
<1>9. Asked("ledger", {AllOfLedger, ButCredit, LastTwo, LastOne, <<>>})'
  BY <1>2, <1>3 DEF Asked
<1> QED BY <1>2, <1>3, <1>6, <1>7, <1>8, <1>9, OrdersDiffer DEF PageInv

LEMMA ListOverdue ==
  ASSUME LedgerTyped, PageInv, L!Read, page.of = "atRisk", page.todo = AllAtRisk
  PROVE  LedgerTyped' /\ PageInv'
<1>1. Head(page.todo) = "overdue" /\ Tail(page.todo) = OpenAndRest
  BY Orders
<1>2. /\ DOMAIN page' = Fields /\ page'["overdue"] = overdue
      /\ page'.todo = IF ~overdue THEN <<>> ELSE OpenAndRest
      /\ \A f \in Fields \ {"overdue", "todo", "net"} : page'[f] = page[f]
      /\ UNCHANGED <<charge, payment, allocated, drawn>>
  BY <1>1, ReadIs DEF L!Found
<1>3. page'.of = "atRisk" /\ page'.client = page.client /\ page'.issued \in Nat /\ page.client \in Client
  <2>1. page'["of"] = page["of"] /\ page'["client"] = page["client"] /\ page'["issued"] = page["issued"]
    BY <1>2 DEF Fields
  <2> QED BY <2>1, ReadCases DEF PageInv
<1>4. LedgerTyped'
  BY <1>2 DEF LedgerTyped
<1>5. page'.todo \in {<<>>, OpenAndRest} /\ (page'.todo = <<>> => ~page'.overdue)
  BY <1>2, OrdersDiffer
<1>6. L!NoDebtIsHidden' /\ L!ForgivenEntryIsExact' /\ L!CreditIsBacked'
  BY <1>3, <1>5 DEF L!NoDebtIsHidden, L!ForgivenEntryIsExact, L!CreditIsBacked, L!Shown
<1>7. Asked("atRisk", {AllAtRisk, OpenAndRest, OnlyCredit, <<>>})'
  BY <1>3, <1>5 DEF Asked
<1> QED BY <1>2, <1>3, <1>4, <1>5, <1>6, <1>7, OrdersDiffer DEF PageInv

LEMMA ListOpen ==
  ASSUME LedgerTyped, PageInv, L!Read, page.of \in {"receivables", "atRisk"}, page.todo = OpenAndRest
  PROVE  LedgerTyped' /\ PageInv'
<1>1. Head(page.todo) = "open" /\ Tail(page.todo) = OnlyCredit
  BY Orders
<1>2. /\ DOMAIN page' = Fields /\ page'["open"] = L!Found("open", page.client) /\ page'.todo = OnlyCredit
      /\ \A f \in Fields \ {"open", "todo", "net"} : page'[f] = page[f]
      /\ UNCHANGED <<charge, payment, allocated, drawn>>
  BY <1>1, ReadIs
<1>3. page'.of = page.of /\ page'.client = page.client /\ page'.issued \in Nat /\ page.client \in Client
  <2>1. page'["of"] = page["of"] /\ page'["client"] = page["client"] /\ page'["issued"] = page["issued"]
    BY <1>2 DEF Fields
  <2> QED BY <2>1, ReadCases DEF PageInv
<1>4. L!Total(page'.open) = L!Gross(page.client)
  BY <1>2 DEF L!Found, L!Gross
<1>5. \A k \in Client : L!Gross(k)' = L!Gross(k) /\ L!Gross(k) \in Nat
  BY <1>2, FiguresAreSums DEF L!Gross, L!OpenCharges, L!ChargesOf, L!Outstanding
<1>6. /\ L!Total(page'.open) \in Int
      /\ \A k \in Client : k = page'.client => L!Gross(k)' <= L!Total(page'.open) + page'.issued
  BY <1>3, <1>4, <1>5
<1>7. LedgerTyped'
  BY <1>2 DEF LedgerTyped
<1>8. L!NoDebtIsHidden' /\ L!ForgivenEntryIsExact' /\ L!CreditIsBacked'
  BY <1>2, OrdersDiffer DEF L!NoDebtIsHidden, L!ForgivenEntryIsExact, L!CreditIsBacked, L!Shown
<1>9. \/ Asked("receivables", {OpenAndRest, OnlyCredit, <<>>})'
      \/ Asked("atRisk", {AllAtRisk, OpenAndRest, OnlyCredit, <<>>})'
  BY <1>2, <1>3 DEF Asked
<1> QED BY <1>2, <1>3, <1>6, <1>7, <1>8, <1>9, OrdersDiffer DEF PageInv

\* More debt never leaves less on paper.
LEMMA PaperIsMonotone ==
  ASSUME NEW gross \in Int, NEW known \in Int, NEW more \in Nat, NEW credit \in Int, gross <= known + more
  PROVE  L!OnPaper(gross, credit) <= L!OnPaper(known, credit) + more
BY DEF L!OnPaper

LEMMA ListCredit ==
  ASSUME LedgerTyped, PageInv, L!Read, page.of \in {"receivables", "atRisk"}, page.todo = OnlyCredit
  PROVE  LedgerTyped' /\ PageInv'
<1>1. Head(page.todo) = "credit" /\ Tail(page.todo) = <<>>
  BY Orders
<1>2. /\ DOMAIN page' = Fields /\ page'["credit"] = L!Found("credit", page.client) /\ page'.todo = <<>>
      /\ page'.net = L!OnPaper(L!Gross(page.client), L!Credit(page.client))
      /\ \A f \in Fields \ {"credit", "todo", "net"} : page'[f] = page[f]
      /\ UNCHANGED <<charge, payment, allocated, drawn>>
  BY <1>1, ReadIs
<1>3. /\ page'.of = page.of /\ page'.client = page.client /\ page'.issued = page.issued /\ page.client \in Client
      /\ page'.open = page.open /\ page.issued \in Nat
  <2>1. /\ page'["of"] = page["of"] /\ page'["client"] = page["client"] /\ page'["issued"] = page["issued"]
        /\ page'["open"] = page["open"]
    BY <1>2 DEF Fields
  <2> QED BY <2>1, ReadCases DEF PageInv
<1>4. page'.credit = L!Credit(page.client)
  BY <1>2 DEF L!Found
<1>5. page'.net <= L!OnPaper(L!Total(page'.open), page'.credit) + page'.issued
  <2>1. L!Gross(page.client) \in Int /\ L!Credit(page.client) \in Int
    <3>1. \A k : L!Gross(k) \in Nat /\ L!Credit(k) \in Int
      BY FiguresAreSums
    <3> QED BY <3>1
  <2>2. L!Total(page.open) \in Int /\ L!Gross(page.client) <= L!Total(page.open) + page.issued
    BY <1>3 DEF PageInv
  <2> QED BY <1>2, <1>3, <1>4, <2>1, <2>2, PaperIsMonotone
<1>6. LedgerTyped'
  BY <1>2 DEF LedgerTyped
<1>7. L!NoDebtIsHidden' /\ L!ForgivenEntryIsExact' /\ L!CreditIsBacked'
  BY <1>3, <1>5 DEF L!NoDebtIsHidden, L!Seen, L!ForgivenEntryIsExact, L!CreditIsBacked, L!Shown
<1>8. \/ Asked("receivables", {OpenAndRest, OnlyCredit, <<>>})'
      \/ Asked("atRisk", {AllAtRisk, OpenAndRest, OnlyCredit, <<>>})'
  BY <1>2, <1>3 DEF Asked
<1> QED BY <1>2, <1>3, <1>6, <1>7, <1>8, OrdersDiffer DEF PageInv

PagesInv == LedgerTyped /\ PageInv

LEMMA PagesInitially == L!LedgerReadsInit => PagesInv
<1> SUFFICES ASSUME L!LedgerReadsInit PROVE PagesInv
  OBVIOUS
<1>1. LedgerTyped
  BY DEF L!LedgerReadsInit, L!Init, LedgerTyped, ChargeRows, PaymentRows, L!NoCharge, L!NoPayment
<1>2. page.of = "none" /\ page.todo = <<>> /\ DOMAIN page = Fields /\ page.issued = 0
  BY DEF L!LedgerReadsInit, L!Blank, Fields
<1>3. PageInv
  BY <1>2, OrdersDiffer DEF PageInv, L!NoDebtIsHidden, L!ForgivenEntryIsExact, L!CreditIsBacked, L!Shown
<1> QED BY <1>1, <1>3 DEF PagesInv

LEMMA PagesStep == PagesInv /\ [L!LedgerReadsNext]_(L!readVars) => PagesInv'
<1> SUFFICES ASSUME LedgerTyped, PageInv, [L!LedgerReadsNext]_(L!readVars) PROVE LedgerTyped' /\ PageInv'
  BY DEF PagesInv
<1>1. CASE L!Read
  BY <1>1, ReadCases, LedgerCredit, LedgerCharges, LedgerPayments, LedgerAllocated, ListOverdue, ListOpen, ListCredit
<1>2. CASE UNCHANGED L!readVars
  BY <1>2 DEF L!readVars, L!vars, LedgerTyped, PageInv, Asked, Received, ReceivedFrom, L!PaymentsOf, L!Gross,
              L!OpenCharges, L!ChargesOf, L!Outstanding, L!NoDebtIsHidden, L!ForgivenEntryIsExact,
              L!CreditIsBacked, L!Shown, L!Seen, L!ForgivenCents
<1>3. CASE L!LedgerReadsNext /\ ~L!Read
  BY <1>3, IssueHolds, WriteOffHolds, RecordHolds, ApplyHolds, WorkHolds, AskHolds DEF L!LedgerReadsNext
<1> QED BY <1>1, <1>2, <1>3

\* The receivables list and the at-risk report never understate a debt, whatever commits between
\* their statements, but for what is issued meanwhile.
THEOREM PagesHideNoDebt == L!LedgerReadsSpec => []NoDebtIsHidden
<1>1. PagesInv => NoDebtIsHidden
  BY DEF PagesInv, PageInv, NoDebtIsHidden
<1> QED BY <1>1, PagesInitially, PagesStep, PTL DEF L!LedgerReadsSpec

\* The client's ledger cancels of a forgiven charge what was open, and shows no credit but that of
\* payments it lists, though its four statements are read apart.
THEOREM PagesAreExact == L!LedgerReadsSpec => []LedgerPageIsExact
<1>1. PagesInv => LedgerPageIsExact
  BY DEF PagesInv, PageInv, LedgerPageIsExact
<1> QED BY <1>1, PagesInitially, PagesStep, PTL DEF L!LedgerReadsSpec

-------------------------------------------------------------------------------
(***************************************************************************)
(* The position at the close of a past day (PeriodSummary).                *)
(***************************************************************************)

LEMMA SumIsSum == ASSUME NEW f PROVE P!Sum(f) = SumFunctionOnSet(f, DOMAIN f)
BY DEF P!Sum, P!SumFunction, P!SumFunctionOnSet, P!FoldFunctionOnSet, P!MapThenFoldSet,
       SumFunctionOnSet, FoldFunctionOnSet, MapThenFoldSet

Days      == 0..LastDay
DaysAfter == 1..(LastDay + 1)
ChargeDays == [cents : Nat, issuedOn : Days, writtenOffAt : DaysAfter, made : Days]

ClosingTyped ==
  /\ now \in P!Date
  /\ issued \in [Charge -> ChargeDays]
  /\ allocation \in [Payment \X Charge \X P!Date -> Nat]
  /\ checked \in [Charge -> Nat]
  /\ forgiven \in [Charge -> [on : DaysAfter, cents : Int]]
  /\ stood \in [P!Date -> [Charge -> Int]]

\* Nothing happened on a day that is still to come; a charge is forgiven for the first time after
\* it was made and no later than its row says, and nothing is applied to it from then on.
DatesInOrder ==
  /\ \A c \in Charge :
       /\ issued[c].made <= now
       /\ issued[c].writtenOffAt = P!Always \/ issued[c].writtenOffAt <= now
       /\ ~P!Issued(c) => issued[c] = P!NoCharge /\ checked[c] = 0
       /\ P!Issued(c) => issued[c].made # 0
       /\ IF issued[c].writtenOffAt = P!Always THEN forgiven[c].on = P!Always
          ELSE /\ issued[c].made <= forgiven[c].on /\ forgiven[c].on <= issued[c].writtenOffAt
               /\ forgiven[c].cents = P!Outstanding(c)
  /\ \A r \in Payment \X Charge \X P!Date :
       allocation[r] # 0 => P!Issued(r[2]) /\ r[3] <= now /\ r[3] <= forgiven[r[2]].on

NothingOverpaid == \A c \in Charge : P!AllocatedTo(c) <= issued[c].cents

\* What a charge adds to the summary of a day.
AtClose(c, to) ==
  IF c \in P!IssuedAndOpen(to)
  THEN IF issued[c].cents > P!Settled(c, to) THEN issued[c].cents - P!Settled(c, to) ELSE 0
  ELSE 0

ClosedDaysStand == \A to \in 1..(now - 1), c \in Charge : AtClose(c, to) = P!AsItStood(c, to)

LEMMA DaysAreFinite == IsFiniteSet(P!Date) /\ \A to \in P!Date : to \in Nat
<1>1. 1 \in Int /\ LastDay \in Int
  BY LedgerAssumption
<1> QED BY <1>1, FS_Interval DEF P!Date

LEMMA TriplesAreFinite ==
  ASSUME NEW A, NEW B, NEW C, IsFiniteSet(A), IsFiniteSet(B), IsFiniteSet(C)
  PROVE  IsFiniteSet(A \X B \X C)
<1> DEFINE S == (A \X B) \X C
           f == [s \in S |-> <<s[1][1], s[1][2], s[2]>>]
           Image == {f[s] : s \in S}
<1>1. IsFiniteSet(S)
  <2>1. IsFiniteSet(A \X B)
    BY FS_Product
  <2> QED BY <2>1, FS_Product
<1>2. A \X B \X C \subseteq Image
  <2> SUFFICES ASSUME NEW a \in A, NEW b \in B, NEW c \in C PROVE <<a, b, c>> \in Image
    OBVIOUS
  <2>1. <<<<a, b>>, c>> \in S /\ f[<<<<a, b>>, c>>] = <<a, b, c>>
    OBVIOUS
  <2> QED BY <2>1
<1>3. IsFiniteSet(Image)
  <2>1. f \in Surjection(S, Image)
    BY DEF Surjection
  <2> HIDE DEF S, f, Image
  <2> QED BY <1>1, <2>1, FS_Surjection
<1> HIDE DEF Image
<1> QED BY <1>2, <1>3, FS_Subset

\* The rows that put money on a charge, and those of them a day's summary counts.
RowsOf(c) == Payment \X {c} \X P!Date
RowsUntil(c, to) == {r \in RowsOf(c) : r[3] <= to}

LEMMA RowsAre ==
  ASSUME NEW c \in Charge
  PROVE  /\ IsFiniteSet(RowsOf(c)) /\ RowsOf(c) \subseteq Payment \X Charge \X P!Date
         /\ \A r \in RowsOf(c) : r[2] = c /\ r[3] \in Nat
         /\ \A to : IsFiniteSet(RowsUntil(c, to)) /\ RowsUntil(c, to) \in SUBSET RowsOf(c)
<1>1. IsFiniteSet(RowsOf(c))
  <2>1. IsFiniteSet({c}) /\ IsFiniteSet(Payment) /\ IsFiniteSet(P!Date)
    BY FS_Singleton, DaysAreFinite, LedgerAssumption
  <2> QED BY <2>1, TriplesAreFinite DEF RowsOf
<1>2. RowsOf(c) \subseteq Payment \X Charge \X P!Date /\ \A r \in RowsOf(c) : r[2] = c
  BY DEF RowsOf
<1>3. \A r \in RowsOf(c) : r[3] \in Nat
  BY DaysAreFinite DEF RowsOf
<1>4. \A to : RowsUntil(c, to) \in SUBSET RowsOf(c)
  BY DEF RowsUntil
<1> QED BY <1>1, <1>2, <1>3, <1>4, FS_Subset

SettledIsSum ==
  \A c \in Charge :
    /\ P!AllocatedTo(c) = SumFunctionOnSet(allocation, RowsOf(c))
    /\ \A to : P!Settled(c, to) = SumFunctionOnSet(allocation, RowsUntil(c, to)) /\ P!Settled(c, to) \in Nat
    /\ Summable(allocation, RowsOf(c)) /\ P!AllocatedTo(c) \in Nat

LEMMA SettledNow == ClosingTyped => SettledIsSum
<1> SUFFICES ASSUME ClosingTyped, NEW c \in Charge
             PROVE  /\ P!AllocatedTo(c) = SumFunctionOnSet(allocation, RowsOf(c))
                    /\ \A to : /\ P!Settled(c, to) = SumFunctionOnSet(allocation, RowsUntil(c, to))
                              /\ P!Settled(c, to) \in Nat
                    /\ Summable(allocation, RowsOf(c)) /\ P!AllocatedTo(c) \in Nat
  BY DEF SettledIsSum
<1>1. \A r \in RowsOf(c) : allocation[r] \in Nat
  BY RowsAre DEF ClosingTyped
<1>2. ASSUME NEW S \in SUBSET RowsOf(c), IsFiniteSet(S)
      PROVE  /\ P!Sum([r \in S |-> allocation[r]]) = SumFunctionOnSet(allocation, S)
             /\ SumFunctionOnSet(allocation, S) \in Nat
  <2> DEFINE f == [r \in S |-> allocation[r]]
  <2>1. (\A r \in S : f[r] = allocation[r] /\ allocation[r] \in Nat) /\ DOMAIN f = S
    BY <1>1
  <2> HIDE DEF f
  <2>2. P!Sum(f) = SumFunctionOnSet(allocation, S) /\ SumFunctionOnSet(allocation, S) \in Nat
    BY <1>2, <2>1, SumIsSum, SumOfSame, SumIsNatural
  <2> QED BY <2>2 DEF f
<1>3. P!AllocatedTo(c) = SumFunctionOnSet(allocation, RowsOf(c)) /\ P!AllocatedTo(c) \in Nat
  <2>1. P!AllocatedTo(c) = P!Sum([r \in RowsOf(c) |-> allocation[r]])
    BY DEF P!AllocatedTo, RowsOf
  <2>2. RowsOf(c) \in SUBSET RowsOf(c) /\ IsFiniteSet(RowsOf(c))
    BY RowsAre
  <2> QED BY <1>2, <2>1, <2>2
<1>4. ASSUME NEW to
      PROVE  P!Settled(c, to) = SumFunctionOnSet(allocation, RowsUntil(c, to)) /\ P!Settled(c, to) \in Nat
  <2>1. P!Settled(c, to) = P!Sum([r \in RowsUntil(c, to) |-> allocation[r]])
    BY DEF P!Settled, RowsUntil, RowsOf
  <2>2. RowsUntil(c, to) \in SUBSET RowsOf(c) /\ IsFiniteSet(RowsUntil(c, to))
    BY RowsAre
  <2> QED BY <1>2, <2>1, <2>2
<1>5. Summable(allocation, RowsOf(c))
  BY <1>1, RowsAre DEF Summable
<1> QED BY <1>3, <1>4, <1>5

LEMMA SettledThen == ClosingTyped' => SettledIsSum'
BY SettledNow, PTL

\* Nothing is settled of a charge before it is issued.
LEMMA UnissuedIsUnsettled ==
  ASSUME ClosingTyped, DatesInOrder, NEW c \in Charge, ~P!Issued(c)
  PROVE  P!AllocatedTo(c) = 0 /\ \A to : P!Settled(c, to) = 0
<1>1. \A r \in RowsOf(c) : allocation[r] = 0
  BY RowsAre DEF DatesInOrder
<1>2. \A to : \A r \in RowsUntil(c, to) : allocation[r] = 0
  BY <1>1, RowsAre
<1>3. SumFunctionOnSet(allocation, RowsOf(c)) = 0
  BY <1>1, RowsAre, SumOfZeros
<1>4. \A to : SumFunctionOnSet(allocation, RowsUntil(c, to)) = 0
  BY <1>2, RowsAre, SumOfZeros
<1> QED BY <1>3, <1>4, SettledNow DEF SettledIsSum

\* By the end of a day everything settled was settled, and of a forgiven charge by the end of the
\* day it was forgiven.
LEMMA SettledInTime ==
  ASSUME ClosingTyped, DatesInOrder, NEW c \in Charge, NEW to \in Nat, to = now \/ forgiven[c].on <= to
  PROVE  P!Settled(c, to) = P!AllocatedTo(c)
<1>1. \A r \in RowsOf(c) \ RowsUntil(c, to) : allocation[r] = 0
  <2> SUFFICES ASSUME NEW r \in RowsOf(c), ~(r[3] <= to) PROVE allocation[r] = 0
    BY DEF RowsUntil
  <2>1. r \in Payment \X Charge \X P!Date /\ r[2] = c /\ r[3] \in Nat
    BY RowsAre
  <2>2. forgiven[c].on \in Nat
    BY LedgerAssumption DEF ClosingTyped, DaysAfter
  <2> QED BY <2>1, <2>2 DEF DatesInOrder
<1>2. SumFunctionOnSet(allocation, RowsOf(c)) = SumFunctionOnSet(allocation, RowsUntil(c, to))
  <2>1. RowsUntil(c, to) \in SUBSET RowsOf(c) /\ Summable(allocation, RowsOf(c))
    BY RowsAre, SettledNow DEF SettledIsSum
  <2> QED BY <1>1, <2>1, SumOfTheRest
<1> QED BY <1>2, SettledNow DEF SettledIsSum

\* The summary is a sum over all charges.
LEMMA SummaryIsSum ==
  ASSUME ClosingTyped, NEW to
  PROVE  P!OutstandingAtCloseCents(to) = SumFunctionOnSet([c \in Charge |-> AtClose(c, to)], Charge)
<1>1. \A c \in Charge : issued[c].cents \in Nat /\ P!Settled(c, to) \in Nat
  <2>1. \A c \in Charge : issued[c].cents \in Nat
    BY DEF ClosingTyped, ChargeDays
  <2> QED BY <2>1, SettledNow DEF SettledIsSum
<1> DEFINE S == P!IssuedAndOpen(to)
           f == [c \in S |-> IF issued[c].cents > P!Settled(c, to) THEN issued[c].cents - P!Settled(c, to) ELSE 0]
           e == [c \in Charge |-> AtClose(c, to)]
<1>2. P!OutstandingAtCloseCents(to) = P!Sum(f) /\ DOMAIN f = S /\ S \in SUBSET Charge
  BY DEF P!OutstandingAtCloseCents, P!IssuedAndOpen
<1>3. \A c \in S : f[c] \in Int
  BY <1>1, <1>2
<1>4. \A c \in Charge : e[c] = IF c \in S THEN f[c] ELSE 0
  BY DEF AtClose
<1> HIDE DEF f, e, S
<1>5. P!Sum(f) = SumFunctionOnSet(e, Charge)
  BY <1>2, <1>3, <1>4, LedgerAssumption, SumIsSum, SumOfSome
<1> QED BY <1>2, <1>5 DEF e

ClosingInv == ClosingTyped /\ DatesInOrder /\ NothingOverpaid /\ ClosedDaysStand

\* The numbers and the days of a charge.
LEMMA DaysOfACharge ==
  ASSUME ClosingTyped, NEW c \in Charge
  PROVE  /\ issued[c].cents \in Nat /\ issued[c].issuedOn \in Nat /\ issued[c].made \in Nat
         /\ issued[c].writtenOffAt \in 1..P!Always /\ forgiven[c].on \in 1..P!Always
         /\ P!Always \in Nat /\ now \in Nat /\ 1 <= now /\ now < P!Always
BY LedgerAssumption DEF ClosingTyped, ChargeDays, Days, DaysAfter, P!Always, P!Date

\* A step of the day that changes no figure of a closed one.
LEMMA ClosedDaysStay ==
  ASSUME ClosedDaysStand, UNCHANGED now,
         \A c \in Charge, to \in 1..(now - 1) : AtClose(c, to)' = P!AsItStood(c, to)'
  PROVE  ClosedDaysStand'
BY DEF ClosedDaysStand

\* The figures of a charge depend on its row, its history and the rows that settle it.
LEMMA FiguresStay ==
  ASSUME NEW c \in Charge, NEW to \in Nat, issued'[c] = issued[c], P!Settled(c, to)' = P!Settled(c, to),
         forgiven'[c] = forgiven[c], stood'[to] = stood[to]
  PROVE  AtClose(c, to)' = AtClose(c, to) /\ P!AsItStood(c, to)' = P!AsItStood(c, to)
<1>1. AtClose(c, to)' = AtClose(c, to)
  BY DEF AtClose, P!IssuedAndOpen, P!Issued
<1>2. /\ P!DatedAhead(c, to)' <=> P!DatedAhead(c, to)
      /\ P!DatedBack(c, to)' <=> P!DatedBack(c, to)
      /\ P!Restamped(c, to)' <=> P!Restamped(c, to)
  BY DEF P!DatedAhead, P!DatedBack, P!Restamped
<1> QED BY <1>1, <1>2 DEF P!AsItStood

LEMMA BillHolds ==
  ASSUME ClosingInv, NEW d \in Charge, NEW n \in Amount, NEW start \in P!Date, ~P!Issued(d),
         issued' = [issued EXCEPT ![d] = [cents |-> n, issuedOn |-> start, writtenOffAt |-> P!Always, made |-> now]],
         UNCHANGED <<now, received, allocation, checked, forgiven, stood>>
  PROVE  ClosingInv'
<1> DEFINE r == [cents |-> n, issuedOn |-> start, writtenOffAt |-> P!Always, made |-> now]
<1>1. n \in Nat /\ LastDay \in Nat \ {0} /\ now \in Nat /\ 1 <= now /\ now <= LastDay /\ start \in Nat /\ 1 <= start
  BY LedgerAssumption DEF ClosingInv, ClosingTyped, P!Date
<1>2. r \in ChargeDays
  <2>1. start \in Days /\ now \in Days /\ P!Always \in DaysAfter
    BY <1>1 DEF Days, DaysAfter, P!Always, P!Date
  <2> QED BY <1>1, <2>1 DEF ChargeDays
<1>3. /\ issued' \in [Charge -> ChargeDays] /\ issued'[d] = r
      /\ \A c \in Charge \ {d} : issued'[c] = issued[c]
  BY <1>2 DEF ClosingInv, ClosingTyped
<1>4. ClosingTyped'
  BY <1>3 DEF ClosingInv, ClosingTyped
<1>5. r.cents = n /\ r.issuedOn = start /\ r.writtenOffAt = P!Always /\ r.made = now
  OBVIOUS
<1> HIDE DEF r
<1>6. P!Issued(d)'
  BY <1>1, <1>3, <1>5 DEF P!Issued, P!NoDay
<1>7. /\ \A c \in Charge : P!AllocatedTo(c)' = P!AllocatedTo(c)
      /\ \A c \in Charge, to \in Nat : P!Settled(c, to)' = P!Settled(c, to)
  BY DEF P!AllocatedTo, P!Settled
<1>8. /\ P!AllocatedTo(d) = 0 /\ \A to : P!Settled(d, to) = 0
      /\ forgiven[d].on = P!Always /\ issued[d] = P!NoCharge
  BY UnissuedIsUnsettled DEF ClosingInv, DatesInOrder, P!NoCharge
<1>9. DatesInOrder'
  <2>1. ASSUME NEW c \in Charge \ {d}
        PROVE  (P!Issued(c)' <=> P!Issued(c)) /\ P!Outstanding(c)' = P!Outstanding(c)
    BY <1>3, <1>7 DEF P!Issued, P!Outstanding
  <2>2. ASSUME NEW c \in Charge
        PROVE  /\ issued'[c].made <= now
               /\ issued'[c].writtenOffAt = P!Always \/ issued'[c].writtenOffAt <= now
               /\ ~P!Issued(c)' => issued'[c] = P!NoCharge /\ checked[c] = 0
               /\ P!Issued(c)' => issued'[c].made # 0
               /\ IF issued'[c].writtenOffAt = P!Always THEN forgiven[c].on = P!Always
                  ELSE /\ issued'[c].made <= forgiven[c].on /\ forgiven[c].on <= issued'[c].writtenOffAt
                       /\ forgiven[c].cents = P!Outstanding(c)'
    <3>1. CASE c = d
      BY <1>1, <1>3, <1>5, <1>6, <1>8, <3>1
    <3>2. CASE c # d
      BY <1>3, <2>1, <3>2 DEF ClosingInv, DatesInOrder
    <3> QED BY <3>1, <3>2
  <2>3. ASSUME NEW a \in Payment \X Charge \X P!Date, allocation[a] # 0
        PROVE  P!Issued(a[2])' /\ a[3] <= now /\ a[3] <= forgiven[a[2]].on
    <3>1. P!Issued(a[2]) /\ a[3] <= now /\ a[3] <= forgiven[a[2]].on
      BY <2>3 DEF ClosingInv, DatesInOrder
    <3>2. a[2] \in Charge /\ a[2] # d
      BY <3>1
    <3> QED BY <2>1, <3>1, <3>2
  <2>4. UNCHANGED <<now, allocation, checked, forgiven>> /\ P!Always' = P!Always
    BY DEF P!Always
  <2> QED BY <2>2, <2>3, <2>4 DEF DatesInOrder
<1>10. NothingOverpaid'
  BY <1>1, <1>3, <1>5, <1>7, <1>8 DEF ClosingInv, NothingOverpaid
<1>11. ASSUME NEW c \in Charge, NEW to \in 1..(now - 1) PROVE AtClose(c, to)' = P!AsItStood(c, to)'
  <2>1. to \in Nat /\ 1 <= to /\ to < now /\ AtClose(c, to) = P!AsItStood(c, to)
    BY <1>1 DEF ClosingInv, ClosedDaysStand
  <2>2. CASE c # d
    BY <1>3, <1>7, <2>1, <2>2, FiguresStay
  <2>3. CASE c = d
    <3>1. ~P!Restamped(d, to) /\ ~P!Restamped(d, to)'
      BY <1>1, <1>8, <2>1 DEF P!Restamped, P!Always
    <3>2. stood[to][d] = 0
      <4>1. AtClose(d, to) = 0
        BY <2>1 DEF AtClose, P!IssuedAndOpen
      <4>2. ~P!DatedAhead(d, to) /\ ~P!DatedBack(d, to)
        BY <1>8, <2>1 DEF P!DatedAhead, P!DatedBack, P!NoCharge, P!NoDay
      <4> QED BY <2>1, <2>3, <3>1, <4>1, <4>2 DEF P!AsItStood
    <3>3. ~P!DatedAhead(d, to)' /\ (P!DatedBack(d, to)' <=> start <= to)
      BY <1>1, <1>3, <1>5, <2>1 DEF P!DatedAhead, P!DatedBack
    <3>4. (d \in P!IssuedAndOpen(to))' <=> start <= to
      BY <1>1, <1>3, <1>5, <1>6, <2>1 DEF P!IssuedAndOpen, P!Always
    <3>5. AtClose(d, to)' = IF start <= to THEN n ELSE 0
      <4>1. P!Settled(d, to)' = 0 /\ issued'[d].cents = n
        BY <1>3, <1>5, <1>7, <1>8, <2>1
      <4> QED BY <1>1, <3>4, <4>1 DEF AtClose
    <3>6. P!AsItStood(d, to)' = IF start <= to THEN n ELSE 0
      BY <1>3, <1>5, <3>1, <3>2, <3>3 DEF P!AsItStood
    <3> QED BY <2>3, <3>5, <3>6
  <2> QED BY <2>2, <2>3
<1>12. ClosedDaysStand'
  BY <1>11, ClosedDaysStay DEF ClosingInv
<1> QED BY <1>4, <1>9, <1>10, <1>12 DEF ClosingInv

\* A write-off, first or second, and whenever its charge was found unforgiven.
LEMMA ForgiveHolds ==
  ASSUME ClosingInv, NEW d \in Charge, P!StampWriteOff(d)
  PROVE  ClosingInv'
<1>1. /\ checked[d] # 0 /\ checked' = [checked EXCEPT ![d] = checked[d] - 1]
      /\ issued' = [issued EXCEPT ![d].writtenOffAt = now] /\ UNCHANGED <<now, allocation, stood>>
      /\ forgiven' = IF issued[d].writtenOffAt # P!Always THEN forgiven
                     ELSE [forgiven EXCEPT ![d] = [on |-> now, cents |-> P!Outstanding(d)]]
  BY DEF P!StampWriteOff, P!WrittenOff, ClosingInv, ClosingTyped
<1>2. /\ now \in Nat /\ 1 <= now /\ now < P!Always /\ P!Always \in Nat
      /\ \A c \in Charge : /\ issued[c].cents \in Nat /\ issued[c].issuedOn \in Nat /\ issued[c].made \in Nat
                           /\ issued[c].writtenOffAt \in 1..P!Always /\ forgiven[c].on \in 1..P!Always
  BY DaysOfACharge DEF ClosingInv
<1>3. P!Issued(d)
  BY <1>1 DEF ClosingInv, DatesInOrder
<1>4. /\ issued'[d] = [issued[d] EXCEPT !.writtenOffAt = now] /\ issued[d] \in ChargeDays
      /\ DOMAIN issued' = Charge /\ \A c \in Charge \ {d} : issued'[c] = issued[c] /\ issued[c] \in ChargeDays
  BY <1>1 DEF ClosingInv, ClosingTyped
<1>5. /\ issued'[d] \in ChargeDays /\ issued'[d].writtenOffAt = now /\ issued'[d].cents = issued[d].cents
      /\ issued'[d].issuedOn = issued[d].issuedOn /\ issued'[d].made = issued[d].made
  <2>1. now \in DaysAfter
    BY <1>2 DEF DaysAfter, P!Always
  <2> QED BY <1>4, <2>1 DEF ChargeDays
<1>6. /\ \A c \in Charge : P!AllocatedTo(c)' = P!AllocatedTo(c) /\ P!AllocatedTo(c) \in Nat
      /\ \A c \in Charge, to \in Nat : P!Settled(c, to)' = P!Settled(c, to)
  <2>1. UNCHANGED allocation
    BY <1>1
  <2>2. \A c \in Charge : P!AllocatedTo(c) \in Nat
    BY SettledNow DEF ClosingInv, SettledIsSum
  <2> QED BY <2>1, <2>2 DEF P!AllocatedTo, P!Settled
<1>7. \A c \in Charge : (P!Issued(c)' <=> P!Issued(c)) /\ P!Outstanding(c)' = P!Outstanding(c)
  BY <1>4, <1>5, <1>6 DEF P!Issued, P!Outstanding
<1>8. /\ forgiven'[d].on = IF issued[d].writtenOffAt = P!Always THEN now ELSE forgiven[d].on
      /\ forgiven'[d].cents = P!Outstanding(d) /\ forgiven'[d] \in [on : DaysAfter, cents : Int]
      /\ DOMAIN forgiven' = Charge /\ \A c \in Charge \ {d} : forgiven'[c] = forgiven[c]
  <2>1. P!Outstanding(d) \in Int /\ now \in DaysAfter
    BY <1>2, <1>6 DEF P!Outstanding, DaysAfter, P!Always
  <2>2. CASE issued[d].writtenOffAt = P!Always
    BY <1>1, <2>1, <2>2 DEF ClosingInv, ClosingTyped
  <2>3. CASE issued[d].writtenOffAt # P!Always
    <3>1. forgiven[d].cents = P!Outstanding(d)
      BY <2>3 DEF ClosingInv, DatesInOrder
    <3> QED BY <1>1, <2>3, <3>1 DEF ClosingInv, ClosingTyped
  <2> QED BY <2>2, <2>3
<1>9. ClosingTyped'
  <2>1. issued' \in [Charge -> ChargeDays]
    BY <1>1, <1>4, <1>5 DEF ClosingInv, ClosingTyped
  <2>2. checked' \in [Charge -> Nat]
    <3>1. checked[d] \in Nat /\ checked[d] # 0
      BY <1>1 DEF ClosingInv, ClosingTyped
    <3>2. checked[d] - 1 \in Nat
      BY <3>1
    <3> QED BY <1>1, <3>2 DEF ClosingInv, ClosingTyped
  <2>3. forgiven' \in [Charge -> [on : DaysAfter, cents : Int]]
    BY <1>1, <1>8 DEF ClosingInv, ClosingTyped
  <2> QED BY <1>1, <2>1, <2>2, <2>3 DEF ClosingInv, ClosingTyped
<1>10. issued[d].made <= forgiven'[d].on /\ forgiven'[d].on <= now /\ forgiven'[d].on \in Nat
  BY <1>2, <1>8 DEF ClosingInv, DatesInOrder
<1>11. DatesInOrder'
  <2>1. ASSUME NEW c \in Charge
        PROVE  /\ issued'[c].made <= now
               /\ issued'[c].writtenOffAt = P!Always \/ issued'[c].writtenOffAt <= now
               /\ ~P!Issued(c)' => issued'[c] = P!NoCharge /\ checked'[c] = 0
               /\ P!Issued(c)' => issued'[c].made # 0
               /\ IF issued'[c].writtenOffAt = P!Always THEN forgiven'[c].on = P!Always
                  ELSE /\ issued'[c].made <= forgiven'[c].on /\ forgiven'[c].on <= issued'[c].writtenOffAt
                       /\ forgiven'[c].cents = P!Outstanding(c)'
    <3>1. CASE c = d
      BY <1>2, <1>3, <1>5, <1>7, <1>8, <1>10, <3>1 DEF ClosingInv, DatesInOrder
    <3>2. CASE c # d
      <4>1. checked'[c] = checked[c] /\ issued'[c] = issued[c] /\ forgiven'[c] = forgiven[c]
        BY <1>1, <1>4, <1>8, <3>2 DEF ClosingInv, ClosingTyped
      <4> QED BY <1>7, <4>1 DEF ClosingInv, DatesInOrder
    <3> QED BY <3>1, <3>2
  <2>2. ASSUME NEW a \in Payment \X Charge \X P!Date, allocation[a] # 0
        PROVE  P!Issued(a[2])' /\ a[3] <= now /\ a[3] <= forgiven'[a[2]].on
    <3>1. P!Issued(a[2]) /\ a[3] <= now /\ a[3] <= forgiven[a[2]].on /\ a[2] \in Charge
      BY <2>2 DEF ClosingInv, DatesInOrder
    <3> QED BY <1>7, <1>8, <3>1
  <2>3. UNCHANGED <<now, allocation>> /\ P!Always' = P!Always
    BY <1>1 DEF P!Always
  <2> QED BY <2>1, <2>2, <2>3 DEF DatesInOrder
<1>12. NothingOverpaid'
  BY <1>4, <1>5, <1>6 DEF ClosingInv, NothingOverpaid
<1>13. ASSUME NEW c \in Charge, NEW to \in 1..(now - 1) PROVE AtClose(c, to)' = P!AsItStood(c, to)'
  <2>1. to \in Nat /\ 1 <= to /\ to < now /\ AtClose(c, to) = P!AsItStood(c, to) /\ stood'[to] = stood[to]
    BY <1>1, <1>2 DEF ClosingInv, ClosedDaysStand
  <2>2. CASE c # d
    BY <1>4, <1>6, <1>8, <2>1, <2>2, FiguresStay
  <2>3. CASE c = d
    <3>1. /\ P!DatedAhead(d, to)' <=> P!DatedAhead(d, to)
          /\ P!DatedBack(d, to)' <=> P!DatedBack(d, to)
      BY <1>5 DEF P!DatedAhead, P!DatedBack
    <3>2. P!Restamped(d, to)' <=> forgiven'[d].on <= to
      BY <1>5, <2>1, <1>2 DEF P!Restamped
    \* The stamp that is overwritten was after the close, or there was none.
    <3>3. CASE issued[d].writtenOffAt > to
      <4>1. AtClose(d, to)' = AtClose(d, to)
        <5>1. (d \in P!IssuedAndOpen(to))' <=> d \in P!IssuedAndOpen(to)
          BY <1>2, <1>5, <1>7, <2>1, <3>3 DEF P!IssuedAndOpen
        <5> QED BY <1>5, <1>6, <2>1, <5>1 DEF AtClose
      <4>2. P!Restamped(d, to)' <=> P!Restamped(d, to)
        BY <1>2, <1>8, <2>1, <3>2, <3>3 DEF P!Restamped, ClosingInv, DatesInOrder
      <4>3. P!Restamped(d, to) => forgiven'[d].cents = forgiven[d].cents
        <5> SUFFICES ASSUME P!Restamped(d, to) PROVE forgiven'[d].cents = forgiven[d].cents
          OBVIOUS
        <5>1. issued[d].writtenOffAt # P!Always
          BY <1>2, <2>1 DEF P!Restamped, ClosingInv, DatesInOrder
        <5> QED BY <1>1, <5>1
      <4>4. P!AsItStood(d, to)' = P!AsItStood(d, to)
        BY <1>5, <2>1, <3>1, <4>2, <4>3 DEF P!AsItStood
      <4> QED BY <2>1, <2>3, <4>1, <4>4
    \* Or it was not, and the charge is owed again.
    <3>4. CASE issued[d].writtenOffAt <= to
      <4>1. /\ issued[d].writtenOffAt # P!Always /\ forgiven[d].on <= to /\ issued[d].made <= to
            /\ P!Outstanding(d) = forgiven[d].cents
        BY <1>2, <2>1, <3>4 DEF ClosingInv, DatesInOrder
      <4>2. forgiven' = forgiven /\ P!Restamped(d, to)'
        BY <1>1, <3>2, <4>1
      <4>3. ~P!DatedBack(d, to)' /\ (P!DatedAhead(d, to)' <=> issued[d].issuedOn > to)
        <5>1. 1 <= issued[d].made
          <6>1. issued[d].made # 0
            BY <1>3 DEF ClosingInv, DatesInOrder
          <6> QED BY <1>2, <6>1
        <5> QED BY <1>2, <1>5, <2>1, <4>1, <5>1 DEF P!DatedAhead, P!DatedBack
      <4>4. (d \in P!IssuedAndOpen(to))' <=> issued[d].issuedOn <= to
        BY <1>2, <1>3, <1>5, <1>7, <2>1 DEF P!IssuedAndOpen
      <4>5. P!Settled(d, to) = P!AllocatedTo(d) /\ P!AllocatedTo(d) <= issued[d].cents
        BY <2>1, <4>1, SettledInTime DEF ClosingInv, NothingOverpaid
      <4>6. AtClose(d, to)' = IF issued[d].issuedOn <= to THEN P!Outstanding(d) ELSE 0
        <5>1. P!Settled(d, to)' = P!AllocatedTo(d) /\ issued'[d].cents = issued[d].cents
          BY <1>5, <1>6, <2>1, <4>5
        <5> QED BY <1>2, <1>6, <4>4, <4>5, <5>1 DEF AtClose, P!Outstanding
      <4>7. P!AsItStood(d, to)' = IF issued[d].issuedOn <= to THEN forgiven[d].cents ELSE 0
        BY <1>2, <2>1, <4>2, <4>3 DEF P!AsItStood
      <4> QED BY <2>3, <4>1, <4>6, <4>7
    <3> QED BY <1>2, <2>1, <3>3, <3>4
  <2> QED BY <2>2, <2>3
<1>14. ClosedDaysStand'
  BY <1>1, <1>13, ClosedDaysStay DEF ClosingInv
<1> QED BY <1>9, <1>11, <1>12, <1>14 DEF ClosingInv

\* Payments received, and write-offs that only read: no figure of a charge changes.
LEMMA ReceiptHolds ==
  ASSUME ClosingInv, UNCHANGED <<now, issued, allocation, forgiven, stood>>, checked' \in [Charge -> Nat],
         \A c \in Charge : ~P!Issued(c) => checked'[c] = checked[c]
  PROVE  ClosingInv'
<1>1. /\ \A c \in Charge : /\ P!AllocatedTo(c)' = P!AllocatedTo(c) /\ (P!Issued(c)' <=> P!Issued(c))
                           /\ P!Outstanding(c)' = P!Outstanding(c)
      /\ \A c \in Charge, to \in Nat : P!Settled(c, to)' = P!Settled(c, to)
  BY DEF P!AllocatedTo, P!Settled, P!Issued, P!Outstanding
<1>2. ClosingTyped' /\ NothingOverpaid'
  BY <1>1 DEF ClosingInv, ClosingTyped, NothingOverpaid
<1>3. DatesInOrder'
  BY <1>1 DEF ClosingInv, DatesInOrder, P!Always
<1>4. \A c \in Charge, to \in 1..(now - 1) : AtClose(c, to)' = P!AsItStood(c, to)'
  <2> SUFFICES ASSUME NEW c \in Charge, NEW to \in 1..(now - 1) PROVE AtClose(c, to)' = P!AsItStood(c, to)'
    OBVIOUS
  <2>1. to \in Nat /\ AtClose(c, to) = P!AsItStood(c, to)
    BY DEF ClosingInv, ClosingTyped, P!Date, ClosedDaysStand
  <2> QED BY <1>1, <2>1, FiguresStay
<1>5. ClosedDaysStand'
  BY <1>4, ClosedDaysStay DEF ClosingInv
<1> QED BY <1>2, <1>3, <1>5 DEF ClosingInv

LEMMA SpendHolds ==
  ASSUME ClosingInv, NEW q \in Payment, NEW d \in Charge, NEW n \in Amount, P!ApplyCredit(q, d, n)
  PROVE  ClosingInv'
<1> DEFINE a == <<q, d, now>>
<1>1. /\ P!Issued(d) /\ n <= P!Outstanding(d) /\ UNCHANGED <<now, issued, checked, forgiven, stood>>
      /\ issued[d].writtenOffAt = P!Always /\ allocation' = [allocation EXCEPT ![a] = @ + n]
  BY DEF P!ApplyCredit, P!WrittenOff
<1>2. n \in Nat /\ now \in Nat /\ now < P!Always /\ P!Always \in Nat /\ \A d2 \in P!Date : d2 \in Nat
  BY LedgerAssumption, DaysOfACharge DEF ClosingInv, ClosingTyped, P!Date
<1>3. a \in Payment \X Charge \X P!Date /\ a[2] = d /\ a[3] = now
  BY DEF ClosingInv, ClosingTyped
<1> HIDE DEF a
<1>4. /\ allocation[a] \in Nat /\ allocation'[a] = allocation[a] + n
      /\ \A r \in (Payment \X Charge \X P!Date) \ {a} : allocation'[r] = allocation[r]
      /\ allocation' \in [Payment \X Charge \X P!Date -> Nat]
  BY <1>1, <1>2, <1>3 DEF ClosingInv, ClosingTyped
<1>5. ClosingTyped'
  BY <1>1, <1>4 DEF ClosingInv, ClosingTyped
<1>6. \A c \in Charge : P!Issued(c)' <=> P!Issued(c)
  BY <1>1 DEF P!Issued
<1>7. SettledIsSum /\ SettledIsSum'
  BY <1>5, SettledNow, SettledThen DEF ClosingInv
<1>8. ASSUME NEW c \in Charge, c # d PROVE P!AllocatedTo(c)' = P!AllocatedTo(c) /\ P!Outstanding(c)' = P!Outstanding(c)
  <2>1. \A r \in RowsOf(c) : allocation'[r] = allocation[r]
    BY <1>3, <1>4, <1>8, RowsAre
  <2>2. SumFunctionOnSet(allocation', RowsOf(c)) = SumFunctionOnSet(allocation, RowsOf(c))
    BY <2>1, RowsAre, SumOfSame
  <2>3. P!AllocatedTo(c)' = P!AllocatedTo(c)
    BY <1>7, <2>2 DEF SettledIsSum, RowsOf
  <2> QED BY <1>1, <2>3 DEF P!Outstanding
<1>9. P!AllocatedTo(d)' = P!AllocatedTo(d) + n
  <2>1. a \in RowsOf(d)
    BY DEF a, RowsOf, ClosingInv, ClosingTyped
  <2>2. \A r \in RowsOf(d) \ {a} : allocation[r] = allocation'[r]
    BY <1>4, RowsAre
  <2>3. Summable(allocation, RowsOf(d)) /\ Summable(allocation', RowsOf(d))
    BY <1>7 DEF SettledIsSum, RowsOf
  <2>4. SumFunctionOnSet(allocation', RowsOf(d))
          = SumFunctionOnSet(allocation, RowsOf(d)) + (allocation'[a] - allocation[a])
    BY <2>1, <2>2, <2>3, SumChanges
  <2>5. P!AllocatedTo(d) = SumFunctionOnSet(allocation, RowsOf(d)) /\ P!AllocatedTo(d) \in Nat
    BY <1>7 DEF SettledIsSum
  <2>6. P!AllocatedTo(d)' = SumFunctionOnSet(allocation', RowsOf(d))
    BY <1>7 DEF SettledIsSum, RowsOf
  <2> QED BY <1>2, <1>4, <2>4, <2>5, <2>6
<1>10. NothingOverpaid'
  <2> SUFFICES ASSUME NEW c \in Charge PROVE P!AllocatedTo(c)' <= issued[c].cents
    BY <1>1 DEF NothingOverpaid
  <2>1. CASE c # d
    BY <1>8, <2>1 DEF ClosingInv, NothingOverpaid
  <2>2. CASE c = d
    <3>1. P!AllocatedTo(d) \in Nat /\ issued[d].cents \in Nat
      BY <1>7 DEF SettledIsSum, ClosingInv, ClosingTyped, ChargeDays
    <3> QED BY <1>1, <1>2, <1>9, <2>2, <3>1 DEF P!Outstanding
  <2> QED BY <2>1, <2>2
<1>11. DatesInOrder'
  <2>1. forgiven[d].on = P!Always
    BY <1>1 DEF ClosingInv, DatesInOrder
  <2>2. ASSUME NEW r \in Payment \X Charge \X P!Date, allocation'[r] # 0
        PROVE  P!Issued(r[2])' /\ r[3] <= now /\ r[3] <= forgiven[r[2]].on
    <3>1. CASE r = a
      BY <1>1, <1>2, <1>3, <1>6, <2>1, <3>1
    <3>2. CASE r # a
      <4>1. P!Issued(r[2]) /\ r[3] <= now /\ r[3] <= forgiven[r[2]].on
        BY <1>4, <2>2, <3>2 DEF ClosingInv, DatesInOrder
      <4> QED BY <1>6, <4>1
    <3> QED BY <3>1, <3>2
  <2>3. ASSUME NEW c \in Charge
        PROVE  /\ issued[c].made <= now
               /\ issued[c].writtenOffAt = P!Always \/ issued[c].writtenOffAt <= now
               /\ ~P!Issued(c)' => issued[c] = P!NoCharge /\ checked[c] = 0
               /\ P!Issued(c)' => issued[c].made # 0
               /\ IF issued[c].writtenOffAt = P!Always THEN forgiven[c].on = P!Always
                  ELSE /\ issued[c].made <= forgiven[c].on /\ forgiven[c].on <= issued[c].writtenOffAt
                       /\ forgiven[c].cents = P!Outstanding(c)'
    BY <1>1, <1>6, <1>8 DEF ClosingInv, DatesInOrder
  <2>4. P!Always' = P!Always /\ P!NoCharge' = P!NoCharge
    BY DEF P!Always, P!NoCharge
  <2> QED BY <1>1, <2>2, <2>3, <2>4 DEF DatesInOrder
<1>12. ASSUME NEW c \in Charge, NEW to \in 1..(now - 1) PROVE P!Settled(c, to)' = P!Settled(c, to)
  <2>1. to \in Nat /\ to < now
    BY <1>2
  <2>2. \A r \in RowsUntil(c, to) : allocation'[r] = allocation[r]
    <3> SUFFICES ASSUME NEW r \in RowsUntil(c, to) PROVE allocation'[r] = allocation[r]
      OBVIOUS
    <3>1. r \in RowsOf(c) /\ r[3] <= to
      BY DEF RowsUntil
    <3>2. r \in Payment \X Charge \X P!Date /\ r[3] \in Nat
      BY <3>1, RowsAre
    <3>3. r # a
      BY <1>2, <1>3, <2>1, <3>1, <3>2
    <3> QED BY <1>4, <3>2, <3>3
  <2>3. SumFunctionOnSet(allocation', RowsUntil(c, to)) = SumFunctionOnSet(allocation, RowsUntil(c, to))
    BY <2>2, RowsAre, SumOfSame
  <2>4. P!Settled(c, to) = SumFunctionOnSet(allocation, RowsUntil(c, to))
    BY <1>7 DEF SettledIsSum
  <2>5. P!Settled(c, to)' = SumFunctionOnSet(allocation', RowsUntil(c, to))
    BY <1>7 DEF SettledIsSum, RowsUntil, RowsOf
  <2> QED BY <2>3, <2>4, <2>5
<1>13. \A c \in Charge, to \in 1..(now - 1) : AtClose(c, to)' = P!AsItStood(c, to)'
  <2> SUFFICES ASSUME NEW c \in Charge, NEW to \in 1..(now - 1) PROVE AtClose(c, to)' = P!AsItStood(c, to)'
    OBVIOUS
  <2>1. to \in Nat /\ AtClose(c, to) = P!AsItStood(c, to)
    BY <1>2 DEF ClosingInv, ClosedDaysStand
  <2> QED BY <1>1, <1>12, <2>1, FiguresStay
<1>14. ClosedDaysStand'
  BY <1>1, <1>13, ClosedDaysStay DEF ClosingInv
<1> QED BY <1>5, <1>10, <1>11, <1>14 DEF ClosingInv

LEMMA MidnightHolds ==
  ASSUME ClosingInv, P!Midnight
  PROVE  ClosingInv'
<1> DEFINE still == [c \in Charge |-> IF P!Issued(c) /\ ~P!WrittenOff(c) THEN P!Outstanding(c) ELSE 0]
<1>1. /\ now < LastDay /\ now' = now + 1 /\ UNCHANGED <<issued, allocation, checked, forgiven>>
      /\ stood' = [stood EXCEPT ![now] = still]
  BY DEF P!Midnight
<1>2. LastDay \in Nat /\ now \in Nat /\ 1 <= now /\ now \in P!Date
  BY LedgerAssumption DEF ClosingInv, ClosingTyped, P!Date
<1>3. /\ \A c \in Charge : /\ P!AllocatedTo(c)' = P!AllocatedTo(c) /\ (P!Issued(c)' <=> P!Issued(c))
                           /\ P!Outstanding(c)' = P!Outstanding(c) /\ P!Outstanding(c) \in Int
      /\ \A c \in Charge, to \in Nat : P!Settled(c, to)' = P!Settled(c, to)
  <2>1. \A c \in Charge : P!AllocatedTo(c) \in Nat /\ issued[c].cents \in Nat
    BY SettledNow DEF ClosingInv, SettledIsSum, ClosingTyped, ChargeDays
  <2> QED BY <1>1, <2>1 DEF P!AllocatedTo, P!Issued, P!Outstanding, P!Settled
<1>4. ClosingTyped'
  <2>1. still \in [Charge -> Int]
    BY <1>3
  <2> HIDE DEF still
  <2> QED BY <1>1, <1>2, <2>1 DEF ClosingInv, ClosingTyped, P!Date
<1>5. DatesInOrder'
  <2>1. ASSUME NEW c \in Charge
        PROVE  /\ issued[c].made <= now + 1
               /\ issued[c].writtenOffAt = P!Always \/ issued[c].writtenOffAt <= now + 1
               /\ ~P!Issued(c)' => issued[c] = P!NoCharge /\ checked[c] = 0
               /\ P!Issued(c)' => issued[c].made # 0
               /\ IF issued[c].writtenOffAt = P!Always THEN forgiven[c].on = P!Always
                  ELSE /\ issued[c].made <= forgiven[c].on /\ forgiven[c].on <= issued[c].writtenOffAt
                       /\ forgiven[c].cents = P!Outstanding(c)'
    <3>1. issued[c].made \in Nat /\ issued[c].writtenOffAt \in Nat
      BY DaysOfACharge DEF ClosingInv
    <3> QED BY <1>2, <1>3, <3>1 DEF ClosingInv, DatesInOrder
  <2>2. ASSUME NEW r \in Payment \X Charge \X P!Date, allocation[r] # 0
        PROVE  P!Issued(r[2])' /\ r[3] <= now + 1 /\ r[3] <= forgiven[r[2]].on
    <3>1. P!Issued(r[2]) /\ r[3] <= now /\ r[3] \in Nat /\ r[2] \in Charge /\ r[3] <= forgiven[r[2]].on
      BY <2>2, DaysAreFinite DEF ClosingInv, DatesInOrder
    <3> QED BY <1>2, <1>3, <3>1
  <2>3. P!Always' = P!Always /\ P!NoCharge' = P!NoCharge
    BY DEF P!Always, P!NoCharge
  <2> QED BY <1>1, <2>1, <2>2, <2>3 DEF DatesInOrder
<1>6. NothingOverpaid'
  BY <1>1, <1>3 DEF ClosingInv, NothingOverpaid
<1>7. ClosedDaysStand'
  <2> SUFFICES ASSUME NEW to \in 1..now, NEW c \in Charge PROVE AtClose(c, to)' = P!AsItStood(c, to)'
    BY <1>1, <1>2 DEF ClosedDaysStand
  <2>1. to \in Nat /\ to \in P!Date /\ 1 <= to /\ to <= now
    BY <1>1, <1>2 DEF P!Date
  <2>2. CASE to = now
    <3>0. to = now /\ UNCHANGED <<issued, allocation, forgiven>>
      BY <1>1, <2>2
    <3>1. stood'[to][c] = IF P!Issued(c) /\ ~P!WrittenOff(c) THEN P!Outstanding(c) ELSE 0
      BY <1>1, <1>2, <3>0 DEF ClosingInv, ClosingTyped
    <3>2. /\ issued[c].cents \in Nat /\ issued[c].issuedOn \in Nat /\ issued[c].made \in Nat
          /\ issued[c].writtenOffAt \in 1..P!Always /\ P!Always \in Nat /\ to < P!Always
      BY <3>0, DaysOfACharge DEF ClosingInv
    <3>3. /\ issued[c].made <= to /\ (issued[c].writtenOffAt = P!Always \/ issued[c].writtenOffAt <= to)
          /\ issued[c].writtenOffAt = P!Always => forgiven[c].on = P!Always
          /\ P!Issued(c) => issued[c].made # 0
      BY <3>0 DEF ClosingInv, DatesInOrder
    <3>4. P!Settled(c, to) = P!AllocatedTo(c) /\ P!AllocatedTo(c) <= issued[c].cents /\ P!AllocatedTo(c) \in Nat
      BY <2>1, <3>0, SettledInTime, SettledNow DEF ClosingInv, NothingOverpaid, SettledIsSum
    <3>5. ~P!DatedBack(c, to)' /\ ~P!Restamped(c, to)'
      BY <2>1, <3>0, <3>2, <3>3 DEF P!DatedBack, P!Restamped
    <3>6. P!DatedAhead(c, to)' <=> issued[c].made # 0 /\ issued[c].issuedOn > to
      BY <2>1, <3>0, <3>2, <3>3 DEF P!DatedAhead
    <3>7. (c \in P!IssuedAndOpen(to))' <=> P!Issued(c) /\ ~P!WrittenOff(c) /\ ~P!DatedAhead(c, to)'
      <4>1. (c \in P!IssuedAndOpen(to))'
              <=> P!Issued(c) /\ issued[c].issuedOn <= to /\ issued[c].writtenOffAt > to
        BY <1>3, <3>0 DEF P!IssuedAndOpen
      <4>2. issued[c].writtenOffAt > to <=> ~P!WrittenOff(c)
        BY <2>1, <3>2, <3>3 DEF P!WrittenOff
      <4> QED BY <2>1, <3>2, <3>3, <3>6, <4>1, <4>2
    <3>8. AtClose(c, to)' = IF (c \in P!IssuedAndOpen(to))' THEN P!Outstanding(c) ELSE 0
      <4>1. P!Settled(c, to)' = P!AllocatedTo(c) /\ issued'[c].cents = issued[c].cents
        BY <1>3, <2>1, <3>0, <3>4
      <4> QED BY <3>2, <3>4, <4>1 DEF AtClose, P!Outstanding
    <3>9. P!AsItStood(c, to)' = IF P!DatedAhead(c, to)' THEN 0 ELSE stood'[to][c]
      BY <3>5 DEF P!AsItStood
    <3> QED BY <3>1, <3>7, <3>8, <3>9
  <2>3. CASE to # now
    <3>1. to \in 1..(now - 1)
      BY <1>2, <2>1, <2>3
    <3>2. stood'[to] = stood[to]
      BY <1>1, <2>1, <2>3 DEF ClosingInv, ClosingTyped
    <3> QED BY <1>1, <1>3, <2>1, <3>1, <3>2, FiguresStay DEF ClosingInv, ClosedDaysStand
  <2> QED BY <2>2, <2>3
<1> QED BY <1>4, <1>5, <1>6, <1>7 DEF ClosingInv

LEMMA ClosingInitially == P!SummaryInit => ClosingInv
<1> SUFFICES ASSUME P!SummaryInit PROVE ClosingInv
  OBVIOUS
<1>1. LastDay \in Nat /\ 1 <= LastDay /\ now = 1
  BY LedgerAssumption DEF P!SummaryInit
<1>2. ClosingTyped
  <2>1. P!NoCharge \in ChargeDays /\ P!NotForgiven \in [on : DaysAfter, cents : Int]
    BY <1>1 DEF P!NoCharge, P!NotForgiven, ChargeDays, Days, DaysAfter, P!NoDay, P!Always
  <2>2. 1 \in P!Date
    BY <1>1 DEF P!Date
  <2> QED BY <1>1, <2>1, <2>2 DEF P!SummaryInit, ClosingTyped
<1>3. /\ \A c \in Charge : /\ issued[c] = P!NoCharge /\ ~P!Issued(c) /\ checked[c] = 0
                           /\ forgiven[c] = P!NotForgiven
      /\ \A r \in Payment \X Charge \X P!Date : allocation[r] = 0
  BY DEF P!SummaryInit, P!Issued, P!NoCharge
<1>4. DatesInOrder
  BY <1>1, <1>3 DEF DatesInOrder, P!NoCharge, P!NotForgiven, P!NoDay
<1>5. NothingOverpaid
  BY <1>2, <1>3, <1>4, UnissuedIsUnsettled DEF NothingOverpaid, P!NoCharge
<1>6. ClosedDaysStand
  BY <1>1 DEF ClosedDaysStand
<1> QED BY <1>2, <1>4, <1>5, <1>6 DEF ClosingInv

LEMMA ClosingStep == ClosingInv /\ [P!SummaryNext]_(P!summaryVars) => ClosingInv'
<1> SUFFICES ASSUME ClosingInv, [P!SummaryNext]_(P!summaryVars) PROVE ClosingInv'
  OBVIOUS
<1>0. now \in P!Date /\ checked \in [Charge -> Nat]
  BY DEF ClosingInv, ClosingTyped
<1>1. ASSUME NEW c \in Charge, NEW n \in Amount, P!Bill(c, n) PROVE ClosingInv'
  BY <1>0, <1>1, BillHolds DEF P!Bill
<1>2. ASSUME NEW c \in Charge, NEW n \in Amount, NEW start \in P!Date, P!BillRetainer(c, n, start) PROVE ClosingInv'
  BY <1>2, BillHolds DEF P!BillRetainer
<1>3. ASSUME NEW p \in Payment, NEW n \in Amount, NEW d \in P!Date, P!RecordPayment(p, n, d) PROVE ClosingInv'
  BY <1>0, <1>3, ReceiptHolds DEF P!RecordPayment
<1>4. CASE UNCHANGED P!summaryVars
  BY <1>0, <1>4, ReceiptHolds DEF P!summaryVars
<1>5. ASSUME NEW c \in Charge, P!CheckWriteOff(c) PROVE ClosingInv'
  BY <1>0, <1>5, ReceiptHolds DEF P!CheckWriteOff
<1> QED BY <1>1, <1>2, <1>3, <1>4, <1>5, ForgiveHolds, SpendHolds, MidnightHolds DEF P!SummaryNext

LEMMA ClosedDaysMean == ClosingInv => ClosingIsAsItStood
<1> SUFFICES ASSUME ClosingInv, NEW to \in 1..(now - 1)
             PROVE  P!OutstandingAtCloseCents(to) = P!Sum([c \in Charge |-> P!AsItStood(c, to)])
  BY DEF ClosingIsAsItStood, P!ClosingIsAsItStood
<1> DEFINE f == [c \in Charge |-> AtClose(c, to)]
           e == [c \in Charge |-> P!AsItStood(c, to)]
<1>1. P!OutstandingAtCloseCents(to) = SumFunctionOnSet(f, Charge)
  BY SummaryIsSum DEF ClosingInv
<1>2. (\A c \in Charge : f[c] = e[c]) /\ DOMAIN e = Charge
  BY DEF ClosingInv, ClosedDaysStand
<1> HIDE DEF f, e
<1>3. SumFunctionOnSet(f, Charge) = SumFunctionOnSet(e, Charge)
  BY <1>2, LedgerAssumption, SumOfSame
<1>4. P!Sum(e) = SumFunctionOnSet(e, Charge)
  BY <1>2, SumIsSum
<1> QED BY <1>1, <1>3, <1>4 DEF e

\* The summary of a closed day is the position as it stood, whatever is billed, paid, applied and
\* forgiven afterwards, but for charges dated to the other side of the close than they were made
\* and for write-offs that a second one dated past it.
THEOREM ClosedDaysAreAsTheyStood == P!SummarySpec => []ClosingIsAsItStood
BY ClosingInitially, ClosingStep, ClosedDaysMean, PTL DEF P!SummarySpec

-------------------------------------------------------------------------------

(***************************************************************************)
(* The walk of proposeAllocation and settleOnPaper (Allocation).  First    *)
(* what a sort returns: an order exists, by an argument about a smallest   *)
(* set without one, and the CHOOSE of the model finds it.                  *)
(***************************************************************************)
Dated(places, date) == IsFiniteSet(places) /\ places \subseteq Nat /\ \A i \in places : date[i] \in Nat

InOrder(list, places, date) ==
  /\ list \in [1..Cardinality(places) -> places] /\ Range(list) = places
  /\ \A m, n \in DOMAIN list : m < n => Older(date, list[m], list[n])

LEMMA OlderIsAnOrder ==
  ASSUME NEW places, NEW date, Dated(places, date), NEW i \in places, NEW j \in places
  PROVE  /\ i # j => Older(date, i, j) \/ Older(date, j, i)
         /\ Older(date, i, j) => i # j /\ ~Older(date, j, i)
         /\ \A k \in places : Older(date, i, j) /\ Older(date, j, k) => Older(date, i, k)
         /\ Older(date, i, j) => date[i] <= date[j]
<1>1. i \in Nat /\ j \in Nat /\ date[i] \in Nat /\ date[j] \in Nat
  BY DEF Dated
<1>2. \A k \in places : k \in Nat /\ date[k] \in Nat
  BY DEF Dated
<1> QED BY <1>1, <1>2 DEF Older

LEMMA OneIsLast ==
  ASSUME NEW places, NEW date, Dated(places, date), places # {}
  PROVE  \E l \in places : \A i \in places \ {l} : Older(date, i, l)
<1> DEFINE T == {s \in SUBSET places : s # {} /\ ~\E l \in s : \A i \in s \ {l} : Older(date, i, l)}
<1> SUFFICES ASSUME T # {} PROVE FALSE
  OBVIOUS
<1>1. PICK t \in T : \A v \in T : v \subseteq t => v = t
  <2>1. T \subseteq SUBSET places /\ IsFiniteSet(places)
    BY DEF Dated
  <2> HIDE DEF T
  <2> QED BY <2>1, SmallestSubset
<1>2. PICK x \in t : TRUE
  OBVIOUS
<1> DEFINE u == t \ {x}
<1>3. u # {}
  OBVIOUS
<1>4. PICK l \in u : \A i \in u \ {l} : Older(date, i, l)
  <2>1. u \notin T
    BY <1>1, <1>2
  <2> QED BY <1>3, <2>1
<1>5. x \in places /\ l \in places /\ x # l /\ t \subseteq places
  OBVIOUS
<1>6. CASE Older(date, x, l)
  <2>1. \A i \in t \ {l} : Older(date, i, l)
    BY <1>4, <1>6
  <2> QED BY <2>1
<1>7. CASE Older(date, l, x)
  <2>1. \A i \in t \ {x} : Older(date, i, x)
    BY <1>4, <1>5, <1>7, OlderIsAnOrder
  <2> QED BY <2>1
<1> QED BY <1>5, <1>6, <1>7, OlderIsAnOrder

LEMMA OneMoreAtTheEnd ==
  ASSUME NEW N \in Nat, NEW u, NEW rest \in [1..N -> u], NEW l, NEW list,
         list = [n \in 1..(N + 1) |-> IF n = N + 1 THEN l ELSE rest[n]]
  PROVE  /\ list \in [1..(N + 1) -> u \cup {l}]
         /\ list[N + 1] = l /\ \A n \in 1..N : list[n] = rest[n] /\ n \in 1..(N + 1)
         /\ \A n \in 1..(N + 1) : n = N + 1 \/ n \in 1..N
OBVIOUS

LEMMA OrderExists ==
  ASSUME NEW places, NEW date, Dated(places, date)
  PROVE  \E list : InOrder(list, places, date)
<1> DEFINE T == {s \in SUBSET places : ~\E list : InOrder(list, s, date)}
<1> SUFFICES ASSUME T # {} PROVE FALSE
  OBVIOUS
<1>1. PICK t \in T : \A v \in T : v \subseteq t => v = t
  <2>1. T \subseteq SUBSET places /\ IsFiniteSet(places)
    BY DEF Dated
  <2> HIDE DEF T
  <2> QED BY <2>1, SmallestSubset
<1>2. t \in SUBSET places /\ IsFiniteSet(t) /\ Dated(t, date)
  BY FS_Subset DEF Dated
<1>3. t # {}
  <2> SUFFICES ASSUME t = {} PROVE FALSE
    OBVIOUS
  <2> DEFINE none == [n \in 1..0 |-> n]
  <2>1. Cardinality({}) = 0
    BY FS_EmptySet
  <2>2. none \in [1..0 -> {}] /\ DOMAIN none = {} /\ Range(none) = {}
    BY DEF Range
  <2>3. InOrder(none, {}, date)
    BY <2>1, <2>2 DEF InOrder
  <2> QED BY <2>3
<1>4. PICK l \in t : \A i \in t \ {l} : Older(date, i, l)
  BY <1>2, <1>3, OneIsLast
<1> DEFINE u == t \ {l}
<1>5. PICK N \in Nat : N = Cardinality(u) /\ Cardinality(t) = N + 1
  <2>1. IsFiniteSet(u) /\ Cardinality(u) = Cardinality(t) - 1 /\ Cardinality(t) \in Nat
    BY <1>2, FS_RemoveElement, FS_CardinalityType
  <2>2. Cardinality(u) \in Nat
    BY <2>1, FS_CardinalityType
  <2> QED BY <2>1, <2>2
<1>6. PICK rest : InOrder(rest, u, date)
  <2>1. u \notin T
    BY <1>1, <1>4
  <2> QED BY <2>1, <1>2
<1>7. rest \in [1..N -> u] /\ \A i \in u : \E n \in 1..N : rest[n] = i
  BY <1>5, <1>6 DEF InOrder, Range
<1>8. PICK list : list = [n \in 1..(N + 1) |-> IF n = N + 1 THEN l ELSE rest[n]]
  OBVIOUS
<1> HIDE DEF T
<1>9. u \cup {l} = t /\ l \notin u
  OBVIOUS
<1>10. /\ list \in [1..(N + 1) -> t]
       /\ list[N + 1] = l /\ \A n \in 1..N : list[n] = rest[n] /\ n \in 1..(N + 1)
       /\ \A n \in 1..(N + 1) : n = N + 1 \/ n \in 1..N
  BY <1>7, <1>8, <1>9, OneMoreAtTheEnd
<1> HIDE DEF u
<1>11. Range(list) = t
  <2>1. \A i \in t : \E n \in 1..(N + 1) : list[n] = i
    <3> SUFFICES ASSUME NEW i \in t PROVE \E n \in 1..(N + 1) : list[n] = i
      OBVIOUS
    <3>1. CASE i = l
      <4>1. N + 1 \in 1..(N + 1)
        OBVIOUS
      <4> QED BY <3>1, <4>1, <1>10
    <3>2. CASE i \in u
      BY <3>2, <1>7, <1>10
    <3> QED BY <3>1, <3>2, <1>9
  <2> QED BY <2>1, <1>10 DEF Range
<1>12. ASSUME NEW m \in 1..(N + 1), NEW n \in 1..(N + 1), m < n PROVE Older(date, list[m], list[n])
  <2>1. m \in 1..N
    BY <1>12
  <2>2. list[m] = rest[m] /\ rest[m] \in u
    BY <2>1, <1>7, <1>10
  <2>3. CASE n = N + 1
    <3>1. \A i \in u : Older(date, i, l)
      BY <1>4 DEF u
    <3> QED BY <2>2, <2>3, <1>10, <3>1
  <2>4. CASE n \in 1..N
    <3>1. list[n] = rest[n] /\ DOMAIN rest = 1..N
      BY <1>7, <1>10, <2>4
    <3> QED BY <1>6, <1>12, <2>1, <2>2, <2>4, <3>1 DEF InOrder
  <2> QED BY <1>10, <2>3, <2>4
<1>13. DOMAIN list = 1..(N + 1)
  BY <1>10
<1>14. InOrder(list, t, date)
  BY <1>5, <1>10, <1>11, <1>12, <1>13 DEF InOrder
<1> QED BY <1>14 DEF T

\* Array.sort: the list has every place once, oldest first.
LEMMA SortedIs ==
  ASSUME NEW places, NEW date, Dated(places, date)
  PROVE  InOrder(OldestFirst(places, date), places, date)
<1>1. PICK list : InOrder(list, places, date)
  BY OrderExists
<1> DEFINE Sorts(l) == Range(l) = places /\ \A m, n \in DOMAIN l : m < n => Older(date, l[m], l[n])
           S == [1..Cardinality(places) -> places]
<1>2. \E l \in S : Sorts(l)
  BY <1>1 DEF InOrder
<1>3. OldestFirst(places, date) = CHOOSE l \in S : Sorts(l)
  BY Zenon DEF OldestFirst
<1>4. OldestFirst(places, date) \in S /\ Sorts(OldestFirst(places, date))
  BY <1>2, <1>3, Zenon
<1> QED BY <1>4 DEF InOrder

LEMMA InOrderIsOneToOne ==
  ASSUME NEW places, NEW date, Dated(places, date), NEW list, InOrder(list, places, date),
         NEW m \in DOMAIN list, NEW n \in DOMAIN list
  PROVE  /\ list[m] = list[n] => m = n
         /\ Older(date, list[m], list[n]) => m < n
<1>1. Cardinality(places) \in Nat /\ DOMAIN list = 1..Cardinality(places) /\ list[m] \in places /\ list[n] \in places
  BY FS_CardinalityType DEF Dated, InOrder
<1>2. m \in Nat /\ n \in Nat
  BY <1>1
<1>3. (m < n => Older(date, list[m], list[n])) /\ (n < m => Older(date, list[n], list[m]))
  BY DEF InOrder
<1> QED BY <1>1, <1>2, <1>3, OlderIsAnOrder

(***************************************************************************)
(* What the walk is called with.                                           *)
(***************************************************************************)
Called ==
  openCharges \in BoundedSeq(ChargeBalance, MaxCharges) /\ sources \in BoundedSeq(AllocationSource, MaxSources)

OwedOn(c)      == openCharges[c].outstandingCents
AvailableOf(i) == sources[i].availableCents

OpenPlaces == {i \in DOMAIN openCharges : HasMoney(openCharges[i].outstandingCents)}
FundPlaces == {i \in DOMAIN sources : HasMoney(sources[i].availableCents)}

LEMMA CallIs ==
  ASSUME Called
  PROVE  /\ Dated(DOMAIN openCharges, DueOn(openCharges)) /\ Dated(OpenPlaces, DueOn(openCharges))
         /\ Dated(DOMAIN sources, ReceivedOn(sources)) /\ Dated(FundPlaces, ReceivedOn(sources))
         /\ \A c \in DOMAIN openCharges : OwedOn(c) \in Nat /\ openCharges[c].dueOn \in Nat
         /\ \A i \in DOMAIN sources : AvailableOf(i) \in Nat
<1>1. PICK m \in Nat : openCharges \in [1..m -> ChargeBalance]
  BY Bounds DEF Called, BoundedSeq, SeqOf
<1>2. PICK n \in Nat : sources \in [1..n -> AllocationSource]
  BY Bounds DEF Called, BoundedSeq, SeqOf
<1>3. IsFiniteSet(DOMAIN openCharges) /\ IsFiniteSet(DOMAIN sources)
  BY <1>1, <1>2, FS_Interval
<1>4. IsFiniteSet(OpenPlaces) /\ IsFiniteSet(FundPlaces)
  BY <1>3, FS_Subset DEF OpenPlaces, FundPlaces
<1>5. \A c \in DOMAIN openCharges :
        OwedOn(c) \in Nat /\ openCharges[c].dueOn \in Nat /\ DueOn(openCharges)[c] \in Nat /\ c \in Nat
  BY <1>1, Bounds DEF ChargeBalance, OwedOn, DueOn
<1>6. \A i \in DOMAIN sources : AvailableOf(i) \in Nat /\ ReceivedOn(sources)[i] \in Nat /\ i \in Nat
  BY <1>2, Bounds DEF AllocationSource, AvailableOf, ReceivedOn
<1> QED BY <1>3, <1>4, <1>5, <1>6 DEF Dated, OpenPlaces, FundPlaces

\* The charges and the funds of the walk.
LEMMA ListsAre ==
  ASSUME Called
  PROVE  /\ InOrder(charges, OpenPlaces, DueOn(openCharges)) /\ InOrder(funds, FundPlaces, ReceivedOn(sources))
         /\ Len(charges) \in Nat /\ DOMAIN charges = 1..Len(charges)
         /\ Len(funds) \in Nat /\ DOMAIN funds = 1..Len(funds)
         /\ \A c \in 1..Len(charges) : charges[c] \in DOMAIN openCharges /\ OwedOn(charges[c]) \in Nat \ {0}
         /\ \A f \in 1..Len(funds) : funds[f] \in DOMAIN sources /\ AvailableOf(funds[f]) \in Nat \ {0}
         /\ \A c, d \in 1..Len(charges) : charges[c] = charges[d] => c = d
         /\ \A f, g \in 1..Len(funds) : funds[f] = funds[g] => f = g
         /\ \A c \in DOMAIN openCharges : OwedOn(c) = 0 \/ \E m \in 1..Len(charges) : charges[m] = c
         /\ \A i \in DOMAIN sources : AvailableOf(i) = 0 \/ \E m \in 1..Len(funds) : funds[m] = i
<1>1. InOrder(charges, OpenPlaces, DueOn(openCharges)) /\ InOrder(funds, FundPlaces, ReceivedOn(sources))
  BY CallIs, SortedIs DEF charges, funds, OpenPlaces, FundPlaces
<1>2. Cardinality(OpenPlaces) \in Nat /\ Cardinality(FundPlaces) \in Nat
  BY CallIs, FS_CardinalityType DEF Dated
<1>3. /\ charges \in [1..Cardinality(OpenPlaces) -> OpenPlaces] /\ Range(charges) = OpenPlaces
      /\ funds \in [1..Cardinality(FundPlaces) -> FundPlaces] /\ Range(funds) = FundPlaces
  BY <1>1 DEF InOrder
<1>4. Len(charges) = Cardinality(OpenPlaces) /\ Len(funds) = Cardinality(FundPlaces)
  BY <1>2, <1>3
<1>5. /\ \A c, d \in DOMAIN charges : charges[c] = charges[d] => c = d
      /\ \A f, g \in DOMAIN funds : funds[f] = funds[g] => f = g
  BY <1>1, CallIs, InOrderIsOneToOne
<1>6. \A c \in OpenPlaces : c \in DOMAIN openCharges /\ OwedOn(c) \in Nat \ {0}
  BY CallIs DEF OpenPlaces, HasMoney, OwedOn
<1>7. \A i \in FundPlaces : i \in DOMAIN sources /\ AvailableOf(i) \in Nat \ {0}
  BY CallIs DEF FundPlaces, HasMoney, AvailableOf
<1>8. /\ \A c \in DOMAIN openCharges : OwedOn(c) = 0 \/ c \in OpenPlaces
      /\ \A i \in DOMAIN sources : AvailableOf(i) = 0 \/ i \in FundPlaces
  BY CallIs DEF OpenPlaces, FundPlaces, HasMoney, OwedOn, AvailableOf
<1>9. /\ \A c \in OpenPlaces : \E m \in DOMAIN charges : charges[m] = c
      /\ \A i \in FundPlaces : \E m \in DOMAIN funds : funds[m] = i
  BY <1>3 DEF Range
<1>10. DOMAIN charges = 1..Len(charges) /\ DOMAIN funds = 1..Len(funds)
  BY <1>3, <1>4
<1>11. /\ \A c \in 1..Len(charges) : charges[c] \in OpenPlaces
       /\ \A f \in 1..Len(funds) : funds[f] \in FundPlaces
  BY <1>3, <1>4
<1> QED BY <1>1, <1>2, <1>4, <1>5, <1>6, <1>7, <1>8, <1>9, <1>10, <1>11

LEMMA PrefixesAre ==
  ASSUME Called
  PROVE  /\ AvailableUpTo(0) = 0 /\ OwedUpTo(0) = 0
         /\ \A f \in 0..Len(funds) : AvailableUpTo(f) \in Nat
         /\ \A c \in 0..Len(charges) : OwedUpTo(c) \in Nat
         /\ \A f \in 1..Len(funds) : AvailableUpTo(f) = AvailableUpTo(f - 1) + AvailableOf(funds[f])
         /\ \A c \in 1..Len(charges) : OwedUpTo(c) = OwedUpTo(c - 1) + OwedOn(charges[c])
         /\ \A f, g \in 0..Len(funds) : f <= g => AvailableUpTo(f) <= AvailableUpTo(g)
         /\ \A c, d \in 0..Len(charges) : c <= d => OwedUpTo(c) <= OwedUpTo(d)
<1>1. PICK F : F = Len(funds)
  OBVIOUS
<1>2. PICK C : C = Len(charges)
  OBVIOUS
<1> DEFINE v == [f \in 1..F |-> AvailableOf(funds[f])]
           w == [c \in 1..C |-> OwedOn(charges[c])]
<1>3. F \in Nat /\ C \in Nat /\ (\A f \in 1..F : v[f] \in Nat) /\ \A c \in 1..C : w[c] \in Nat
  BY <1>1, <1>2, ListsAre
<1>4. ASSUME NEW f \in 0..F PROVE AvailableUpTo(f) = SumFunctionOnSet(v, 1..f)
  <2> DEFINE e == [g \in 1..f |-> sources[funds[g]].availableCents]
  <2>1. IsFiniteSet(1..f) /\ \A g \in 1..f : e[g] = v[g]
    BY <1>3, FS_Interval DEF AvailableOf
  <2>2. AvailableUpTo(f) = SumFunctionOnSet(e, 1..f)
    BY DEF AvailableUpTo, SumFunction
  <2> HIDE DEF e, v
  <2> QED BY <2>1, <2>2, SumOfSame
<1>5. ASSUME NEW c \in 0..C PROVE OwedUpTo(c) = SumFunctionOnSet(w, 1..c)
  <2> DEFINE e == [d \in 1..c |-> openCharges[charges[d]].outstandingCents]
  <2>1. IsFiniteSet(1..c) /\ \A d \in 1..c : e[d] = w[d]
    BY <1>3, FS_Interval DEF OwedOn
  <2>2. OwedUpTo(c) = SumFunctionOnSet(e, 1..c)
    BY DEF OwedUpTo, SumFunction
  <2> HIDE DEF e, w
  <2> QED BY <2>1, <2>2, SumOfSame
<1>6. /\ \A f \in 1..F : v[f] = AvailableOf(funds[f])
      /\ \A c \in 1..C : w[c] = OwedOn(charges[c])
  OBVIOUS
<1>7. /\ \A f \in 0..F : SumFunctionOnSet(v, 1..f) \in Nat
      /\ SumFunctionOnSet(v, 1..0) = 0
      /\ \A f \in 1..F : SumFunctionOnSet(v, 1..f) = SumFunctionOnSet(v, 1..(f - 1)) + v[f]
      /\ \A f, g \in 0..F : f <= g => SumFunctionOnSet(v, 1..f) <= SumFunctionOnSet(v, 1..g)
  BY <1>3, PrefixSums
<1>8. /\ \A c \in 0..C : SumFunctionOnSet(w, 1..c) \in Nat
      /\ SumFunctionOnSet(w, 1..0) = 0
      /\ \A c \in 1..C : SumFunctionOnSet(w, 1..c) = SumFunctionOnSet(w, 1..(c - 1)) + w[c]
      /\ \A c, d \in 0..C : c <= d => SumFunctionOnSet(w, 1..c) <= SumFunctionOnSet(w, 1..d)
  BY <1>3, PrefixSums
<1> HIDE DEF v, w
<1>9. /\ AvailableUpTo(0) = 0 /\ \A f \in 0..F : AvailableUpTo(f) \in Nat
      /\ \A f, g \in 0..F : f <= g => AvailableUpTo(f) <= AvailableUpTo(g)
  BY <1>3, <1>4, <1>7
<1>10. /\ OwedUpTo(0) = 0 /\ \A c \in 0..C : OwedUpTo(c) \in Nat
       /\ \A c, d \in 0..C : c <= d => OwedUpTo(c) <= OwedUpTo(d)
  BY <1>3, <1>5, <1>8
<1>11. ASSUME NEW f \in 1..F PROVE AvailableUpTo(f) = AvailableUpTo(f - 1) + AvailableOf(funds[f])
  <2>1. f \in 0..F /\ f - 1 \in 0..F
    BY <1>3
  <2> QED BY <2>1, <1>4, <1>6, <1>7
<1>12. ASSUME NEW c \in 1..C PROVE OwedUpTo(c) = OwedUpTo(c - 1) + OwedOn(charges[c])
  <2>1. c \in 0..C /\ c - 1 \in 0..C
    BY <1>3
  <2> QED BY <2>1, <1>5, <1>6, <1>8
<1> QED BY <1>1, <1>2, <1>9, <1>10, <1>11, <1>12

(***************************************************************************)
(* What the allocations add up to.                                         *)
(***************************************************************************)
AllocationRows == [source : DOMAIN sources, charge : DOMAIN openCharges, cents : Nat]

LEMMA InAllIsNatural ==
  ASSUME NEW A, IsFiniteSet(A), \A n \in A : allocations[n].cents \in Nat
  PROVE  InAll(A) \in Nat
<1> DEFINE e == [n \in A |-> allocations[n].cents]
<1>1. \A n \in A : e[n] \in Nat
  OBVIOUS
<1>2. InAll(A) = SumFunctionOnSet(e, A)
  BY DEF InAll, SumFunction
<1> HIDE DEF e
<1> QED BY <1>1, <1>2, SumIsNatural

LEMMA AppendIs ==
  ASSUME NEW S, NEW s \in Seq(S), NEW a \in S
  PROVE  /\ Append(s, a) \in Seq(S) /\ Len(s) \in Nat /\ DOMAIN s = 1..Len(s)
         /\ DOMAIN Append(s, a) = 1..(Len(s) + 1) /\ Len(Append(s, a)) = Len(s) + 1
         /\ Append(s, a)[Len(s) + 1] = a
         /\ \A n \in 1..Len(s) : Append(s, a)[n] = s[n] /\ s[n] \in S
OBVIOUS

LEMMA OneMoreIn ==
  ASSUME allocations \in Seq(AllocationRows), NEW a \in AllocationRows, allocations' = Append(allocations, a),
         NEW A \in SUBSET DOMAIN allocations
  PROVE  /\ IsFiniteSet(A) /\ InAll(A) \in Nat
         /\ SumFunction([n \in A |-> allocations'[n].cents]) = InAll(A)
         /\ SumFunction([n \in A \cup {Len(allocations) + 1} |-> allocations'[n].cents]) = InAll(A) + a.cents
<1>1. PICK N : N = Len(allocations)
  OBVIOUS
<1>2. /\ N \in Nat /\ DOMAIN allocations = 1..N /\ allocations'[N + 1] = a
      /\ \A n \in 1..N : allocations'[n] = allocations[n] /\ allocations[n] \in AllocationRows
  BY <1>1, AppendIs
<1>3. IsFiniteSet(A) /\ A \subseteq 1..N
  <2>1. A \in SUBSET (1..N)
    BY <1>2
  <2>2. IsFiniteSet(1..N)
    BY <1>2, FS_Interval
  <2> QED BY <2>1, <2>2, FS_Subset
<1>4. \A n \in A : allocations'[n] = allocations[n] /\ allocations[n].cents \in Nat
  BY <1>2, <1>3 DEF AllocationRows
<1>5. a.cents \in Nat
  BY DEF AllocationRows
<1> DEFINE e == [n \in A |-> allocations[n].cents]
           h == [n \in A \cup {N + 1} |-> allocations'[n].cents]
           g == [n \in A |-> allocations'[n].cents]
<1>6. N + 1 \notin A /\ (\A n \in A : h[n] = e[n] /\ e[n] \in Nat /\ g[n] = e[n]) /\ h[N + 1] = a.cents
  BY <1>2, <1>3, <1>4
<1>7. /\ InAll(A) = SumFunctionOnSet(e, A) /\ SumFunction(g) = SumFunctionOnSet(g, A)
      /\ SumFunction(h) = SumFunctionOnSet(h, A \cup {N + 1})
  BY DEF InAll, SumFunction
<1> HIDE DEF e, h, g
<1>8. /\ SumFunctionOnSet(g, A) = SumFunctionOnSet(e, A)
      /\ SumFunctionOnSet(h, A \cup {N + 1}) = SumFunctionOnSet(e, A) + h[N + 1]
      /\ SumFunctionOnSet(e, A) \in Nat
  <2>1. SumFunctionOnSet(g, A) = SumFunctionOnSet(e, A) /\ SumFunctionOnSet(e, A) \in Nat
    BY <1>3, <1>6, SumOfSame, SumIsNatural
  <2>2. PICK m : m = N + 1
    OBVIOUS
  <2>3. m \notin A /\ (\A n \in A : h[n] = e[n] /\ e[n] \in Nat) /\ h[m] \in Nat
    BY <1>5, <1>6, <2>2
  <2>4. SumFunctionOnSet(h, A \cup {m}) = SumFunctionOnSet(e, A) + h[m]
    BY <1>3, <2>3, SumOfOneMore
  <2> QED BY <2>1, <2>2, <2>4
<1>9. InAll(A) \in Nat /\ SumFunction(g) = InAll(A) /\ SumFunction(h) = InAll(A) + a.cents
  BY <1>6, <1>7, <1>8
<1> QED BY <1>1, <1>3, <1>9 DEF g, h

LEMMA GivenGrows ==
  ASSUME allocations \in Seq(AllocationRows), NEW a \in AllocationRows, allocations' = Append(allocations, a),
         UNCHANGED openCharges, NEW i, NEW k
  PROVE  /\ Given(i, k) \in Nat
         /\ Given(i, k)' = Given(i, k) + (IF a.source = i /\ a.charge = k THEN a.cents ELSE 0)
         /\ OwedOn(k) \in Nat => /\ Left(k) \in Int
                                 /\ Left(k)' = Left(k) - (IF a.charge = k THEN a.cents ELSE 0)
<1>1. PICK N : N = Len(allocations)
  OBVIOUS
<1>2. /\ N \in Nat /\ DOMAIN allocations = 1..N /\ DOMAIN allocations' = 1..(N + 1) /\ allocations'[N + 1] = a
      /\ \A n \in 1..N : allocations'[n] = allocations[n]
  BY <1>1, AppendIs
<1>3. 1..(N + 1) = (1..N) \cup {N + 1}
  BY <1>2
<1>4. PICK A : A = {n \in DOMAIN allocations : allocations[n].source = i /\ allocations[n].charge = k}
  OBVIOUS
<1>5. PICK B : B = {n \in DOMAIN allocations : allocations[n].charge = k}
  OBVIOUS
<1>6. A \in SUBSET DOMAIN allocations /\ B \in SUBSET DOMAIN allocations
  BY <1>4, <1>5
<1>7. {n \in DOMAIN allocations' : allocations'[n].source = i /\ allocations'[n].charge = k}
        = IF a.source = i /\ a.charge = k THEN A \cup {N + 1} ELSE A
  BY <1>2, <1>3, <1>4
<1>8. {n \in DOMAIN allocations' : allocations'[n].charge = k} = IF a.charge = k THEN B \cup {N + 1} ELSE B
  BY <1>2, <1>3, <1>5
<1>9. Given(i, k) = InAll(A) /\ Left(k) = OwedOn(k) - InAll(B)
  BY <1>4, <1>5 DEF Given, Left, OwedOn
<1>10. Given(i, k)' = IF a.source = i /\ a.charge = k
                      THEN SumFunction([n \in A \cup {N + 1} |-> allocations'[n].cents])
                      ELSE SumFunction([n \in A |-> allocations'[n].cents])
  BY <1>7 DEF Given, InAll
<1>11. Left(k)' = OwedOn(k) - (IF a.charge = k
                               THEN SumFunction([n \in B \cup {N + 1} |-> allocations'[n].cents])
                               ELSE SumFunction([n \in B |-> allocations'[n].cents]))
  BY <1>8 DEF Left, InAll, OwedOn
<1>12. /\ InAll(A) \in Nat /\ SumFunction([n \in A |-> allocations'[n].cents]) = InAll(A)
       /\ SumFunction([n \in A \cup {N + 1} |-> allocations'[n].cents]) = InAll(A) + a.cents
  BY <1>1, <1>6, OneMoreIn
<1>13. /\ InAll(B) \in Nat /\ SumFunction([n \in B |-> allocations'[n].cents]) = InAll(B)
       /\ SumFunction([n \in B \cup {N + 1} |-> allocations'[n].cents]) = InAll(B) + a.cents
  BY <1>1, <1>6, OneMoreIn
<1>14. a.cents \in Nat
  BY DEF AllocationRows
<1>15. Given(i, k)' = Given(i, k) + (IF a.source = i /\ a.charge = k THEN a.cents ELSE 0)
  <2>1. CASE a.source = i /\ a.charge = k
    BY <2>1, <1>9, <1>10, <1>12
  <2>2. CASE ~(a.source = i /\ a.charge = k)
    <3>1. PICK given : given = Given(i, k)
      OBVIOUS
    <3>2. Given(i, k)' = given /\ given \in Nat
      BY <2>2, <3>1, <1>9, <1>10, <1>12
    <3> QED BY <2>2, <3>1, <3>2
  <2> QED BY <2>1, <2>2
<1>16. ASSUME OwedOn(k) \in Nat
       PROVE  Left(k) \in Int /\ Left(k)' = Left(k) - (IF a.charge = k THEN a.cents ELSE 0)
  <2>1. PICK given : given = InAll(B)
    OBVIOUS
  <2>2. given \in Nat /\ Left(k) = OwedOn(k) - given
    BY <2>1, <1>9, <1>13
  <2>3. CASE a.charge = k
    <3>1. Left(k)' = OwedOn(k) - (given + a.cents)
      BY <2>1, <2>3, <1>11, <1>13
    <3> QED BY <2>2, <2>3, <3>1, <1>14, <1>16
  <2>4. CASE a.charge # k
    <3>1. Left(k)' = OwedOn(k) - given
      BY <2>1, <2>4, <1>11, <1>13
    <3> QED BY <2>2, <2>4, <3>1, <1>16
  <2> QED BY <2>3, <2>4
<1> QED BY <1>9, <1>12, <1>15, <1>16

(***************************************************************************)
(* The walk.  The debts lie end to end, oldest first, and the money beside *)
(* them; what was given so far is a stretch from the beginning, and of it  *)
(* each source gave each charge what they have in common.                  *)
(***************************************************************************)
Least(x, y) == IF x <= y THEN x ELSE y
Most(x, y)  == IF x >= y THEN x ELSE y

\* How much of the first x cents lies between p and r as well as between q and s.
Common(p, r, q, s, x) == LET lower == Most(p, q)
                             upper == Least(Least(r, s), x)
                         IN IF upper > lower THEN upper - lower ELSE 0

InHand == IF fundIndex <= Len(funds) THEN AvailableOf(funds[fundIndex]) - remainingCents[funds[fundIndex]] ELSE 0
Laid   == AvailableUpTo(fundIndex - 1) + InHand

WalkTyped ==
  /\ Called
  /\ chargeIndex \in 0..Len(charges) /\ fundIndex \in 1..(Len(funds) + 1) /\ remainingOnCharge \in Nat
  /\ remainingCents \in [DOMAIN sources -> Nat] /\ allocations \in Seq(AllocationRows)

\* The fund in hand has money left, and those after it all of theirs.
FundsLeft ==
  \A f \in 1..Len(funds) :
    /\ f = fundIndex => remainingCents[funds[f]] \in 1..AvailableOf(funds[f])
    /\ f > fundIndex => remainingCents[funds[f]] = AvailableOf(funds[f])

\* What was taken is what was paid.
Even ==
  /\ remainingOnCharge <= (IF chargeIndex = 0 THEN 0 ELSE OwedOn(charges[chargeIndex]))
  /\ Laid = OwedUpTo(chargeIndex) - remainingOnCharge

GivenInOrder ==
  \A f \in 1..Len(funds), c \in 1..Len(charges) :
    Given(funds[f], charges[c])
      = Common(AvailableUpTo(f - 1), AvailableUpTo(f), OwedUpTo(c - 1), OwedUpTo(c), Laid)

LeftInOrder ==
  \A c \in 1..Len(charges) :
    Left(charges[c]) = IF c < chargeIndex THEN 0
                       ELSE IF c = chargeIndex THEN remainingOnCharge ELSE OwedOn(charges[c])

\* An allocation is of a fund and a charge the walk has had in hand, but not of what it will do next.
WalkedOver ==
  \A n \in DOMAIN allocations :
    /\ allocations[n].cents > 0
    /\ \E f \in 1..Len(funds), c \in 1..Len(charges) :
         /\ allocations[n].source = funds[f] /\ allocations[n].charge = charges[c]
         /\ f <= fundIndex /\ c <= chargeIndex
         /\ f < fundIndex \/ c < chargeIndex \/ remainingOnCharge = 0

WalkInv ==
  WalkTyped /\ FundsLeft /\ Even /\ GivenInOrder /\ LeftInOrder /\ WalkedOver /\ ConfirmsAsProposed

\* A turn of the inner loop, in terms of the fund and the charge in hand.
LEMMA AllocateIs ==
  ASSUME WalkTyped, FundsLeft, Even, Allocate
  PROVE  \E s, k, a :
           /\ fundIndex \in 1..Len(funds) /\ chargeIndex \in 1..Len(charges)
           /\ s = funds[fundIndex] /\ s \in DOMAIN sources /\ k = charges[chargeIndex] /\ k \in DOMAIN openCharges
           /\ a \in Nat \ {0} /\ a <= remainingOnCharge /\ a <= remainingCents[s]
           /\ a = remainingOnCharge \/ a = remainingCents[s]
           /\ [source |-> s, charge |-> k, cents |-> a] \in AllocationRows
           /\ allocations' = Append(allocations, [source |-> s, charge |-> k, cents |-> a])
           /\ remainingCents' = [remainingCents EXCEPT ![s] = remainingCents[s] - a]
           /\ remainingOnCharge' = remainingOnCharge - a
           /\ fundIndex' = IF a = remainingCents[s] THEN fundIndex + 1 ELSE fundIndex
           /\ UNCHANGED <<openCharges, sources, chargeIndex>>
<1>1. fundIndex \in 1..Len(funds) /\ remainingOnCharge > 0
  BY ListsAre DEF Allocate, WalkTyped
<1>2. chargeIndex \in 1..Len(charges)
  BY <1>1, ListsAre DEF WalkTyped, Even
<1>3. PICK s : s = funds[fundIndex]
  OBVIOUS
<1>4. PICK k : k = charges[chargeIndex]
  OBVIOUS
<1>5. PICK a : a = Smaller(remainingOnCharge, remainingCents[s])
  OBVIOUS
<1>6. s \in DOMAIN sources /\ k \in DOMAIN openCharges
  BY <1>1, <1>2, <1>3, <1>4, ListsAre DEF WalkTyped
<1>7. remainingCents[s] \in Nat \ {0} /\ remainingOnCharge \in Nat \ {0}
  BY <1>1, <1>3, <1>6, ListsAre DEF WalkTyped, FundsLeft
<1>8. /\ a \in Nat \ {0} /\ a <= remainingOnCharge /\ a <= remainingCents[s]
      /\ a = remainingOnCharge \/ a = remainingCents[s]
  BY <1>5, <1>7 DEF Smaller
<1>9. [source |-> s, charge |-> k, cents |-> a] \in AllocationRows
  BY <1>6, <1>8 DEF AllocationRows
<1>10. /\ allocations' = Append(allocations, [source |-> s, charge |-> k, cents |-> a])
       /\ remainingCents' = [remainingCents EXCEPT ![s] = remainingCents[s] - a]
       /\ remainingOnCharge' = remainingOnCharge - a
       /\ fundIndex' = IF Spent(remainingCents[s] - a) THEN fundIndex + 1 ELSE fundIndex
       /\ UNCHANGED <<openCharges, sources, chargeIndex>>
  BY <1>3, <1>4, <1>5 DEF Allocate
<1>11. Spent(remainingCents[s] - a) <=> a = remainingCents[s]
  BY <1>7, <1>8 DEF Spent
<1> QED BY <1>1, <1>2, <1>3, <1>4, <1>6, <1>8, <1>9, <1>10, <1>11

LEMMA NothingInCommon ==
  ASSUME NEW p \in Nat, NEW r \in Nat, NEW q \in Nat, NEW s \in Nat PROVE Common(p, r, q, s, 0) = 0
BY DEF Common, Least, Most

LEMMA CallStays ==
  ASSUME UNCHANGED <<openCharges, sources>>
  PROVE  /\ charges' = charges /\ funds' = funds /\ (Called => Called') /\ AllocationRows' = AllocationRows
         /\ \A f : AvailableUpTo(f)' = AvailableUpTo(f)
         /\ \A c : OwedUpTo(c)' = OwedUpTo(c)
         /\ \A c : OwedOn(c)' = OwedOn(c)
         /\ \A i : AvailableOf(i)' = AvailableOf(i)
<1>1. charges' = charges /\ funds' = funds
  BY DEF charges, funds
<1> QED BY <1>1 DEF Called, AllocationRows, AvailableUpTo, OwedUpTo, OwedOn, AvailableOf

LEMMA WalkBegins == Init => WalkInv
<1> SUFFICES ASSUME Init PROVE WalkInv
  OBVIOUS
<1>1. Called /\ allocations = <<>> /\ chargeIndex = 0 /\ fundIndex = 1 /\ remainingOnCharge = 0
  BY DEF Init, Called
<1>2. remainingCents \in [DOMAIN sources -> Nat] /\ \A i \in DOMAIN sources : remainingCents[i] = AvailableOf(i)
  BY <1>1, CallIs DEF Init, AvailableOf
<1>3. DOMAIN allocations = {} /\ allocations \in Seq(AllocationRows)
  BY <1>1
<1>4. InAll({}) = 0
  <2> DEFINE e == [n \in {} |-> allocations[n].cents]
  <2>1. InAll({}) = SumFunctionOnSet(e, {})
    BY DEF InAll, SumFunction
  <2> HIDE DEF e
  <2> QED BY <2>1, SumOfNone
<1>5. \A i, k : Given(i, k) = 0
  BY <1>3, <1>4 DEF Given
<1>6. \A k \in DOMAIN openCharges : Left(k) = OwedOn(k)
  <2> SUFFICES ASSUME NEW k \in DOMAIN openCharges PROVE Left(k) = OwedOn(k)
    OBVIOUS
  <2>1. Left(k) = OwedOn(k) - InAll({})
    BY <1>3 DEF Left, OwedOn
  <2>2. OwedOn(k) \in Nat
    BY <1>1, CallIs
  <2> QED BY <2>1, <2>2, <1>4
<1>7. WalkTyped
  BY <1>1, <1>2, <1>3, ListsAre DEF WalkTyped
<1>8. FundsLeft
  BY <1>1, <1>2, ListsAre DEF FundsLeft
<1>9. Laid = 0
  <2>1. InHand = 0
    BY <1>1, <1>2, ListsAre DEF InHand
  <2> QED BY <1>1, <2>1, PrefixesAre DEF Laid
<1>10. Even
  BY <1>1, <1>9, PrefixesAre DEF Even
<1>11. GivenInOrder
  <2> SUFFICES ASSUME NEW f \in 1..Len(funds), NEW c \in 1..Len(charges)
               PROVE  Common(AvailableUpTo(f - 1), AvailableUpTo(f), OwedUpTo(c - 1), OwedUpTo(c), 0) = 0
    BY <1>5, <1>9 DEF GivenInOrder
  <2>1. f \in 0..Len(funds) /\ f - 1 \in 0..Len(funds) /\ c \in 0..Len(charges) /\ c - 1 \in 0..Len(charges)
    BY <1>1, ListsAre
  <2>2. /\ AvailableUpTo(f - 1) \in Nat /\ AvailableUpTo(f) \in Nat
        /\ OwedUpTo(c - 1) \in Nat /\ OwedUpTo(c) \in Nat
    BY <1>1, <2>1, PrefixesAre
  <2> QED BY <2>2, NothingInCommon
<1>12. LeftInOrder
  BY <1>1, <1>6, ListsAre DEF LeftInOrder
<1>13. WalkedOver /\ ConfirmsAsProposed
  BY <1>3 DEF WalkedOver, ConfirmsAsProposed
<1> QED BY <1>7, <1>8, <1>10, <1>11, <1>12, <1>13 DEF WalkInv

\* The outer loop: the next charge lies where what was given so far ends.
LEMMA NextChargeHolds == ASSUME WalkInv, NextCharge PROVE WalkInv'
<1>1. /\ WalkTyped /\ Called /\ FundsLeft /\ Even /\ GivenInOrder /\ LeftInOrder /\ WalkedOver /\ ConfirmsAsProposed
  BY DEF WalkInv, WalkTyped
<1>2. PICK c : c = chargeIndex + 1
  OBVIOUS
<1>3. /\ remainingOnCharge = 0 /\ chargeIndex' = c /\ remainingOnCharge' = OwedOn(charges[c])
      /\ chargeIndex < Len(charges)
      /\ UNCHANGED <<openCharges, sources, fundIndex, remainingCents, allocations>>
  BY <1>2 DEF NextCharge, OwedOn
<1>4. c \in 1..Len(charges) /\ chargeIndex \in 0..Len(charges) /\ c - 1 = chargeIndex /\ c # 0
  BY <1>1, <1>2, <1>3, ListsAre DEF WalkTyped
<1>5. /\ charges' = charges /\ funds' = funds /\ Called' /\ AllocationRows' = AllocationRows
      /\ \A f : AvailableUpTo(f)' = AvailableUpTo(f)
      /\ \A d : OwedUpTo(d)' = OwedUpTo(d)
      /\ \A d : OwedOn(d)' = OwedOn(d)
      /\ \A i : AvailableOf(i)' = AvailableOf(i)
  BY <1>1, <1>3, CallStays
<1>6. Laid' = Laid
  BY <1>3, <1>5 DEF Laid, InHand
<1>7. OwedOn(charges[c]) \in Nat
  BY <1>1, <1>4, ListsAre
<1>8. WalkTyped'
  <2>1. c \in 0..Len(charges)
    BY <1>4
  <2> QED BY <1>1, <1>3, <1>5, <1>7, <2>1 DEF WalkTyped
<1>9. FundsLeft'
  BY <1>1, <1>3, <1>5 DEF FundsLeft
<1>10. Even'
  <2>1. OwedUpTo(c) = OwedUpTo(c - 1) + OwedOn(charges[c]) /\ OwedUpTo(c - 1) \in Nat
    BY <1>1, <1>4, PrefixesAre
  <2>2. Laid = OwedUpTo(c - 1) - 0
    BY <1>1, <1>3, <1>4 DEF Even
  <2>3. Laid = OwedUpTo(c) - OwedOn(charges[c])
    BY <2>1, <2>2, <1>7
  <2> QED BY <1>3, <1>4, <1>5, <1>6, <1>7, <2>3 DEF Even
<1>11. GivenInOrder'
  BY <1>1, <1>3, <1>5, <1>6 DEF GivenInOrder, Given, InAll
<1>12. LeftInOrder'
  <2> SUFFICES ASSUME NEW d \in 1..Len(charges)
               PROVE  Left(charges[d]) = IF d < c THEN 0
                                         ELSE IF d = c THEN OwedOn(charges[c]) ELSE OwedOn(charges[d])
    BY <1>3, <1>5 DEF LeftInOrder, Left, InAll
  <2>1. Left(charges[d]) = IF d < chargeIndex THEN 0
                           ELSE IF d = chargeIndex THEN 0 ELSE OwedOn(charges[d])
    BY <1>1, <1>3 DEF LeftInOrder
  <2> QED BY <2>1, <1>4
<1>13. WalkedOver'
  <2> SUFFICES ASSUME NEW n \in DOMAIN allocations
               PROVE  /\ allocations[n].cents > 0
                      /\ \E f \in 1..Len(funds), d \in 1..Len(charges) :
                           /\ allocations[n].source = funds[f] /\ allocations[n].charge = charges[d]
                           /\ f <= fundIndex /\ d <= c
                           /\ f < fundIndex \/ d < c \/ remainingOnCharge' = 0
    BY <1>3, <1>5 DEF WalkedOver
  <2>1. PICK f \in 1..Len(funds), d \in 1..Len(charges) :
          /\ allocations[n].source = funds[f] /\ allocations[n].charge = charges[d]
          /\ f <= fundIndex /\ d <= chargeIndex
    BY <1>1 DEF WalkedOver
  <2>2. d <= c /\ d < c
    BY <1>4, <2>1
  <2> QED BY <1>1, <2>1, <2>2 DEF WalkedOver
<1>14. ConfirmsAsProposed'
  BY <1>1, <1>3 DEF ConfirmsAsProposed
<1> QED BY <1>8, <1>9, <1>10, <1>11, <1>12, <1>13, <1>14 DEF WalkInv

\* The inner loop: what was given grows by what the fund and the charge in hand have in common,
\* and no other pair has a share of it.
LEMMA AllocateHolds == ASSUME WalkInv, Allocate PROVE WalkInv'
<1>1. /\ WalkTyped /\ Called /\ FundsLeft /\ Even /\ GivenInOrder /\ LeftInOrder /\ WalkedOver /\ ConfirmsAsProposed
  BY DEF WalkInv, WalkTyped
<1>2. PICK s, k, a :
           /\ fundIndex \in 1..Len(funds) /\ chargeIndex \in 1..Len(charges)
           /\ s = funds[fundIndex] /\ s \in DOMAIN sources /\ k = charges[chargeIndex] /\ k \in DOMAIN openCharges
           /\ a \in Nat \ {0} /\ a <= remainingOnCharge /\ a <= remainingCents[s]
           /\ a = remainingOnCharge \/ a = remainingCents[s]
           /\ [source |-> s, charge |-> k, cents |-> a] \in AllocationRows
           /\ allocations' = Append(allocations, [source |-> s, charge |-> k, cents |-> a])
           /\ remainingCents' = [remainingCents EXCEPT ![s] = remainingCents[s] - a]
           /\ remainingOnCharge' = remainingOnCharge - a
           /\ fundIndex' = IF a = remainingCents[s] THEN fundIndex + 1 ELSE fundIndex
           /\ UNCHANGED <<openCharges, sources, chargeIndex>>
  BY <1>1, AllocateIs
<1>3. PICK F, C, x : F = Len(funds) /\ C = Len(charges) /\ x = Laid
  OBVIOUS
<1>4. PICK f, c : f = fundIndex /\ c = chargeIndex
  OBVIOUS
<1>5. PICK row : row = [source |-> s, charge |-> k, cents |-> a]
  OBVIOUS
<1>6. row \in AllocationRows /\ row.source = s /\ row.charge = k /\ row.cents = a /\ allocations' = Append(allocations, row)
  BY <1>2, <1>5
<1>7. /\ charges' = charges /\ funds' = funds /\ Called' /\ AllocationRows' = AllocationRows
      /\ \A g : AvailableUpTo(g)' = AvailableUpTo(g)
      /\ \A d : OwedUpTo(d)' = OwedUpTo(d)
      /\ \A d : OwedOn(d)' = OwedOn(d)
      /\ \A i : AvailableOf(i)' = AvailableOf(i)
  BY <1>1, <1>2, CallStays
<1>8. /\ F \in Nat /\ C \in Nat /\ f \in 1..F /\ c \in 1..C /\ f - 1 \in 0..F /\ c - 1 \in 0..C /\ f \in 0..F /\ c \in 0..C
      /\ \A g \in 1..F : funds[g] \in DOMAIN sources /\ (funds[g] = s <=> g = f)
      /\ \A d \in 1..C : charges[d] \in DOMAIN openCharges /\ OwedOn(charges[d]) \in Nat \ {0} /\ (charges[d] = k <=> d = c)
  BY <1>1, <1>2, <1>3, <1>4, ListsAre
<1>9. /\ remainingCents \in [DOMAIN sources -> Nat] /\ remainingOnCharge \in Nat \ {0}
      /\ remainingCents[s] \in Nat /\ remainingCents[s] <= AvailableOf(s) /\ AvailableOf(s) \in Nat
      /\ remainingOnCharge <= OwedOn(k)
  <2>1. AvailableOf(s) \in Nat
    BY <1>1, <1>2, ListsAre
  <2>2. remainingCents[s] \in 1..AvailableOf(s)
    BY <1>1, <1>2 DEF FundsLeft
  <2>3. remainingOnCharge \in Nat /\ remainingOnCharge <= OwedOn(k)
    BY <1>1, <1>2, ListsAre DEF WalkTyped, Even
  <2>4. remainingOnCharge # 0
    BY <1>2, <2>3
  <2> QED BY <1>1, <2>1, <2>2, <2>3, <2>4 DEF WalkTyped
<1>10. /\ AvailableUpTo(f - 1) \in Nat /\ AvailableUpTo(f) = AvailableUpTo(f - 1) + AvailableOf(s)
       /\ OwedUpTo(c - 1) \in Nat /\ OwedUpTo(c) = OwedUpTo(c - 1) + OwedOn(k) /\ OwedOn(k) \in Nat
  BY <1>1, <1>2, <1>3, <1>4, <1>8, PrefixesAre
<1>11. x = AvailableUpTo(f - 1) + (AvailableOf(s) - remainingCents[s]) /\ x = OwedUpTo(c) - remainingOnCharge
  <2>1. fundIndex <= Len(funds)
    BY <1>3, <1>4, <1>8
  <2>2. InHand = AvailableOf(s) - remainingCents[s]
    BY <1>2, <2>1 DEF InHand
  <2>3. x = AvailableUpTo(f - 1) + (AvailableOf(s) - remainingCents[s])
    BY <1>3, <1>4, <2>2 DEF Laid
  <2>4. x = OwedUpTo(c) - remainingOnCharge
    BY <1>1, <1>3, <1>4 DEF Even
  <2> QED BY <2>3, <2>4
<1>12. /\ x \in Nat /\ AvailableUpTo(f - 1) <= x /\ x + a <= AvailableUpTo(f)
       /\ OwedUpTo(c - 1) <= x /\ x + a <= OwedUpTo(c)
  <2>1. PICK rest, all, p, q, owed, left :
          /\ rest = remainingCents[s] /\ all = AvailableOf(s) /\ p = AvailableUpTo(f - 1)
          /\ q = OwedUpTo(c - 1) /\ owed = OwedOn(k) /\ left = remainingOnCharge
    OBVIOUS
  <2>2. rest \in Nat /\ all \in Nat /\ p \in Nat /\ q \in Nat /\ owed \in Nat /\ left \in Nat
    BY <1>9, <1>10, <2>1
  <2>3. a \in Nat /\ a <= left /\ a <= rest /\ rest <= all /\ left <= owed
    BY <1>2, <1>9, <2>1
  <2>4. /\ AvailableUpTo(f) = p + all /\ OwedUpTo(c) = q + owed
        /\ x = p + (all - rest) /\ x = (q + owed) - left
    BY <1>10, <1>11, <2>1
  <2>5. x \in Nat /\ p <= x /\ x + a <= p + all /\ q <= x /\ x + a <= q + owed
    BY <2>2, <2>3, <2>4
  <2> QED BY <2>1, <2>4, <2>5
<1>12a. x \in Nat /\ a \in Nat
  BY <1>2, <1>12
<1>13. /\ \A i \in DOMAIN sources : remainingCents'[i] = IF i = s THEN remainingCents[s] - a ELSE remainingCents[i]
       /\ remainingCents[s] - a \in Nat /\ remainingCents' \in [DOMAIN sources -> Nat]
  BY <1>2, <1>9
<1>14. Laid' = x + a
  <2>1. CASE a = remainingCents[s]
    <3>1. fundIndex' = f + 1 /\ fundIndex' - 1 = f
      BY <1>2, <1>4, <1>8, <2>1
    <3>2. InHand' = 0
      <4>1. CASE f + 1 <= F
        <5>1. f + 1 \in 1..F /\ f + 1 # f /\ f + 1 > f
          BY <1>8, <4>1
        <5>2. PICK j : j = funds[f + 1]
          OBVIOUS
        <5>3. j \in DOMAIN sources /\ j # s
          BY <1>8, <5>1, <5>2
        <5>4. remainingCents'[j] = AvailableOf(j) /\ AvailableOf(j) \in Nat
          BY <1>1, <1>3, <1>4, <1>13, <5>1, <5>2, <5>3, ListsAre DEF FundsLeft
        <5> QED BY <1>3, <1>7, <3>1, <4>1, <5>2, <5>4 DEF InHand
      <4>2. CASE ~(f + 1 <= F)
        BY <1>3, <1>7, <3>1, <4>2 DEF InHand
      <4> QED BY <4>1, <4>2
    <3>3. Laid' = AvailableUpTo(f) + 0
      BY <1>7, <3>1, <3>2 DEF Laid
    <3> QED BY <1>9, <1>10, <1>11, <2>1, <3>3
  <2>2. CASE a # remainingCents[s]
    <3>1. fundIndex' = f /\ f <= F
      BY <1>2, <1>4, <1>8, <2>2
    <3>2. InHand' = AvailableOf(s) - (remainingCents[s] - a)
      BY <1>2, <1>3, <1>4, <1>7, <1>13, <3>1 DEF InHand
    <3>3. Laid' = AvailableUpTo(f - 1) + (AvailableOf(s) - (remainingCents[s] - a))
      BY <1>7, <3>1, <3>2 DEF Laid
    <3>4. PICK rest, all, p : rest = remainingCents[s] /\ all = AvailableOf(s) /\ p = AvailableUpTo(f - 1)
      OBVIOUS
    <3>5. rest \in Nat /\ all \in Nat /\ p \in Nat /\ a \in Nat
      BY <1>2, <1>9, <1>10, <3>4
    <3>6. Laid' = p + (all - (rest - a)) /\ x = p + (all - rest)
      BY <1>11, <3>3, <3>4
    <3> QED BY <3>5, <3>6
  <2> QED BY <2>1, <2>2
<1>15. WalkTyped'
  <2>1. allocations' \in Seq(AllocationRows)
    BY <1>1, <1>6, AppendIs DEF WalkTyped
  <2>2. fundIndex' \in 1..(F + 1) /\ chargeIndex' \in 0..C /\ remainingOnCharge' \in Nat
    BY <1>2, <1>4, <1>8, <1>9
  <2> QED BY <1>2, <1>3, <1>7, <1>13, <2>1, <2>2 DEF WalkTyped
<1>16. FundsLeft'
  <2> SUFFICES ASSUME NEW g \in 1..F
               PROVE  /\ g = fundIndex' => remainingCents'[funds[g]] \in 1..AvailableOf(funds[g])
                      /\ g > fundIndex' => remainingCents'[funds[g]] = AvailableOf(funds[g])
    BY <1>3, <1>7 DEF FundsLeft
  <2>1. /\ g = f => remainingCents[funds[g]] \in 1..AvailableOf(funds[g])
        /\ g > f => remainingCents[funds[g]] = AvailableOf(funds[g])
        /\ AvailableOf(funds[g]) \in Nat \ {0}
    BY <1>1, <1>3, <1>4, ListsAre DEF FundsLeft
  <2>2. CASE g > f
    <3>1. remainingCents'[funds[g]] = AvailableOf(funds[g])
      BY <1>8, <1>13, <2>1, <2>2
    <3> QED BY <2>1, <3>1
  <2>3. CASE g = f
    <3>1. funds[g] = s /\ remainingCents'[s] = remainingCents[s] - a
      BY <1>8, <1>13, <2>3
    <3>2. CASE a = remainingCents[s]
      <4>1. fundIndex' = f + 1
        BY <1>2, <1>4, <3>2
      <4> QED BY <1>8, <2>3, <4>1
    <3>3. CASE a # remainingCents[s]
      <4>1. fundIndex' = f /\ remainingCents[s] - a \in 1..AvailableOf(s)
        BY <1>2, <1>4, <1>9, <3>3
      <4> QED BY <1>8, <2>3, <3>1, <4>1
    <3> QED BY <3>2, <3>3
  <2>4. CASE g < f
    <3>1. fundIndex' >= f
      BY <1>2, <1>4, <1>8
    <3> QED BY <1>2, <1>4, <1>8, <2>4, <3>1
  <2> QED BY <1>8, <2>2, <2>3, <2>4
<1>17. Even'
  <2>1. x + a = OwedUpTo(c) - (remainingOnCharge - a)
    BY <1>2, <1>9, <1>10, <1>11
  <2>2. remainingOnCharge - a <= OwedOn(k)
    BY <1>2, <1>9, <1>10
  <2>3. chargeIndex' = c /\ c # 0 /\ charges'[c] = k
    BY <1>2, <1>4, <1>7, <1>8
  <2> QED BY <1>2, <1>7, <1>14, <2>1, <2>2, <2>3 DEF Even
<1>18. GivenInOrder'
  <2> SUFFICES ASSUME NEW g \in 1..F, NEW d \in 1..C
               PROVE  Given(funds[g], charges[d])'
                        = Common(AvailableUpTo(g - 1), AvailableUpTo(g), OwedUpTo(d - 1), OwedUpTo(d), x + a)
    BY <1>3, <1>7, <1>14 DEF GivenInOrder, Common
  <2>1. g \in 0..F /\ g - 1 \in 0..F /\ d \in 0..C /\ d - 1 \in 0..C
    BY <1>8
  <2>2. PICK p, r, q, t : p = AvailableUpTo(g - 1) /\ r = AvailableUpTo(g) /\ q = OwedUpTo(d - 1) /\ t = OwedUpTo(d)
    OBVIOUS
  <2>3. p \in Nat /\ r \in Nat /\ q \in Nat /\ t \in Nat
    BY <1>1, <1>3, <2>1, <2>2, PrefixesAre
  <2>4. Given(funds[g], charges[d]) = Common(p, r, q, t, x)
    BY <1>1, <1>3, <2>2 DEF GivenInOrder
  <2>5. PICK i, j : i = funds[g] /\ j = charges[d]
    OBVIOUS
  <2>6. Given(funds[g], charges[d])' = Given(i, j)'
    BY <1>7, <2>5
  <2>7. Given(i, j)' = Given(i, j) + (IF s = i /\ k = j THEN a ELSE 0) /\ Given(i, j) \in Nat
    BY <1>1, <1>2, <1>6, GivenGrows DEF WalkTyped
  <2>8. CASE g = f /\ d = c
    <3>1. s = i /\ k = j
      BY <1>8, <2>5, <2>8
    <3>2. p <= x /\ q <= x /\ x + a <= r /\ x + a <= t
      BY <1>12, <2>2, <2>8
    <3>3. Common(p, r, q, t, x + a) = Common(p, r, q, t, x) + a
      BY <1>12a, <2>3, <3>2 DEF Common, Least, Most
    <3> QED BY <2>2, <2>4, <2>5, <2>6, <2>7, <3>1, <3>3
  <2>9. CASE ~(g = f /\ d = c)
    <3>1. ~(s = i /\ k = j)
      BY <1>8, <2>5, <2>9
    <3>2. r <= x \/ t <= x \/ p >= x + a \/ q >= x + a
      <4>1. g < f => g <= f - 1
        BY <1>8
      <4>2. g > f => f <= g - 1
        BY <1>8
      <4>3. d < c => d <= c - 1
        BY <1>8
      <4>4. d > c => c <= d - 1
        BY <1>8
      <4>5. g < f => r <= AvailableUpTo(f - 1)
        BY <1>1, <1>3, <1>8, <2>1, <2>2, <4>1, PrefixesAre
      <4>6. g > f => AvailableUpTo(f) <= p
        BY <1>1, <1>3, <1>8, <2>1, <2>2, <4>2, PrefixesAre
      <4>7. d < c => t <= OwedUpTo(c - 1)
        BY <1>1, <1>3, <1>8, <2>1, <2>2, <4>3, PrefixesAre
      <4>8. d > c => OwedUpTo(c) <= q
        BY <1>1, <1>3, <1>8, <2>1, <2>2, <4>4, PrefixesAre
      <4>9. g < f \/ g > f \/ d < c \/ d > c
        BY <1>8, <2>9
      <4>10. AvailableUpTo(f) \in Nat /\ OwedUpTo(c) \in Nat
        BY <1>1, <1>3, <1>8, PrefixesAre
      <4>11. PICK v, w, y, z : /\ v = AvailableUpTo(f - 1) /\ w = AvailableUpTo(f)
                               /\ y = OwedUpTo(c - 1) /\ z = OwedUpTo(c)
        OBVIOUS
      <4>12. v \in Nat /\ w \in Nat /\ y \in Nat /\ z \in Nat /\ v <= x /\ x + a <= w /\ y <= x /\ x + a <= z
        BY <1>10, <1>12, <4>10, <4>11
      <4>13. r <= v \/ w <= p \/ t <= y \/ z <= q
        BY <4>5, <4>6, <4>7, <4>8, <4>9, <4>11
      <4> QED BY <1>12a, <2>3, <4>12, <4>13
    <3>3. Common(p, r, q, t, x + a) = Common(p, r, q, t, x)
      BY <1>12a, <2>3, <3>2 DEF Common, Least, Most
    <3>4. Given(i, j)' = Given(i, j)
      BY <2>7, <3>1
    <3> QED BY <2>2, <2>4, <2>5, <2>6, <3>3, <3>4
  <2> QED BY <2>8, <2>9
<1>19. LeftInOrder'
  <2> SUFFICES ASSUME NEW d \in 1..C
               PROVE  Left(charges[d])' = IF d < c THEN 0
                                          ELSE IF d = c THEN remainingOnCharge - a ELSE OwedOn(charges[d])
    BY <1>2, <1>3, <1>4, <1>7 DEF LeftInOrder
  <2>1. Left(charges[d]) = IF d < c THEN 0 ELSE IF d = c THEN remainingOnCharge ELSE OwedOn(charges[d])
    BY <1>1, <1>3, <1>4 DEF LeftInOrder
  <2>2. PICK j : j = charges[d]
    OBVIOUS
  <2>3. OwedOn(j) \in Nat /\ Left(charges[d])' = Left(j)'
    BY <1>7, <1>8, <2>2
  <2>4. Left(j)' = Left(j) - (IF k = j THEN a ELSE 0) /\ Left(j) \in Int
    BY <1>1, <1>2, <1>6, <2>3, GivenGrows DEF WalkTyped
  <2>5. k = j <=> d = c
    BY <1>8, <2>2
  <2>6. CASE d = c
    <3>1. Left(j)' = Left(j) - a /\ Left(j) = remainingOnCharge
      BY <1>8, <2>1, <2>2, <2>4, <2>5, <2>6
    <3> QED BY <1>8, <2>3, <2>6, <3>1
  <2>7. CASE d # c
    <3>1. Left(j)' = Left(j)
      BY <2>4, <2>5, <2>7
    <3> QED BY <2>1, <2>2, <2>3, <2>7, <3>1
  <2> QED BY <2>6, <2>7
<1>20. PICK N : N = Len(allocations)
  OBVIOUS
<1>21. /\ N \in Nat /\ DOMAIN allocations = 1..N /\ DOMAIN allocations' = 1..(N + 1) /\ allocations'[N + 1] = row
       /\ \A n \in 1..N : allocations'[n] = allocations[n]
       /\ \A n \in 1..(N + 1) : n \in 1..N \/ n = N + 1
  BY <1>1, <1>6, <1>20, AppendIs DEF WalkTyped
<1>22. fundIndex' >= f /\ (f < fundIndex' \/ remainingOnCharge' = 0)
  <2>1. CASE a = remainingCents[s]
    BY <1>2, <1>4, <1>8, <2>1
  <2>2. CASE a # remainingCents[s]
    <3>1. fundIndex' = f /\ remainingOnCharge' = remainingOnCharge - a /\ a = remainingOnCharge
      BY <1>2, <1>4, <2>2
    <3>2. f \in Nat /\ a \in Nat
      BY <1>2, <1>8
    <3> QED BY <3>1, <3>2
  <2> QED BY <2>1, <2>2
<1>23. WalkedOver'
  <2> SUFFICES ASSUME NEW n \in 1..(N + 1)
               PROVE  /\ allocations'[n].cents > 0
                      /\ \E g \in 1..F, d \in 1..C :
                           /\ allocations'[n].source = funds[g] /\ allocations'[n].charge = charges[d]
                           /\ g <= fundIndex' /\ d <= c
                           /\ g < fundIndex' \/ d < c \/ remainingOnCharge' = 0
    <3>1. charges' = charges /\ funds' = funds /\ chargeIndex' = c /\ DOMAIN allocations' = 1..(N + 1)
      BY <1>2, <1>4, <1>7, <1>21
    <3> QED BY <1>3, <3>1 DEF WalkedOver
  <2>1. CASE n = N + 1
    <3>1. allocations'[n].cents > 0 /\ allocations'[n].source = funds[f] /\ allocations'[n].charge = charges[c]
      BY <1>2, <1>4, <1>6, <1>21, <2>1
    <3>2. f <= fundIndex' /\ c <= c
      BY <1>8, <1>22, <1>2, <1>4
    <3> QED BY <1>8, <1>22, <3>1, <3>2
  <2>2. CASE n \in 1..N
    <3>1. allocations[n].cents > 0
      BY <1>1, <1>21, <2>2 DEF WalkedOver
    <3>2. PICK g \in 1..F, d \in 1..C :
            /\ allocations[n].source = funds[g] /\ allocations[n].charge = charges[d]
            /\ g <= f /\ d <= c
            /\ g < f \/ d < c \/ remainingOnCharge = 0
      BY <1>1, <1>3, <1>4, <1>21, <2>2 DEF WalkedOver
    <3>3. fundIndex' \in Int /\ fundIndex' >= f
      BY <1>2, <1>4, <1>8, <1>22
    <3>4. g <= fundIndex' /\ (g < fundIndex' \/ d < c)
      BY <1>8, <1>9, <3>2, <3>3
    <3> QED BY <1>21, <2>2, <3>1, <3>2, <3>4
  <2> QED BY <1>21, <2>1, <2>2
<1>24. ConfirmsAsProposed'
  <2>1. \A n \in 1..N : allocations[n].source # s \/ allocations[n].charge # k
    <3> SUFFICES ASSUME NEW n \in 1..N, allocations[n].source = s, allocations[n].charge = k PROVE FALSE
      OBVIOUS
    <3>1. PICK g \in 1..F, d \in 1..C :
            /\ s = funds[g] /\ k = charges[d]
            /\ g < f \/ d < c \/ remainingOnCharge = 0
      BY <1>1, <1>3, <1>4, <1>21 DEF WalkedOver
    <3>2. g = f /\ d = c
      BY <1>8, <3>1
    <3> QED BY <1>8, <1>9, <3>1, <3>2
  <2>2. \A n \in 1..(N + 1) : allocations'[n].cents > 0
    BY <1>21, <1>23 DEF WalkedOver
  <2>3. ASSUME NEW m \in 1..(N + 1), NEW n \in 1..(N + 1), m # n
        PROVE  \/ allocations'[m].source # allocations'[n].source
               \/ allocations'[m].charge # allocations'[n].charge
    <3>1. CASE m \in 1..N /\ n \in 1..N
      BY <1>1, <1>21, <2>3, <3>1 DEF ConfirmsAsProposed
    <3>2. CASE m \in 1..N /\ n = N + 1
      BY <1>6, <1>21, <2>1, <3>2
    <3>3. CASE m = N + 1 /\ n \in 1..N
      BY <1>6, <1>21, <2>1, <3>3
    <3> QED BY <1>21, <2>3, <3>1, <3>2, <3>3
  <2> QED BY <1>21, <2>2, <2>3 DEF ConfirmsAsProposed
<1> QED BY <1>15, <1>16, <1>17, <1>18, <1>19, <1>23, <1>24 DEF WalkInv

LEMMA WalkStep == WalkInv /\ [Next]_vars => WalkInv'
<1> SUFFICES ASSUME WalkInv, [Next]_vars PROVE WalkInv'
  OBVIOUS
<1>1. CASE NextCharge
  BY <1>1, NextChargeHolds
<1>2. CASE Allocate
  BY <1>2, AllocateHolds
<1>3. CASE UNCHANGED vars
  <2>1. UNCHANGED <<openCharges, sources, chargeIndex, fundIndex, remainingOnCharge, remainingCents, allocations>>
    BY <1>3 DEF vars
  <2>2. /\ charges' = charges /\ funds' = funds /\ (Called => Called') /\ AllocationRows' = AllocationRows
        /\ \A g : AvailableUpTo(g)' = AvailableUpTo(g)
        /\ \A d : OwedUpTo(d)' = OwedUpTo(d)
        /\ \A d : OwedOn(d)' = OwedOn(d)
        /\ \A i : AvailableOf(i)' = AvailableOf(i)
    BY <2>1, CallStays
  <2>3. Laid' = Laid
    BY <2>1, <2>2 DEF Laid, InHand
  <2>4. WalkTyped' /\ FundsLeft' /\ Even'
    BY <2>1, <2>2, <2>3 DEF WalkInv, WalkTyped, FundsLeft, Even
  <2>5. GivenInOrder'
    BY <2>1, <2>2, <2>3 DEF WalkInv, GivenInOrder, Given, InAll
  <2>6. LeftInOrder'
    BY <2>1, <2>2 DEF WalkInv, LeftInOrder, Left, InAll
  <2>7. WalkedOver' /\ ConfirmsAsProposed'
    BY <2>1, <2>2 DEF WalkInv, WalkedOver, ConfirmsAsProposed
  <2> QED BY <2>4, <2>5, <2>6, <2>7 DEF WalkInv
<1> QED BY <1>1, <1>2, <1>3 DEF Next

\* At the end either the money is spent or the debts are paid.
LEMMA AtTheEnd ==
  ASSUME WalkInv, Returned
  PROVE  /\ Laid \in Nat
         /\ \/ \A f \in 0..Len(funds) : AvailableUpTo(f) <= Laid
            \/ \A c \in 0..Len(charges) : OwedUpTo(c) <= Laid
<1>1. WalkTyped /\ Called /\ Even /\ FundsLeft
  BY DEF WalkInv, WalkTyped
<1>2. PICK F, C : F = Len(funds) /\ C = Len(charges)
  OBVIOUS
<1>3. F \in Nat /\ C \in Nat /\ chargeIndex \in 0..C /\ fundIndex \in 1..(F + 1) /\ remainingOnCharge \in Nat
  BY <1>1, <1>2, ListsAre DEF WalkTyped
<1>4. Laid \in Nat
  <2>1. fundIndex - 1 \in 0..F
    BY <1>3
  <2>2. AvailableUpTo(fundIndex - 1) \in Nat
    BY <1>1, <1>2, <2>1, PrefixesAre
  <2>3. InHand \in Nat
    <3>1. CASE fundIndex <= F
      <4>1. fundIndex \in 1..F
        BY <1>3, <3>1
      <4>2. PICK s : s = funds[fundIndex]
        OBVIOUS
      <4>3. remainingCents[s] \in 1..AvailableOf(s) /\ AvailableOf(s) \in Nat
        BY <1>1, <1>2, <4>1, <4>2, ListsAre DEF FundsLeft
      <4>4. InHand = AvailableOf(s) - remainingCents[s]
        BY <1>2, <3>1, <4>2 DEF InHand
      <4> QED BY <4>3, <4>4
    <3>2. CASE ~(fundIndex <= F)
      BY <1>2, <3>2 DEF InHand
    <3> QED BY <3>1, <3>2
  <2> QED BY <2>2, <2>3 DEF Laid
<1>5. CASE fundIndex > F
  <2>1. fundIndex - 1 = F /\ ~(fundIndex <= F)
    BY <1>3, <1>5
  <2>2. Laid = AvailableUpTo(F) + 0
    BY <1>2, <2>1 DEF Laid, InHand
  <2>3. \A f \in 0..F : AvailableUpTo(f) <= AvailableUpTo(F) /\ AvailableUpTo(F) \in Nat
    BY <1>1, <1>2, <1>3, PrefixesAre
  <2> QED BY <1>2, <1>4, <2>2, <2>3
<1>6. CASE remainingOnCharge = 0 /\ chargeIndex = C
  <2>1. \A c \in 0..C : OwedUpTo(c) <= OwedUpTo(C) /\ OwedUpTo(C) \in Nat
    BY <1>1, <1>2, <1>3, PrefixesAre
  <2>2. Laid = OwedUpTo(C) - 0
    BY <1>1, <1>6 DEF Even
  <2> QED BY <1>2, <1>4, <2>1, <2>2
<1> QED BY <1>2, <1>5, <1>6 DEF Returned

\* At the end, what a source and a charge have in common lies within what was given.
LEMMA WalkInvMeans == WalkInv => FirstInFirstOut
<1> SUFFICES ASSUME WalkInv, Returned, NEW f \in DOMAIN funds, NEW c \in DOMAIN charges
             PROVE  LET lower == IF AvailableUpTo(f - 1) > OwedUpTo(c - 1) THEN AvailableUpTo(f - 1) ELSE OwedUpTo(c - 1)
                        upper == IF AvailableUpTo(f) < OwedUpTo(c) THEN AvailableUpTo(f) ELSE OwedUpTo(c)
                    IN Given(funds[f], charges[c]) = IF upper > lower THEN upper - lower ELSE 0
  BY DEF FirstInFirstOut
<1>1. Called /\ GivenInOrder
  BY DEF WalkInv, WalkTyped
<1>2. PICK p, r, q, s, x : /\ p = AvailableUpTo(f - 1) /\ r = AvailableUpTo(f)
                           /\ q = OwedUpTo(c - 1) /\ s = OwedUpTo(c) /\ x = Laid
  OBVIOUS
<1>3. f \in 1..Len(funds) /\ c \in 1..Len(charges) /\ Len(funds) \in Nat /\ Len(charges) \in Nat
  BY <1>1, ListsAre
<1>4. f \in 0..Len(funds) /\ f - 1 \in 0..Len(funds) /\ c \in 0..Len(charges) /\ c - 1 \in 0..Len(charges)
  BY <1>3
<1>5. p \in Nat /\ r \in Nat /\ q \in Nat /\ s \in Nat
  BY <1>1, <1>2, <1>4, PrefixesAre
<1>6. x \in Nat /\ (r <= x \/ s <= x)
  BY <1>2, <1>4, AtTheEnd
<1>7. Given(funds[f], charges[c]) = Common(p, r, q, s, x)
  BY <1>1, <1>2, <1>3 DEF GivenInOrder
<1>8. Common(p, r, q, s, x) = LET lower == IF p > q THEN p ELSE q
                                  upper == IF r < s THEN r ELSE s
                              IN IF upper > lower THEN upper - lower ELSE 0
  BY <1>5, <1>6 DEF Common, Least, Most
<1> QED BY <1>2, <1>7, <1>8

\* First in, first out, on both sides: however long the lists, each source settles of each charge
\* exactly the stretch they lie beside each other (the two loops of proposeAllocation).
THEOREM MoneyMeetsChargesInOrder == Spec => []FirstInFirstOut
BY WalkInvMeans, WalkBegins, WalkStep, PTL DEF Spec

(***************************************************************************)
(* What settleOnPaper says.  Both go through the charges oldest first: a   *)
(* prefix of either list adds up to what is owed on the charges up to its  *)
(* last one, for those with nothing outstanding add nothing.               *)
(***************************************************************************)
UpTo(places, date, c) == {d \in places : d = c \/ Older(date, d, c)}

LEMMA SumAlong ==
  ASSUME NEW places, NEW date, Dated(places, date), NEW list, InOrder(list, places, date),
         NEW f, Summable(f, places), NEW e, Follows(e, DOMAIN list, f, list),
         NEW n \in DOMAIN list, NEW S, S = 1..n, NEW T, T = UpTo(places, date, list[n])
  PROVE  SumFunctionOnSet(e, S) = SumFunctionOnSet(f, T)
<1>1. PICK N \in Nat : N = Cardinality(places)
  BY FS_CardinalityType DEF Dated
<1>2. list \in [1..N -> places] /\ DOMAIN list = 1..N /\ Range(list) = places /\ n \in 1..N
  BY <1>1 DEF InOrder
<1>3. \A c \in places : \E m \in 1..N : list[m] = c
  BY <1>2 DEF Range
<1>4. \A l, m \in 1..N : /\ list[l] = list[m] => l = m
                         /\ Older(date, list[l], list[m]) => l < m
  BY <1>2, InOrderIsOneToOne
<1>5. \A l, m \in 1..N : l < m => Older(date, list[l], list[m])
  BY <1>2 DEF InOrder
<1>6. (1..n) \subseteq 1..N /\ IsFiniteSet(1..n)
  BY <1>2, FS_Interval
<1>8. ASSUME NEW m \in S PROVE list[m] \in T
  <2>1. m \in 1..N /\ (m = n \/ m < n)
    BY <1>2
  <2>2. list[m] \in places /\ (list[m] = list[n] \/ Older(date, list[m], list[n]))
    BY <1>2, <1>5, <2>1
  <2> QED BY <2>2 DEF UpTo
<1>9. ASSUME NEW c \in T PROVE \E m \in S : list[m] = c
  <2>1. c \in places /\ (c = list[n] \/ Older(date, c, list[n]))
    BY DEF UpTo
  <2>2. PICK m \in 1..N : list[m] = c
    BY <1>3, <2>1
  <2>3. m = n \/ m < n
    BY <1>2, <1>4, <2>1, <2>2
  <2>4. m \in S
    BY <1>2, <2>3
  <2> QED BY <2>2, <2>4
<1>10. IsFiniteSet(S) /\ OneToOne(list, S, T)
  BY <1>4, <1>6, <1>8, <1>9 DEF OneToOne
<1>11. Follows(e, S, f, list)
  BY <1>2, <1>6 DEF Follows
<1>12. Summable(f, T)
  <2>1. T \in SUBSET places
    BY DEF UpTo
  <2> QED BY <2>1, FS_Subset DEF Summable
<1> QED BY <1>10, <1>11, <1>12, SumMoves

LEMMA SumOfAll ==
  ASSUME NEW places, NEW date, Dated(places, date), NEW list, InOrder(list, places, date),
         NEW f, Summable(f, places), NEW e, Follows(e, DOMAIN list, f, list), NEW S, S = DOMAIN list
  PROVE  SumFunctionOnSet(e, S) = SumFunctionOnSet(f, places)
<1>1. PICK N \in Nat : N = Cardinality(places)
  BY FS_CardinalityType DEF Dated
<1>2. list \in [1..N -> places] /\ S = 1..N /\ Range(list) = places
  BY <1>1 DEF InOrder
<1>3. \A l, m \in S : list[l] = list[m] => l = m
  BY <1>2, InOrderIsOneToOne
<1>4. OneToOne(list, S, places)
  BY <1>2, <1>3 DEF OneToOne, Range
<1>5. IsFiniteSet(S)
  BY <1>2, FS_Interval
<1> QED BY <1>4, <1>5, SumMoves

LEMMA DebtUpTo ==
  ASSUME Called, NEW owed, owed = [c \in DOMAIN openCharges |-> OwedOn(c)]
  PROVE  /\ \A c \in 1..Len(charges) :
              OwedUpTo(c) = SumFunctionOnSet(owed, UpTo(DOMAIN openCharges, DueOn(openCharges), charges[c]))
         /\ OwedUpTo(Len(charges)) = SumFunctionOnSet(owed, DOMAIN openCharges)
<1>1. PICK all, date : all = DOMAIN openCharges /\ date = DueOn(openCharges)
  OBVIOUS
<1>2. PICK C, list : C = Len(charges) /\ list = charges
  OBVIOUS
<1>3. /\ Dated(all, date) /\ Dated(OpenPlaces, date) /\ InOrder(list, OpenPlaces, date)
      /\ C \in Nat /\ DOMAIN list = 1..C
  BY <1>1, <1>2, CallIs, ListsAre
<1>4. IsFiniteSet(all) /\ (\A c \in all : owed[c] \in Nat) /\ OpenPlaces \subseteq all
      /\ \A c \in all \ OpenPlaces : owed[c] = 0
  BY <1>1, CallIs DEF OpenPlaces, HasMoney, OwedOn, Dated
<1> DEFINE e == [c \in 1..C |-> owed[list[c]]]
<1>5. Follows(e, DOMAIN list, owed, list)
  BY <1>3 DEF Follows
<1>6. Summable(owed, all) /\ Summable(owed, OpenPlaces)
  BY <1>4, FS_Subset DEF Summable
<1>7. ASSUME NEW c \in 0..C PROVE OwedUpTo(c) = SumFunctionOnSet(e, 1..c)
  <2> DEFINE h == [d \in 1..c |-> openCharges[charges[d]].outstandingCents]
  <2>1. IsFiniteSet(1..c) /\ \A d \in 1..c : h[d] = e[d]
    <3>1. \A d \in 1..c : d \in 1..C /\ charges[d] \in DOMAIN openCharges
      BY <1>2, <1>3, ListsAre
    <3>2. \A d \in 1..c : h[d] = e[d]
      BY <1>2, <3>1 DEF OwedOn
    <3>3. IsFiniteSet(1..c)
      BY FS_Interval
    <3> QED BY <3>2, <3>3
  <2>2. OwedUpTo(c) = SumFunctionOnSet(h, 1..c)
    BY DEF OwedUpTo, SumFunction
  <2> HIDE DEF h, e
  <2> QED BY <2>1, <2>2, SumOfSame
<1> HIDE DEF e
<1>8. ASSUME NEW c \in 1..C
      PROVE  OwedUpTo(c) = SumFunctionOnSet(owed, UpTo(all, date, list[c]))
  <2>1. PICK n : n = list[c]
    OBVIOUS
  <2>2. SumFunctionOnSet(e, 1..c) = SumFunctionOnSet(owed, UpTo(OpenPlaces, date, n))
    <3>1. c \in DOMAIN list
      BY <1>3
    <3>2. PICK S, T : S = 1..c /\ T = UpTo(OpenPlaces, date, list[c])
      OBVIOUS
    <3>3. SumFunctionOnSet(e, S) = SumFunctionOnSet(owed, T)
      BY <1>3, <1>5, <1>6, <3>1, <3>2, SumAlong
    <3> QED BY <2>1, <3>2, <3>3
  <2>3. PICK S, T : S = UpTo(all, date, n) /\ T = UpTo(OpenPlaces, date, n)
    OBVIOUS
  <2>4. S \in SUBSET all /\ T \in SUBSET S /\ \A d \in S \ T : d \in all \ OpenPlaces
    BY <1>4, <2>3 DEF UpTo
  <2>5. IsFiniteSet(S)
    BY <1>4, <2>4, FS_Subset
  <2>6. Summable(owed, S) /\ \A d \in S \ T : owed[d] = 0
    BY <1>4, <2>4, <2>5 DEF Summable
  <2>7. SumFunctionOnSet(owed, S) = SumFunctionOnSet(owed, T)
    BY <2>4, <2>6, SumOfTheRest
  <2>8. c \in 0..C
    BY <1>3
  <2> QED BY <1>7, <2>1, <2>2, <2>3, <2>7, <2>8
<1>9. OwedUpTo(C) = SumFunctionOnSet(owed, all)
  <2>1. C \in 0..C
    BY <1>3
  <2>2. SumFunctionOnSet(e, 1..C) = SumFunctionOnSet(owed, OpenPlaces)
    <3>1. PICK S : S = DOMAIN list
      OBVIOUS
    <3>2. SumFunctionOnSet(e, S) = SumFunctionOnSet(owed, OpenPlaces)
      BY <1>3, <1>5, <1>6, <3>1, SumOfAll
    <3> QED BY <1>3, <3>1, <3>2
  <2>3. SumFunctionOnSet(owed, all) = SumFunctionOnSet(owed, OpenPlaces)
    BY <1>4, <1>6, SumOfTheRest
  <2> QED BY <1>7, <2>1, <2>2, <2>3
<1> QED BY <1>1, <1>2, <1>8, <1>9

LEMMA CreditIs ==
  ASSUME Called
  PROVE  SumFunction([i \in DOMAIN sources |-> sources[i].availableCents]) = AvailableUpTo(Len(funds))
<1> DEFINE f == [i \in DOMAIN sources |-> sources[i].availableCents]
           e == [g \in 1..Len(funds) |-> sources[funds[g]].availableCents]
<1>1. SumFunction(f) = SumFunctionOnSet(f, DOMAIN sources) /\ AvailableUpTo(Len(funds)) = SumFunctionOnSet(e, 1..Len(funds))
  BY DEF SumFunction, AvailableUpTo
<1>2. /\ Dated(DOMAIN sources, ReceivedOn(sources)) /\ Dated(FundPlaces, ReceivedOn(sources))
      /\ InOrder(funds, FundPlaces, ReceivedOn(sources)) /\ DOMAIN funds = 1..Len(funds)
  BY CallIs, ListsAre
<1>3. /\ \A i \in DOMAIN sources : f[i] \in Int
      /\ FundPlaces \in SUBSET DOMAIN sources /\ IsFiniteSet(DOMAIN sources)
      /\ \A i \in DOMAIN sources \ FundPlaces : f[i] = 0
  BY <1>2, CallIs DEF FundPlaces, HasMoney, AvailableOf, Dated
<1>4. Follows(e, DOMAIN funds, f, funds)
  BY <1>2, ListsAre DEF Follows
<1>5. Summable(f, DOMAIN sources) /\ Summable(f, FundPlaces)
  BY <1>3, FS_Subset DEF Summable
<1>6. PICK S : S = DOMAIN funds
  OBVIOUS
<1> HIDE DEF e, f
<1>7. SumFunctionOnSet(f, DOMAIN sources) = SumFunctionOnSet(f, FundPlaces)
  BY <1>3, <1>5, SumOfTheRest
<1>8. SumFunctionOnSet(e, S) = SumFunctionOnSet(f, FundPlaces)
  BY <1>2, <1>4, <1>5, <1>6, SumOfAll
<1> QED BY <1>1, <1>2, <1>6, <1>7, <1>8 DEF f, e

\* The walk gives all it can: the credit, or the whole debt if that is less.
LEMMA LaidIsAll ==
  ASSUME WalkInv, Returned PROVE Laid = Least(AvailableUpTo(Len(funds)), OwedUpTo(Len(charges)))
<1>1. WalkTyped /\ Called /\ Even /\ FundsLeft
  BY DEF WalkInv, WalkTyped
<1>2. PICK F, C : F = Len(funds) /\ C = Len(charges)
  OBVIOUS
<1>3. F \in Nat /\ C \in Nat /\ chargeIndex \in 0..C /\ fundIndex \in 1..(F + 1) /\ remainingOnCharge \in Nat /\ F \in 0..F /\ C \in 0..C
  BY <1>1, <1>2, ListsAre DEF WalkTyped
<1>4. PICK credit, gross : credit = AvailableUpTo(F) /\ gross = OwedUpTo(C)
  OBVIOUS
<1>5. credit \in Nat /\ gross \in Nat /\ Laid \in Nat /\ (credit <= Laid \/ gross <= Laid)
  BY <1>1, <1>2, <1>3, <1>4, PrefixesAre, AtTheEnd
<1>6. Laid <= gross
  <2>1. OwedUpTo(chargeIndex) <= gross /\ OwedUpTo(chargeIndex) \in Nat
    BY <1>1, <1>2, <1>3, <1>4, PrefixesAre
  <2>2. Laid = OwedUpTo(chargeIndex) - remainingOnCharge
    BY <1>1 DEF Even
  <2> QED BY <1>3, <1>5, <2>1, <2>2
<1>7. Laid <= credit
  <2>1. CASE fundIndex <= F
    <3>1. fundIndex \in 1..F /\ fundIndex \in 0..F /\ fundIndex - 1 \in 0..F
      BY <1>3, <2>1
    <3>2. PICK s, p : s = funds[fundIndex] /\ p = AvailableUpTo(fundIndex - 1)
      OBVIOUS
    <3>3. remainingCents[s] \in 1..AvailableOf(s) /\ AvailableOf(s) \in Nat
      BY <1>1, <1>2, <3>1, <3>2, ListsAre DEF FundsLeft
    <3>4. p \in Nat /\ AvailableUpTo(fundIndex) = p + AvailableOf(s) /\ AvailableUpTo(fundIndex) <= credit
      BY <1>1, <1>2, <1>3, <1>4, <3>1, <3>2, PrefixesAre
    <3>5. Laid = p + (AvailableOf(s) - remainingCents[s])
      BY <1>2, <2>1, <3>2 DEF Laid, InHand
    <3> QED BY <1>5, <3>3, <3>4, <3>5
  <2>2. CASE ~(fundIndex <= F)
    <3>1. fundIndex - 1 = F
      BY <1>3, <2>2
    <3>2. Laid = credit + 0
      BY <1>2, <1>4, <2>2, <3>1 DEF Laid, InHand
    <3> QED BY <1>5, <3>2
  <2> QED BY <2>1, <2>2
<1> QED BY <1>2, <1>4, <1>5, <1>6, <1>7 DEF Least

\* What is not walked to is as it was, and what has nothing outstanding is given nothing.
LEMMA LeftIs ==
  ASSUME WalkInv
  PROVE  /\ \A c \in DOMAIN openCharges : Left(c) \in Nat /\ (c \notin OpenPlaces => Left(c) = 0)
         /\ \A m \in 1..Len(charges) : Left(charges[m]) > 0 <=> OwedUpTo(m) > Laid
<1>1. WalkTyped /\ Called /\ Even /\ LeftInOrder /\ WalkedOver
  BY DEF WalkInv, WalkTyped
<1>2. PICK C : C = Len(charges)
  OBVIOUS
<1>3. C \in Nat /\ chargeIndex \in 0..C /\ remainingOnCharge \in Nat
  BY <1>1, <1>2, ListsAre DEF WalkTyped
<1>4. ASSUME NEW c \in DOMAIN openCharges, c \notin OpenPlaces PROVE Left(c) = 0
  <2>1. OwedOn(c) = 0
    BY <1>1, <1>4, CallIs DEF OpenPlaces, HasMoney, OwedOn
  <2>2. \A m \in 1..C : charges[m] # c
    BY <1>1, <1>2, <2>1, ListsAre
  <2>3. {n \in DOMAIN allocations : allocations[n].charge = c} = {}
    BY <1>1, <1>2, <2>2 DEF WalkedOver
  <2>4. InAll({}) = 0
    <3> DEFINE e == [n \in {} |-> allocations[n].cents]
    <3>1. InAll({}) = SumFunctionOnSet(e, {})
      BY DEF InAll, SumFunction
    <3> HIDE DEF e
    <3> QED BY <3>1, SumOfNone
  <2>5. Left(c) = OwedOn(c) - InAll({})
    BY <2>3 DEF Left, OwedOn
  <2> QED BY <2>1, <2>4, <2>5
<1>5. \A m \in 1..C : Left(charges[m]) = IF m < chargeIndex THEN 0
                                         ELSE IF m = chargeIndex THEN remainingOnCharge ELSE OwedOn(charges[m])
  BY <1>1, <1>2 DEF LeftInOrder
<1>6. \A m \in 1..C : OwedOn(charges[m]) \in Nat \ {0}
  BY <1>1, <1>2, ListsAre
<1>7. ASSUME NEW c \in OpenPlaces PROVE Left(c) \in Nat
  <2>1. PICK m \in 1..C : charges[m] = c
    BY <1>1, <1>2, ListsAre DEF InOrder, Range
  <2> QED BY <1>3, <1>5, <1>6, <2>1
<1>8. ASSUME NEW m \in 1..C PROVE Left(charges[m]) > 0 <=> OwedUpTo(m) > Laid
  <2>1. m \in 0..C /\ m - 1 \in 0..C
    BY <1>3
  <2>2. PICK v, w, q, owed : v = OwedUpTo(m - 1) /\ w = OwedUpTo(m) /\ q = OwedUpTo(chargeIndex) /\ owed = OwedOn(charges[m])
    OBVIOUS
  <2>3. v \in Nat /\ w \in Nat /\ q \in Nat /\ owed \in Nat \ {0} /\ w = v + owed
    BY <1>1, <1>2, <1>3, <1>6, <2>1, <2>2, PrefixesAre
  <2>4. Laid = q - remainingOnCharge
    BY <1>1, <2>2 DEF Even
  <2>5. CASE m < chargeIndex
    <3>1. chargeIndex \in 1..C /\ m <= chargeIndex - 1 /\ chargeIndex - 1 \in 0..C /\ chargeIndex # 0
      BY <1>3, <2>5
    <3>2. PICK before : before = OwedUpTo(chargeIndex - 1)
      OBVIOUS
    <3>3. before \in Nat /\ w <= before /\ q = before + OwedOn(charges[chargeIndex])
      BY <1>1, <1>2, <2>1, <2>2, <3>1, <3>2, PrefixesAre
    <3>4. remainingOnCharge <= OwedOn(charges[chargeIndex]) /\ OwedOn(charges[chargeIndex]) \in Nat
      BY <1>1, <1>6, <3>1 DEF Even
    <3>5. Left(charges[m]) = 0
      BY <1>5, <2>5
    <3> QED BY <1>3, <2>2, <2>3, <2>4, <3>3, <3>4, <3>5
  <2>6. CASE m = chargeIndex
    <3>1. w = q /\ Left(charges[m]) = remainingOnCharge
      BY <1>5, <2>2, <2>6
    <3> QED BY <1>3, <2>2, <2>3, <2>4, <3>1
  <2>7. CASE m > chargeIndex
    <3>1. chargeIndex <= m - 1 /\ Left(charges[m]) = owed
      BY <1>3, <1>5, <2>2, <2>7
    <3>2. q <= v
      BY <1>1, <1>2, <1>3, <2>1, <2>2, <3>1, PrefixesAre
    <3> QED BY <1>3, <2>2, <2>3, <2>4, <3>1, <3>2
  <2> QED BY <1>3, <2>5, <2>6, <2>7
<1> QED BY <1>2, <1>4, <1>7, <1>8

\* What the walk leaves adds up to the debt it did not reach.
LEMMA LeftAddsUp ==
  ASSUME WalkInv PROVE SumFunction([c \in DOMAIN openCharges |-> Left(c)]) = OwedUpTo(Len(charges)) - Laid
<1>1. WalkTyped /\ Called /\ Even /\ LeftInOrder
  BY DEF WalkInv, WalkTyped
<1>2. PICK C, list, all, date : C = Len(charges) /\ list = charges /\ all = DOMAIN openCharges /\ date = DueOn(openCharges)
  OBVIOUS
<1>3. /\ C \in Nat /\ chargeIndex \in 0..C /\ remainingOnCharge \in Nat /\ DOMAIN list = 1..C
      /\ Dated(all, date) /\ Dated(OpenPlaces, date) /\ InOrder(list, OpenPlaces, date) /\ OpenPlaces \in SUBSET all
  BY <1>1, <1>2, CallIs, ListsAre DEF WalkTyped, OpenPlaces
<1> DEFINE left == [c \in all |-> Left(c)]
           e == [m \in 1..C |-> Left(list[m])]
           w == [m \in 1..C |-> OwedOn(list[m])]
<1>4. /\ \A m \in 1..C : /\ list[m] \in all /\ w[m] \in Nat
                         /\ e[m] = IF m < chargeIndex THEN 0
                                   ELSE IF m = chargeIndex THEN remainingOnCharge ELSE w[m]
  BY <1>1, <1>2, ListsAre DEF LeftInOrder
<1>5. /\ \A c \in all : left[c] \in Nat /\ (c \notin OpenPlaces => left[c] = 0)
      /\ Follows(e, DOMAIN list, left, list)
  BY <1>2, <1>3, <1>4, LeftIs DEF Follows
<1>6. SumFunction([c \in DOMAIN openCharges |-> Left(c)]) = SumFunctionOnSet(left, all)
  BY <1>2 DEF SumFunction
<1>7. ASSUME NEW c \in 0..C PROVE OwedUpTo(c) = SumFunctionOnSet(w, 1..c)
  <2> DEFINE h == [d \in 1..c |-> openCharges[charges[d]].outstandingCents]
  <2>1. \A d \in 1..c : h[d] = w[d]
    BY <1>2, <1>3 DEF OwedOn
  <2>2. OwedUpTo(c) = SumFunctionOnSet(h, 1..c) /\ IsFiniteSet(1..c)
    BY FS_Interval DEF OwedUpTo, SumFunction
  <2> HIDE DEF h, w
  <2> QED BY <2>1, <2>2, SumOfSame
<1> HIDE DEF left, e, w
<1>8. Summable(left, all) /\ Summable(left, OpenPlaces)
  BY <1>3, <1>5, FS_Subset DEF Summable, Dated
<1>9. SumFunctionOnSet(left, all) = SumFunctionOnSet(e, 1..C)
  <2>1. SumFunctionOnSet(left, all) = SumFunctionOnSet(left, OpenPlaces)
    BY <1>3, <1>5, <1>8, SumOfTheRest
  <2>2. PICK S : S = DOMAIN list
    OBVIOUS
  <2>3. SumFunctionOnSet(e, S) = SumFunctionOnSet(left, OpenPlaces)
    BY <1>3, <1>5, <1>8, <2>2, SumOfAll
  <2> QED BY <1>3, <2>1, <2>2, <2>3
<1>10. PICK S, A, B : S = 1..C /\ A = 1..chargeIndex /\ B = S \ A
  OBVIOUS
<1>11. A \in SUBSET S /\ IsFiniteSet(S) /\ IsFiniteSet(A) /\ IsFiniteSet(B)
  <2>1. IsFiniteSet(1..C)
    BY <1>3, FS_Interval
  <2> QED BY <1>3, <1>10, <2>1, FS_Subset
<1>12. Summable(e, S) /\ Summable(w, S)
  BY <1>3, <1>4, <1>10, <1>11 DEF Summable
<1>13. SumFunctionOnSet(e, S) = SumFunctionOnSet(e, A) + SumFunctionOnSet(e, B)
  <2>1. SumFunctionOnSet(e, S) = SumFunctionOnSet(e, A) + SumFunctionOnSet(e, S \ A)
    BY <1>11, <1>12, SumSplits
  <2> QED BY <1>10, <2>1
<1>14. SumFunctionOnSet(w, S) = SumFunctionOnSet(w, A) + SumFunctionOnSet(w, B)
  <2>1. SumFunctionOnSet(w, S) = SumFunctionOnSet(w, A) + SumFunctionOnSet(w, S \ A)
    BY <1>11, <1>12, SumSplits
  <2> QED BY <1>10, <2>1
<1>15. SumFunctionOnSet(e, B) = SumFunctionOnSet(w, B)
  <2>1. \A m \in B : e[m] = w[m]
    BY <1>3, <1>4, <1>10
  <2> QED BY <1>11, <2>1, SumOfSame
<1>16. SumFunctionOnSet(e, A) = remainingOnCharge
  <2>1. CASE chargeIndex = 0
    <3>1. A = {} /\ remainingOnCharge = 0
      BY <1>1, <1>3, <1>10, <2>1 DEF Even
    <3> QED BY <3>1, SumOfNone
  <2>2. CASE chargeIndex # 0
    <3>1. chargeIndex \in A /\ chargeIndex \in 1..C /\ \A m \in A \ {chargeIndex} : m \in 1..C /\ m < chargeIndex
      BY <1>3, <1>10, <2>2
    <3>2. e[chargeIndex] = remainingOnCharge /\ \A m \in A \ {chargeIndex} : e[m] = 0
      BY <1>3, <1>4, <3>1
    <3>3. Summable(e, A)
      BY <1>11, <1>12 DEF Summable
    <3>4. SumFunctionOnSet(e, A) = e[chargeIndex] + SumFunctionOnSet(e, A \ {chargeIndex})
      BY <3>1, <3>3, SumTakesOut
    <3>5. SumFunctionOnSet(e, A \ {chargeIndex}) = 0
      <4>1. IsFiniteSet(A \ {chargeIndex})
        BY <1>11, FS_Subset
      <4> QED BY <3>2, <4>1, SumOfZeros
    <3> QED BY <1>3, <3>2, <3>4, <3>5
  <2> QED BY <2>1, <2>2
<1>17. SumFunctionOnSet(w, A) \in Nat /\ SumFunctionOnSet(w, B) \in Nat
  BY <1>3, <1>4, <1>10, <1>11, SumIsNatural
<1>18. OwedUpTo(C) = SumFunctionOnSet(w, S) /\ OwedUpTo(chargeIndex) = SumFunctionOnSet(w, A)
  <2>1. C \in 0..C
    BY <1>3
  <2> QED BY <1>3, <1>7, <1>10, <2>1
<1>19. Laid = SumFunctionOnSet(w, A) - remainingOnCharge
  BY <1>1, <1>18 DEF Even
<1>20. PICK a, b : a = SumFunctionOnSet(w, A) /\ b = SumFunctionOnSet(w, B)
  OBVIOUS
<1>21. SumFunctionOnSet(left, all) = remainingOnCharge + b /\ OwedUpTo(C) = a + b /\ Laid = a - remainingOnCharge
  BY <1>9, <1>10, <1>13, <1>14, <1>15, <1>16, <1>18, <1>19, <1>20
<1> QED BY <1>2, <1>3, <1>6, <1>17, <1>20, <1>21

LEMMA LeastOfSome ==
  ASSUME NEW S, S \subseteq Nat, S # {} PROVE Min(S) \in S /\ \A n \in S : Min(S) <= n
<1>1. PICK R : R = {ss \in Nat \X Nat : ss[1] < ss[2]}
  OBVIOUS
<1>2. IsWellFoundedOn(R, Nat)
  BY <1>1, NatLessThanWellFounded DEF OpToRel
<1>3. PICK m \in S : \A n \in S : <<n, m>> \notin R
  BY <1>2, WFMin
<1>4. ASSUME NEW n \in S PROVE m <= n
  <2>1. m \in Nat /\ n \in Nat
    OBVIOUS
  <2>2. n < m => <<n, m>> \in R
    BY <1>1, <2>1
  <2>3. ~(n < m)
    BY <1>3, <2>2
  <2> QED BY <2>1, <2>3
<1>5. Min(S) = CHOOSE x \in S : \A y \in S : x <= y
  BY Zenon DEF Min
<1> QED BY <1>4, <1>5, Zenon

\* settleOnPaper stops at the first charge up to which more is owed than the credit, which is
\* the oldest one the walk leaves something of.
LEMMA PaperAgrees == WalkInv => PaperAgreesWithAllocation
<1> SUFFICES ASSUME WalkInv, Returned PROVE PaperAgreesWithAllocation
  BY DEF PaperAgreesWithAllocation
<1>1. Called
  BY DEF WalkInv, WalkTyped
<1>2. PICK all, date, M, C : /\ all = DOMAIN openCharges /\ date = DueOn(openCharges)
                             /\ M = Cardinality(DOMAIN openCharges) /\ C = Len(charges)
  OBVIOUS
<1>3. PICK credit, gross, laid : /\ credit = AvailableUpTo(Len(funds)) /\ gross = OwedUpTo(C) /\ laid = Laid
  OBVIOUS
<1>4. PICK sorted : sorted = OldestFirst(all, date)
  OBVIOUS
<1>5. PICK owed : owed = [c \in all |-> OwedOn(c)]
  OBVIOUS
<1>6. PICK paper : paper = SettleOnPaper(openCharges, credit)
  OBVIOUS
<1>7. /\ Dated(all, date) /\ InOrder(sorted, all, date) /\ IsFiniteSet(all) /\ M \in Nat
      /\ sorted \in [1..M -> all] /\ DOMAIN sorted = 1..M
  BY <1>1, <1>2, <1>4, CallIs, SortedIs, FS_CardinalityType DEF InOrder, Dated
<1>8. Summable(owed, all) /\ \A c \in all : owed[c] = OwedOn(c) /\ OwedOn(c) \in Nat /\ openCharges[c].dueOn \in Nat
  BY <1>1, <1>2, <1>5, <1>7, CallIs DEF Summable
<1>9. credit \in Nat /\ gross \in Nat /\ laid = Least(credit, gross)
  <2>1. Len(funds) \in 0..Len(funds) /\ C \in 0..C
    BY <1>1, <1>2, ListsAre
  <2> QED BY <1>1, <1>2, <1>3, <2>1, PrefixesAre, LaidIsAll
<1> DEFINE e == [n \in 1..M |-> owed[sorted[n]]]
           U(n) == SumFunctionOnSet(e, 1..n)
<1>10. /\ \A n \in 1..M : e[n] = owed[sorted[n]] /\ e[n] \in Nat
       /\ Follows(e, DOMAIN sorted, owed, sorted)
  BY <1>7, <1>8 DEF Follows
<1> HIDE DEF e
<1>11. /\ \A n \in 0..M : U(n) \in Nat
       /\ \A n \in 1..M : U(n) = U(n - 1) + e[n]
       /\ \A m, n \in 0..M : m <= n => U(m) <= U(n)
  BY <1>7, <1>10, PrefixSums
<1>12. U(M) = gross
  <2>1. gross = SumFunctionOnSet(owed, all)
    BY <1>1, <1>2, <1>3, <1>5, DebtUpTo
  <2>2. PICK S : S = DOMAIN sorted
    OBVIOUS
  <2>3. SumFunctionOnSet(e, S) = SumFunctionOnSet(owed, all)
    BY <1>7, <1>8, <1>10, <2>2, SumOfAll
  <2> QED BY <1>7, <2>1, <2>2, <2>3
\* Where the two lists pass the same charge they have passed the same debt.
<1>13. ASSUME NEW n \in 1..M, NEW m \in 1..C, sorted[n] = charges[m] PROVE U(n) = OwedUpTo(m)
  <2>1. PICK S, T : S = 1..n /\ T = UpTo(all, date, sorted[n])
    OBVIOUS
  <2>2. n \in DOMAIN sorted
    BY <1>7
  <2>3. SumFunctionOnSet(e, S) = SumFunctionOnSet(owed, T)
    BY <1>7, <1>8, <1>10, <2>1, <2>2, SumAlong
  <2>4. OwedUpTo(m) = SumFunctionOnSet(owed, UpTo(all, date, charges[m]))
    BY <1>1, <1>2, <1>5, DebtUpTo
  <2> QED BY <1>13, <2>1, <2>3, <2>4
<1>14. ASSUME NEW n \in 1..M PROVE Left(sorted[n]) > 0 <=> sorted[n] \in OpenPlaces /\ U(n) > credit
  <2>1. PICK c : c = sorted[n]
    OBVIOUS
  <2>2. c \in all /\ Left(c) \in Nat /\ (c \notin OpenPlaces => Left(c) = 0)
    BY <1>2, <1>7, <2>1, LeftIs
  <2>3. CASE c \in OpenPlaces
    <3>1. PICK m \in 1..C : charges[m] = c
      BY <1>1, <1>2, <2>3, ListsAre DEF InOrder, Range
    <3>2. Left(c) > 0 <=> OwedUpTo(m) > laid
      BY <1>2, <1>3, <3>1, LeftIs
    <3>3. U(n) = OwedUpTo(m)
      BY <1>13, <2>1, <3>1
    <3>4. n \in 0..M /\ M \in 0..M /\ n <= M
      BY <1>7
    <3>5. U(n) \in Nat /\ U(n) <= gross
      BY <1>11, <1>12, <3>4
    <3>6. PICK u : u = U(n)
      OBVIOUS
    <3>7. u > laid <=> u > credit
      BY <1>9, <3>5, <3>6 DEF Least
    <3> QED BY <2>1, <2>3, <3>2, <3>3, <3>6, <3>7
  <2>4. CASE c \notin OpenPlaces
    BY <2>1, <2>2, <2>4
  <2> QED BY <2>3, <2>4
<1>15. PICK uncovered :
         uncovered = {n \in DOMAIN sorted :
                        ~Covers(credit - SumFunction([m \in 1..(n - 1) |-> owed[sorted[m]]]), owed[sorted[n]])}
  OBVIOUS
<1>16. paper = [grossCents |-> SumFunction(owed),
                outstandingCents |-> IF SumFunction(owed) > credit THEN SumFunction(owed) - credit ELSE 0,
                oldestUncoveredDueOn |-> IF uncovered = {} THEN NoDate ELSE openCharges[sorted[Min(uncovered)]].dueOn]
  <2>1. owed = [c \in DOMAIN openCharges |-> openCharges[c].outstandingCents]
    BY <1>2, <1>5 DEF OwedOn
  <2> QED BY <1>2, <1>4, <1>6, <1>15, <2>1 DEF SettleOnPaper
<1>17. ASSUME NEW n \in 1..M PROVE n \in uncovered <=> U(n) > credit
  <2> DEFINE h == [m \in 1..(n - 1) |-> owed[sorted[m]]]
  <2>1. n - 1 \in 0..M /\ n \in 0..M
    BY <1>7
  <2>2. \A m \in 1..(n - 1) : m \in 1..M
    BY <1>7
  <2>3. \A m \in 1..(n - 1) : h[m] = e[m]
    BY <1>10, <2>2
  <2>4. IsFiniteSet(1..(n - 1)) /\ SumFunction(h) = SumFunctionOnSet(h, 1..(n - 1))
    BY <1>7, FS_Interval DEF SumFunction
  <2>5. n \in uncovered <=> ~Covers(credit - SumFunction(h), owed[sorted[n]])
    BY <1>7, <1>15
  <2> HIDE DEF h
  <2>6. SumFunction(h) = U(n - 1)
    BY <2>3, <2>4, SumOfSame
  <2>7. PICK u, v : u = U(n) /\ v = U(n - 1)
    OBVIOUS
  <2>8. u \in Nat /\ v \in Nat /\ u = v + owed[sorted[n]] /\ owed[sorted[n]] \in Nat
    BY <1>10, <1>11, <2>1, <2>7
  <2>9. n \in uncovered <=> ~(credit - v >= owed[sorted[n]])
    BY <2>5, <2>6, <2>7 DEF Covers
  <2> QED BY <1>9, <2>7, <2>8, <2>9
<1>18. uncovered \subseteq 1..M
  BY <1>7, <1>15
<1>19. SumFunction(owed) = gross
  BY <1>1, <1>2, <1>3, <1>5, DebtUpTo DEF SumFunction
<1>20. paper.outstandingCents = SumFunction([c \in DOMAIN openCharges |-> Left(c)])
  <2>1. SumFunction([c \in DOMAIN openCharges |-> Left(c)]) = gross - laid
    BY <1>2, <1>3, LeftAddsUp
  <2>2. paper.outstandingCents = IF gross > credit THEN gross - credit ELSE 0
    BY <1>16, <1>19
  <2> QED BY <1>9, <2>1, <2>2 DEF Least
<1>21. PICK unsettled : unsettled = {c \in DOMAIN openCharges : Left(c) > 0}
  OBVIOUS
<1>22. ASSUME NEW c \in unsettled PROVE \E n \in uncovered : sorted[n] = c
  <2>1. c \in all /\ Left(c) > 0
    BY <1>2, <1>21
  <2>2. PICK n \in 1..M : sorted[n] = c
    BY <1>7, <2>1 DEF InOrder, Range
  <2>3. U(n) > credit
    BY <1>14, <2>1, <2>2
  <2> QED BY <1>17, <2>2, <2>3
<1>23. ASSUME uncovered # {}
       PROVE  /\ Min(uncovered) \in 1..M /\ sorted[Min(uncovered)] \in unsettled
              /\ paper.oldestUncoveredDueOn = openCharges[sorted[Min(uncovered)]].dueOn
              /\ \A c \in unsettled : openCharges[c].dueOn >= openCharges[sorted[Min(uncovered)]].dueOn
  <2>1. PICK first : first = Min(uncovered)
    OBVIOUS
  <2>2. first \in uncovered /\ first \in 1..M /\ \A n \in uncovered : first <= n
    <3>1. uncovered \subseteq Nat
      BY <1>18
    <3> QED BY <1>18, <1>23, <2>1, <3>1, LeastOfSome
  <2>3. first \in 0..M /\ first - 1 \in 0..M
    BY <1>7, <2>2
  <2>4. U(first) > credit /\ (first - 1 = 0 \/ ~(U(first - 1) > credit))
    <3>1. first - 1 = 0 \/ first - 1 \in 1..M
      BY <1>7, <2>2
    <3>2. first - 1 \notin uncovered
      BY <2>2, <2>3
    <3> QED BY <1>17, <2>2, <3>1, <3>2
  <2>5. U(first - 1) <= credit
    <3>1. CASE first - 1 = 0
      <4>1. 1..(first - 1) = {}
        BY <3>1
      <4>2. U(first - 1) = 0
        BY <4>1, SumOfNone
      <4> QED BY <1>9, <4>2
    <3>2. CASE first - 1 # 0
      <4>1. PICK v : v = U(first - 1)
        OBVIOUS
      <4>2. v \in Nat /\ ~(v > credit)
        BY <1>11, <2>3, <2>4, <3>2, <4>1
      <4> QED BY <1>9, <4>1, <4>2
    <3> QED BY <3>1, <3>2
  <2>6. owed[sorted[first]] # 0
    <3>1. PICK u, v : u = U(first) /\ v = U(first - 1)
      OBVIOUS
    <3>2. u \in Nat /\ v \in Nat /\ u = v + owed[sorted[first]] /\ owed[sorted[first]] \in Nat
      BY <1>10, <1>11, <2>2, <2>3, <3>1
    <3>3. u > credit /\ v <= credit
      BY <2>4, <2>5, <3>1
    <3> QED BY <1>9, <3>2, <3>3
  <2>7. sorted[first] \in all /\ sorted[first] \in OpenPlaces
    BY <1>2, <1>7, <1>8, <2>2, <2>6 DEF OpenPlaces, HasMoney, OwedOn
  <2>8. sorted[first] \in unsettled
    BY <1>2, <1>14, <1>21, <2>2, <2>4, <2>7
  <2>9. ASSUME NEW c \in unsettled PROVE openCharges[c].dueOn >= openCharges[sorted[first]].dueOn
    <3>1. PICK n \in uncovered : sorted[n] = c
      BY <1>22
    <3>2. n \in 1..M /\ (first = n \/ first < n)
      BY <1>18, <2>2
    <3>3. c \in all /\ openCharges[c].dueOn \in Nat /\ openCharges[sorted[first]].dueOn \in Nat
      BY <1>2, <1>8, <1>21, <2>7
    <3>4. date[c] = openCharges[c].dueOn /\ date[sorted[first]] = openCharges[sorted[first]].dueOn
      BY <1>2, <2>7, <3>3 DEF DueOn
    <3>5. CASE first < n
      <4>1. Older(date, sorted[first], c)
        BY <1>7, <2>2, <3>1, <3>2, <3>5 DEF InOrder
      <4>2. date[sorted[first]] <= date[c]
        BY <1>7, <2>7, <3>3, <4>1, OlderIsAnOrder
      <4> QED BY <3>3, <3>4, <4>2
    <3>6. CASE first = n
      BY <3>1, <3>3, <3>6
    <3> QED BY <3>2, <3>5, <3>6
  <2>10. paper.oldestUncoveredDueOn = openCharges[sorted[first]].dueOn
    BY <1>16, <1>23, <2>1
  <2> QED BY <2>1, <2>2, <2>8, <2>9, <2>10
<1>24. uncovered = {} => unsettled = {} /\ paper.oldestUncoveredDueOn = NoDate
  BY <1>16, <1>22
<1>25. uncovered # {} => paper.oldestUncoveredDueOn # NoDate
  <2> SUFFICES ASSUME uncovered # {} PROVE paper.oldestUncoveredDueOn # NoDate
    OBVIOUS
  <2>1. sorted[Min(uncovered)] \in all
    BY <1>2, <1>21, <1>23
  <2>2. paper.oldestUncoveredDueOn \in Nat
    BY <1>8, <1>23, <2>1
  <2> QED BY <2>2 DEF NoDate
<1>26. /\ (unsettled = {}) = (paper.oldestUncoveredDueOn = NoDate)
       /\ unsettled # {} =>
            /\ \E c \in unsettled : openCharges[c].dueOn = paper.oldestUncoveredDueOn
            /\ \A c \in unsettled : openCharges[c].dueOn >= paper.oldestUncoveredDueOn
  <2>1. CASE uncovered = {}
    BY <1>24, <2>1
  <2>2. CASE uncovered # {}
    BY <1>23, <1>25, <2>2
  <2> QED BY <2>1, <2>2
<1>27. SumFunction([i \in DOMAIN sources |-> sources[i].availableCents]) = credit
  BY <1>1, <1>3, CreditIs
<1> QED BY <1>6, <1>20, <1>21, <1>26, <1>27 DEF PaperAgreesWithAllocation

LEMMA WalkIsTyped == WalkInv => TypeOK
<1> SUFFICES ASSUME WalkInv PROVE TypeOK
  OBVIOUS
<1>1. [source: DOMAIN sources, charge: DOMAIN openCharges, cents: Nat] = AllocationRows
  BY DEF AllocationRows
<1> QED BY <1>1 DEF WalkInv, WalkTyped, Called, TypeOK

\* What the walk proposes can be confirmed as it is, and settleOnPaper, which never walks, reports
\* the debt and the oldest date the walk would leave: the receivables list and the at-risk report
\* agree with the allocation of the same money, for any amounts, dates and lengths of the lists.
THEOREM PaperIsTheWalk == Spec => []AllAgreeOnAllocation
<1>1. WalkInv => AllAgreeOnAllocation
  BY WalkIsTyped, PaperAgrees DEF WalkInv, AllAgreeOnAllocation
<1> QED BY <1>1, WalkBegins, WalkStep, PTL DEF Spec

-------------------------------------------------------------------------------

(***************************************************************************)
(* The calendar (Calendar, FiscalCalendar).  First the dates: how long     *)
(* years and months are and where they begin.                              *)
(***************************************************************************)
YearStart(y) == 365 * (y - 1) + LeapsBefore(y) + 1
YearLength(y) == IF Leap(y) THEN 366 ELSE 365

LEMMA YearFollows ==
  ASSUME NEW y \in Int, NEW z \in Int, z = y + 1
  PROVE  /\ YearStart(y) \in Int /\ YearStart(z) = YearStart(y) + YearLength(y)
         /\ YearLength(y) \in 365..366
<1>1. LeapsBefore(y) \in Int /\ LeapsBefore(y + 1) = LeapsBefore(y) + (IF Leap(y) THEN 1 ELSE 0)
  BY DEF LeapsBefore, Leap
<1> QED BY <1>1 DEF YearStart, YearLength

LEMMA YearsApart ==
  ASSUME NEW y \in Int, NEW z \in Int, y < z
  PROVE  YearStart(y) + YearLength(y) <= YearStart(z)
<1>1. PICK n \in Int : n = y + 1
  OBVIOUS
<1>2. YearStart(n) = YearStart(y) + YearLength(y)
  BY <1>1, YearFollows
<1>3. LeapsBefore(n) <= LeapsBefore(z) /\ LeapsBefore(z) \in Int /\ LeapsBefore(n) \in Int
  BY <1>1 DEF LeapsBefore
<1> QED BY <1>1, <1>2, <1>3 DEF YearStart

LEMMA YearIsLate ==
  ASSUME NEW y \in Nat, y >= 1
  PROVE  365 * (y - 1) + 1 <= YearStart(y) /\ YearStart(y) <= 366 * (y - 1) + 1
<1>1. LeapsBefore(y) \in 0..(y - 1)
  BY DEF LeapsBefore
<1> QED BY <1>1 DEF YearStart

LEMMA MonthTable ==
  ASSUME NEW y \in Int, NEW m \in 0..11
  PROVE  /\ MonthLength(y, m) \in 28..31 /\ DaysBeforeMonth(y, m) \in 0..335
         /\ DaysBeforeMonth(y, m) + MonthLength(y, m) <= YearLength(y)
         /\ m = 11 => DaysBeforeMonth(y, m) + MonthLength(y, m) = YearLength(y) /\ MonthLength(y, m) = 31
         /\ m = 0 => DaysBeforeMonth(y, m) = 0
BY DEF MonthLength, DaysBeforeMonth, YearLength

LEMMA LengthIsTyped == ASSUME NEW y \in Int, NEW m \in 0..11 PROVE MonthLength(y, m) \in Int
BY DEF MonthLength

LEMMA DaysAreTyped == ASSUME NEW y \in Int, NEW m \in 0..11 PROVE DaysBeforeMonth(y, m) \in Int
BY DEF DaysBeforeMonth

LEMMA LeapsAreTyped == ASSUME NEW y \in Int PROVE LeapsBefore(y) \in Int
BY DEF LeapsBefore

LEMMA MonthsApart ==
  ASSUME NEW y \in Int, NEW m \in 0..11, NEW n \in 0..11, m < n
  PROVE  /\ DaysBeforeMonth(y, m) + MonthLength(y, m) <= DaysBeforeMonth(y, n)
         /\ n = m + 1 => DaysBeforeMonth(y, n) = DaysBeforeMonth(y, m) + MonthLength(y, m)
BY DEF MonthLength, DaysBeforeMonth

LEMMA UtcIs ==
  ASSUME NEW y \in Int, NEW m \in 0..11, NEW k \in Int
  PROVE  Utc(y, m, k) = YearStart(y) - 1 + DaysBeforeMonth(y, m) + k /\ Utc(y, m, k) \in Int
<1>1. m \div 12 = 0 /\ m % 12 = m /\ y + 0 = y
  OBVIOUS
<1>2. Utc(y, m, k) = 365 * (y - 1) + LeapsBefore(y) + DaysBeforeMonth(y, m) + k
  BY <1>1 DEF Utc
<1>3. DaysBeforeMonth(y, m) \in Int /\ LeapsBefore(y) \in Int
  BY DaysAreTyped, LeapsAreTyped
<1> QED BY <1>2, <1>3 DEF YearStart

\* Months beyond December are of the next year.
LEMMA UtcLater ==
  ASSUME NEW y \in Int, NEW z \in Int, z = y + 1, NEW m \in 12..23, NEW n \in 0..11, m = n + 12, NEW k \in Int
  PROVE  Utc(y, m, k) = Utc(z, n, k)
<1>1. m \div 12 = 1 /\ m % 12 = n /\ n \div 12 = 0 /\ n % 12 = n /\ z + 0 = z
  OBVIOUS
<1>2. Utc(y, m, k) = 365 * (z - 1) + LeapsBefore(z) + DaysBeforeMonth(z, n) + k
  BY <1>1 DEF Utc
<1>3. Utc(z, n, k) = 365 * (z - 1) + LeapsBefore(z) + DaysBeforeMonth(z, n) + k
  BY <1>1 DEF Utc
<1> QED BY <1>2, <1>3

LEMMA YearBegins ==
  ASSUME NEW y \in Int
  PROVE  Utc(y, 0, 1) = YearStart(y) /\ YearStart(y) \in Int
<1>1. PICK m \in 0..11 : m = 0
  OBVIOUS
<1>2. DaysBeforeMonth(y, m) = 0
  BY <1>1, MonthTable
<1>3. PICK z \in Int : z = y + 1
  OBVIOUS
<1>4. YearStart(y) \in Int
  BY <1>3, YearFollows
<1>5. PICK k \in Int : k = 1
  OBVIOUS
<1>6. Utc(y, m, k) = YearStart(y) - 1 + DaysBeforeMonth(y, m) + k
  BY UtcIs
<1> QED BY <1>1, <1>2, <1>4, <1>5, <1>6

\* The month that follows, December's too.
LEMMA MonthFollows ==
  ASSUME NEW y \in Int, NEW m \in 0..11, NEW n \in 1..12, n = m + 1, NEW k \in Int
  PROVE  Utc(y, n, k) = YearStart(y) - 1 + DaysBeforeMonth(y, m) + MonthLength(y, m) + k
<1>1. CASE n \in 0..11
  <2>1. Utc(y, n, k) = YearStart(y) - 1 + DaysBeforeMonth(y, n) + k
    BY <1>1, UtcIs
  <2>2. DaysBeforeMonth(y, n) = DaysBeforeMonth(y, m) + MonthLength(y, m)
    BY <1>1, MonthsApart
  <2>3. DaysBeforeMonth(y, m) \in Int /\ MonthLength(y, m) \in Int
    BY LengthIsTyped, DaysAreTyped
  <2>4. YearStart(y) \in Int
    BY YearBegins
  <2> QED BY <2>1, <2>2, <2>3, <2>4
<1>2. CASE n = 12
  <2>1. PICK z \in Int : z = y + 1
    OBVIOUS
  <2>2. PICK j \in 0..11 : j = 0
    OBVIOUS
  <2>3. Utc(y, n, k) = Utc(z, j, k)
    BY <1>2, <2>1, <2>2, UtcLater
  <2>4. Utc(z, j, k) = YearStart(z) - 1 + DaysBeforeMonth(z, j) + k /\ DaysBeforeMonth(z, j) = 0
    BY <2>2, UtcIs, MonthTable
  <2>5. YearStart(z) = YearStart(y) + YearLength(y) /\ YearStart(y) \in Int
    BY <2>1, YearFollows
  <2>6. /\ DaysBeforeMonth(y, m) + MonthLength(y, m) = YearLength(y)
        /\ DaysBeforeMonth(y, m) \in Int /\ MonthLength(y, m) \in Int
    BY <1>2, MonthTable, LengthIsTyped, DaysAreTyped
  <2> QED BY <2>3, <2>4, <2>5, <2>6
<1> QED BY <1>1, <1>2

(***************************************************************************)
(* A date is day k of month m of year y.                                   *)
(***************************************************************************)
IsDate(d, y, m, k) ==
  y \in Nat /\ y >= 1 /\ m \in 0..11 /\ k \in 1..MonthLength(y, m) /\ d = Utc(y, m, k)

\* How far into its year, and that the year has not ended.
LEMMA DateInYear ==
  ASSUME NEW d, NEW y, NEW m, NEW k, IsDate(d, y, m, k)
  PROVE  /\ d = YearStart(y) - 1 + DaysBeforeMonth(y, m) + k
         /\ YearStart(y) <= d /\ d < YearStart(y) + YearLength(y)
         /\ d \in Nat /\ d >= 1
<1>1. y \in Nat /\ y \in Int /\ y >= 1 /\ m \in 0..11 /\ k \in Int /\ k >= 1 /\ k <= MonthLength(y, m) /\ d = Utc(y, m, k)
  BY MonthTable DEF IsDate
<1>2. d = YearStart(y) - 1 + DaysBeforeMonth(y, m) + k
  BY <1>1, UtcIs
<1>3. /\ MonthLength(y, m) \in Int /\ DaysBeforeMonth(y, m) \in 0..335
      /\ DaysBeforeMonth(y, m) + MonthLength(y, m) <= YearLength(y)
  BY <1>1, MonthTable
<1>4. YearStart(y) \in Int /\ YearStart(y) >= 1
  BY <1>1, YearBegins, YearIsLate
<1>5. YearLength(y) \in Int
  BY DEF YearLength
<1> QED BY <1>1, <1>2, <1>3, <1>4, <1>5

LEMMA OneYear ==
  ASSUME NEW y \in Int, NEW z \in Int, NEW d \in Int,
         YearStart(y) <= d, d < YearStart(y) + YearLength(y),
         YearStart(z) <= d, d < YearStart(z) + YearLength(z)
  PROVE  y = z
<1>1. YearStart(y) \in Int /\ YearStart(z) \in Int /\ YearLength(y) \in Int /\ YearLength(z) \in Int
  BY YearBegins DEF YearLength
<1>2. y < z => YearStart(y) + YearLength(y) <= YearStart(z)
  BY YearsApart
<1>3. z < y => YearStart(z) + YearLength(z) <= YearStart(y)
  BY YearsApart
<1> QED BY <1>1, <1>2, <1>3

LEMMA OneMonth ==
  ASSUME NEW y \in Int, NEW m \in 0..11, NEW n \in 0..11, NEW d \in Int,
         Utc(y, m, 1) <= d, d < Utc(y, m + 1, 1), Utc(y, n, 1) <= d, d < Utc(y, n + 1, 1)
  PROVE  m = n
<1>1. PICK k \in Int, mm \in 1..12, nn \in 1..12 : k = 1 /\ mm = m + 1 /\ nn = n + 1
  OBVIOUS
<1>2. YearStart(y) \in Int
  BY YearBegins
<1>3. /\ Utc(y, m, k) = YearStart(y) - 1 + DaysBeforeMonth(y, m) + k
      /\ Utc(y, n, k) = YearStart(y) - 1 + DaysBeforeMonth(y, n) + k
  BY UtcIs
<1>4. /\ Utc(y, mm, k) = YearStart(y) - 1 + DaysBeforeMonth(y, m) + MonthLength(y, m) + k
      /\ Utc(y, nn, k) = YearStart(y) - 1 + DaysBeforeMonth(y, n) + MonthLength(y, n) + k
  BY <1>1, MonthFollows
<1>5. DaysBeforeMonth(y, m) \in Int /\ MonthLength(y, m) \in Int /\ DaysBeforeMonth(y, n) \in Int /\ MonthLength(y, n) \in Int
  BY LengthIsTyped, DaysAreTyped
<1>6. m < n => DaysBeforeMonth(y, m) + MonthLength(y, m) <= DaysBeforeMonth(y, n)
  BY MonthsApart
<1>7. n < m => DaysBeforeMonth(y, n) + MonthLength(y, n) <= DaysBeforeMonth(y, m)
  BY MonthsApart
<1>8. Utc(y, m, k) <= d /\ d < Utc(y, mm, k) /\ Utc(y, n, k) <= d /\ d < Utc(y, nn, k)
  BY <1>1
<1> QED BY <1>2, <1>3, <1>4, <1>5, <1>6, <1>7, <1>8

\* The date is in the year and in the month that contain it, and in no other.
LEMMA DateIs ==
  ASSUME NEW d, NEW y, NEW m, NEW k, IsDate(d, y, m, k)
  PROVE  YearOf(d) = y /\ MonthOf(d) = m /\ DayOfMonth(d) = k
<1>1. y \in Nat /\ y \in Int /\ y >= 1 /\ m \in 0..11 /\ k \in Int /\ k >= 1 /\ k <= MonthLength(y, m) /\ d = Utc(y, m, k)
  BY MonthTable DEF IsDate
<1>2. /\ d = YearStart(y) - 1 + DaysBeforeMonth(y, m) + k /\ d \in Nat
      /\ YearStart(y) <= d /\ d < YearStart(y) + YearLength(y)
  BY DateInYear
<1>3. PICK z \in Int : z = y + 1
  BY <1>1
<1>4. YearStart(z) = YearStart(y) + YearLength(y) /\ YearStart(y) \in Int /\ YearLength(y) \in 365..366
  BY <1>1, <1>3, YearFollows
<1>5. 365 * (y - 1) + 1 <= YearStart(y) /\ YearStart(y) <= 366 * (y - 1) + 1
  BY <1>1, YearIsLate
<1>6. y \in (d \div 366)..((d \div 365) + 1)
  BY <1>1, <1>2, <1>4, <1>5
<1>7. Utc(y, 0, 1) <= d /\ d < Utc(y + 1, 0, 1)
  <2>1. Utc(y, 0, 1) = YearStart(y) /\ Utc(z, 0, 1) = YearStart(z)
    BY <1>1, YearBegins
  <2> QED BY <1>2, <1>3, <1>4, <2>1
<1>8. YearOf(d) = y
  <2>1. PICK Y : Y = (d \div 366)..((d \div 365) + 1)
    OBVIOUS
  <2>2. ASSUME NEW x \in Y, Utc(x, 0, 1) <= d, d < Utc(x + 1, 0, 1) PROVE x = y
    <3>1. x \in Int
      BY <1>2, <2>1
    <3>2. PICK n \in Int : n = x + 1
      BY <3>1
    <3>3. Utc(x, 0, 1) = YearStart(x) /\ Utc(n, 0, 1) = YearStart(n) /\ YearStart(n) = YearStart(x) + YearLength(x)
      BY <3>1, <3>2, YearBegins, YearFollows
    <3>4. YearStart(x) <= d /\ d < YearStart(x) + YearLength(x)
      BY <2>2, <3>2, <3>3
    <3> QED BY <1>1, <1>2, <3>1, <3>4, OneYear
  <2>3. YearOf(d) = CHOOSE x \in Y : Utc(x, 0, 1) <= d /\ d < Utc(x + 1, 0, 1)
    BY <2>1, Zenon DEF YearOf
  <2>4. y \in Y
    BY <1>6, <2>1
  <2> QED BY <1>7, <2>2, <2>3, <2>4
<1>9. Utc(y, m, 1) <= d /\ d < Utc(y, m + 1, 1) /\ d - Utc(y, m, 1) + 1 = k
  <2>1. PICK j \in Int, n \in 1..12 : j = 1 /\ n = m + 1
    BY <1>1
  <2>2. Utc(y, m, j) = YearStart(y) - 1 + DaysBeforeMonth(y, m) + j
    BY <1>1, UtcIs
  <2>3. Utc(y, n, j) = YearStart(y) - 1 + DaysBeforeMonth(y, m) + MonthLength(y, m) + j
    BY <1>1, <2>1, MonthFollows
  <2>4. DaysBeforeMonth(y, m) \in Int /\ MonthLength(y, m) \in Int
    BY <1>1, LengthIsTyped, DaysAreTyped
  <2>5. Utc(y, m, j) <= d /\ d < Utc(y, n, j) /\ d - Utc(y, m, j) + 1 = k
    BY <1>1, <1>2, <1>4, <2>1, <2>2, <2>3, <2>4
  <2> QED BY <2>1, <2>5
<1>10. MonthOf(d) = m
  <2>1. MonthOf(d) = CHOOSE n \in 0..11 : Utc(y, n, 1) <= d /\ d < Utc(y, n + 1, 1)
    BY <1>8 DEF MonthOf
  <2>2. ASSUME NEW n \in 0..11, Utc(y, n, 1) <= d, d < Utc(y, n + 1, 1) PROVE n = m
    BY <1>1, <1>2, <1>9, <2>2, OneMonth
  <2> QED BY <1>1, <1>9, <2>1, <2>2
<1> QED BY <1>8, <1>9, <1>10 DEF DayOfMonth

\* Every day from 1 January of year 1 on is a date.
LEMMA DateExists ==
  ASSUME NEW d \in Nat, d >= 1
  PROVE  \E y, m, k : IsDate(d, y, m, k)
<1>1. PICK S : S = {x \in Nat : YearStart(x) + YearLength(x) > d}
  OBVIOUS
<1>2. S \subseteq Nat /\ S # {}
  <2>1. 365 * (d - 1) + 1 <= YearStart(d) /\ YearStart(d) \in Int /\ YearLength(d) \in 365..366
    BY YearIsLate, YearBegins DEF YearLength
  <2>2. YearStart(d) + YearLength(d) > d
    BY <2>1
  <2> QED BY <1>1, <2>2
<1>3. PICK y : y = Min(S)
  OBVIOUS
<1>4. y \in S /\ \A n \in S : y <= n
  BY <1>2, <1>3, LeastOfSome
<1>5. y \in Nat /\ YearStart(y) + YearLength(y) > d
  BY <1>1, <1>4
<1>6. y >= 1
  <2>1. SUFFICES ASSUME y = 0 PROVE FALSE
    BY <1>5
  <2>2. PICK x \in Nat : x = 1
    OBVIOUS
  <2>3. YearStart(x) = YearStart(y) + YearLength(y)
    BY <2>1, <2>2, YearFollows
  <2>4. YearStart(x) <= 366 * (x - 1) + 1
    BY <2>2, YearIsLate
  <2>5. YearStart(y) + YearLength(y) <= 1
    BY <2>2, <2>3, <2>4
  <2>6. YearStart(y) \in Int /\ YearLength(y) \in Int
    BY <1>5, YearBegins DEF YearLength
  <2> QED BY <1>5, <2>5, <2>6
<1>7. PICK x \in Nat : y = x + 1
  BY <1>5, <1>6
<1>8. YearStart(y) <= d
  <2>1. YearStart(y) = YearStart(x) + YearLength(x) /\ YearStart(y) \in Int
    BY <1>7, YearFollows, YearBegins
  <2>2. x \notin S
    BY <1>4, <1>5, <1>7
  <2> QED BY <1>1, <1>5, <1>7, <2>1, <2>2
<1>9. PICK o \in Nat : d = YearStart(y) + o /\ o < YearLength(y)
  <2>1. YearStart(y) \in Int /\ YearLength(y) \in Int
    BY <1>5, YearBegins DEF YearLength
  <2>2. PICK ys \in Int, yl \in Int : ys = YearStart(y) /\ yl = YearLength(y)
    BY <2>1
  <2>3. d - ys \in Nat /\ d = ys + (d - ys) /\ d - ys < yl
    BY <1>5, <1>8, <2>2
  <2> QED BY <2>2, <2>3
<1>10. PICK m \in 0..11 : DaysBeforeMonth(y, m) <= o /\ o < DaysBeforeMonth(y, m) + MonthLength(y, m)
  BY <1>9 DEF DaysBeforeMonth, MonthLength, YearLength
<1>11. PICK k : k = o - DaysBeforeMonth(y, m) + 1
  OBVIOUS
<1>12. y \in Int /\ DaysBeforeMonth(y, m) \in Int /\ MonthLength(y, m) \in Int
  <2>1. y \in Int
    BY <1>5
  <2> QED BY <2>1, LengthIsTyped, DaysAreTyped
<1>13. k \in Int /\ k \in 1..MonthLength(y, m)
  BY <1>10, <1>11, <1>12
<1>14. Utc(y, m, k) = YearStart(y) - 1 + DaysBeforeMonth(y, m) + k /\ YearStart(y) \in Int
  BY <1>12, <1>13, UtcIs, YearBegins
<1>15. Utc(y, m, k) = d
  BY <1>9, <1>11, <1>12, <1>14
<1> QED BY <1>5, <1>6, <1>13, <1>15 DEF IsDate

\* The next day is the next of its month, or the first of another month.
LEMMA DayAfterIs ==
  ASSUME NEW d, NEW y, NEW m, NEW k, IsDate(d, y, m, k), NEW e, e = d + 1,
         NEW z, NEW n, NEW j, IsDate(e, z, n, j)
  PROVE  \/ k < MonthLength(y, m) /\ z = y /\ n = m /\ j = k + 1
         \/ k = MonthLength(y, m) /\ j = 1
<1>1. y \in Nat /\ y \in Int /\ y >= 1 /\ m \in 0..11 /\ k \in Int /\ k >= 1 /\ k <= MonthLength(y, m)
  BY MonthTable DEF IsDate
<1>2. d = YearStart(y) - 1 + DaysBeforeMonth(y, m) + k /\ d \in Nat
  BY DateInYear
<1>3. MonthLength(y, m) \in Int /\ DaysBeforeMonth(y, m) \in Int /\ YearStart(y) \in Int
  BY <1>1, LengthIsTyped, DaysAreTyped, YearBegins
<1>4. CASE k < MonthLength(y, m)
  <2>1. PICK i \in Int : i = k + 1
    BY <1>1
  <2>2. Utc(y, m, i) = YearStart(y) - 1 + DaysBeforeMonth(y, m) + i
    BY <1>1, UtcIs
  <2>3. e = Utc(y, m, i)
    BY <1>1, <1>2, <1>3, <2>1, <2>2
  <2>4. i \in 1..MonthLength(y, m)
    BY <1>1, <1>3, <1>4, <2>1
  <2>5. IsDate(e, y, m, i)
    BY <1>1, <2>3, <2>4 DEF IsDate
  <2>6. YearOf(e) = y /\ MonthOf(e) = m /\ DayOfMonth(e) = i
    BY <2>5, DateIs
  <2>7. YearOf(e) = z /\ MonthOf(e) = n /\ DayOfMonth(e) = j
    BY DateIs
  <2> QED BY <1>4, <2>1, <2>6, <2>7
<1>5. CASE k = MonthLength(y, m) /\ m < 11
  <2>1. PICK i \in Int, g \in 0..11 : i = 1 /\ g = m + 1
    BY <1>1, <1>5
  <2>2. Utc(y, g, i) = YearStart(y) - 1 + DaysBeforeMonth(y, g) + i
    BY <1>1, UtcIs
  <2>3. DaysBeforeMonth(y, g) = DaysBeforeMonth(y, m) + MonthLength(y, m)
    BY <1>1, <2>1, MonthsApart
  <2>4. e = Utc(y, g, i)
    BY <1>1, <1>2, <1>3, <1>5, <2>1, <2>2, <2>3
  <2>5. MonthLength(y, g) \in 28..31
    BY <1>1, MonthTable
  <2>6. i \in 1..MonthLength(y, g)
    BY <2>1, <2>5
  <2>7. IsDate(e, y, g, i)
    BY <1>1, <2>4, <2>6 DEF IsDate
  <2>8. DayOfMonth(e) = i
    BY <2>7, DateIs
  <2>9. DayOfMonth(e) = j
    BY DateIs
  <2> QED BY <1>5, <2>1, <2>8, <2>9
<1>6. CASE k = MonthLength(y, m) /\ m = 11
  <2>1. PICK x \in Nat : x = y + 1
    BY <1>1
  <2>2. PICK i \in Int, g \in 0..11 : i = 1 /\ g = 0
    OBVIOUS
  <2>3. YearStart(x) = YearStart(y) + YearLength(y) /\ x \in Int /\ x >= 1
    BY <1>1, <2>1, YearFollows
  <2>4. Utc(x, g, i) = YearStart(x)
    BY <2>2, <2>3, YearBegins
  <2>5. DaysBeforeMonth(y, m) + MonthLength(y, m) = YearLength(y) /\ YearLength(y) \in Int
    BY <1>1, <1>6, MonthTable DEF YearLength
  <2>6. e = Utc(x, g, i)
    BY <1>1, <1>2, <1>3, <1>6, <2>2, <2>3, <2>4, <2>5
  <2>7. MonthLength(x, g) \in 28..31
    BY <2>3, MonthTable
  <2>8. i \in 1..MonthLength(x, g)
    BY <2>2, <2>7
  <2>9. IsDate(e, x, g, i)
    BY <2>1, <2>3, <2>6, <2>8 DEF IsDate
  <2>10. DayOfMonth(e) = i
    BY <2>9, DateIs
  <2>11. DayOfMonth(e) = j
    BY DateIs
  <2> QED BY <1>6, <2>2, <2>10, <2>11
<1> QED BY <1>1, <1>3, <1>4, <1>5, <1>6

\* A month's last day is not before any day of it.
LEMMA LastIs ==
  ASSUME NEW d, NEW y, NEW m, NEW k, IsDate(d, y, m, k)
  PROVE  LastOfMonth(d) = d - k + MonthLength(y, m) /\ LastOfMonth(d) \in Int /\ LastOfMonth(d) >= d
<1>1. y \in Nat /\ y \in Int /\ y >= 1 /\ m \in 0..11 /\ k \in Int /\ k >= 1 /\ k <= MonthLength(y, m)
  BY MonthTable DEF IsDate
<1>2. d = YearStart(y) - 1 + DaysBeforeMonth(y, m) + k /\ d \in Nat
  BY DateInYear
<1>3. PICK i \in Int, n \in 1..12 : i = 0 /\ n = m + 1
  BY <1>1
<1>4. Utc(y, n, i) = YearStart(y) - 1 + DaysBeforeMonth(y, m) + MonthLength(y, m) + i
  BY <1>1, <1>3, MonthFollows
<1>5. YearOf(d) = y /\ MonthOf(d) = m
  BY DateIs
<1>6. LastOfMonth(d) = Utc(y, n, i)
  BY <1>3, <1>5 DEF LastOfMonth
<1>7. DaysBeforeMonth(y, m) \in Int /\ MonthLength(y, m) \in Int /\ YearStart(y) \in Int
  BY <1>1, LengthIsTyped, DaysAreTyped, YearBegins
<1> QED BY <1>1, <1>2, <1>3, <1>4, <1>6, <1>7

LEMMA LastGrows ==
  ASSUME NEW d \in Nat, d >= 1
  PROVE  LastOfMonth(d) \in Int /\ LastOfMonth(d + 1) \in Int /\ LastOfMonth(d) <= LastOfMonth(d + 1)
<1>1. PICK e \in Nat : e = d + 1
  OBVIOUS
<1>2. PICK y, m, k : IsDate(d, y, m, k)
  BY DateExists
<1>3. PICK z, n, j : IsDate(e, z, n, j)
  BY <1>1, DateExists
<1>4. LastOfMonth(d) = d - k + MonthLength(y, m) /\ LastOfMonth(d) \in Int
  BY <1>2, LastIs
<1>5. LastOfMonth(e) = e - j + MonthLength(z, n) /\ LastOfMonth(e) \in Int /\ LastOfMonth(e) >= e
  BY <1>3, LastIs
<1>6. k \in Int /\ MonthLength(y, m) \in Int
  <2>1. y \in Int /\ m \in 0..11 /\ k \in 1..MonthLength(y, m)
    BY <1>2 DEF IsDate
  <2>2. MonthLength(y, m) \in Int
    BY <2>1, LengthIsTyped
  <2> QED BY <2>1, <2>2
<1>7. \/ k < MonthLength(y, m) /\ z = y /\ n = m /\ j = k + 1
      \/ k = MonthLength(y, m) /\ j = 1
  BY <1>1, <1>2, <1>3, DayAfterIs
<1>8. LastOfMonth(d) <= LastOfMonth(e)
  BY <1>1, <1>4, <1>5, <1>6, <1>7
<1> QED BY <1>1, <1>4, <1>5, <1>8

LEMMA UrgencyGrows ==
  ASSUME NEW d \in Nat, d >= 1, NEW due \in Nat
  PROVE  GroupOf(due, d + 1) <= GroupOf(due, d)
<1>1. LastOfMonth(d) \in Int /\ LastOfMonth(d + 1) \in Int /\ LastOfMonth(d) <= LastOfMonth(d + 1)
  BY LastGrows
<1> QED BY <1>1 DEF GroupOf

(***************************************************************************)
(* Easter and the holidays it moves.                                       *)
(***************************************************************************)
MoonOf(y) == (19 * (y % 19) + (y \div 100) - ((y \div 100) \div 4)
                - (((y \div 100) - (((y \div 100) + 8) \div 25) + 1) \div 3) + 15) % 30
SundayOf(y) == (32 + 2 * ((y \div 100) % 4) + 2 * ((y % 100) \div 4) - MoonOf(y) - ((y % 100) % 4)) % 7
OrbitOf(y) == ((y % 19) + 11 * MoonOf(y) + 22 * SundayOf(y)) \div 451

LEMMA EasterParts ==
  ASSUME NEW y \in Nat
  PROVE  MoonOf(y) \in 0..29 /\ SundayOf(y) \in 0..6 /\ (y % 19) \in 0..18
<1>1. y % 19 \in 0..18 /\ (y \div 100) \in Nat /\ ((y \div 100) \div 4) \in Nat
  OBVIOUS
<1>2. ((y \div 100) - (((y \div 100) + 8) \div 25) + 1) \div 3 \in Int
  BY <1>1
<1>3. PICK t \in Int : MoonOf(y) = t % 30
  BY <1>1, <1>2 DEF MoonOf
<1>4. MoonOf(y) \in 0..29
  BY <1>3
<1>5. ((y \div 100) % 4) \in Int /\ ((y % 100) \div 4) \in Int /\ ((y % 100) % 4) \in Int
  BY <1>1
<1>6. PICK w \in Int : SundayOf(y) = w % 7
  BY <1>4, <1>5 DEF SundayOf
<1>7. SundayOf(y) \in 0..6
  BY <1>6
<1> QED BY <1>1, <1>4, <1>7

\* The correction of a week is made for the two full moons that come too late, and only then.
LEMMA OrbitIs ==
  ASSUME NEW y \in Nat
  PROVE  OrbitOf(y) = IF SundayOf(y) = 6 /\ (MoonOf(y) = 29 \/ (MoonOf(y) = 28 /\ y % 19 >= 11)) THEN 1 ELSE 0
<1>1. PICK h, l, a : h = MoonOf(y) /\ l = SundayOf(y) /\ a = y % 19
  OBVIOUS
<1>2. h \in 0..29 /\ l \in 0..6 /\ a \in 0..18
  BY <1>1, EasterParts
<1>3. (a + 11 * h + 22 * l) \div 451 = IF l = 6 /\ (h = 29 \/ (h = 28 /\ a >= 11)) THEN 1 ELSE 0
  BY <1>2
<1> QED BY <1>1, <1>3 DEF OrbitOf

\* 22 March, and the days after it.
March(y, k) == YearStart(y) - 1 + (IF Leap(y) THEN 60 ELSE 59) + k

LEMMA MarchIs ==
  ASSUME NEW y \in Int, NEW k \in Int
  PROVE  /\ March(y, k) \in Int /\ Utc(y, 2, k) = March(y, k) /\ Utc(y, 3, k) = March(y, k + 31)
<1>1. PICK i \in 0..11, j \in 0..11 : i = 2 /\ j = 3
  OBVIOUS
<1>2. Utc(y, i, k) = YearStart(y) - 1 + DaysBeforeMonth(y, i) + k
  BY UtcIs
<1>3. Utc(y, j, k) = YearStart(y) - 1 + DaysBeforeMonth(y, j) + k
  BY UtcIs
<1>4. /\ DaysBeforeMonth(y, i) = (IF Leap(y) THEN 60 ELSE 59)
      /\ DaysBeforeMonth(y, j) = (IF Leap(y) THEN 91 ELSE 90)
  BY <1>1 DEF DaysBeforeMonth
<1>5. YearStart(y) \in Int
  BY YearBegins
<1> QED BY <1>1, <1>2, <1>3, <1>4, <1>5 DEF March

LEMMA EasterIs ==
  ASSUME NEW y \in Nat
  PROVE  EasterSunday(y) = March(y, 22 + MoonOf(y) + SundayOf(y) - 7 * OrbitOf(y))
<1>1. PICK n, h, l, m : h = MoonOf(y) /\ l = SundayOf(y) /\ m = OrbitOf(y) /\ n = h + l - 7 * m + 114
  OBVIOUS
<1>2. EasterSunday(y) = Utc(y, (n \div 31) - 1, (n % 31) + 1)
  BY <1>1 DEF EasterSunday, MoonOf, SundayOf, OrbitOf
<1>3. h \in 0..29 /\ l \in 0..6
  BY <1>1, EasterParts
<1>4. m = IF l = 6 /\ (h = 29 \/ (h = 28 /\ y % 19 >= 11)) THEN 1 ELSE 0
  BY <1>1, OrbitIs
<1>5. n \in 114..148 /\ m \in 0..1
  BY <1>1, <1>3, <1>4
<1>6. y \in Int /\ n = h + l - 7 * m + 114
  BY <1>1
<1>7. CASE n < 124
  <2>1. PICK k \in Int : k = n - 92
    BY <1>5
  <2>2. (n \div 31) - 1 = 2 /\ (n % 31) + 1 = k
    BY <1>5, <1>7, <2>1
  <2>3. k = 22 + h + l - 7 * m
    BY <1>3, <1>5, <1>6, <2>1
  <2>4. Utc(y, 2, k) = March(y, k)
    BY <1>6, MarchIs
  <2> QED BY <1>1, <1>2, <2>2, <2>3, <2>4
<1>8. CASE n >= 124
  <2>1. PICK k \in Int, q \in Int : k = n - 123 /\ q = k + 31
    BY <1>5
  <2>2. (n \div 31) - 1 = 3 /\ (n % 31) + 1 = k
    BY <1>5, <1>8, <2>1
  <2>3. q = 22 + h + l - 7 * m
    BY <1>3, <1>5, <1>6, <2>1
  <2>4. Utc(y, 3, k) = March(y, q)
    BY <1>6, <2>1, MarchIs
  <2> QED BY <1>1, <1>2, <2>2, <2>3, <2>4
<1> QED BY <1>5, <1>7, <1>8

LEMMA EasterIsSunday ==
  ASSUME NEW y \in Nat, y >= 1
  PROVE  EasterSunday(y) \in Nat /\ EasterSunday(y) % 7 = 0
<1>1. PICK h, l, m : h = MoonOf(y) /\ l = SundayOf(y) /\ m = OrbitOf(y)
  OBVIOUS
<1>2. h \in 0..29 /\ l \in 0..6 /\ m \in 0..1
  BY <1>1, EasterParts, OrbitIs
<1>3. PICK b \in Nat, c \in 0..99 : b = y \div 100 /\ c = y % 100 /\ y = 100 * b + c
  OBVIOUS
<1>4. PICK p \in Nat, s \in 0..3 : p = b \div 4 /\ s = b % 4 /\ b = 4 * p + s
  OBVIOUS
<1>5. PICK q \in 0..24, r \in 0..3 : q = c \div 4 /\ r = c % 4 /\ c = 4 * q + r
  OBVIOUS
<1>6. LeapsBefore(y + 1) = (25 * b + q) - b + p
  BY <1>3, <1>4, <1>5 DEF LeapsBefore
<1>7. LeapsBefore(y + 1) = LeapsBefore(y) + (IF Leap(y) THEN 1 ELSE 0) /\ LeapsBefore(y) \in Int
  BY DEF LeapsBefore, Leap
<1>8. l = (32 + 2 * s + 2 * q - h - r) % 7
  BY <1>1, <1>3, <1>4, <1>5 DEF SundayOf
<1>9. PICK w \in Int : 32 + 2 * s + 2 * q - h - r = 7 * w + l
  <2>1. PICK t \in Int : t = 32 + 2 * s + 2 * q - h - r
    BY <1>2
  <2>2. PICK w \in Int : w = t \div 7
    OBVIOUS
  <2>3. t = 7 * w + l
    BY <1>8, <2>1, <2>2
  <2> QED BY <2>1, <2>3
<1>10. EasterSunday(y) = March(y, 22 + h + l - 7 * m)
  BY <1>1, EasterIs
<1>11. March(y, 22 + h + l - 7 * m) = 365 * (y - 1) + LeapsBefore(y + 1) + 59 + 22 + h + l - 7 * m
  BY <1>2, <1>7 DEF March, YearStart
<1>12. EasterSunday(y) = 7 * (20871 * p + 5218 * s + 209 * q + 52 * r - 36 - w - m)
  BY <1>2, <1>3, <1>4, <1>5, <1>6, <1>9, <1>10, <1>11
<1>13. YearStart(y) >= 1 /\ YearStart(y) \in Int
  BY YearIsLate, YearBegins
<1>14. March(y, 22 + h + l - 7 * m) \in Nat
  BY <1>2, <1>13 DEF March
<1>15. PICK v \in Int : EasterSunday(y) = 7 * v
  <2>1. PICK v \in Int : v = 20871 * p + 5218 * s + 209 * q + 52 * r - 36 - w - m
    BY <1>2
  <2>2. EasterSunday(y) = 7 * v
    BY <1>12, <2>1
  <2> QED BY <2>2
<1> QED BY <1>10, <1>14, <1>15

\* Where the algorithm and the church's tables meet: the golden number and the epact.
EpactOf(y) == (11 * ((y % 19) + 1) + 20 + (((8 * ((y \div 100) + 1) + 5) \div 25) - 5)
                - (((3 * ((y \div 100) + 1)) \div 4) - 12)) % 30

LEMMA EpactIs ==
  ASSUME NEW y \in Nat
  PROVE  EpactOf(y) \in 0..29 /\ MoonOf(y) = IF EpactOf(y) <= 23 THEN 23 - EpactOf(y) ELSE 53 - EpactOf(y)
<1>0. PICK x, z, e : /\ x = ((3 * ((y \div 100) + 1)) \div 4) - 12 /\ z = ((8 * ((y \div 100) + 1) + 5) \div 25) - 5
                     /\ e = EpactOf(y) /\ e = (11 * ((y % 19) + 1) + 20 + z - x) % 30
  BY DEF EpactOf
<1>1. PICK a \in 0..18, b \in Nat : a = y % 19 /\ b = y \div 100
  OBVIOUS
<1>2. x = b - (b \div 4) - 12 /\ b \div 4 \in Int
  BY <1>0, <1>1
<1>3. z = ((b - ((b + 8) \div 25) + 1) \div 3) - 5 /\ z \in Int
  BY <1>0, <1>1
<1>4. PICK g \in Int, t \in Int : g = z + 5 /\ t = b - (b \div 4)
  BY <1>1, <1>2, <1>3
<1>5. MoonOf(y) = (19 * a + t - g + 15) % 30
  BY <1>1, <1>2, <1>3, <1>4 DEF MoonOf
<1>6. e = (11 * (a + 1) + 20 + (g - 5) - (t - 12)) % 30
  BY <1>0, <1>1, <1>2, <1>3, <1>4
<1>7. e \in 0..29 /\ MoonOf(y) = IF e <= 23 THEN 23 - e ELSE 53 - e
  BY <1>5, <1>6
<1> QED BY <1>0, <1>7

\* The algorithm of the code gives, in every year from 1 on, the Sunday that follows the full moon
\* of the church's tables.
THEOREM EasterIsOfTheTables ==
  ASSUME NEW y \in Nat, y >= 1
  PROVE  EasterSunday(y) = PaschalEaster(y)
<1>1. PICK h, l, m, a : h = MoonOf(y) /\ l = SundayOf(y) /\ m = OrbitOf(y) /\ a = y % 19
  OBVIOUS
<1>2. h \in 0..29 /\ l \in 0..6 /\ a \in 0..18 /\ m = IF l = 6 /\ (h = 29 \/ (h = 28 /\ a >= 11)) THEN 1 ELSE 0
  BY <1>1, EasterParts, OrbitIs
<1>3. PICK x, z : /\ x = ((3 * ((y \div 100) + 1)) \div 4) - 12
                  /\ z = ((8 * ((y \div 100) + 1) + 5) \div 25) - 5
  OBVIOUS
<1>4. PICK e : e = (11 * (a + 1) + 20 + z - x) % 30 /\ e = EpactOf(y)
  BY <1>1, <1>3 DEF EpactOf
<1>5. e \in 0..29 /\ h = IF e <= 23 THEN 23 - e ELSE 53 - e
  BY <1>1, <1>4, EpactIs
<1>6. PICK epact : epact = IF e = 24 \/ (e = 25 /\ a + 1 > 11) THEN e + 1 ELSE e
  OBVIOUS
<1>7. PICK k : k = IF 44 - epact < 21 THEN 74 - epact ELSE 44 - epact
  OBVIOUS
<1>8. k \in Int /\ k = IF h = 29 \/ (h = 28 /\ a >= 11) THEN 20 + h ELSE 21 + h
  BY <1>2, <1>5, <1>6, <1>7
<1>9. PICK moon : moon = Utc(y, 2, k)
  OBVIOUS
<1>10. PaschalEaster(y) = CHOOSE d \in (moon + 1)..(moon + 7) : DayOfWeek(d) = 0
  BY <1>1, <1>3, <1>4, <1>6, <1>7, <1>9 DEF PaschalEaster
<1>11. PICK d : d = EasterSunday(y)
  OBVIOUS
<1>12. d \in Nat /\ d % 7 = 0
  BY <1>11, EasterIsSunday
<1>13. y \in Int /\ YearStart(y) \in Int
  BY YearBegins
<1>14. moon = March(y, k)
  BY <1>8, <1>9, <1>13, MarchIs
<1>15. d = March(y, 22 + h + l - 7 * m)
  BY <1>1, <1>11, EasterIs
<1>16. moon \in Int /\ d \in (moon + 1)..(moon + 7)
  BY <1>2, <1>8, <1>13, <1>14, <1>15 DEF March
<1>17. ASSUME NEW n \in (moon + 1)..(moon + 7), n % 7 = 0 PROVE n = d
  BY <1>12, <1>16, <1>17
<1> QED BY <1>10, <1>11, <1>12, <1>16, <1>17 DEF DayOfWeek

\* Movable holidays are Fridays and Thursdays, and no two fixed ones are a day apart: of the
\* Monday and the Tuesday of a week one is a working day.
LEMMA BusinessSoon ==
  ASSUME NEW d \in Nat, d >= 1
  PROVE  \E e \in d..(d + 7) : Business(e)
<1>1. PICK e \in Nat : e \in d..(d + 6) /\ e % 7 = 1
  <2>1. PICK i \in 0..6 : i = (1 - d) % 7
    OBVIOUS
  <2>2. d + i \in Nat /\ d + i \in d..(d + 6) /\ (d + i) % 7 = 1
    BY <2>1
  <2> QED BY <2>2
<1>2. PICK o \in Nat : o = e + 1 /\ o \in d..(d + 7) /\ o % 7 = 2
  BY <1>1
<1>3. PICK y, m, k : IsDate(e, y, m, k)
  BY <1>1, DateExists
<1>4. PICK z, n, j : IsDate(o, z, n, j)
  BY <1>1, <1>2, DateExists
<1>5. YearOf(e) = y /\ MonthOf(e) = m /\ DayOfMonth(e) = k /\ YearOf(o) = z /\ MonthOf(o) = n /\ DayOfMonth(o) = j
  BY <1>3, <1>4, DateIs
<1>6. ASSUME NEW x \in Nat, x >= 1 PROVE e \notin MovableHolidays(x) /\ o \notin MovableHolidays(x)
  <2>1. PICK s : s = EasterSunday(x) /\ s \in Nat /\ s % 7 = 0
    BY <1>6, EasterIsSunday
  <2>2. (s - 2) % 7 = 5 /\ (s + 60) % 7 = 4
    BY <2>1
  <2>3. e # s - 2 /\ e # s + 60 /\ o # s - 2 /\ o # s + 60
    BY <1>1, <1>2, <2>2
  <2> QED BY <2>1, <2>3 DEF MovableHolidays
<1>7. y \in Nat /\ y >= 1 /\ z \in Nat /\ z >= 1
  BY <1>3, <1>4 DEF IsDate
<1>8. ~(<<m + 1, k>> \in FixedHolidays /\ <<n + 1, j>> \in FixedHolidays)
  <2>1. \/ k < MonthLength(y, m) /\ z = y /\ n = m /\ j = k + 1
        \/ k = MonthLength(y, m) /\ j = 1
    BY <1>2, <1>3, <1>4, DayAfterIs
  <2>2. y \in Int /\ m \in 0..11 /\ k \in 1..MonthLength(y, m)
    BY <1>3 DEF IsDate
  <2>3. MonthLength(y, m) \in 28..31
    BY <2>2, MonthTable
  <2>4. CASE n = m /\ j = k + 1
    BY <2>2, <2>3, <2>4 DEF FixedHolidays
  <2>5. CASE k = MonthLength(y, m)
    BY <2>2, <2>3, <2>5 DEF FixedHolidays
  <2> QED BY <2>1, <2>4, <2>5
<1>9. ~IsPublicHoliday(e) \/ ~IsPublicHoliday(o)
  BY <1>5, <1>6, <1>7, <1>8 DEF IsPublicHoliday
<1>10. ~IsWeekend(e) /\ ~IsWeekend(o)
  BY <1>1, <1>2 DEF IsWeekend, DayOfWeek
<1>11. e \in d..(d + 7)
  BY <1>1
<1> QED BY <1>2, <1>9, <1>10, <1>11 DEF Business

(***************************************************************************)
(* The catalogue's deadlines, by month and day.                            *)
(***************************************************************************)
\* The month of a deadline after the last of its period, and its day; 0 is the last of the month before.
Lag(e)    == IF e.deadline.kind = "dayOfMonthAfterPeriodEnd" THEN e.deadline.months ELSE e.deadline.months + 1
DayDue(e) == IF e.deadline.kind = "dayOfMonthAfterPeriodEnd" THEN e.deadline.day ELSE 0

AfterPeriods(e) ==
  /\ e.periodicity \in {"MONTHLY", "QUARTERLY"}
  /\ e.deadline.kind \in {"dayOfMonthAfterPeriodEnd", "lastDayOfMonthAfterPeriodEnd"}
  /\ e.deadline.months \in 1..2
  /\ e.deadline.kind = "dayOfMonthAfterPeriodEnd" => e.deadline.day \in 1..28

OnceAYear(e) ==
  /\ e.periodicity = "ANNUAL" /\ e.deadline.kind = "fixedDate"
  /\ e.deadline.years \in 0..1 /\ e.deadline.month \in 1..12 /\ e.deadline.day \in 1..31

LEMMA CatalogueIs == ASSUME NEW e \in FiscalCatalog PROVE AfterPeriods(e) \/ OnceAYear(e)
<1>1. CASE e \in VatCatalog
  BY <1>1 DEF VatCatalog, Entry, DayAfter, AfterPeriods
<1>2. CASE e \in CorporateCatalog
  BY <1>2 DEF CorporateCatalog, Entry, FixedDate, LastDayAfter, AfterPeriods, OnceAYear
<1>3. CASE e \in SocialSecurityCatalog
  BY <1>3 DEF SocialSecurityCatalog, Entry, DayAfter, AfterPeriods
<1>4. CASE e \in IndividualCatalog
  BY <1>4 DEF IndividualCatalog, Entry, FixedDate, OnceAYear
<1> QED BY <1>1, <1>2, <1>3, <1>4 DEF FiscalCatalog

\* The same day of a later month comes four weeks later at least.
LEMMA UtcApart ==
  ASSUME NEW y \in Int, NEW m \in 0..23, NEW n \in 0..23, m < n, NEW k \in Int
  PROVE  Utc(y, m, k) \in Int /\ Utc(y, n, k) \in Int /\ Utc(y, m, k) + 28 <= Utc(y, n, k)
<1>1. PICK z \in Int : z = y + 1
  OBVIOUS
<1>2. YearStart(y) \in Int /\ YearStart(z) = YearStart(y) + YearLength(y) /\ YearLength(y) \in 365..366
  BY <1>1, YearFollows
<1>3. CASE n <= 11
  <2>1. m \in 0..11 /\ n \in 0..11
    BY <1>3
  <2>2. /\ Utc(y, m, k) = YearStart(y) - 1 + DaysBeforeMonth(y, m) + k
        /\ Utc(y, n, k) = YearStart(y) - 1 + DaysBeforeMonth(y, n) + k
    BY <2>1, UtcIs
  <2>3. DaysBeforeMonth(y, m) + MonthLength(y, m) <= DaysBeforeMonth(y, n)
    BY <2>1, MonthsApart
  <2>4. MonthLength(y, m) \in 28..31 /\ DaysBeforeMonth(y, m) \in 0..335
    BY <2>1, MonthTable
  <2>5. DaysBeforeMonth(y, n) \in Int
    BY <2>1, DaysAreTyped
  <2> QED BY <1>2, <2>2, <2>3, <2>4, <2>5
<1>4. CASE m <= 11 /\ n > 11
  <2>1. PICK j \in 0..11 : n = j + 12
    BY <1>4
  <2>2. m \in 0..11 /\ n \in 12..23
    BY <1>4
  <2>3. Utc(y, m, k) = YearStart(y) - 1 + DaysBeforeMonth(y, m) + k
    BY <2>2, UtcIs
  <2>4. Utc(y, n, k) = Utc(z, j, k)
    BY <1>1, <2>1, <2>2, UtcLater
  <2>5. Utc(z, j, k) = YearStart(z) - 1 + DaysBeforeMonth(z, j) + k
    BY UtcIs
  <2>6. DaysBeforeMonth(z, j) \in 0..335
    BY MonthTable
  <2>7. /\ DaysBeforeMonth(y, m) + MonthLength(y, m) <= YearLength(y)
        /\ MonthLength(y, m) \in 28..31 /\ DaysBeforeMonth(y, m) \in 0..335
    BY <2>2, MonthTable
  <2>8. YearStart(z) \in Int
    BY YearBegins
  <2>9. Utc(y, n, k) = YearStart(z) - 1 + DaysBeforeMonth(z, j) + k
    BY <2>4, <2>5
  <2>10. PICK ys \in Int, yl \in 365..366, a \in 0..335, w \in 28..31, b \in 0..335 :
            /\ ys = YearStart(y) /\ yl = YearLength(y) /\ a = DaysBeforeMonth(y, m) /\ w = MonthLength(y, m)
            /\ b = DaysBeforeMonth(z, j)
    BY <1>2, <2>6, <2>7
  <2>11. /\ Utc(y, m, k) = ys - 1 + a + k /\ Utc(y, n, k) = ys + yl - 1 + b + k /\ a + w <= yl
    BY <1>2, <2>3, <2>7, <2>9, <2>10
  <2> QED BY <2>11
<1>5. CASE m > 11
  <2>1. PICK i \in 0..11, j \in 0..11 : m = i + 12 /\ n = j + 12
    BY <1>5
  <2>2. m \in 12..23 /\ n \in 12..23 /\ i < j
    BY <1>5, <2>1
  <2>3. Utc(y, m, k) = Utc(z, i, k)
    BY <1>1, <2>1, <2>2, UtcLater
  <2>4. Utc(y, n, k) = Utc(z, j, k)
    BY <1>1, <2>1, <2>2, UtcLater
  <2>5. Utc(z, i, k) = YearStart(z) - 1 + DaysBeforeMonth(z, i) + k
    BY UtcIs
  <2>6. Utc(z, j, k) = YearStart(z) - 1 + DaysBeforeMonth(z, j) + k
    BY UtcIs
  <2>7. DaysBeforeMonth(z, i) + MonthLength(z, i) <= DaysBeforeMonth(z, j)
    BY <2>2, MonthsApart
  <2>8. MonthLength(z, i) \in 28..31 /\ DaysBeforeMonth(z, i) \in 0..335
    BY MonthTable
  <2>9. DaysBeforeMonth(z, j) \in 0..335
    BY MonthTable
  <2>10. YearStart(z) \in Int
    BY YearBegins
  <2>11. /\ Utc(y, m, k) = YearStart(z) - 1 + DaysBeforeMonth(z, i) + k
         /\ Utc(y, n, k) = YearStart(z) - 1 + DaysBeforeMonth(z, j) + k
    BY <2>3, <2>4, <2>5, <2>6
  <2>12. PICK ys \in Int, a \in 0..335, w \in 28..31, b \in 0..335 :
            /\ ys = YearStart(z) /\ a = DaysBeforeMonth(z, i) /\ w = MonthLength(z, i) /\ b = DaysBeforeMonth(z, j)
    BY <2>8, <2>9, <2>10
  <2>13. Utc(y, m, k) = ys - 1 + a + k /\ Utc(y, n, k) = ys - 1 + b + k /\ a + w <= b
    BY <2>7, <2>11, <2>12
  <2> QED BY <2>13
<1> QED BY <1>3, <1>4, <1>5

\* The last day of the month before n, by which a period ends.
LEMMA EndIs ==
  ASSUME NEW y \in Nat, y >= 1, NEW m \in 0..11, NEW n \in 1..12, n = m + 1
  PROVE  /\ YearOf(Utc(y, n, 0)) = y /\ MonthOf(Utc(y, n, 0)) = m
         /\ Utc(y, n, 0) \in Nat /\ Utc(y, n, 0) >= YearStart(y)
         /\ Utc(y, n, 0) + 1 = Utc(y, n, 1) /\ Utc(y, n, 1) \in Nat
         /\ n = 12 => Utc(y, n, 0) = Utc(y, 11, 31)
<1>1. y \in Int
  OBVIOUS
<1>2. PICK k \in Int, o \in Int, i \in Int : k = MonthLength(y, m) /\ o = 0 /\ i = 1
  <2>1. MonthLength(y, m) \in Int
    BY <1>1, LengthIsTyped
  <2> QED BY <2>1
<1>3. k \in 28..31 /\ (m = 11 => k = 31)
  BY <1>1, <1>2, MonthTable
<1>4. /\ Utc(y, n, o) = YearStart(y) - 1 + DaysBeforeMonth(y, m) + MonthLength(y, m) + o
      /\ Utc(y, n, i) = YearStart(y) - 1 + DaysBeforeMonth(y, m) + MonthLength(y, m) + i
  BY <1>1, MonthFollows
<1>5. Utc(y, m, k) = YearStart(y) - 1 + DaysBeforeMonth(y, m) + k
  BY <1>1, UtcIs
<1>6. DaysBeforeMonth(y, m) \in 0..335 /\ YearStart(y) \in Int
  BY <1>1, MonthTable, YearBegins
<1>7. Utc(y, n, o) = Utc(y, m, k)
  BY <1>2, <1>3, <1>4, <1>5, <1>6
<1>8. IsDate(Utc(y, n, o), y, m, k)
  BY <1>2, <1>3, <1>7 DEF IsDate
<1>9. YearOf(Utc(y, n, o)) = y /\ MonthOf(Utc(y, n, o)) = m /\ Utc(y, n, o) \in Nat /\ Utc(y, n, o) >= YearStart(y)
  BY <1>8, DateIs, DateInYear
<1>10. Utc(y, n, o) + 1 = Utc(y, n, i)
  BY <1>2, <1>3, <1>4, <1>6
<1>11. n = 12 => Utc(y, n, o) = Utc(y, 11, 31)
  BY <1>3, <1>7
<1> QED BY <1>2, <1>9, <1>10, <1>11

LEMMA RawAfterPeriods ==
  ASSUME NEW y \in Nat, y >= 1, NEW m \in 0..11, NEW n \in 1..12, n = m + 1, NEW e, AfterPeriods(e)
  PROVE  /\ RawDueDate(e.deadline, Utc(y, n, 0)) = Utc(y, m + Lag(e), DayDue(e))
         /\ Lag(e) \in 1..3 /\ DayDue(e) \in 0..28
         /\ RawDueDate(e.deadline, Utc(y, n, 0)) \in Nat /\ RawDueDate(e.deadline, Utc(y, n, 0)) >= YearStart(y)
<1>1. YearOf(Utc(y, n, 0)) = y /\ MonthOf(Utc(y, n, 0)) = m
  BY EndIs
<1>2. PICK t, k : t = Lag(e) /\ k = DayDue(e)
  OBVIOUS
<1>3. t \in 1..3 /\ k \in 0..28
  BY <1>2 DEF AfterPeriods, Lag, DayDue
<1>4. PICK p \in 0..23 : p = m + t
  BY <1>3
<1>5. RawDueDate(e.deadline, Utc(y, n, 0)) = Utc(y, p, k)
  <2>1. CASE e.deadline.kind = "dayOfMonthAfterPeriodEnd"
    BY <1>1, <1>2, <1>4, <2>1 DEF RawDueDate, AddMonthsAndSetDay, Lag, DayDue
  <2>2. CASE e.deadline.kind = "lastDayOfMonthAfterPeriodEnd"
    <3>1. m + e.deadline.months + 1 = p
      BY <1>2, <1>4, <2>2 DEF AfterPeriods, Lag
    <3>2. RawDueDate(e.deadline, Utc(y, n, 0)) = Utc(y, m + e.deadline.months + 1, 0)
      BY <1>1, <2>2 DEF RawDueDate, LastDayOfMonthsAfter
    <3>3. k = 0
      BY <1>2, <2>2 DEF DayDue
    <3> QED BY <3>1, <3>2, <3>3
  <2> QED BY <2>1, <2>2 DEF AfterPeriods
<1>6. PICK o \in 0..23, j \in 0..11 : o = 0 /\ j = 0
  OBVIOUS
<1>7. y \in Int /\ k \in Int /\ o < p
  BY <1>3, <1>4, <1>6
<1>8. Utc(y, p, k) \in Int /\ Utc(y, o, k) + 28 <= Utc(y, p, k)
  BY <1>7, UtcApart
<1>9. Utc(y, j, k) = YearStart(y) - 1 + DaysBeforeMonth(y, j) + k /\ DaysBeforeMonth(y, j) \in 0..335
  BY <1>7, UtcIs, MonthTable
<1>10. YearStart(y) \in Int /\ YearStart(y) >= 1
  BY <1>7, YearBegins, YearIsLate
<1>11. Utc(y, p, k) \in Nat /\ Utc(y, p, k) >= YearStart(y)
  BY <1>3, <1>6, <1>8, <1>9, <1>10
<1> QED BY <1>2, <1>3, <1>4, <1>5, <1>11

LEMMA RawOnceAYear ==
  ASSUME NEW y \in Nat, y >= 1, NEW m \in 0..11, NEW n \in 1..12, n = m + 1, NEW e, OnceAYear(e)
  PROVE  RawDueDate(e.deadline, Utc(y, n, 0)) \in Nat /\ RawDueDate(e.deadline, Utc(y, n, 0)) >= YearStart(y)
<1>1. YearOf(Utc(y, n, 0)) = y
  BY EndIs
<1>2. PICK t \in 0..1, j \in 0..11, k \in 1..31 : t = e.deadline.years /\ j = e.deadline.month - 1 /\ k = e.deadline.day
  BY DEF OnceAYear
<1>3. PICK z \in Int : z = y + t
  BY <1>2
<1>4. RawDueDate(e.deadline, Utc(y, n, 0)) = Utc(z, j, k)
  BY <1>1, <1>2, <1>3 DEF RawDueDate, OnceAYear
<1>5. Utc(z, j, k) = YearStart(z) - 1 + DaysBeforeMonth(z, j) + k
  <2>1. k \in Int
    BY <1>2
  <2> QED BY <2>1, UtcIs
<1>6. DaysBeforeMonth(z, j) \in 0..335
  BY MonthTable
<1>7. YearStart(y) \in Int /\ YearStart(y) >= 1 /\ YearStart(z) \in Int
  BY YearBegins, YearIsLate
<1>8. YearStart(y) <= YearStart(z)
  <2>1. CASE z = y
    BY <1>7, <2>1
  <2>2. CASE y < z
    <3>1. YearStart(y) + YearLength(y) <= YearStart(z)
      BY <2>2, YearsApart
    <3>2. YearLength(y) \in 365..366
      BY DEF YearLength
    <3> QED BY <1>7, <3>1, <3>2
  <2> QED BY <1>2, <1>3, <2>1, <2>2
<1> QED BY <1>4, <1>5, <1>6, <1>7, <1>8

-------------------------------------------------------------------------------

\* The months of i periods of an entry.
Passed(e, i) == i * MonthsPerPeriod(e.periodicity)

PeriodSet == [start: Nat, end: Nat, raw: Nat, due: Nat]

CalendarTyped ==
  /\ entry \in FiscalCatalog /\ year \in FirstYear..LastYear /\ cursor \in 0..12
  /\ candidate \in Nat /\ today \in Nat /\ periods \in Seq(PeriodSet)

\* The periods follow each other and each has the deadline the catalogue gives its last month.
PeriodsAre ==
  /\ cursor = Passed(entry, Len(periods))
  /\ \A i \in DOMAIN periods :
       /\ periods[i].start = Utc(year, Passed(entry, i - 1), 1) /\ periods[i].end = Utc(year, Passed(entry, i), 0)
       /\ periods[i].raw = RawDueDate(entry.deadline, periods[i].end)

\* Every deadline but the one in hand is shifted, and none went past a working day.
ShiftedSoFar ==
  /\ \A i \in DOMAIN periods :
       /\ (periods[i].due # 0) = (i < Len(periods) \/ candidate = 0)
       /\ periods[i].due # 0 => periods[i].raw <= periods[i].due
  /\ candidate # 0 => Len(periods) # 0 /\ periods[Len(periods)].raw <= candidate
                      /\ \A d \in periods[Len(periods)].raw..(candidate - 1) : ~Business(d)
  /\ FirstBusinessDay

CalendarInv == CalendarTyped /\ PeriodsAre /\ ShiftedSoFar

LEMMA PassedIs ==
  ASSUME entry \in FiscalCatalog
  PROVE  /\ MonthsPerPeriod(entry.periodicity) \in {1, 3, 12}
         /\ \A i \in Nat : Passed(entry, i) \in Nat /\ (i = 0 => Passed(entry, i) = 0)
                           /\ (OnceAYear(entry) /\ i > 1 => Passed(entry, i) > 12)
         /\ \A i \in Nat, j \in Nat : j = i + 1 => Passed(entry, j) = Passed(entry, i) + MonthsPerPeriod(entry.periodicity)
         /\ \A i \in Nat, j \in Nat : i < j => Passed(entry, i) < Passed(entry, j)
         /\ \A i \in Nat : Passed(entry, i) < 12 => Passed(entry, i) + MonthsPerPeriod(entry.periodicity) <= 12
<1>1. AfterPeriods(entry) \/ OnceAYear(entry)
  BY CatalogueIs
<1>2. CASE entry.periodicity = "MONTHLY"
  BY <1>2 DEF MonthsPerPeriod, Passed, OnceAYear
<1>3. CASE entry.periodicity = "QUARTERLY"
  BY <1>3 DEF MonthsPerPeriod, Passed, OnceAYear
<1>4. CASE entry.periodicity = "ANNUAL"
  BY <1>4 DEF MonthsPerPeriod, Passed, OnceAYear
<1> QED BY <1>1, <1>2, <1>3, <1>4 DEF AfterPeriods, OnceAYear

LEMMA YearIs ==
  ASSUME year \in FirstYear..LastYear
  PROVE  year \in Nat /\ year >= 1 /\ year \in Int /\ YearStart(year) \in Nat /\ YearStart(year) >= 1
<1>1. year \in Nat /\ year >= 1 /\ year \in Int
  BY FiscalYearsAssumption
<1> QED BY <1>1, YearBegins, YearIsLate

\* A period that ends with month m of the year has its deadline in the year or later.
LEMMA RawIs ==
  ASSUME entry \in FiscalCatalog, year \in FirstYear..LastYear, NEW n \in 1..12
  PROVE  /\ RawDueDate(entry.deadline, Utc(year, n, 0)) \in Nat
         /\ RawDueDate(entry.deadline, Utc(year, n, 0)) >= YearStart(year)
<1>1. PICK m \in 0..11 : n = m + 1
  OBVIOUS
<1> QED BY <1>1, YearIs, CatalogueIs, RawAfterPeriods, RawOnceAYear

LEMMA RawsApart ==
  ASSUME entry \in FiscalCatalog, year \in FirstYear..LastYear, NEW n \in 1..12, NEW p \in 1..12, n < p,
         ~OnceAYear(entry)
  PROVE  RawDueDate(entry.deadline, Utc(year, n, 0)) + 28 <= RawDueDate(entry.deadline, Utc(year, p, 0))
<1>1. PICK m \in 0..11, o \in 0..11 : n = m + 1 /\ p = o + 1
  OBVIOUS
<1>2. AfterPeriods(entry)
  BY CatalogueIs
<1>3. year \in Nat /\ year >= 1 /\ year \in Int
  BY YearIs
<1>4. /\ RawDueDate(entry.deadline, Utc(year, n, 0)) = Utc(year, m + Lag(entry), DayDue(entry))
      /\ Lag(entry) \in 1..3 /\ DayDue(entry) \in 0..28
  BY <1>1, <1>2, <1>3, RawAfterPeriods
<1>5. RawDueDate(entry.deadline, Utc(year, p, 0)) = Utc(year, o + Lag(entry), DayDue(entry))
  BY <1>1, <1>2, <1>3, RawAfterPeriods
<1>6. PICK i \in 0..23, j \in 0..23, k \in Int : i = m + Lag(entry) /\ j = o + Lag(entry) /\ k = DayDue(entry)
  <2>1. m + Lag(entry) \in 0..23 /\ o + Lag(entry) \in 0..23 /\ DayDue(entry) \in Int
    BY <1>4
  <2> QED BY <2>1
<1>7. i < j
  BY <1>1, <1>4, <1>6
<1>8. Utc(year, i, k) + 28 <= Utc(year, j, k)
  BY <1>3, <1>7, UtcApart
<1> QED BY <1>4, <1>5, <1>6, <1>8

\* The loop over the periods stops at the end of the year.
LEMMA GuardIs ==
  ASSUME year \in FirstYear..LastYear, NEW c \in 0..12
  PROVE  (Utc(year, c, 1) <= Utc(year, 11, 31)) = (c < 12) /\ Utc(year, c, 1) \in Nat
<1>1. year \in Nat /\ year >= 1 /\ year \in Int /\ YearStart(year) \in Nat /\ YearStart(year) >= 1
  BY YearIs
<1>2. PICK k \in Int, l \in Int, j \in 0..11 : k = 1 /\ l = 31 /\ j = 11
  OBVIOUS
<1>3. Utc(year, j, l) = YearStart(year) - 1 + DaysBeforeMonth(year, j) + l
  BY <1>1, UtcIs
<1>4. /\ DaysBeforeMonth(year, j) \in 0..335 /\ MonthLength(year, j) = 31
      /\ DaysBeforeMonth(year, j) + MonthLength(year, j) = YearLength(year)
  BY <1>1, <1>2, MonthTable
<1>5. CASE c < 12
  <2>1. c \in 0..11
    BY <1>5
  <2>2. Utc(year, c, k) = YearStart(year) - 1 + DaysBeforeMonth(year, c) + k
    BY <1>1, <2>1, UtcIs
  <2>3. /\ DaysBeforeMonth(year, c) \in 0..335 /\ MonthLength(year, c) \in 28..31
        /\ DaysBeforeMonth(year, c) + MonthLength(year, c) <= YearLength(year)
    BY <1>1, <2>1, MonthTable
  <2>4. YearLength(year) \in 365..366
    BY DEF YearLength
  <2>5. Utc(year, c, k) <= Utc(year, j, l) /\ Utc(year, c, k) \in Nat
    BY <1>1, <1>2, <1>3, <1>4, <2>2, <2>3, <2>4
  <2> QED BY <1>2, <1>5, <2>5
<1>6. CASE c = 12
  <2>1. c \in 1..12 /\ c = j + 1
    BY <1>2, <1>6
  <2>2. Utc(year, c, k) = YearStart(year) - 1 + DaysBeforeMonth(year, j) + MonthLength(year, j) + k
    BY <1>1, <2>1, MonthFollows
  <2>3. ~(Utc(year, c, k) <= Utc(year, j, l)) /\ Utc(year, c, k) \in Nat
    BY <1>1, <1>2, <1>3, <1>4, <2>2
  <2> QED BY <1>2, <1>6, <2>3
<1> QED BY <1>5, <1>6

LEMMA RowIsTyped ==
  ASSUME NEW p \in PeriodSet PROVE p.start \in Nat /\ p.end \in Nat /\ p.raw \in Nat /\ p.due \in Nat
BY DEF PeriodSet

LEMMA CalendarInitially == FiscalInit => CalendarInv
<1> SUFFICES ASSUME FiscalInit PROVE CalendarInv
  OBVIOUS
<1>1. entry \in FiscalCatalog /\ year \in FirstYear..LastYear /\ cursor = 0 /\ candidate = 0 /\ periods = <<>> /\ today = 0
  BY DEF FiscalInit
<1>2. periods \in Seq(PeriodSet) /\ Len(periods) = 0 /\ DOMAIN periods = {}
  BY <1>1
<1>3. Passed(entry, Len(periods)) = 0
  BY <1>1, <1>2, PassedIs
<1> QED BY <1>1, <1>2, <1>3 DEF CalendarInv, CalendarTyped, PeriodsAre, ShiftedSoFar, FirstBusinessDay, Dues

\* A turn of the period loop: one more period, after the ones there are.
LEMMA NextPeriodHolds == ASSUME CalendarInv, NextPeriod PROVE CalendarInv'
<1>1. /\ entry \in FiscalCatalog /\ year \in FirstYear..LastYear /\ cursor \in 0..12
      /\ candidate \in Nat /\ today \in Nat /\ periods \in Seq(PeriodSet)
  BY DEF CalendarInv, CalendarTyped
<1>2. PICK s \in {1, 3, 12}, n \in Nat : s = MonthsPerPeriod(entry.periodicity) /\ n = cursor + s
  <2>1. PICK s \in {1, 3, 12} : s = MonthsPerPeriod(entry.periodicity)
    BY <1>1, PassedIs
  <2>2. cursor + s \in Nat
    BY <1>1
  <2> QED BY <2>1, <2>2
<1> DEFINE f == Utc(year, cursor, 1)
           g == Utc(year, n, 0)
           w == RawDueDate(entry.deadline, g)
<1>3. /\ candidate = 0 /\ f <= Utc(year, 11, 31) /\ candidate' = w /\ cursor' = n
      /\ periods' = Append(periods, [start |-> f, end |-> g, raw |-> w, due |-> 0])
      /\ entry' = entry /\ year' = year /\ today' = today
  BY <1>2 DEF NextPeriod
<1>4. cursor < 12
  BY <1>1, <1>2, <1>3, GuardIs
<1>5. PICK N \in Nat : N = Len(periods)
  BY <1>1
<1>6. cursor = Passed(entry, N) /\ Passed(entry, N + 1) = n /\ n <= 12
  BY <1>1, <1>2, <1>4, <1>5, PassedIs DEF CalendarInv, PeriodsAre
<1>7. n \in 1..12 /\ n \in 0..12
  <2>1. s \in Nat /\ s >= 1 /\ n = cursor + s /\ cursor \in Nat
    BY <1>1, <1>2
  <2>2. n <= 12
    BY <1>6
  <2> QED BY <2>1, <2>2
<1>8. w \in Nat /\ w >= YearStart(year) /\ YearStart(year) >= 1 /\ YearStart(year) \in Nat
  BY <1>1, <1>2, <1>7, RawIs, YearIs
<1>9. f \in Nat /\ g \in Nat
  <2>1. PICK m \in 0..11 : n = m + 1
    BY <1>7
  <2> QED BY <1>1, <1>2, <1>7, <2>1, YearIs, EndIs, GuardIs
<1>10. PICK row \in PeriodSet : row = [start |-> f, end |-> g, raw |-> w, due |-> 0]
  BY <1>8, <1>9 DEF PeriodSet
<1>11. /\ periods' \in Seq(PeriodSet) /\ DOMAIN periods = 1..N /\ Len(periods') = N + 1 /\ DOMAIN periods' = 1..(N + 1)
       /\ periods'[N + 1] = row /\ \A i \in 1..N : periods'[i] = periods[i]
  BY <1>1, <1>3, <1>5, <1>10, AppendIs
<1>13. CalendarTyped'
  BY <1>1, <1>3, <1>7, <1>8, <1>11 DEF CalendarTyped
<1>14. PeriodsAre'
  <2>1. cursor' = Passed(entry, N + 1)
    BY <1>3, <1>6
  <2>2. ASSUME NEW i \in 1..(N + 1)
        PROVE  /\ periods'[i].start = Utc(year, Passed(entry, i - 1), 1) /\ periods'[i].end = Utc(year, Passed(entry, i), 0)
               /\ periods'[i].raw = RawDueDate(entry.deadline, periods'[i].end)
    <3>1. CASE i \in 1..N
      BY <1>11, <3>1 DEF CalendarInv, PeriodsAre
    <3>2. CASE i = N + 1
      <4>1. i - 1 = N
        BY <1>5, <3>2
      <4> QED BY <1>2, <1>6, <1>10, <1>11, <3>2, <4>1
    <3> QED BY <1>5, <3>1, <3>2
  <2> QED BY <1>3, <1>11, <2>1, <2>2 DEF PeriodsAre
<1>15. \A i \in 1..N : periods[i].due # 0 /\ periods[i].raw <= periods[i].due
  BY <1>3, <1>5, <1>11 DEF CalendarInv, ShiftedSoFar
<1>16. FirstBusinessDay'
  <2>1. Dues' = Dues
    BY <1>10, <1>11, <1>5 DEF Dues
  <2>2. Dues \subseteq 1..N
    BY <1>11 DEF Dues
  <2>3. ASSUME NEW i \in Dues PROVE Business(periods'[i].due) /\ \A d \in periods'[i].raw..(periods'[i].due - 1) : ~Business(d)
    BY <1>11, <2>2, <2>3 DEF CalendarInv, ShiftedSoFar, FirstBusinessDay
  <2> QED BY <2>1, <2>3 DEF FirstBusinessDay
<1>17. ShiftedSoFar'
  <2>1. ASSUME NEW i \in 1..(N + 1)
        PROVE  /\ (periods'[i].due # 0) = (i < N + 1 \/ candidate' = 0)
               /\ periods'[i].due # 0 => periods'[i].raw <= periods'[i].due
    <3>1. CASE i \in 1..N
      BY <1>5, <1>11, <1>15, <3>1
    <3>2. CASE i = N + 1
      BY <1>3, <1>5, <1>8, <1>10, <1>11, <3>2
    <3> QED BY <1>5, <3>1, <3>2
  <2>2. N + 1 # 0 /\ periods'[N + 1].raw <= candidate' /\ \A d \in periods'[N + 1].raw..(candidate' - 1) : ~Business(d)
    BY <1>3, <1>5, <1>8, <1>10, <1>11
  <2> QED BY <1>11, <1>16, <2>1, <2>2 DEF ShiftedSoFar
<1> QED BY <1>13, <1>14, <1>17 DEF CalendarInv

\* A turn of nextBusinessDay's loop passes a day that is none, and its end stops at one that is.
LEMMA ShiftHolds == ASSUME CalendarInv, ShiftDeadline PROVE CalendarInv'
<1>1. /\ entry \in FiscalCatalog /\ year \in FirstYear..LastYear /\ cursor \in 0..12
      /\ candidate \in Nat /\ today \in Nat /\ periods \in Seq(PeriodSet)
  BY DEF CalendarInv, CalendarTyped
<1>2. candidate # 0 /\ entry' = entry /\ year' = year /\ cursor' = cursor /\ today' = today
  BY DEF ShiftDeadline
<1>3. PICK N \in Nat : N = Len(periods) /\ DOMAIN periods = 1..N
  BY <1>1
<1>4. /\ N # 0 /\ N \in 1..N /\ periods[N].raw <= candidate
      /\ \A d \in periods[N].raw..(candidate - 1) : ~Business(d)
  BY <1>2, <1>3 DEF CalendarInv, ShiftedSoFar
<1>5. \A i \in 1..N : periods[i] \in PeriodSet /\ periods[i].raw \in Nat /\ periods[i].due \in Nat
  <2>1. \A i \in 1..N : periods[i] \in PeriodSet
    BY <1>1, <1>3
  <2> QED BY <2>1, RowIsTyped
<1>7. CASE candidate' = candidate + 1 /\ UNCHANGED periods /\ ~Business(candidate)
  <2>1. CalendarTyped' /\ PeriodsAre'
    BY <1>1, <1>2, <1>7 DEF CalendarInv, CalendarTyped, PeriodsAre
  <2>2. FirstBusinessDay'
    BY <1>7 DEF CalendarInv, ShiftedSoFar, FirstBusinessDay, Dues
  <2>3. ASSUME NEW d \in periods[N].raw..candidate PROVE ~Business(d)
    <3>1. d \in Int /\ (d = candidate \/ d \in periods[N].raw..(candidate - 1))
      BY <1>1, <1>4, <1>5
    <3> QED BY <1>4, <1>7, <3>1
  <2>4. /\ periods[N].raw <= candidate + 1 /\ (candidate + 1) - 1 = candidate
        /\ candidate + 1 # 0
    BY <1>1, <1>4, <1>5
  <2>5. \A i \in DOMAIN periods : /\ (periods[i].due # 0) = (i < N \/ candidate = 0)
                                  /\ periods[i].due # 0 => periods[i].raw <= periods[i].due
    BY <1>3 DEF CalendarInv, ShiftedSoFar
  <2>6. ShiftedSoFar'
    BY <1>2, <1>3, <1>4, <1>7, <2>2, <2>3, <2>4, <2>5 DEF ShiftedSoFar
  <2> QED BY <2>1, <2>6 DEF CalendarInv
<1>8. CASE periods' = [periods EXCEPT ![Len(periods)].due = candidate] /\ candidate' = 0 /\ Business(candidate)
  <2>1. PICK row \in PeriodSet : row = [periods[N] EXCEPT !.due = candidate]
    BY <1>1, <1>4, <1>5 DEF PeriodSet
  <2>2. /\ row.start = periods[N].start /\ row.end = periods[N].end /\ row.raw = periods[N].raw /\ row.due = candidate
    BY <1>4, <1>5, <2>1 DEF PeriodSet
  <2>3. periods' = [periods EXCEPT ![N] = row]
    BY <1>3, <1>8, <2>1
  <2>4. /\ periods' \in Seq(PeriodSet) /\ Len(periods') = N /\ DOMAIN periods' = 1..N
        /\ periods'[N] = row /\ \A i \in 1..N : i # N => periods'[i] = periods[i]
    BY <1>1, <1>3, <1>4, <2>3
  <2>5. CalendarTyped'
    BY <1>1, <1>2, <1>8, <2>4 DEF CalendarTyped
  <2>6. PeriodsAre'
    <3>1. cursor' = Passed(entry, N)
      BY <1>2, <1>3 DEF CalendarInv, PeriodsAre
    <3>2. ASSUME NEW i \in 1..N
          PROVE  /\ periods'[i].start = Utc(year, Passed(entry, i - 1), 1) /\ periods'[i].end = Utc(year, Passed(entry, i), 0)
                 /\ periods'[i].raw = RawDueDate(entry.deadline, periods'[i].end)
      <4>1. /\ periods[i].start = Utc(year, Passed(entry, i - 1), 1) /\ periods[i].end = Utc(year, Passed(entry, i), 0)
            /\ periods[i].raw = RawDueDate(entry.deadline, periods[i].end)
        BY <1>3 DEF CalendarInv, PeriodsAre
      <4>2. /\ periods'[i].start = periods[i].start /\ periods'[i].end = periods[i].end /\ periods'[i].raw = periods[i].raw
        BY <2>2, <2>4
      <4> QED BY <4>1, <4>2
    <3> QED BY <1>2, <2>4, <3>1, <3>2 DEF PeriodsAre
  <2>7. \A i \in 1..N : i # N => periods[i].due # 0 /\ periods[i].raw <= periods[i].due
    BY <1>3 DEF CalendarInv, ShiftedSoFar
  <2>8. \A i \in 1..N : periods'[i].due # 0 /\ periods'[i].raw <= periods'[i].due
    BY <1>2, <1>4, <2>2, <2>4, <2>7
  <2>9. ASSUME NEW i \in 1..N PROVE Business(periods'[i].due) /\ \A d \in periods'[i].raw..(periods'[i].due - 1) : ~Business(d)
    <3>1. CASE i = N
      BY <1>4, <1>8, <2>2, <2>4, <3>1
    <3>2. CASE i # N
      <4>1. i \in Dues /\ periods'[i] = periods[i]
        BY <1>3, <2>4, <2>7, <3>2 DEF Dues
      <4> QED BY <4>1 DEF CalendarInv, ShiftedSoFar, FirstBusinessDay
    <3> QED BY <3>1, <3>2
  <2>10. FirstBusinessDay'
    BY <2>4, <2>9 DEF FirstBusinessDay, Dues
  <2>11. ShiftedSoFar'
    BY <1>8, <2>4, <2>8, <2>10 DEF ShiftedSoFar
  <2> QED BY <2>5, <2>6, <2>11 DEF CalendarInv
<1> QED BY <1>7, <1>8 DEF ShiftDeadline, Business

LEMMA CalendarStep == CalendarInv /\ [FiscalNext]_fiscalVars => CalendarInv'
<1> SUFFICES ASSUME CalendarInv, [FiscalNext]_fiscalVars PROVE CalendarInv'
  OBVIOUS
<1>1. CASE PassDay \/ UNCHANGED fiscalVars
  <2>1. UNCHANGED <<entry, year, cursor, candidate, periods>> /\ today' \in Nat
    <3>1. CASE PassDay
      <4>1. Utc(year, 0, 1) \in Nat
        BY YearIs, YearBegins DEF CalendarInv, CalendarTyped
      <4> QED BY <3>1, <4>1 DEF PassDay, CalendarInv, CalendarTyped
    <3>2. CASE UNCHANGED fiscalVars
      BY <3>2 DEF fiscalVars, CalendarInv, CalendarTyped
    <3> QED BY <1>1, <3>1, <3>2
  <2> QED BY <2>1 DEF CalendarInv, CalendarTyped, PeriodsAre, Passed, ShiftedSoFar, FirstBusinessDay, Dues
<1> QED BY <1>1, NextPeriodHolds, ShiftHolds DEF FiscalNext

\* Of each period that was found: its months, and that its days are of its year or later.
LEMMA PeriodsFound ==
  ASSUME CalendarInv
  PROVE  /\ cursor = Passed(entry, Len(periods))
         /\ \A i \in DOMAIN periods :
              /\ i \in Nat /\ i - 1 \in Nat /\ Passed(entry, i) \in 1..12 /\ Passed(entry, i - 1) \in 0..11
              /\ periods[i].end = Utc(year, Passed(entry, i), 0)
              /\ periods[i].start = Utc(year, Passed(entry, i - 1), 1)
              /\ periods[i].raw = RawDueDate(entry.deadline, Utc(year, Passed(entry, i), 0))
              /\ periods[i].raw \in Nat /\ periods[i].raw >= YearStart(year) /\ periods[i].due \in Nat
              /\ periods[i].end + 1 = Utc(year, Passed(entry, i), 1)
              /\ Passed(entry, i) = 12 => periods[i].end = Utc(year, 11, 31)
<1>1. /\ entry \in FiscalCatalog /\ year \in FirstYear..LastYear /\ cursor \in 0..12
      /\ candidate \in Nat /\ today \in Nat /\ periods \in Seq(PeriodSet)
  BY DEF CalendarInv, CalendarTyped
<1>2. year \in Nat /\ year >= 1 /\ year \in Int /\ YearStart(year) \in Nat /\ YearStart(year) >= 1
  BY <1>1, YearIs
<1>3. PICK N \in Nat : N = Len(periods) /\ DOMAIN periods = 1..N
  BY <1>1
<1>4. cursor = Passed(entry, N) /\ \A i \in 1..N : i - 1 \in Nat /\ Passed(entry, i) \in 1..12 /\ Passed(entry, i - 1) \in 0..11
  <2>1. cursor = Passed(entry, N)
    BY <1>3 DEF CalendarInv, PeriodsAre
  <2>2. ASSUME NEW i \in 1..N PROVE i - 1 \in Nat /\ Passed(entry, i) \in 1..12 /\ Passed(entry, i - 1) \in 0..11
    <3>1. PICK j \in Nat : j = i - 1 /\ i \in Nat /\ j < i
      OBVIOUS
    <3>2. Passed(entry, j) \in Nat /\ Passed(entry, i) \in Nat /\ Passed(entry, j) < Passed(entry, i)
      BY <1>1, <3>1, PassedIs
    <3>3. Passed(entry, i) <= Passed(entry, N)
      <4>1. CASE i = N
        BY <3>2, <4>1
      <4>2. CASE i < N
        BY <1>1, <2>1, <3>1, <3>2, <4>2, PassedIs
      <4> QED BY <1>3, <4>1, <4>2
    <3>4. PICK p \in Nat, q \in Nat : p = Passed(entry, j) /\ q = Passed(entry, i)
      BY <3>2
    <3>5. p < q /\ q <= 12
      BY <1>1, <2>1, <3>2, <3>3, <3>4
    <3>6. q \in 1..12 /\ p \in 0..11
      BY <3>5
    <3> QED BY <3>1, <3>4, <3>6
  <2> QED BY <2>1, <2>2
<1>5. ASSUME NEW i \in 1..N
      PROVE  /\ periods[i].end = Utc(year, Passed(entry, i), 0) /\ periods[i].start = Utc(year, Passed(entry, i - 1), 1)
             /\ periods[i].raw = RawDueDate(entry.deadline, Utc(year, Passed(entry, i), 0))
             /\ periods[i].raw \in Nat /\ periods[i].raw >= YearStart(year) /\ periods[i].due \in Nat
             /\ periods[i].end + 1 = Utc(year, Passed(entry, i), 1)
             /\ Passed(entry, i) = 12 => periods[i].end = Utc(year, 11, 31)
  <2>1. /\ periods[i].end = Utc(year, Passed(entry, i), 0) /\ periods[i].start = Utc(year, Passed(entry, i - 1), 1)
        /\ periods[i].raw = RawDueDate(entry.deadline, Utc(year, Passed(entry, i), 0))
    BY <1>3 DEF CalendarInv, PeriodsAre
  <2>2. periods[i].raw \in Nat /\ periods[i].raw >= YearStart(year)
    BY <1>1, <1>4, <2>1, RawIs
  <2>3. periods[i].due \in Nat
    <3>1. periods[i] \in PeriodSet
      BY <1>1, <1>3
    <3> QED BY <3>1, RowIsTyped
  <2>4. PICK n \in 1..12, m \in 0..11 : n = Passed(entry, i) /\ n = m + 1
    BY <1>4
  <2>5. Utc(year, n, 0) + 1 = Utc(year, n, 1) /\ (n = 12 => Utc(year, n, 0) = Utc(year, 11, 31))
    BY <1>2, <2>4, EndIs
  <2> QED BY <2>1, <2>2, <2>3, <2>4, <2>5
<1> QED BY <1>3, <1>4, <1>5

LEMMA CalendarMeans == CalendarInv => DeadlinesHold
<1> SUFFICES ASSUME CalendarInv PROVE DeadlinesHold
  OBVIOUS
<1>1. /\ entry \in FiscalCatalog /\ year \in FirstYear..LastYear /\ cursor \in 0..12
      /\ candidate \in Nat /\ today \in Nat /\ periods \in Seq(PeriodSet)
  BY DEF CalendarInv, CalendarTyped
<1>2. year \in Nat /\ year >= 1 /\ year \in Int /\ YearStart(year) \in Nat /\ YearStart(year) >= 1
  BY <1>1, YearIs
<1>3. PICK N \in Nat : N = Len(periods) /\ DOMAIN periods = 1..N
  BY <1>1
<1>4. FiscalTypeOK
  <2>1. PeriodSet = [start: Nat, end: Nat, raw: Nat, due: Nat]
    BY DEF PeriodSet
  <2> QED BY <1>1, <2>1 DEF FiscalTypeOK
<1>5. EasterIsPaschal
  BY <1>2, EasterIsOfTheTables DEF EasterIsPaschal
<1>6. FirstBusinessDay
  BY DEF CalendarInv, ShiftedSoFar
<1>7. cursor = Passed(entry, N) /\ \A i \in 1..N : i - 1 \in Nat /\ Passed(entry, i) \in 1..12 /\ Passed(entry, i - 1) \in 0..11
  BY <1>3, PeriodsFound
<1>8. ASSUME NEW i \in 1..N
      PROVE  /\ periods[i].end = Utc(year, Passed(entry, i), 0) /\ periods[i].start = Utc(year, Passed(entry, i - 1), 1)
             /\ periods[i].raw = RawDueDate(entry.deadline, Utc(year, Passed(entry, i), 0))
             /\ periods[i].raw \in Nat /\ periods[i].raw >= YearStart(year) /\ periods[i].due \in Nat
             /\ periods[i].end + 1 = Utc(year, Passed(entry, i), 1)
             /\ Passed(entry, i) = 12 => periods[i].end = Utc(year, 11, 31)
  BY <1>3, PeriodsFound
<1>9. \A i \in Dues : i \in 1..N /\ periods[i].due # 0 /\ periods[i].raw <= periods[i].due
  BY <1>3 DEF CalendarInv, ShiftedSoFar, Dues
<1>10. NoDeadlineBeforeItsYear
  <2>1. ASSUME NEW i \in Dues PROVE periods[i].due >= Utc(year, 0, 1)
    BY <1>2, <1>8, <1>9, YearBegins
  <2> QED BY <2>1 DEF NoDeadlineBeforeItsYear
<1>11. DeadlinesInOrder
  <2>1. SUFFICES ASSUME NEW i \in Dues, NEW j \in Dues, i < j PROVE periods[i].due < periods[j].due
    BY DEF DeadlinesInOrder
  <2>2. PICK p, q, r, s : p = periods[i].raw /\ q = periods[j].raw /\ r = periods[i].due /\ s = periods[j].due
    OBVIOUS
  <2>3. p \in Nat /\ p >= 1 /\ q \in Nat /\ r \in Nat /\ s \in Nat /\ q <= s
    BY <1>2, <1>8, <1>9, <2>2
  <2>4. i \in Nat /\ j \in Nat /\ j > 1
    BY <1>9, <2>1
  <2>5. Passed(entry, i) < Passed(entry, j)
    BY <1>1, <2>1, <2>4, PassedIs
  <2>6. ~OnceAYear(entry)
    <3>1. OnceAYear(entry) => Passed(entry, j) > 12
      BY <1>1, <2>4, PassedIs
    <3>2. Passed(entry, j) \in 1..12
      BY <1>7, <1>9
    <3> QED BY <3>1, <3>2
  <2>7. p + 28 <= q
    BY <1>1, <1>7, <1>8, <1>9, <2>2, <2>5, <2>6, RawsApart
  <2>8. PICK d \in p..(p + 7) : Business(d)
    BY <2>3, BusinessSoon
  <2>9. \A e \in p..(r - 1) : ~Business(e)
    BY <1>6, <2>2 DEF FirstBusinessDay
  <2>10. r <= d
    BY <2>3, <2>8, <2>9
  <2>11. r < s
    BY <2>3, <2>7, <2>8, <2>10
  <2> QED BY <2>2, <2>11
<1>12. PeriodsTileTheYear
  <2>1. ASSUME NEW i \in 1..N
        PROVE  periods[i].start = IF i = 1 THEN Utc(year, 0, 1) ELSE periods[i - 1].end + 1
    <3>1. CASE i = 1
      <4>1. i - 1 = 0 /\ Passed(entry, i - 1) = 0
        BY <1>1, <3>1, PassedIs
      <4> QED BY <1>8, <3>1, <4>1
    <3>2. CASE i # 1
      <4>1. PICK j \in 1..N : j = i - 1
        BY <3>2
      <4> QED BY <1>8, <3>2, <4>1
    <3> QED BY <3>1, <3>2
  <2>2. ASSUME Resolved PROVE periods[Len(periods)].end = Utc(year, 11, 31)
    <3>1. cursor = 12
      <4>1. (Utc(year, cursor, 1) <= Utc(year, 11, 31)) = (cursor < 12) /\ Utc(year, cursor, 1) \in Nat
        BY <1>1, GuardIs
      <4>2. Utc(year, 11, 31) \in Int
        <5>1. PICK j \in 0..11, k \in Int : j = 11 /\ k = 31
          OBVIOUS
        <5>2. Utc(year, j, k) \in Int
          BY <1>2, UtcIs
        <5> QED BY <5>1, <5>2
      <4> QED BY <1>1, <2>2, <4>1, <4>2 DEF Resolved
    <3>2. N # 0
      <4>1. N = 0 => Passed(entry, N) = 0
        BY <1>1, PassedIs
      <4> QED BY <1>7, <3>1, <4>1
    <3>3. N \in 1..N /\ Passed(entry, N) = 12
      BY <1>7, <3>1, <3>2
    <3> QED BY <1>3, <1>8, <3>3
  <2> QED BY <1>3, <2>1, <2>2 DEF PeriodsTileTheYear
<1> QED BY <1>4, <1>5, <1>6, <1>10, <1>11, <1>12 DEF DeadlinesHold

\* Every deadline of every year is the first working day from its statutory date on, in its year or
\* later, and after the deadline of the period before.
THEOREM DeadlinesAlwaysHold == FiscalSpec => []DeadlinesHold
BY CalendarInitially, CalendarStep, CalendarMeans, PTL DEF FiscalSpec

LEMMA UrgencyStep ==
  ASSUME CalendarInv, [FiscalNext]_fiscalVars, today # 0, NEW i \in DOMAIN periods
  PROVE  GroupOf(periods[i].due, today') <= GroupOf(periods[i].due, today)
<1>1. today \in Nat /\ today >= 1 /\ periods[i].due \in Nat
  <2>1. today \in Nat /\ periods \in Seq(PeriodSet)
    BY DEF CalendarInv, CalendarTyped
  <2>2. periods[i] \in PeriodSet
    BY <2>1
  <2> QED BY <2>1, <2>2, RowIsTyped
<1>2. CASE today' = today
  <2>1. GroupOf(periods[i].due, today) \in 1..4
    BY DEF GroupOf
  <2> QED BY <1>2, <2>1
<1>3. CASE today' = today + 1
  BY <1>1, <1>3, UrgencyGrows
<1>4. today' = today \/ today' = today + 1
  BY DEF FiscalNext, NextPeriod, ShiftDeadline, PassDay, fiscalVars
<1> QED BY <1>2, <1>3, <1>4

\* As days pass no obligation falls back to a less urgent group, on whatever day it is due and
\* wherever the week runs past the end of a month.
THEOREM UrgencyNeverFallsBack == FiscalSpec => UrgencyOnlyGrows
<1>1. ASSUME CalendarInv, [FiscalNext]_fiscalVars
      PROVE  [today # 0 => \A i \in DOMAIN periods : GroupOf(periods[i].due, today') <= GroupOf(periods[i].due, today)]_fiscalVars
  BY <1>1, UrgencyStep
<1>2. CalendarInv /\ [FiscalNext]_fiscalVars
        => [today # 0 => \A i \in DOMAIN periods : GroupOf(periods[i].due, today') <= GroupOf(periods[i].due, today)]_fiscalVars
  BY <1>1
<1> QED BY <1>2, CalendarInitially, CalendarStep, PTL DEF FiscalSpec, UrgencyOnlyGrows

(***************************************************************************)
(* The loop of nextBusinessDay has no bound of its own; a week of days is  *)
(* one.                                                                    *)
(***************************************************************************)
MovesAWeekAtMost ==
  /\ \A i \in Dues : periods[i].due <= periods[i].raw + 7
  /\ candidate # 0 => candidate <= periods[Len(periods)].raw + 7

LEMMA CalendarMovesLittle == CalendarInv => MovesAWeekAtMost
<1> SUFFICES ASSUME CalendarInv PROVE MovesAWeekAtMost
  OBVIOUS
<1>1. ASSUME NEW i \in DOMAIN periods, NEW day \in Nat,
             \A d \in periods[i].raw..(day - 1) : ~Business(d)
      PROVE  day <= periods[i].raw + 7
  <2>1. PICK p : p = periods[i].raw
    OBVIOUS
  <2>2. p \in Nat /\ p >= 1
    <3>1. periods[i].raw \in Nat /\ periods[i].raw >= YearStart(year)
      BY PeriodsFound
    <3>2. YearStart(year) \in Nat /\ YearStart(year) >= 1
      BY YearIs DEF CalendarInv, CalendarTyped
    <3> QED BY <2>1, <3>1, <3>2
  <2>3. PICK d \in p..(p + 7) : Business(d)
    BY <2>2, BusinessSoon
  <2>4. \A e \in p..(day - 1) : ~Business(e)
    BY <1>1, <2>1
  <2>5. ~(d <= day - 1)
    BY <2>2, <2>3, <2>4
  <2> QED BY <2>1, <2>2, <2>3, <2>5
<1>2. ASSUME NEW i \in Dues PROVE periods[i].due <= periods[i].raw + 7
  <2>1. i \in DOMAIN periods /\ periods[i].due \in Nat
    BY PeriodsFound DEF Dues
  <2>2. \A d \in periods[i].raw..(periods[i].due - 1) : ~Business(d)
    BY DEF CalendarInv, ShiftedSoFar, FirstBusinessDay
  <2> QED BY <1>1, <2>1, <2>2
<1>3. ASSUME candidate # 0 PROVE candidate <= periods[Len(periods)].raw + 7
  <2>1. candidate \in Nat /\ Len(periods) # 0 /\ periods \in Seq(PeriodSet)
        /\ \A d \in periods[Len(periods)].raw..(candidate - 1) : ~Business(d)
    BY <1>3 DEF CalendarInv, CalendarTyped, ShiftedSoFar
  <2>2. Len(periods) \in DOMAIN periods
    BY <2>1
  <2> QED BY <1>1, <2>1, <2>2
<1> QED BY <1>2, <1>3 DEF MovesAWeekAtMost

\* Whatever weekends and holidays it meets, nextBusinessDay ends within a week.
THEOREM DeadlinesMoveAWeekAtMost == FiscalSpec => []MovesAWeekAtMost
BY CalendarInitially, CalendarStep, CalendarMovesLittle, PTL DEF FiscalSpec

(***************************************************************************)
(* The parts together, as the run checks them.  A part that is not played  *)
(* stays in a state it could start from, so a behaviour of RulesSpec is a  *)
(* behaviour of each part, and what was proved of the parts holds of it.   *)
(***************************************************************************)
LEMMA NoMoneyIsAStart == NoMoney => Init
<1> SUFFICES ASSUME NoMoney PROVE Init
  OBVIOUS
<1>1. /\ openCharges = <<>> /\ sources = <<>> /\ remainingCents = <<>> /\ allocations = <<>>
      /\ chargeIndex = 0 /\ fundIndex = 1 /\ remainingOnCharge = 0
  BY DEF NoMoney
<1>2. ASSUME NEW S, NEW n \in Nat PROVE <<>> \in BoundedSeq(S, n)
  <2>1. SeqOf(S, n) = UNION {[1..m -> S] : m \in 0..n}
    BY DEF SeqOf
  <2>2. <<>> \in [1..0 -> S] /\ 0 \in 0..n
    OBVIOUS
  <2> QED BY <2>1, <2>2 DEF BoundedSeq
<1>3. openCharges \in BoundedSeq(ChargeBalance, MaxCharges) /\ sources \in BoundedSeq(AllocationSource, MaxSources)
  BY <1>1, <1>2, Bounds
<1>4. remainingCents = [i \in DOMAIN sources |-> sources[i].availableCents]
  <2>1. DOMAIN sources = {} /\ remainingCents = <<>>
    BY <1>1
  <2> QED BY <2>1
<1> QED BY <1>1, <1>3, <1>4 DEF Init

LEMMA OneEntryIsAStart == OneEntry => FiscalInit
<1>1. \E e : e \in FiscalCatalog
  <2>1. \E e : e \in VatCatalog
    BY DEF VatCatalog
  <2> QED BY <2>1 DEF FiscalCatalog
<1>2. (CHOOSE e \in FiscalCatalog : TRUE) \in FiscalCatalog
  BY <1>1
<1>3. FirstYear \in FirstYear..LastYear
  BY FiscalYearsAssumption
<1> QED BY <1>2, <1>3 DEF OneEntry, FiscalInit

LEMMA PartsBegin ==
  RulesInit => Init /\ FiscalInit /\ L!LedgerReadsInit /\ P!SummaryInit /\ FormInit
BY NoMoneyIsAStart, OneEntryIsAStart DEF RulesInit

LEMMA PartsStep ==
  [RulesNext]_rulesVars =>
    /\ [Next]_vars /\ [FiscalNext]_fiscalVars /\ [L!LedgerReadsNext]_(L!readVars)
    /\ [P!SummaryNext]_(P!summaryVars) /\ [FormNext]_formVars
<1>1. UNCHANGED pageVars => UNCHANGED L!readVars
  BY DEF pageVars, L!readVars, L!vars
<1>2. UNCHANGED closingVars => UNCHANGED P!summaryVars
  BY DEF closingVars, P!summaryVars
<1> QED BY <1>1, <1>2 DEF RulesNext, rulesVars

LEMMA PartsRun ==
  RulesSpec => Spec /\ FiscalSpec /\ L!LedgerReadsSpec /\ P!SummarySpec /\ FormSpec
BY PartsBegin, PartsStep, PTL DEF RulesSpec, Spec, FiscalSpec, L!LedgerReadsSpec, P!SummarySpec, FormSpec

\* Everything the run "rules" checks, for any lists, years, rows, days and dialogs.
THEOREM RulesAllHold ==
  RulesSpec => /\ [](FirstInFirstOut /\ AllAgreeOnAllocation)
               /\ []DeadlinesHold /\ UrgencyOnlyGrows
               /\ [](NoDebtIsHidden /\ LedgerPageIsExact)
               /\ []ClosingIsAsItStood /\ []DialogPaysOnce
BY PartsRun, MoneyMeetsChargesInOrder, PaperIsTheWalk, DeadlinesAlwaysHold, UrgencyNeverFallsBack,
   PagesHideNoDebt, PagesAreExact, ClosedDaysAreAsTheyStood, DialogPaysAsProposedOnce, PTL

===============================================================================
