------------------------------ MODULE PaymentForm ------------------------------
(***************************************************************************)
(* The dialog that records a payment (RecordPaymentForm.tsx, opened by     *)
(* ClientLedgerSection.tsx): an allocation is proposed for an amount and a *)
(* date, then confirmed.  Requests and answers take their time, are lost,  *)
(* and overtake each other, while the operator types, presses Enter,       *)
(* cancels and opens the dialog again.                                     *)
(*                                                                         *)
(* A mutation of TanStack Query belongs to the request it was called for:  *)
(* reset() lets go of it without stopping it, and its onSuccess still runs *)
(* when its answer comes.  What the server proposes is told apart only by  *)
(* the amount and the date it was asked for; the method is sent as it is.  *)
(***************************************************************************)
EXTENDS Naturals, Sequences

CONSTANTS
  Amounts, Dates, \* what may be typed, 0 for an empty field
  GuardMs,        \* CONFIRM_GUARD_MS, in ticks
  MaxRequests,    \* bound: requests sent
  MaxOpenings     \* bound: times the dialog is opened

VARIABLES
  dialog,    \* recording: whether the dialog is open
  opening,   \* which opening of it this is
  form,      \* its state: amountCents, receivedOn, built, settling, and the requests it watches
  request    \* the requests sent so far, in order

formVars == <<dialog, opening, form, request>>

ASSUME FormAssumption ==
  /\ Amounts \subseteq Nat /\ Dates \subseteq Nat /\ 0 \in Amounts \cap Dates
  /\ GuardMs \in Nat /\ MaxRequests \in Nat /\ MaxOpenings \in Nat

Typed == [cents : Amounts, date : Dates]
NotTyped == [cents |-> 0, date |-> 0]
NotBuilt == NotTyped

\* settling: ticks until Confirmar is enabled; age: since the proposal shown was built (history);
\* mayRepeat: a confirmation was seen to fail, or the form was edited during one (history).
Empty == [typed |-> NotTyped, built |-> NotBuilt, settling |-> 0, propose |-> 0, confirm |-> 0,
          age |-> 0, mayRepeat |-> FALSE]

FormInit == dialog = FALSE /\ opening = 0 /\ form = Empty /\ request = <<>>

IsPending(r) == r # 0 /\ request[r].state \in {"sent", "served"}

\* Variant: a proposal stands for whatever is typed.
AnyBuilt == form.built # NotBuilt

\* proposal # null: one built for the amount and the date on screen.
HasProposal == form.built # NotBuilt /\ form.built = form.typed

CanPropose == form.typed.cents > 0 /\ form.typed.date # 0

-------------------------------------------------------------------------------
(* The operator *)

OpenDialog ==
  /\ ~dialog /\ opening < MaxOpenings
  /\ dialog' = TRUE /\ opening' = opening + 1 /\ form' = Empty
  /\ UNCHANGED request

Cancel ==
  /\ dialog
  /\ dialog' = FALSE
  /\ UNCHANGED <<opening, form, request>>

\* resetProposal, and either field.
Edit(typed) ==
  /\ dialog /\ typed # form.typed
  /\ typed.cents = form.typed.cents \/ typed.date = form.typed.date
  /\ form' = [form EXCEPT !.typed = typed, !.built = NotBuilt, !.settling = 0, !.propose = 0, !.confirm = 0,
                          !.mayRepeat = @ \/ IsPending(form.confirm)]
  /\ UNCHANGED <<dialog, opening, request>>

Send(kind) ==
  /\ Len(request) < MaxRequests
  /\ request' = Append(request, [kind |-> kind, opening |-> opening, typed |-> form.typed, rows |-> form.built,
                                 state |-> "sent", recorded |-> FALSE, age |-> form.age,
                                 again |-> form.mayRepeat])

\* The submit button is disabled while its request is pending, and while settling.
SubmitProposal ==
  /\ dialog /\ CanPropose /\ ~HasProposal /\ ~IsPending(form.propose)
  /\ Send("propose")
  /\ form' = [form EXCEPT !.propose = Len(request')]
  /\ UNCHANGED <<dialog, opening>>

\* Variant: Confirmar stays enabled while a confirmation is pending.
SubmitTwice ==
  /\ dialog /\ CanPropose /\ HasProposal /\ form.settling = 0
  /\ Send("confirm")
  /\ form' = [form EXCEPT !.confirm = Len(request')]
  /\ UNCHANGED <<dialog, opening>>

SubmitConfirm ==
  /\ dialog /\ CanPropose /\ HasProposal /\ form.settling = 0 /\ ~IsPending(form.confirm)
  /\ Send("confirm")
  /\ form' = [form EXCEPT !.confirm = Len(request')]
  /\ UNCHANGED <<dialog, opening>>

Tick ==
  /\ dialog
  /\ form.settling > 0 \/ (HasProposal /\ form.age < GuardMs)
  /\ form' = [form EXCEPT !.settling = IF @ > 0 THEN @ - 1 ELSE 0,
                          !.age = IF @ < GuardMs THEN @ + 1 ELSE @]
  /\ UNCHANGED <<dialog, opening, request>>

-------------------------------------------------------------------------------
(* The server, and its answers *)

Serve(r) ==
  /\ request[r].state = "sent"
  /\ request' = [request EXCEPT ![r].state = "served", ![r].recorded = request[r].kind = "confirm"]
  /\ UNCHANGED <<dialog, opening, form>>

\* A dialog that was closed is unmounted: its setters do nothing.
Mounted(r) == dialog /\ request[r].opening = opening

\* setSettling(true) of a form already settling restarts nothing.
Proposed(r) ==
  /\ request[r].kind = "propose" /\ request[r].state = "served"
  /\ request' = [request EXCEPT ![r].state = "answered"]
  /\ form' = IF Mounted(r)
             THEN [form EXCEPT !.settling = IF @ = 0 THEN GuardMs ELSE @, !.built = request[r].typed, !.age = 0]
             ELSE form
  /\ UNCHANGED <<dialog, opening>>

\* onRecorded closes the dialog, whichever opening of it is on screen.
Recorded(r) ==
  /\ request[r].kind = "confirm" /\ request[r].state = "served"
  /\ request' = [request EXCEPT ![r].state = "answered"]
  /\ dialog' = FALSE
  /\ UNCHANGED <<opening, form>>

\* Refused, or the request or its answer lost.
Fails(r) ==
  /\ request[r].state \in {"sent", "served"}
  /\ request' = [request EXCEPT ![r].state = "failed"]
  /\ form' = IF Mounted(r) THEN [form EXCEPT !.mayRepeat = @ \/ request[r].kind = "confirm"] ELSE form
  /\ UNCHANGED <<dialog, opening>>

FormNext ==
  \/ OpenDialog
  \/ Cancel
  \/ \E typed \in Typed : Edit(typed)
  \/ SubmitProposal
  \/ SubmitConfirm
  \/ Tick
  \/ \E r \in DOMAIN request : Serve(r) \/ Proposed(r) \/ Recorded(r) \/ Fails(r)

FormSpec == FormInit /\ [][FormNext]_formVars

-------------------------------------------------------------------------------
(* Properties *)

FormOf == [typed : Typed, built : Typed, settling : 0..GuardMs, propose : 0..MaxRequests,
           confirm : 0..MaxRequests, age : 0..GuardMs, mayRepeat : BOOLEAN]
RequestOf == [kind : {"propose", "confirm"}, opening : 1..MaxOpenings, typed : Typed, rows : Typed,
              state : {"sent", "served", "answered", "failed"}, recorded : BOOLEAN,
              age : 0..GuardMs, again : BOOLEAN]

FormTypeOK ==
  /\ dialog \in BOOLEAN /\ opening \in 0..MaxOpenings /\ (dialog => opening > 0)
  /\ request \in Seq(RequestOf) /\ Len(request) <= MaxRequests
  /\ form \in FormOf /\ form.propose <= Len(request) /\ form.confirm <= Len(request)

Confirmations == {r \in DOMAIN request : request[r].kind = "confirm"}

\* What is confirmed is the allocation proposed for that very amount and date, however many
\* answers came late: never a payment of one amount with the allocations of another.
PaidAsProposed == \A r \in Confirmations : request[r].rows = request[r].typed

\* One opening of the dialog records two payments only when a confirmation was seen to fail, or
\* was edited over while it was pending: the server has nothing to tell them apart by.
PaidOnce ==
  \A r, s \in Confirmations :
    /\ r < s /\ request[r].opening = request[s].opening
    /\ request[r].recorded /\ request[s].recorded
    => request[s].again

\* One dialog records one payment, with the allocation proposed for it, unless it was told that
\* the first attempt failed or was edited during it.
DialogPaysOnce == PaidAsProposed /\ PaidOnce

\* RecordPaymentForm.tsx:17: "Confirmar stays disabled this long after the proposal appears, so a
\* double-click cannot confirm it."
GuardIsKept == \A r \in Confirmations : request[r].age >= GuardMs
===============================================================================
