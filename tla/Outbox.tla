--------------------------------- MODULE Outbox ---------------------------------
(***************************************************************************)
(* The audit trail of reveals: apps/web/src/vault/outbox.ts queues an      *)
(* event in IndexedDB when a credential is decrypted and uploads what is   *)
(* queued (POST /vault/audit-events, apps/api/src/audit).  Flushes start   *)
(* after a reveal and whenever the application is online with a session    *)
(* (useVaultSync.ts); nothing keeps two of them apart, in one tab or in    *)
(* several.  A request may be lost, or its answer, and a tab may be closed *)
(* at any moment.                                                          *)
(***************************************************************************)
EXTENDS Naturals, Sequences

CONSTANTS
  RevealEvent,   \* reveals, each with its event
  Flush,    \* calls of recordReveal and flushOutbox that may be in flight
  MaxDay,   \* bound: days
  MaxSent   \* bound: uploads of one event

ASSUME OutboxBounds == MaxDay \in Nat \ {0} /\ MaxSent \in Nat

VARIABLES
  day,
  revealed,   \* RevealEvent -> the day it happened, 0 before
  outbox,     \* the events in IndexedDB
  flush,      \* Flush -> the call in flight
  ready,      \* online, with a session
  log,        \* RevealEvent -> the days of its AuditEvent rows, in order
  unqueued    \* reveals whose event never reached IndexedDB

outboxVars == <<day, revealed, outbox, flush, ready, log, unqueued>>

Idle == [step |-> "idle"]
Logged(e) == log[e] # <<>>

OutboxInit ==
  /\ day = 1
  /\ revealed = [e \in RevealEvent |-> 0]
  /\ outbox = {}
  /\ flush = [f \in Flush |-> Idle]
  /\ ready = FALSE
  /\ log = [e \in RevealEvent |-> <<>>]
  /\ unqueued = {}

DayPasses ==
  /\ day < MaxDay
  /\ day' = day + 1
  /\ UNCHANGED <<revealed, outbox, flush, ready, log, unqueued>>

(***************************************************************************)
(* recordReveal.                                                           *)
(***************************************************************************)

\* Variant: the event is queued before the decryption, which then fails.
RecordThenShow(f, e) ==
  /\ flush[f] = Idle /\ revealed[e] = 0
  /\ \/ revealed' = [revealed EXCEPT ![e] = day]
     \/ revealed' = revealed
  /\ flush' = [flush EXCEPT ![f] = [step |-> "queue", event |-> e]]
  /\ UNCHANGED <<day, outbox, ready, log, unqueued>>

\* A credential is decrypted on screen; recordReveal is called and not awaited.
Show(f, e) ==
  /\ flush[f] = Idle /\ revealed[e] = 0
  /\ revealed' = [revealed EXCEPT ![e] = day]
  /\ flush' = [flush EXCEPT ![f] = [step |-> "queue", event |-> e]]
  /\ UNCHANGED <<day, outbox, ready, log, unqueued>>

\* queueOutboxEvent, then flushOutbox.
Queue(f) ==
  /\ flush[f].step = "queue"
  /\ outbox' = outbox \union {flush[f].event}
  /\ flush' = [flush EXCEPT ![f] = [step |-> "list"]]
  /\ UNCHANGED <<day, revealed, ready, log, unqueued>>

\* IndexedDB is away: the event is dropped, and the reveal goes undisturbed.
QueueFails(f) ==
  /\ flush[f].step = "queue"
  /\ unqueued' = unqueued \union {flush[f].event}
  /\ flush' = [flush EXCEPT ![f] = Idle]
  /\ UNCHANGED <<day, revealed, outbox, ready, log>>

(***************************************************************************)
(* flushOutbox.                                                            *)
(***************************************************************************)

List(f) ==
  /\ flush[f].step = "list"
  /\ flush' = [flush EXCEPT ![f] = [step |-> "send", left |-> outbox]]
  /\ UNCHANGED <<day, revealed, outbox, ready, log, unqueued>>

\* AuditController.record: one row, dated by the server when it arrives; the
\* event's own id and instant are not sent.
Post(f, e) ==
  /\ flush[f].step = "send" /\ e \in flush[f].left
  /\ Len(log[e]) < MaxSent
  /\ log' = [log EXCEPT ![e] = Append(@, day)]
  /\ flush' = [flush EXCEPT ![f] = [step |-> "sent", event |-> e, left |-> @.left \ {e}]]
  /\ UNCHANGED <<day, revealed, outbox, ready, unqueued>>

\* Variant: the event is taken out of the outbox before it is sent.
PostFailsAfterDelete(f, e) ==
  /\ flush[f].step = "send" /\ e \in flush[f].left
  /\ outbox' = outbox \ {e}
  /\ flush' = [flush EXCEPT ![f].left = @ \ {e}]
  /\ UNCHANGED <<day, revealed, ready, log, unqueued>>

\* The request fails before the server saw it: offline, most commonly.
PostFails(f, e) ==
  /\ flush[f].step = "send" /\ e \in flush[f].left
  /\ flush' = [flush EXCEPT ![f].left = @ \ {e}]
  /\ UNCHANGED <<day, revealed, outbox, ready, log, unqueued>>

\* deleteOutboxEvent, after the answer.
Delete(f) ==
  /\ flush[f].step = "sent"
  /\ outbox' = outbox \ {flush[f].event}
  /\ flush' = [flush EXCEPT ![f] = [step |-> "send", left |-> @.left]]
  /\ UNCHANGED <<day, revealed, ready, log, unqueued>>

\* The answer is lost, or the delete fails: the event stays for the next flush.
AnswerLost(f) ==
  /\ flush[f].step = "sent"
  /\ flush' = [flush EXCEPT ![f] = [step |-> "send", left |-> @.left]]
  /\ UNCHANGED <<day, revealed, outbox, ready, log, unqueued>>

EndFlush(f) ==
  /\ flush[f].step = "send" /\ flush[f].left = {}
  /\ flush' = [flush EXCEPT ![f] = Idle]
  /\ UNCHANGED <<day, revealed, outbox, ready, log, unqueued>>

(***************************************************************************)
(* useVaultSync, and the tab.                                              *)
(***************************************************************************)

\* Variant: coming back refreshes the cache and forgets the outbox.
GetReadyOnly(f) ==
  /\ ~ready /\ flush[f] = Idle
  /\ ready' = TRUE
  /\ UNCHANGED <<day, revealed, outbox, flush, log, unqueued>>

\* The effect on [ready]: the network is back, or a session is there.
GetReady(f) ==
  /\ ~ready /\ flush[f] = Idle
  /\ ready' = TRUE
  /\ flush' = [flush EXCEPT ![f] = [step |-> "list"]]
  /\ UNCHANGED <<day, revealed, outbox, log, unqueued>>

GoOffline ==
  /\ ready
  /\ ready' = FALSE
  /\ UNCHANGED <<day, revealed, outbox, flush, log, unqueued>>

\* The tab is closed: its calls end where they are, IndexedDB stays.
CloseTab ==
  /\ \E f \in Flush : flush[f] # Idle
  /\ ready' = FALSE
  /\ unqueued' = unqueued \union
       {e \in RevealEvent : \E f \in Flush : flush[f].step = "queue" /\ flush[f].event = e}
  /\ flush' = [f \in Flush |-> Idle]
  /\ UNCHANGED <<day, revealed, outbox, log>>

OutboxNext ==
  \/ DayPasses
  \/ \E f \in Flush :
       \/ \E e \in RevealEvent : Show(f, e) \/ Post(f, e) \/ PostFails(f, e)
       \/ Queue(f) \/ QueueFails(f) \/ List(f)
       \/ Delete(f) \/ AnswerLost(f) \/ EndFlush(f) \/ GetReady(f)
  \/ GoOffline \/ CloseTab

OutboxSpec == OutboxInit /\ [][OutboxNext]_outboxVars

(***************************************************************************)
(* Fairness.  A call that is running goes on.  The application is gone     *)
(* offline and come back to again and again (it is used for months), the   *)
(* tab is not closed before every single flush, and a request that is      *)
(* tried again and again gets through.                                     *)
(***************************************************************************)

OutboxFairness ==
  /\ \A f \in Flush : WF_outboxVars(Queue(f) \/ QueueFails(f)) /\ SF_outboxVars(List(f))
                      /\ WF_outboxVars(Delete(f) \/ AnswerLost(f)) /\ WF_outboxVars(EndFlush(f))
                      /\ WF_outboxVars(\E e \in RevealEvent : Post(f, e) \/ PostFails(f, e))
  /\ \A e \in RevealEvent : SF_outboxVars(\E f \in Flush : Post(f, e))
  /\ WF_outboxVars(GoOffline)
  /\ SF_outboxVars(\E f \in Flush : GetReady(f))

FairOutboxSpec == OutboxSpec /\ OutboxFairness

(***************************************************************************)
(* Properties.                                                             *)
(***************************************************************************)

\* Types; an event is in the outbox only for a reveal that happened.
OutboxTypeOK ==
  /\ day \in 1..MaxDay
  /\ revealed \in [RevealEvent -> 0..MaxDay]
  /\ outbox \subseteq {e \in RevealEvent : revealed[e] > 0}
  /\ ready \in BOOLEAN
  /\ log \in [RevealEvent -> UNION {[1..n -> 1..MaxDay] : n \in 0..MaxSent}]
  /\ unqueued \subseteq RevealEvent
  /\ \A f \in Flush :
       \/ flush[f].step \in {"idle", "list"}
       \/ flush[f].step = "queue" /\ flush[f].event \in RevealEvent
       \/ flush[f].step = "send" /\ flush[f].left \subseteq RevealEvent
       \/ flush[f].step = "sent" /\ flush[f].left \subseteq RevealEvent /\ flush[f].event \in RevealEvent

BeingQueued(e) == \E f \in Flush : flush[f].step = "queue" /\ flush[f].event = e

\* A queued event is never lost: until the server has it, it is in the outbox,
\* whatever fails, in whatever order two flushes meet it, across closed tabs.
QueuedIsNeverLost ==
  \A e \in RevealEvent : revealed[e] > 0 /\ e \notin unqueued /\ ~BeingQueued(e) => e \in outbox \/ Logged(e)

\* A reveal that was queued stays queued until it is logged.
RevealsAreKept == OutboxTypeOK /\ QueuedIsNeverLost

\* A queued event reaches the server's log.
QueuedIsLogged == \A e \in RevealEvent : e \in outbox ~> Logged(e)

\* The design's audit log says when an access was last used; the row carries the
\* day it was uploaded.
LogSaysWhen == \A e \in RevealEvent : \A i \in DOMAIN log[e] : log[e][i] = revealed[e]
===============================================================================
