------------------------------ MODULE Retainers ------------------------------
(***************************************************************************)
(* Retainer plans and the charges generated from them, as the daily cron   *)
(* and the operator's requests work on them at the same time               *)
(* (apps/api/src/billing/billing.service.ts: createRetainerPlan,           *)
(* renewRetainerPlan and the creation half of generateCharges).            *)
(*                                                                         *)
(* A statement outside a transaction is one action.  The two transactions  *)
(* (the writes of a renewal, the INSERTs of a run) are one action each:    *)
(* nothing of them shows before they commit, and a conflicting key makes   *)
(* the second of two wait for the first and then fail, which is what it    *)
(* does when it takes its step after the first.                            *)
(*                                                                         *)
(* Days and months are counted from the first day of a year; every month   *)
(* has MonthDays days.  A plan's periodicity is its number of months, 0    *)
(* for ONE_OFF.  The price is the plan's, so a charge names its plan only. *)
(***************************************************************************)
EXTENDS Integers, FiniteSets

CONSTANTS
  Client,      \* clients of the practice
  Plan,        \* ids a RetainerPlan row may get
  Run,         \* concurrent generateCharges calls (slots, reused)
  Editor,      \* concurrent requests that create or renew a plan (slots, reused)
  Periodicity, \* months per period: 1, 3, 12, or 0 for ONE_OFF
  MonthDays,   \* days of a month
  LastDay,     \* the last day of the model: it bounds today
  None         \* SQL NULL

ASSUME Calendar == MonthDays \in Nat \ {0} /\ LastDay \in Nat /\ Periodicity \subseteq Nat
ASSUME NoneIsNoRow == None \notin Client \cup Plan \cup 0..LastDay

VARIABLES
  today,
  archived,    \* the clients whose archivedAt is set
  plan,        \* the RetainerPlan rows
  charges,     \* the RETAINER rows of Charge
  run,         \* the generateCharges calls in flight
  edit         \* the plan requests in flight

vars == <<today, archived, plan, charges, run, edit>>

Day   == 0..LastDay
Month == 0..(LastDay \div MonthDays)

NoPlan == [client |-> None, months |-> 0, from |-> 0, to |-> None]
NoRun  == [pc |-> "idle", asOf |-> 0, todo |-> {}, client |-> None, plans |-> {}, toCreate |-> {}]
NoEdit == [pc |-> "idle", closes |-> None, client |-> None, months |-> 0, from |-> 0]

\* periodLabel: its form tells the periodicity, so a month and a quarter never share one.
Label == [months: Periodicity, start: Month]
Row   == [client: Client, plan: Plan, label: Label]

TypeOK ==
  /\ today \in Day
  /\ archived \subseteq Client
  /\ plan \in [Plan -> [client: Client \cup {None}, months: Periodicity \cup {0},
                        from: Day, to: Day \cup {None}]]
  /\ charges \subseteq Row
  /\ run \in [Run -> [pc: {"idle", "plans", "charges"}, asOf: Day, todo: SUBSET Client,
                      client: Client \cup {None}, plans: SUBSET Plan, toCreate: SUBSET Row]]
  /\ edit \in [Editor -> [pc: {"idle", "write"}, closes: Plan \cup {None},
                          client: Client \cup {None}, months: Periodicity \cup {0}, from: Day]]

Init ==
  /\ today = 0
  /\ archived = {}
  /\ plan = [p \in Plan |-> NoPlan]
  /\ charges = {}
  /\ run = [r \in Run |-> NoRun]
  /\ edit = [e \in Editor |-> NoEdit]

------------------------------------------------------------------------------
\* periods.ts

FirstDay(m) == m * MonthDays

\* chargePeriodsSince: the periods begun by asOf, from the one that contains validFrom.
ChargePeriodsSince(months, validFrom, asOf) ==
  IF months = 0 THEN {}
  ELSE LET month == validFrom \div MonthDays
           first == (month \div months) * months
       IN {[months |-> months, start |-> m] :
             m \in {m \in Month : m >= first /\ m % months = 0 /\ FirstDay(m) <= asOf}}

\* Queries.

PlansOf(k) == {p \in Plan : plan[p].client = k}
OpenPlansOf(k) == {p \in PlansOf(k) : plan[p].to = None}
Reaches(p, day) == plan[p].to = None \/ plan[p].to >= day
InForce(p, day) == plan[p].from <= day /\ Reaches(p, day)

\* Variants: the lookup goes by plan, or over everybody's charges.
BilledLabelsOfPlan(r, k) == {c.label : c \in {c \in charges : c.plan \in run[r].plans}}
BilledLabelsOfAll(r, k) == {c.label : c \in charges}

\* existingLabels: what was ever charged to the client, under any plan.
BilledLabels(r, k) == {c.label : c \in {c \in charges : c.client = k}}

------------------------------------------------------------------------------
\* generateCharges, the run of the cron (no clientId, asOf is now) or of a request.

\* The clients the run goes over: the one it was given, archived or not, or all
\* that are not archived.
StartRun(r, asOf, clients) ==
  /\ run[r].pc = "idle"
  /\ run' = [run EXCEPT ![r] = [pc |-> "plans", asOf |-> asOf, todo |-> clients, client |-> None,
                                plans |-> {}, toCreate |-> {}]]
  /\ UNCHANGED <<today, archived, plan, charges, edit>>

\* validTo is a DATE and asOf may be an instant of its day: the query may find the
\* plans whose last day asOf is, or miss them, as the comment of getCurrentMonth has it.
PlansFound(k, asOf) ==
  LET inForce == {p \in PlansOf(k) : InForce(p, asOf)}
  IN {inForce, {p \in inForce : plan[p].to # asOf}}

ReadPlans(r, k) ==
  /\ run[r].pc = "plans" /\ k \in run[r].todo
  /\ \E plans \in PlansFound(k, run[r].asOf) :
       run' = [run EXCEPT ![r] =
                  [pc |-> "charges", asOf |-> run[r].asOf, todo |-> run[r].todo \ {k}, client |-> k,
                   plans |-> plans, toCreate |-> run[r].toCreate]]
  /\ UNCHANGED <<today, archived, plan, charges, edit>>

\* Every period of the plans read, unless a charge has its label; the first plan
\* to come to a label takes it.
ReadCharges(r) ==
  LET k == run[r].client
      Periods(p) == ChargePeriodsSince(plan[p].months, plan[p].from, run[r].asOf)
      new == (UNION {Periods(p) : p \in run[r].plans}) \ BilledLabels(r, k)
      PlanFor(label) == CHOOSE p \in run[r].plans : label \in Periods(p)
  IN
  /\ run[r].pc = "charges"
  /\ run' = [run EXCEPT ![r] =
                [pc |-> "plans", asOf |-> run[r].asOf, todo |-> run[r].todo, client |-> None,
                 plans |-> {}, toCreate |-> run[r].toCreate \cup
                   {[client |-> k, plan |-> PlanFor(label), label |-> label] : label \in new}]]
  /\ UNCHANGED <<today, archived, plan, charges, edit>>

\* The creation transaction.  Charge_clientId_planId_periodLabel_key fails it as a
\* whole when another run has created one of its rows.
CreateCharges(r) ==
  /\ run[r].pc = "plans" /\ run[r].todo = {}
  /\ charges' = IF run[r].toCreate \cap charges = {} THEN charges \cup run[r].toCreate ELSE charges
  /\ run' = [run EXCEPT ![r] = NoRun]
  /\ UNCHANGED <<today, archived, plan, edit>>

\* The process stops, or a statement fails: nothing of the run is left.
LoseRun(r) ==
  /\ run[r].pc # "idle"
  /\ run' = [run EXCEPT ![r] = NoRun]
  /\ UNCHANGED <<today, archived, plan, charges, edit>>

------------------------------------------------------------------------------
\* createRetainerPlan and renewRetainerPlan: a read of the open plan, then the writes.

ReadForCreation(e, k, months, from) ==
  /\ edit[e].pc = "idle"
  /\ OpenPlansOf(k) = {}
  /\ edit' = [edit EXCEPT ![e] = [pc |-> "write", closes |-> None, client |-> k,
                                  months |-> months, from |-> from]]
  /\ UNCHANGED <<today, archived, plan, charges, run>>

\* Variant: effectiveFrom may be the open plan's own first day, or earlier.
ReadForRenewalAnyDate(e, k, months, from, current) ==
  /\ edit[e].pc = "idle"
  /\ IF OpenPlansOf(k) = {} THEN current = None ELSE current \in OpenPlansOf(k)
  /\ edit' = [edit EXCEPT ![e] = [pc |-> "write", closes |-> current, client |-> k,
                                  months |-> months, from |-> from]]
  /\ UNCHANGED <<today, archived, plan, charges, run>>

\* The plan found is closed the day before; a client without one just gets its first.
ReadForRenewal(e, k, months, from, current) ==
  /\ edit[e].pc = "idle"
  /\ IF OpenPlansOf(k) = {} THEN current = None
     ELSE current \in OpenPlansOf(k) /\ from - 1 >= plan[current].from
  /\ edit' = [edit EXCEPT ![e] = [pc |-> "write", closes |-> current, client |-> k,
                                  months |-> months, from |-> from]]
  /\ UNCHANGED <<today, archived, plan, charges, run>>

\* retainer_plan_no_overlap: the new plan, open-ended, and the one it closes, up to the
\* day before, against every other plan of the client.
Overlaps(e) ==
  LET closes == edit[e].closes  from == edit[e].from IN
  \E p \in PlansOf(edit[e].client) \ {closes} :
    \/ Reaches(p, from)
    \/ closes # None /\ plan[p].from < from /\ Reaches(p, plan[closes].from)

\* Variant: there is no exclusion constraint.
WriteUnchecked(e, p) ==
  /\ edit[e].pc = "write"
  /\ plan[p] = NoPlan
  /\ plan' = [q \in Plan |->
                IF q = p THEN [client |-> edit[e].client, months |-> edit[e].months,
                               from |-> edit[e].from, to |-> None]
                ELSE IF q = edit[e].closes THEN [plan[q] EXCEPT !.to = edit[e].from - 1]
                ELSE plan[q]]
  /\ edit' = [edit EXCEPT ![e] = NoEdit]
  /\ UNCHANGED <<today, archived, charges, run>>

\* The UPDATE that closes the old plan, by id, and the INSERT of the new one.
WritePlan(e, p) ==
  /\ edit[e].pc = "write" /\ ~Overlaps(e)
  /\ plan[p] = NoPlan
  /\ plan' = [q \in Plan |->
                IF q = p THEN [client |-> edit[e].client, months |-> edit[e].months,
                               from |-> edit[e].from, to |-> None]
                ELSE IF q = edit[e].closes THEN [plan[q] EXCEPT !.to = edit[e].from - 1]
                ELSE plan[q]]
  /\ edit' = [edit EXCEPT ![e] = NoEdit]
  /\ UNCHANGED <<today, archived, charges, run>>

\* The constraint is violated, the process stops or the transaction times out.
DropEdit(e) ==
  /\ edit[e].pc = "write"
  /\ edit' = [edit EXCEPT ![e] = NoEdit]
  /\ UNCHANGED <<today, archived, plan, charges, run>>

------------------------------------------------------------------------------
\* clients.service.ts: archivedAt is all that archive and restore write.

Archive(k) ==
  /\ archived' = archived \cup {k}
  /\ UNCHANGED <<today, plan, charges, run, edit>>

Restore(k) ==
  /\ archived' = archived \ {k}
  /\ UNCHANGED <<today, plan, charges, run, edit>>

NextDay ==
  /\ today < LastDay
  /\ today' = today + 1
  /\ UNCHANGED <<archived, plan, charges, run, edit>>

------------------------------------------------------------------------------
\* The daily cron is a run over every client that is not archived, as of now; a
\* request may ask for any date, and for one client, archived or not.
Cron(r) == StartRun(r, today, Client \ archived)

GenerateRequest(r, asOf) ==
  \/ StartRun(r, asOf, Client \ archived)
  \/ \E k \in Client : StartRun(r, asOf, {k})

Work(r) ==
  \/ \E k \in Client : ReadPlans(r, k)
  \/ ReadCharges(r)
  \/ CreateCharges(r)

Next ==
  \/ \E r \in Run :
       \/ Cron(r)
       \/ \E asOf \in Day : GenerateRequest(r, asOf)
       \/ Work(r)
       \/ LoseRun(r)
  \/ \E e \in Editor :
       \/ \E k \in Client, months \in Periodicity, from \in Day :
            \/ ReadForCreation(e, k, months, from)
            \/ \E current \in Plan \cup {None} : ReadForRenewal(e, k, months, from, current)
       \/ \E p \in Plan : WritePlan(e, p)
       \/ DropEdit(e)
  \/ \E k \in Client : Archive(k) \/ Restore(k)
  \/ NextDay

Spec == Init /\ [][Next]_vars

\* Time passes, the cron fires again and again (a busy slot is a bound of the model,
\* so strong fairness), a run goes on, and from some time on no run is lost (the step
\* of a run that had nothing to create, or met a conflict, looks the same).
Fairness ==
  /\ WF_vars(NextDay)
  /\ SF_vars(\E r \in Run : Cron(r))
  /\ \A r \in Run : WF_vars(Work(r))
  /\ <>[][\A r \in Run : LoseRun(r) => CreateCharges(r)]_vars

FairSpec == Spec /\ Fairness

------------------------------------------------------------------------------
\* The comment of renewRetainerPlan: a fee change never leaves a gap with no plan in
\* force, nor an overlap.  From a client's first plan on, each day has one plan.
OnePlanEachDay ==
  \A k \in Client, day \in Day :
    (\E p \in PlansOf(k) : plan[p].from <= day) =>
      \E p \in PlansOf(k) :
        InForce(p, day) /\ \A q \in PlansOf(k) \ {p} : ~InForce(q, day)

\* A period is charged once to a client, whatever plans it had: what the lookup of
\* existingLabels by client is there for.
BilledOnce ==
  \A c, d \in charges : c.client = d.client /\ c.label = d.label => c.plan = d.plan

\* No month is charged twice to a client, by periods of any length: a successor plan
\* does not bill again what the closed plan already charged.
NoMonthBilledTwice ==
  \A c, d \in charges :
    /\ c.client = d.client /\ c # d
    => \/ c.label.start + c.label.months <= d.label.start
       \/ d.label.start + d.label.months <= c.label.start

\* The design (section 8.1): archiving a client means no further charges.
ArchivedIsNotCharged ==
  [][\A c \in charges' \ charges : c.client \notin archived]_vars

\* A period that has begun under plan p (of a client that is not archived) and has
\* no charge yet.
Unbilled(p, label) ==
  /\ plan[p].client # None /\ plan[p].client \notin archived
  /\ label \in ChargePeriodsSince(plan[p].months, plan[p].from, today)
  /\ \A c \in charges : c.client = plan[p].client => c.label # label

\* The generator creates what is missing: under a plan that stays in force, every
\* period that has begun is charged in the end.
BegunIsBilled ==
  \A p \in Plan, label \in Label :
    plan[p].to = None /\ Unbilled(p, label) ~> plan[p].to # None \/ ~Unbilled(p, label)

\* ADR 0007: a closed plan stops producing periods past its validTo, and those it
\* was in force for are created if they are missing.
BegunBeforeClosingIsBilled ==
  \A p \in Plan, label \in Label :
    /\ Unbilled(p, label)
    /\ plan[p].to # None => FirstDay(label.start) <= plan[p].to
    ~> ~Unbilled(p, label)
=============================================================================
