--------------------------- MODULE RetainersProofs ---------------------------
(***************************************************************************)
(* The plans of a client tile the calendar whatever requests interleave,   *)
(* and a label is billed once when no two runs overlap.                    *)
(***************************************************************************)
EXTENDS RetainersInv, TLAPS

USE Calendar, NoneIsNoRow
USE DEF vars, Day, Month, NoPlan, NoRun, NoEdit, Label, Row

\* The periods of a plan are labels of its own periodicity.
LEMMA PeriodsAreLabels ==
  ASSUME NEW months \in Periodicity \cup {0}, NEW from \in Day, NEW asOf \in Day
  PROVE  ChargePeriodsSince(months, from, asOf) \subseteq Label
  BY DEF ChargePeriodsSince, FirstDay

\* Tables and requests keep their types.
LEMMA TypeStep == PlansInv /\ [Next]_vars => TypeOK'
<1> SUFFICES ASSUME PlansInv, [Next]_vars PROVE TypeOK'
  OBVIOUS
<1> USE DEF TypeOK, PlansInv
<1>1. CASE UNCHANGED vars
  BY <1>1
<1>2. ASSUME NEW r \in Run, NEW asOf \in Day, NEW S \in SUBSET Client, StartRun(r, asOf, S)
      PROVE  TypeOK'
  BY <1>2 DEF StartRun
<1>3. ASSUME NEW r \in Run, NEW k \in Client, ReadPlans(r, k)
      PROVE  TypeOK'
  <2>1. PICK plans \in PlansFound(k, run[r].asOf) :
          run' = [run EXCEPT ![r] =
                     [pc |-> "charges", asOf |-> run[r].asOf, todo |-> run[r].todo \ {k}, client |-> k,
                      plans |-> plans, toCreate |-> run[r].toCreate]]
    BY <1>3 DEF ReadPlans
  <2>2. plans \subseteq Plan
    BY DEF PlansFound, PlansOf
  <2> QED BY <1>3, <2>1, <2>2 DEF ReadPlans
<1>4. ASSUME NEW r \in Run, ReadCharges(r)
      PROVE  TypeOK'
  <2> DEFINE k == run[r].client
             Periods(p) == ChargePeriodsSince(plan[p].months, plan[p].from, run[r].asOf)
             new == (UNION {Periods(p) : p \in run[r].plans}) \ BilledLabels(r, k)
             PlanFor(label) == CHOOSE p \in run[r].plans : label \in Periods(p)
             rows == {[client |-> k, plan |-> PlanFor(label), label |-> label] : label \in new}
  <2>1. k \in Client
    BY <1>4 DEF ReadCharges, RunInProgress
  <2>2. ASSUME NEW label \in new
        PROVE  PlanFor(label) \in Plan /\ label \in Label
    <3>1. PICK p \in run[r].plans : label \in Periods(p)
      OBVIOUS
    <3>2. p \in Plan /\ plan[p].months \in Periodicity \cup {0} /\ plan[p].from \in Day /\ run[r].asOf \in Day
      OBVIOUS
    <3>3. label \in Label
      BY <3>1, <3>2, PeriodsAreLabels
    <3>4. PlanFor(label) \in run[r].plans
      BY <3>1
    <3> QED BY <3>3, <3>4
  <2>3. rows \subseteq Row
    BY <2>1, <2>2
  <2>4. run' = [run EXCEPT ![r] =
                  [pc |-> "plans", asOf |-> run[r].asOf, todo |-> run[r].todo, client |-> None,
                   plans |-> {}, toCreate |-> run[r].toCreate \cup rows]]
        /\ UNCHANGED <<today, archived, plan, charges, edit>>
    BY <1>4 DEF ReadCharges
  <2> HIDE DEF k, rows
  <2>5. [pc |-> "plans", asOf |-> run[r].asOf, todo |-> run[r].todo, client |-> None,
         plans |-> {}, toCreate |-> run[r].toCreate \cup rows]
        \in [pc: {"idle", "plans", "charges"}, asOf: Day, todo: SUBSET Client,
             client: Client \cup {None}, plans: SUBSET Plan, toCreate: SUBSET Row]
    BY <2>1, <2>3
  <2> QED BY <2>4, <2>5
<1>5. ASSUME NEW r \in Run, CreateCharges(r)
      PROVE  TypeOK'
  BY <1>5 DEF CreateCharges
<1>6. ASSUME NEW r \in Run, LoseRun(r)
      PROVE  TypeOK'
  BY <1>6 DEF LoseRun
<1>7. ASSUME NEW e \in Editor, NEW k \in Client, NEW months \in Periodicity, NEW from \in Day,
             ReadForCreation(e, k, months, from)
      PROVE  TypeOK'
  BY <1>7 DEF ReadForCreation
<1>8. ASSUME NEW e \in Editor, NEW k \in Client, NEW months \in Periodicity, NEW from \in Day,
             NEW current \in Plan \cup {None}, ReadForRenewal(e, k, months, from, current)
      PROVE  TypeOK'
  BY <1>8 DEF ReadForRenewal
<1>9. ASSUME NEW e \in Editor, NEW p \in Plan, WritePlan(e, p)
      PROVE  TypeOK'
  <2>1. edit[e].closes # None => edit[e].from - 1 \in Day
    BY <1>9 DEF WritePlan, EditInProgress
  <2> QED BY <1>9, <2>1 DEF WritePlan
<1>10. ASSUME NEW e \in Editor, DropEdit(e)
       PROVE  TypeOK'
  BY <1>10 DEF DropEdit
<1>11. ASSUME NEW k \in Client, Archive(k) \/ Restore(k)
       PROVE  TypeOK'
  BY <1>11 DEF Archive, Restore
<1>12. CASE NextDay
  BY <1>12 DEF NextDay
<1> QED BY <1>1, <1>2, <1>3, <1>4, <1>5, <1>6, <1>7, <1>8, <1>9, <1>10, <1>11, <1>12
        DEF Next, Cron, GenerateRequest, Work

------------------------------------------------------------------------------
\* The writes of a plan request, as the tables show them: what it closes is the
\* client's open plan, and the new plan takes over from the next day on.
LEMMA WriteTakesOver ==
  ASSUME PlansInv, NEW e \in Editor, NEW p \in Plan, WritePlan(e, p),
         NEW k, k = edit[e].client, NEW from, from = edit[e].from, NEW c, c = edit[e].closes
  PROVE  /\ k \in Client /\ from \in Day /\ p \notin PlansOf(k) /\ c # p
         /\ plan'[p].client = k /\ plan'[p].from = from /\ plan'[p].to = None
         /\ \A q \in Plan \ {p} : plan'[q].client = plan[q].client /\ plan'[q].from = plan[q].from
         /\ \A q \in Plan \ {p, c} : plan'[q] = plan[q]
         /\ IF c = None THEN PlansOf(k) = {}
            ELSE /\ c \in PlansOf(k) /\ plan[c].to = None /\ plan[c].from < from
                 /\ plan'[c].to = from - 1
                 /\ \A q \in PlansOf(k) \ {c} : plan[q].to # None /\ plan[q].to < from
<1> USE DEF PlansInv, TypeOK, PlansOf, OpenPlansOf
<1>1. k \in Client /\ from \in Day /\ p \notin PlansOf(k) /\ c \in Plan \cup {None}
  BY DEF WritePlan, EditInProgress
<1>2. c # None => c \in PlansOf(k) /\ plan[c].from < from /\ c # p
  BY <1>1 DEF WritePlan, EditInProgress
<1>3. \A q \in PlansOf(k) \ {c} : plan[q].to # None /\ plan[q].to < from
  BY <1>1 DEF WritePlan, Overlaps, Reaches
<1>4. ASSUME c # None PROVE plan[c].to = None
  <2>1. PICK q \in PlansOf(k) : plan[q].to = None
    BY <1>1, <1>2, <1>4 DEF OneOpenPlan
  <2> QED BY <1>3, <2>1
<1>5. c = None => PlansOf(k) = {}
  BY <1>1, <1>3 DEF OneOpenPlan
<1>6. /\ plan'[p].client = k /\ plan'[p].from = from /\ plan'[p].to = None
      /\ \A q \in Plan \ {p} : plan'[q].client = plan[q].client /\ plan'[q].from = plan[q].from
      /\ \A q \in Plan \ {p, c} : plan'[q] = plan[q]
      /\ c # None => plan'[c].to = from - 1
  BY <1>2 DEF WritePlan
<1> QED BY <1>1, <1>2, <1>3, <1>4, <1>5, <1>6

\* The writes keep every row a range of days, and one open plan for its client.
LEMMA WriteKeepsShape ==
  ASSUME PlansInv, NEW e \in Editor, NEW p \in Plan, WritePlan(e, p)
  PROVE  PlanShape' /\ OneOpenPlan'
<1> DEFINE k == edit[e].client  from == edit[e].from  c == edit[e].closes
<1>1. /\ k \in Client /\ from \in Day /\ p \notin PlansOf(k) /\ c # p
      /\ plan'[p].client = k /\ plan'[p].from = from /\ plan'[p].to = None
      /\ \A q \in Plan \ {p} : plan'[q].client = plan[q].client /\ plan'[q].from = plan[q].from
      /\ \A q \in Plan \ {p, c} : plan'[q] = plan[q]
      /\ IF c = None THEN PlansOf(k) = {}
         ELSE /\ c \in PlansOf(k) /\ plan[c].to = None /\ plan[c].from < from
              /\ plan'[c].to = from - 1
              /\ \A q \in PlansOf(k) \ {c} : plan[q].to # None /\ plan[q].to < from
  BY WriteTakesOver
<1> HIDE DEF k, from, c
<1> USE DEF PlansInv, TypeOK, PlansOf, OpenPlansOf
<1>2. PlanShape'
  <2> SUFFICES ASSUME NEW q \in Plan
               PROVE  /\ plan'[q].client = None => plan'[q] = NoPlan
                      /\ plan'[q].to # None => plan'[q].from <= plan'[q].to
    BY DEF PlanShape
  <2>1. CASE q = p
    BY <1>1, <2>1
  <2>2. CASE q = c
    BY <1>1, <2>2
  <2>3. CASE q \notin {p, c}
    BY <1>1, <2>3 DEF PlanShape
  <2> QED BY <2>1, <2>2, <2>3
<1>3. OneOpenPlan'
  <2> SUFFICES ASSUME NEW l \in Client, NEW some \in Plan, plan'[some].client = l
               PROVE  \E q \in Plan :
                        /\ plan'[q].client = l /\ plan'[q].to = None
                        /\ \A other \in Plan :
                             plan'[other].client = l /\ plan'[other].to = None => other = q
    BY DEF OneOpenPlan
  <2>1. CASE l = k
    <3>1. \A other \in Plan : plan'[other].client = l /\ plan'[other].to = None => other = p
      BY <1>1, <2>1
    <3> QED BY <1>1, <2>1, <3>1
  <2>2. CASE l # k
    <3>1. \A q \in Plan : plan'[q].client = l \/ plan[q].client = l => q \notin {p, c} /\ plan'[q] = plan[q]
      <4> SUFFICES ASSUME NEW q \in Plan, plan'[q].client = l \/ plan[q].client = l
                   PROVE  q \notin {p, c}
        BY <1>1
      <4>1. q # c
        BY <1>1, <2>2
      <4>2. q # p
        BY <1>1, <2>2 DEF WritePlan
      <4> QED BY <4>1, <4>2
    <3>2. PICK q \in Plan : /\ plan[q].client = l /\ plan[q].to = None
                            /\ \A other \in Plan :
                                 plan[other].client = l /\ plan[other].to = None => other = q
      BY <3>1 DEF OneOpenPlan
    <3> QED BY <3>1, <3>2
  <2> QED BY <2>1, <2>2
<1> QED BY <1>2, <1>3

\* The writes leave each day with one plan in force.
LEMMA WriteKeepsTiling ==
  ASSUME PlansInv, NEW e \in Editor, NEW p \in Plan, WritePlan(e, p)
  PROVE  OnePlanEachDay'
<1> DEFINE k == edit[e].client  from == edit[e].from  c == edit[e].closes
<1>1. /\ k \in Client /\ from \in Day /\ p \notin PlansOf(k) /\ c # p
      /\ plan'[p].client = k /\ plan'[p].from = from /\ plan'[p].to = None
      /\ \A q \in Plan \ {p} : plan'[q].client = plan[q].client /\ plan'[q].from = plan[q].from
      /\ \A q \in Plan \ {p, c} : plan'[q] = plan[q]
      /\ IF c = None THEN PlansOf(k) = {}
         ELSE /\ c \in PlansOf(k) /\ plan[c].to = None /\ plan[c].from < from
              /\ plan'[c].to = from - 1
              /\ \A q \in PlansOf(k) \ {c} : plan[q].to # None /\ plan[q].to < from
  BY WriteTakesOver
<1>2. plan[p].client = None
  BY DEF WritePlan
<1> HIDE DEF k, from, c
<1> USE DEF PlansInv, TypeOK, PlansOf
<1> SUFFICES ASSUME NEW l \in Client, NEW day \in Day, NEW some \in Plan,
                    plan'[some].client = l, plan'[some].from <= day
             PROVE  \E q \in PlansOf(l)' :
                      InForce(q, day)' /\ \A other \in PlansOf(l)' \ {q} : ~InForce(other, day)'
  BY DEF OnePlanEachDay
<1>3. CASE l # k
  <2>1. \A q \in Plan : plan'[q].client = l \/ plan[q].client = l => plan'[q] = plan[q]
    <3> SUFFICES ASSUME NEW q \in Plan, plan'[q].client = l \/ plan[q].client = l
                 PROVE  q # p /\ q # c
      BY <1>1
    <3> QED BY <1>1, <1>2, <1>3
  <2>2. PlansOf(l)' = PlansOf(l) /\ \A q \in PlansOf(l) : InForce(q, day)' = InForce(q, day)
    BY <2>1 DEF InForce, Reaches
  <2>3. some \in PlansOf(l) /\ plan[some].from <= day
    BY <2>1
  <2> QED BY <2>2, <2>3 DEF OnePlanEachDay
<1>4. CASE l = k /\ day >= from
  <2>1. InForce(p, day)' /\ p \in PlansOf(l)'
    BY <1>1, <1>4 DEF InForce, Reaches
  <2>2. ASSUME NEW other \in PlansOf(l)' \ {p}
        PROVE  ~InForce(other, day)'
    <3>1. other \in PlansOf(k)
      BY <1>1, <1>4, <2>2
    <3>2. plan'[other].to # None /\ plan'[other].to < from
      BY <1>1, <3>1
    <3>3. plan'[other].to \in Int
      BY <1>1, <3>1, <3>2
    <3> QED BY <1>1, <1>4, <3>2, <3>3 DEF InForce, Reaches
  <2> QED BY <2>1, <2>2
<1>5. CASE l = k /\ day < from
  <2>1. ~InForce(p, day)' /\ some # p
    BY <1>1, <1>5 DEF InForce
  <2>2. some \in PlansOf(k) /\ plan[some].from <= day
    BY <1>1, <1>5, <2>1
  <2>3. PICK q \in PlansOf(k) : InForce(q, day) /\ \A other \in PlansOf(k) \ {q} : ~InForce(other, day)
    BY <1>1, <2>2 DEF OnePlanEachDay
  <2>4. ASSUME NEW other \in PlansOf(k)
        PROVE  other # p /\ (InForce(other, day)' <=> InForce(other, day))
    <3>1. CASE other = c
      BY <1>1, <1>5, <3>1 DEF InForce, Reaches
    <3>2. CASE other # c
      BY <1>1, <3>2 DEF InForce, Reaches
    <3> QED BY <3>1, <3>2
  <2>5. PlansOf(l)' = PlansOf(k) \cup {p}
    BY <1>1, <1>5
  <2>6. \A other \in PlansOf(l)' \ {q} : ~InForce(other, day)'
    BY <2>1, <2>3, <2>4, <2>5
  <2>7. q \in PlansOf(l)' /\ InForce(q, day)'
    BY <2>3, <2>4, <2>5
  <2> HIDE DEF PlansInv, TypeOK, PlansOf
  <2> QED BY <2>6, <2>7
<1>6. day >= from \/ day < from
  BY <1>1
<1> HIDE DEF PlansInv, TypeOK, PlansOf
<1> QED BY <1>3, <1>4, <1>5, <1>6

\* The writes disturb no run and no other request.
LEMMA WriteKeepsInFlight ==
  ASSUME PlansInv, NEW e \in Editor, NEW p \in Plan, WritePlan(e, p)
  PROVE  EditInProgress' /\ RunInProgress'
<1>1. /\ plan[p].client = None
      /\ \A q \in Plan \ {p} : plan'[q].client = plan[q].client /\ plan'[q].from = plan[q].from
  BY DEF PlansInv, TypeOK, WritePlan
<1>2. EditInProgress'
  <2> SUFFICES ASSUME NEW d \in Editor, edit'[d].pc = "write"
               PROVE  /\ edit'[d].client \in Client /\ edit'[d].months \in Periodicity
                      /\ edit'[d].closes # None =>
                           /\ plan'[edit'[d].closes].client = edit'[d].client
                           /\ plan'[edit'[d].closes].from < edit'[d].from
    BY DEF EditInProgress
  <2>1. edit'[d] = edit[d]
    BY DEF PlansInv, TypeOK, WritePlan
  <2> QED BY <1>1, <2>1 DEF PlansInv, TypeOK, EditInProgress
<1>3. RunInProgress'
  BY <1>1 DEF PlansInv, TypeOK, RunInProgress, WritePlan, PlansOf
<1> QED BY <1>2, <1>3

\* Every other step leaves the plans alone, and with them what is said of plans only.
LEMMA OthersKeepPlans ==
  ASSUME [Next]_vars, ~\E e \in Editor, p \in Plan : WritePlan(e, p)
  PROVE  plan' = plan
  BY DEF Next, Cron, GenerateRequest, Work, StartRun, ReadPlans, ReadCharges, CreateCharges, LoseRun,
         ReadForCreation, ReadForRenewal, DropEdit, Archive, Restore, NextDay

\* What is said of plans only.
LEMMA PlansAloneKeep ==
  ASSUME PlansInv, plan' = plan
  PROVE  PlanShape' /\ OneOpenPlan' /\ OnePlanEachDay'
  BY DEF PlansInv, PlanShape, OneOpenPlan, OnePlanEachDay, PlansOf, OpenPlansOf, InForce, Reaches

\* A request remembers a plan of its client, and that plan keeps its client and first day.
LEMMA EditStep ==
  ASSUME PlansInv, [Next]_vars, plan' = plan
  PROVE  EditInProgress'
<1> USE DEF PlansInv, TypeOK, EditInProgress
<1>1. CASE edit' = edit
  BY <1>1
<1>2. ASSUME NEW e \in Editor, NEW k \in Client, NEW months \in Periodicity, NEW from \in Day,
             ReadForCreation(e, k, months, from)
      PROVE  EditInProgress'
  BY <1>2 DEF ReadForCreation
<1>3. ASSUME NEW e \in Editor, NEW k \in Client, NEW months \in Periodicity, NEW from \in Day,
             NEW current \in Plan \cup {None}, ReadForRenewal(e, k, months, from, current)
      PROVE  EditInProgress'
  <2>1. current # None =>
          current \in Plan /\ plan[current].client = k /\ plan[current].from < from
    BY <1>3 DEF ReadForRenewal, OpenPlansOf, PlansOf
  <2> SUFFICES ASSUME NEW d \in Editor, edit'[d].pc = "write"
               PROVE  /\ edit'[d].client \in Client /\ edit'[d].months \in Periodicity
                      /\ edit'[d].closes # None =>
                           /\ plan[edit'[d].closes].client = edit'[d].client
                           /\ plan[edit'[d].closes].from < edit'[d].from
    OBVIOUS
  <2>2. CASE d = e
    BY <1>3, <2>1, <2>2 DEF ReadForRenewal
  <2>3. CASE d # e
    BY <1>3, <2>3 DEF ReadForRenewal
  <2> QED BY <2>2, <2>3
<1>4. ASSUME NEW e \in Editor, DropEdit(e)
      PROVE  EditInProgress'
  BY <1>4 DEF DropEdit
<1>5. ASSUME NEW e \in Editor, NEW p \in Plan, WritePlan(e, p)
      PROVE  EditInProgress'
  BY <1>5, WriteKeepsInFlight
<1> QED
  BY <1>1, <1>2, <1>3, <1>4, <1>5
  DEF Next, Cron, GenerateRequest, Work, StartRun, ReadPlans, ReadCharges, CreateCharges, LoseRun,
      Archive, Restore, NextDay

\* A run takes its client off its list as it reads the client's plans.
LEMMA RunStep ==
  ASSUME PlansInv, [Next]_vars, plan' = plan
  PROVE  RunInProgress'
<1> USE DEF PlansInv, TypeOK, RunInProgress, PlansOf
<1>1. CASE run' = run
  BY <1>1
<1>2. ASSUME NEW r \in Run, NEW asOf \in Day, NEW S \in SUBSET Client, StartRun(r, asOf, S)
      PROVE  RunInProgress'
  BY <1>2 DEF StartRun
<1>3. ASSUME NEW r \in Run, NEW k \in Client, ReadPlans(r, k)
      PROVE  RunInProgress'
  <2> SUFFICES ASSUME NEW s \in Run, run'[s].pc = "charges"
               PROVE  /\ run'[s].client \in Client \ run'[s].todo
                      /\ run'[s].plans \subseteq {p \in Plan : plan[p].client = run'[s].client}
    BY <1>3
  <2>1. CASE s = r
    BY <1>3, <2>1 DEF ReadPlans, PlansFound
  <2>2. CASE s # r
    BY <1>3, <2>2 DEF ReadPlans
  <2> QED BY <2>1, <2>2
<1>4. ASSUME NEW r \in Run, ReadCharges(r)
      PROVE  RunInProgress'
  BY <1>4 DEF ReadCharges
<1>5. ASSUME NEW r \in Run, CreateCharges(r) \/ LoseRun(r)
      PROVE  RunInProgress'
  BY <1>5 DEF CreateCharges, LoseRun
<1>6. ASSUME NEW e \in Editor, NEW p \in Plan, WritePlan(e, p)
      PROVE  RunInProgress'
  BY <1>6, WriteKeepsInFlight
<1> QED
  BY <1>1, <1>2, <1>3, <1>4, <1>5, <1>6
  DEF Next, Cron, GenerateRequest, Work, ReadForCreation, ReadForRenewal, DropEdit,
      Archive, Restore, NextDay

\* Nobody has a plan before the first request.
LEMMA InitPlansInv == Init => PlansInv
<1> SUFFICES ASSUME Init PROVE PlansInv
  OBVIOUS
<1>1. \A k \in Client : PlansOf(k) = {}
  BY DEF Init, PlansOf
<1>2. TypeOK
  BY DEF Init, TypeOK
<1>3. PlanShape /\ EditInProgress /\ RunInProgress
  BY DEF Init, PlanShape, EditInProgress, RunInProgress
<1> QED BY <1>1, <1>2, <1>3 DEF PlansInv, OneOpenPlan, OnePlanEachDay

\* PlansInv is inductive.
LEMMA NextPlansInv == PlansInv /\ [Next]_vars => PlansInv'
<1> SUFFICES ASSUME PlansInv, [Next]_vars PROVE PlansInv'
  OBVIOUS
<1>1. TypeOK'
  BY TypeStep
<1>2. CASE \E e \in Editor, p \in Plan : WritePlan(e, p)
  <2>1. PICK e \in Editor, p \in Plan : WritePlan(e, p)
    BY <1>2
  <2> QED BY <1>1, <2>1, WriteKeepsShape, WriteKeepsTiling, WriteKeepsInFlight DEF PlansInv
<1>3. CASE ~\E e \in Editor, p \in Plan : WritePlan(e, p)
  <2>1. plan' = plan
    BY <1>3, OthersKeepPlans
  <2> QED BY <1>1, <2>1, PlansAloneKeep, EditStep, RunStep DEF PlansInv
<1> QED BY <1>2, <1>3

\* The plans' inductive invariant, whatever requests, runs and losses interleave.
THEOREM PlansInvariance == Spec => []PlansInv
<1>1. Init => PlansInv
  BY InitPlansInv
<1>2. PlansInv /\ [Next]_vars => PlansInv'
  BY NextPlansInv
<1> QED BY <1>1, <1>2, PTL DEF Spec

\* From its first plan on a client has exactly one plan in force each day: renewals
\* that race one another leave neither a gap nor an overlap.
THEOREM PlansTileTheCalendar == Spec => []OnePlanEachDay
<1>1. PlansInv => OnePlanEachDay
  BY DEF PlansInv
<1> QED BY <1>1, PlansInvariance, PTL

\* Type correctness of the plan and charge tables and of what is in flight.
THEOREM RetainerTypeCorrect == Spec => []TypeOK
<1>1. PlansInv => TypeOK
  BY DEF PlansInv
<1> QED BY <1>1, PlansInvariance, PTL

------------------------------------------------------------------------------
\* The rows a run adds to what it will create are for the client it has just read,
\* whose charges have none of their labels, with one row to a label.
LEMMA RowsRead ==
  ASSUME PlansInv, NEW r \in Run, ReadCharges(r)
  PROVE  /\ run[r].client \in Client \ run[r].todo
         /\ \E rows :
              /\ run' = [run EXCEPT ![r] =
                           [pc |-> "plans", asOf |-> run[r].asOf, todo |-> run[r].todo, client |-> None,
                            plans |-> {}, toCreate |-> run[r].toCreate \cup rows]]
              /\ \A row \in rows : /\ row.client = run[r].client
                                   /\ \A c \in charges : c.client = row.client => c.label # row.label
              /\ \A row, other \in rows : other.label = row.label => other.plan = row.plan
<1> DEFINE k == run[r].client
           Periods(p) == ChargePeriodsSince(plan[p].months, plan[p].from, run[r].asOf)
           new == (UNION {Periods(p) : p \in run[r].plans}) \ BilledLabels(r, k)
           PlanFor(label) == CHOOSE p \in run[r].plans : label \in Periods(p)
           rows == {[client |-> k, plan |-> PlanFor(label), label |-> label] : label \in new}
<1>1. k \in Client \ run[r].todo
  BY DEF PlansInv, RunInProgress, ReadCharges
<1>2. run' = [run EXCEPT ![r] =
                [pc |-> "plans", asOf |-> run[r].asOf, todo |-> run[r].todo, client |-> None,
                 plans |-> {}, toCreate |-> run[r].toCreate \cup rows]]
  BY DEF ReadCharges
<1>3. \A label \in new : \A c \in charges : c.client = k => c.label # label
  <2> DEFINE begun == UNION {Periods(p) : p \in run[r].plans}
  <2>1. new = begun \ BilledLabels(r, k)
    OBVIOUS
  <2>2. \A c \in charges : c.client = k => c.label \in BilledLabels(r, k)
    BY DEF BilledLabels
  <2> HIDE DEF new, begun, k, PlanFor, rows
  <2> QED BY <2>1, <2>2
<1> HIDE DEF new, PlanFor, k
<1>4. \A row \in rows : /\ row.client = k /\ row.label \in new
                        /\ row.plan = PlanFor(row.label)
  OBVIOUS
<1> HIDE DEF rows
<1>5. \A row, other \in rows : other.label = row.label => other.plan = row.plan
  BY <1>4
<1>6. \A row \in rows : row.client = k /\ \A c \in charges : c.client = row.client => c.label # row.label
  BY <1>3, <1>4
<1> QED BY <1>1, <1>2, <1>5, <1>6 DEF k

\* With one run at a time, what it is about to create stays free of repetitions.
LEMMA NothingTwiceStep ==
  ASSUME PlansInv, ChargesInv, [Next]_vars, \A r, s \in Run : r = s
  PROVE  NothingToBillTwice'
<1> USE DEF PlansInv, TypeOK, ChargesInv, NothingToBillTwice
<1>1. CASE run' = run /\ charges' = charges
  BY <1>1
<1>2. ASSUME NEW r \in Run, NEW asOf \in Day, NEW S \in SUBSET Client, StartRun(r, asOf, S)
      PROVE  NothingToBillTwice'
  BY <1>2 DEF StartRun
<1>3. ASSUME NEW r \in Run, NEW k \in Client, ReadPlans(r, k)
      PROVE  NothingToBillTwice'
  <2>1. /\ run'[r].toCreate = run[r].toCreate /\ run'[r].todo = run[r].todo \ {k}
        /\ run'[r].client = k /\ k \in run[r].todo /\ charges' = charges
    BY <1>3 DEF ReadPlans
  <2>2. run'[r].todo \cup {run'[r].client} \subseteq run[r].todo \cup {run[r].client}
    BY <2>1
  <2> SUFFICES ASSUME NEW row \in run'[r].toCreate
               PROVE  /\ row.client \notin run'[r].todo \cup {run'[r].client}
                      /\ \A c \in charges' : c.client = row.client => c.label # row.label
                      /\ \A other \in run'[r].toCreate :
                           other.client = row.client /\ other.label = row.label
                             => other.plan = row.plan
    OBVIOUS
  <2> QED BY <2>1, <2>2
<1>4. ASSUME NEW r \in Run, ReadCharges(r)
      PROVE  NothingToBillTwice'
  <2> DEFINE k == run[r].client
  <2>1. PICK rows :
          /\ run' = [run EXCEPT ![r] =
                       [pc |-> "plans", asOf |-> run[r].asOf, todo |-> run[r].todo, client |-> None,
                        plans |-> {}, toCreate |-> run[r].toCreate \cup rows]]
          /\ \A row \in rows : /\ row.client = k
                               /\ \A c \in charges : c.client = row.client => c.label # row.label
          /\ \A row, other \in rows : other.label = row.label => other.plan = row.plan
    BY <1>4, RowsRead
  <2>2. k \in Client /\ k \notin run[r].todo
    BY <1>4, RowsRead
  <2>3. /\ run'[r].toCreate = run[r].toCreate \cup rows
        /\ run'[r].todo = run[r].todo /\ run'[r].client = None
    BY <2>1
  <2>4. charges' = charges
    BY <1>4 DEF ReadCharges
  <2>5. \A row \in run[r].toCreate :
          row.client \in Client /\ row.client # k /\ row.client \notin run[r].todo
    <3>1. run[r].toCreate \subseteq Row
      OBVIOUS
    <3> QED BY <3>1
  <2> HIDE DEF k
  <2> SUFFICES ASSUME NEW row \in run'[r].toCreate
               PROVE  /\ row.client \notin run'[r].todo \cup {run'[r].client}
                      /\ \A c \in charges' : c.client = row.client => c.label # row.label
                      /\ \A other \in run'[r].toCreate :
                           other.client = row.client /\ other.label = row.label
                             => other.plan = row.plan
    OBVIOUS
  <2>6. row.client \notin run'[r].todo \cup {run'[r].client}
    BY <2>1, <2>2, <2>3, <2>5
  <2>7. \A c \in charges' : c.client = row.client => c.label # row.label
    BY <2>1, <2>3, <2>4
  <2>8. ASSUME NEW other \in run'[r].toCreate, other.client = row.client, other.label = row.label
        PROVE  other.plan = row.plan
    <3>1. CASE row \in rows /\ other \in rows
      BY <2>1, <2>8, <3>1
    <3>2. CASE row \in run[r].toCreate /\ other \in run[r].toCreate
      BY <2>8, <3>2
    <3>3. ~(row \in rows /\ other \in run[r].toCreate) /\ ~(row \in run[r].toCreate /\ other \in rows)
      BY <2>1, <2>5, <2>8
    <3> QED BY <2>3, <3>1, <3>2, <3>3
  <2> QED BY <2>6, <2>7, <2>8
<1>5. ASSUME NEW r \in Run, CreateCharges(r) \/ LoseRun(r)
      PROVE  NothingToBillTwice'
  <2>1. run'[r].toCreate = {}
    BY <1>5 DEF CreateCharges, LoseRun
  <2> QED BY <2>1
<1>6. today \in Day
  OBVIOUS
<1> HIDE DEF PlansInv, TypeOK, ChargesInv, NothingToBillTwice
<1> QED
  BY <1>1, <1>2, <1>3, <1>4, <1>5, <1>6
  DEF vars, Next, Cron, GenerateRequest, Work, ReadForCreation, ReadForRenewal, WritePlan, DropEdit,
      Archive, Restore, NextDay

\* What a run creates repeats no label of the charges it joins.
LEMMA BilledOnceStep ==
  ASSUME PlansInv, ChargesInv, [Next]_vars
  PROVE  BilledOnce'
<1> USE DEF ChargesInv, NothingToBillTwice, BilledOnce
<1>1. CASE charges' = charges
  BY <1>1
<1>2. ASSUME NEW r \in Run, CreateCharges(r), charges' # charges
      PROVE  BilledOnce'
  <2>1. charges' = charges \cup run[r].toCreate
    BY <1>2 DEF CreateCharges
  <2> QED BY <2>1
<1> QED
  BY <1>1, <1>2
  DEF vars, Next, Cron, GenerateRequest, Work, StartRun, ReadPlans, ReadCharges, LoseRun,
      ReadForCreation, ReadForRenewal, WritePlan, DropEdit, Archive, Restore, NextDay

\* When no two runs overlap, the two invariants hold together: the plans tile the calendar, and
\* what the run has collected for createMany repeats nothing that is billed already.
THEOREM OneRunInvariance ==
  ASSUME \A r, s \in Run : r = s
  PROVE  Spec => []IInv
<1>1. Init => IInv
  BY InitPlansInv DEF Init, IInv, ChargesInv, NothingToBillTwice, BilledOnce
<1>2. IInv /\ [Next]_vars => IInv'
  BY NextPlansInv, NothingTwiceStep, BilledOnceStep DEF IInv, ChargesInv
<1> QED BY <1>1, <1>2, PTL DEF Spec

\* When no two runs overlap, no label is billed twice to a client, whatever renewals
\* happen before, during and between the runs.
THEOREM BilledOnceWithOneRun ==
  ASSUME \A r, s \in Run : r = s
  PROVE  Spec => []BilledOnce
BY OneRunInvariance, PTL DEF IInv, ChargesInv
==============================================================================
