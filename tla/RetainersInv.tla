---------------------------- MODULE RetainersInv ----------------------------
(***************************************************************************)
(* The inductive invariants of Retainers: why the plans of a client tile   *)
(* the calendar, and why a single run at a time bills each label once.     *)
(***************************************************************************)
EXTENDS Retainers

\* A row that is there covers at least one day; one that is not is all NULL.
PlanShape ==
  \A p \in Plan :
    /\ plan[p].client = None => plan[p] = NoPlan
    /\ plan[p].to # None => plan[p].from <= plan[p].to

\* A client that has a plan has exactly one that is open.
OneOpenPlan ==
  \A k \in Client : PlansOf(k) # {} =>
    \E p \in OpenPlansOf(k) : \A q \in OpenPlansOf(k) : q = p

\* A request about to write closes a plan of its client that began before its own.
EditInProgress ==
  \A e \in Editor : edit[e].pc = "write" =>
    /\ edit[e].client \in Client /\ edit[e].months \in Periodicity
    /\ edit[e].closes # None =>
         /\ plan[edit[e].closes].client = edit[e].client
         /\ plan[edit[e].closes].from < edit[e].from

\* A run works on a client it has not done yet, with plans of that client.
RunInProgress ==
  \A r \in Run : run[r].pc = "charges" =>
    /\ run[r].client \in Client \ run[r].todo
    /\ run[r].plans \subseteq PlansOf(run[r].client)

\* The inductive invariant of the plans: with it, the exclusion constraint turns a
\* renewal that read a plan closed since into a rollback, never into a gap.
PlansInv ==
  TypeOK /\ PlanShape /\ OneOpenPlan /\ EditInProgress /\ RunInProgress /\ OnePlanEachDay

\* What a run is about to create is for clients it has done, bills no label twice,
\* and none that has a charge.
NothingToBillTwice ==
  \A r \in Run : \A row \in run[r].toCreate :
    /\ row.client \notin run[r].todo \cup {run[r].client}
    /\ \A c \in charges : c.client = row.client => c.label # row.label
    /\ \A other \in run[r].toCreate :
         other.client = row.client /\ other.label = row.label => other.plan = row.plan

\* With PlansInv, the inductive invariant of the charges when there is one run at a time.
ChargesInv == NothingToBillTwice /\ BilledOnce

\* Both: what one run at a time keeps.
IInv == PlansInv /\ ChargesInv
==============================================================================
