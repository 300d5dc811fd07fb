------------------------------ MODULE Employments ------------------------------
(***************************************************************************)
(* Who works for whom and when: employments.service.ts, and the section    *)
(* and the form of the page that call it, open in several tabs, or any     *)
(* other client of the API.                                                *)
(*                                                                         *)
(* create and end check for an overlap with one statement and write with   *)
(* another; the exclusion constraint employment_no_overlap is checked by   *)
(* the writing one.  Days are numbers; a spell ends on a day or is open;   *)
(* an end can be moved again, also past the start of a later spell.        *)
(***************************************************************************)
EXTENDS Naturals, FiniteSets

CONSTANTS Company, Person,  \* clients by kind
          Tab,
          LastDay,          \* bound: the days of the calendar are 1..LastDay
          MaxSpells,        \* bound: rows in the table
          MaxCalls          \* bound: requests made

ASSUME DaysAssumption == LastDay \in Nat \ {0}

Employed == Company \cup Person
Day == 1..LastDay
Open == LastDay + 1      \* endedOn IS NULL: after every day

VARIABLES
  spells,  \* the rows, keyed by their id
  tab,     \* Tab -> the request it waits for
  calls,
  seen     \* Tab -> the table when its overlap check read it (for the properties only)

employmentVars == <<spells, tab, calls, seen>>

Spell(id, employer, employee, start, end) ==
  [id |-> id, employer |-> employer, employee |-> employee, start |-> start, end |-> end]
Idle == [at |-> "idle", op |-> "none", spell |-> Spell(0, 0, 0, 0, 0), answer |-> "none"]

EmploymentsInit ==
  /\ spells = {} /\ calls = 0
  /\ tab = [t \in Tab |-> Idle]
  /\ seen = [t \in Tab |-> {}]

\* createEmploymentSchema, which AddEmploymentForm runs on every render and the pipe again.
SchemaAccepts(spell) == spell.employer # spell.employee /\ spell.start <= spell.end

\* Variant: the days on which two spells touch are not compared.
ClashesInside(table, spell) ==
  {s \in table : /\ s.employer = spell.employer /\ s.employee = spell.employee
                 /\ s.id # spell.id
                 /\ spell.end = Open \/ s.start < spell.end
                 /\ s.end = Open \/ s.end > spell.start}

\* Variant: a spell that is being ended clashes with itself.
ClashesWithItself(table, spell) ==
  {s \in table : /\ s.employer = spell.employer /\ s.employee = spell.employee
                 /\ spell.end = Open \/ s.start <= spell.end
                 /\ s.end = Open \/ s.end >= spell.start}

\* The findFirst of assertNoOverlap: the rows of the pair that reach into the spell.
Clashes(table, spell) ==
  {s \in table : /\ s.employer = spell.employer /\ s.employee = spell.employee
                 /\ s.id # spell.id
                 /\ spell.end = Open \/ s.start <= spell.end
                 /\ s.end = Open \/ s.end >= spell.start}

\* daterange("startedOn", "endedOn", '[]') && daterange(...): a day they share.
SharesADay(s, spell) == \E d \in 1..Open : s.start <= d /\ d <= s.end /\ spell.start <= d /\ d <= spell.end

\* Variant: without the exclusion constraint.
NeverExcluded(spell) == FALSE

Excluded(spell) ==
  \E s \in spells : /\ s.employer = spell.employer /\ s.employee = spell.employee /\ s.id # spell.id
                    /\ SharesADay(s, spell)

Answer(t, code) ==
  /\ tab' = [tab EXCEPT ![t] = [Idle EXCEPT !.answer = code]]
  /\ UNCHANGED <<spells, calls, seen>>

-------------------------------------------------------------------------------

AskCreate(t, spell) ==
  /\ tab[t].at = "idle" /\ calls < MaxCalls /\ Cardinality(spells) < MaxSpells
  /\ SchemaAccepts(spell)
  /\ tab' = [tab EXCEPT ![t] = [at |-> "kinds", op |-> "create", spell |-> spell, answer |-> "none"]]
  /\ calls' = calls + 1
  /\ UNCHANGED <<spells, seen>>

\* Variant: only the employer's kind is checked.
CheckEmployerKind(t) ==
  LET spell == tab[t].spell
  IN /\ tab[t].at = "kinds"
     /\ IF spell.employer \notin Company THEN Answer(t, "employment.employer_must_be_company")
        ELSE /\ tab' = [tab EXCEPT ![t].at = "check"]
             /\ UNCHANGED <<spells, calls, seen>>

\* The two findOne of create and its checks on the kinds, which never change.
CheckKinds(t) ==
  LET spell == tab[t].spell
  IN /\ tab[t].at = "kinds"
     /\ \/ spell.employer \notin Company /\ Answer(t, "employment.employer_must_be_company")
        \/ /\ spell.employer \in Company /\ spell.employee \notin Person
           /\ Answer(t, "employment.employee_must_be_individual")
        \/ /\ spell.employer \in Company /\ spell.employee \in Person
           /\ tab' = [tab EXCEPT ![t].at = "check"]
           /\ UNCHANGED <<spells, calls, seen>>

\* POST /employments/:id/end, of any row and with any date: the section's button sends today's.
AskEnd(t, id, end) ==
  /\ tab[t].at = "idle" /\ calls < MaxCalls
  /\ tab' = [tab EXCEPT ![t] = [at |-> "find", op |-> "end", spell |-> Spell(id, 0, 0, 0, end), answer |-> "none"]]
  /\ calls' = calls + 1
  /\ UNCHANGED <<spells, seen>>

\* end's findUnique and its check; the pair and the start of a spell never change.
FindSpell(t) ==
  /\ tab[t].at = "find"
  /\ \E s \in spells :
       /\ s.id = tab[t].spell.id
       /\ IF tab[t].spell.end < s.start THEN Answer(t, "employment.ended_before_started")
          ELSE /\ tab' = [tab EXCEPT ![t].at = "check", ![t].spell = [s EXCEPT !.end = tab[t].spell.end]]
               /\ UNCHANGED <<spells, calls, seen>>

AssertNoOverlap(t) ==
  /\ tab[t].at = "check"
  /\ IF Clashes(spells, tab[t].spell) # {} THEN Answer(t, "employment.overlapping_spell")
     ELSE /\ tab' = [tab EXCEPT ![t].at = "write"]
          /\ seen' = [seen EXCEPT ![t] = spells]
          /\ UNCHANGED <<spells, calls>>

\* create's INSERT or end's UPDATE; toOverlapConflictOr names the constraint's refusal.
WriteSpell(t) ==
  /\ tab[t].at = "write"
  /\ LET spell == IF tab[t].op = "end" THEN tab[t].spell ELSE [tab[t].spell EXCEPT !.id = Cardinality(spells) + 1]
     IN IF Excluded(spell) THEN Answer(t, "employment.overlapping_spell (constraint)")
        ELSE /\ spells' = {s \in spells : s.id # spell.id} \cup {spell}
             /\ tab' = [tab EXCEPT ![t] = [Idle EXCEPT !.answer = "ok"]]
             /\ UNCHANGED <<calls, seen>>

EmploymentsNext ==
  \E t \in Tab : \/ CheckKinds(t) \/ FindSpell(t) \/ AssertNoOverlap(t) \/ WriteSpell(t)
                 \/ \E s \in spells, end \in Day : AskEnd(t, s.id, end)
                 \/ \E er, ee \in Employed, start \in Day, end \in 1..Open :
                      AskCreate(t, Spell(0, er, ee, start, end))

EmploymentsSpec == EmploymentsInit /\ [][EmploymentsNext]_employmentVars

-------------------------------------------------------------------------------
(* Properties *)

EmploymentsTypeOK ==
  /\ \A s \in spells : s \in [id: Nat \ {0}, employer: Company, employee: Person, start: Day, end: 1..Open]
  /\ \A s, s2 \in spells : s.id = s2.id => s = s2
  /\ \A t \in Tab : tab[t].at \in {"idle", "kinds", "find", "check", "write"}

\* On no day does a pair have two employments, and none ends before it starts, whichever
\* creations and endings raced.
OneSpellADay ==
  /\ EmploymentsTypeOK
  /\ \A s \in spells : s.start <= s.end
  /\ \A s, s2 \in spells : s.id # s2.id /\ s.employer = s2.employer /\ s.employee = s2.employee
                             => ~SharesADay(s, s2)

\* The check the user gets a clean answer from and the constraint that holds agree on every
\* boundary (a spell that starts the day another ends, an open one, an end moved into a later
\* spell): the constraint refuses only what changed between the two, of a create and of an end.
ConstraintOnlyOnRace ==
  [][\A t \in Tab : tab'[t].answer = "employment.overlapping_spell (constraint)" /\ tab[t].at = "write"
                      => seen[t] # spells]_employmentVars

\* And never the other way round: a spell the check refuses is one the constraint would refuse.
CheckIsNotStricter ==
  [][\A t \in Tab : tab[t].at = "check" /\ tab'[t].answer = "employment.overlapping_spell"
                      => Excluded(tab[t].spell)]_employmentVars

\* The check and the constraint agree on every boundary.
CheckAgreesWithConstraint == ConstraintOnlyOnRace /\ CheckIsNotStricter
===============================================================================
