----------------------------- MODULE OfficeProofs ------------------------------
(***************************************************************************)
(* The records of the office, for any number of tabs, clients and texts.   *)
(*   Employments: no pair ever has two employments on a day, and the check *)
(*     a request makes first agrees with the constraint that has the last  *)
(*     word.                                                               *)
(*   Clients: a save loses no other tab's change and clears what its user  *)
(*     emptied; no kind's fields leave it.                                 *)
(*   Fiscal profiles: form, server and catalogue agree on what a profile   *)
(*     is, and the defaults of a form replace no profile its page knew.    *)
(*   Obligations: a generation takes away what was added by hand only      *)
(*     under a code that was not yet known as one of the catalogue.        *)
(* All but the first are the instances of MCOffice, whose constants are    *)
(* any that satisfy its assumptions.                                       *)
(***************************************************************************)
EXTENDS MCOffice, FiniteSetTheorems, SequenceTheorems, TLAPS

(***************************************************************************)
(* Employments.                                                            *)
(***************************************************************************)
Codes == {"none", "ok", "employment.employer_must_be_company", "employment.employee_must_be_individual",
          "employment.ended_before_started", "employment.overlapping_spell",
          "employment.overlapping_spell (constraint)"}
AnySpell == [id: Nat, employer: Employed \cup {0}, employee: Employed \cup {0}, start: Nat, end: Nat]
Requests == [at: {"idle", "kinds", "find", "check", "write"}, op: {"none", "create", "end"},
             spell: AnySpell, answer: Codes]

\* What a request in flight may rely on: a new spell has no id yet, an ended one is the row of its
\* id but for the end, and the last check of it found nothing in the table it saw.
RequestInv(t) ==
  LET spell == tab[t].spell
  IN /\ tab[t].at # "idle" => tab[t].answer = "none"
     /\ tab[t].at \in {"kinds", "check", "write"} =>
          spell.start \in Day /\ spell.end \in 1..Open /\ spell.start <= spell.end
     /\ tab[t].at = "kinds" => tab[t].op = "create" /\ spell.id = 0
     /\ tab[t].at = "find" => tab[t].op = "end" /\ spell.end \in Day
     /\ tab[t].at \in {"check", "write"} =>
          /\ spell.employer \in Company /\ spell.employee \in Person
          /\ \/ tab[t].op = "create" /\ spell.id = 0
             \/ tab[t].op = "end" /\ \E s \in spells : spell = [s EXCEPT !.end = spell.end]
     /\ tab[t].at = "write" => Clashes(seen[t], spell) = {}

EmploymentsInv ==
  /\ tab \in [Tab -> Requests]
  /\ DOMAIN seen = Tab
  /\ IsFiniteSet(spells)
  /\ \A s \in spells : s.id <= Cardinality(spells)
  /\ \A t \in Tab : RequestInv(t)
  /\ OneSpellADay

\* Two spells share a day exactly when each starts no later than the other ends.
LEMMA SharedDay ==
  ASSUME NEW s, NEW spell, s.start \in Day, s.end \in 1..Open, s.start <= s.end,
         spell.start \in Day, spell.end \in 1..Open, spell.start <= spell.end
  PROVE  SharesADay(s, spell) <=> s.start <= spell.end /\ spell.start <= s.end
<1>1. ASSUME SharesADay(s, spell) PROVE s.start <= spell.end /\ spell.start <= s.end
  BY <1>1, DaysAssumption DEF SharesADay, Day, Open
<1>2. ASSUME s.start <= spell.end, spell.start <= s.end PROVE SharesADay(s, spell)
  <2> DEFINE d == IF s.start <= spell.start THEN spell.start ELSE s.start
  <2>1. d \in 1..Open /\ s.start <= d /\ d <= s.end /\ spell.start <= d /\ d <= spell.end
    BY <1>2, DaysAssumption DEF Day, Open
  <2> QED BY <2>1 DEF SharesADay
<1> QED BY <1>1, <1>2

\* So the check and the constraint agree on one table.
LEMMA ClashIsSharing ==
  ASSUME EmploymentsInv, NEW spell, NEW s \in spells,
         spell.start \in Day, spell.end \in 1..Open, spell.start <= spell.end
  PROVE  s \in Clashes(spells, spell) <=>
           s.employer = spell.employer /\ s.employee = spell.employee /\ s.id # spell.id /\ SharesADay(s, spell)
<1>1. s.start \in Day /\ s.end \in 1..Open /\ s.start <= s.end
  BY DEF EmploymentsInv, OneSpellADay, EmploymentsTypeOK
<1>2. /\ (spell.end = Open \/ s.start <= spell.end) <=> s.start <= spell.end
      /\ (s.end = Open \/ s.end >= spell.start) <=> spell.start <= s.end
  BY <1>1, DaysAssumption DEF Day, Open
<1>3. SharesADay(s, spell) <=> s.start <= spell.end /\ spell.start <= s.end
  BY <1>1, SharedDay
<1> QED BY <1>2, <1>3 DEF Clashes

LEMMA EmploymentsInitially == EmploymentsInit => EmploymentsInv
<1> SUFFICES ASSUME EmploymentsInit PROVE EmploymentsInv
  OBVIOUS
<1>1. Idle \in Requests
  BY DEF Idle, Requests, Spell, AnySpell, Codes
<1>2. IsFiniteSet({})
  BY FS_EmptySet
<1>3. tab \in [Tab -> Requests] /\ \A t \in Tab : RequestInv(t)
  BY <1>1 DEF EmploymentsInit, RequestInv, Idle
<1> QED BY <1>1, <1>2, <1>3 DEF EmploymentsInit, EmploymentsInv, OneSpellADay, EmploymentsTypeOK, Requests

\* A step that changes one request, and neither the table nor what other requests saw of it.
LEMMA RequestStep ==
  ASSUME EmploymentsInv, NEW t \in Tab, NEW r \in Requests, tab' = [tab EXCEPT ![t] = r],
         UNCHANGED spells, DOMAIN seen' = Tab, \A u \in Tab \ {t} : seen'[u] = seen[u],
         RequestInv(t)'
  PROVE  EmploymentsInv'
<1> USE DEF EmploymentsInv
<1>1. \A u \in Tab \ {t} : tab'[u] = tab[u] /\ seen'[u] = seen[u]
  OBVIOUS
<1>2. \A u \in Tab : RequestInv(u)'
  <2> SUFFICES ASSUME NEW u \in Tab \ {t} PROVE RequestInv(u)'
    OBVIOUS
  <2>1. RequestInv(u) /\ tab'[u] = tab[u] /\ seen'[u] = seen[u] /\ spells' = spells
    BY <1>1
  <2> QED BY <2>1 DEF RequestInv
<1>3. OneSpellADay'
  BY DEF OneSpellADay, EmploymentsTypeOK, Requests, SharesADay
<1> QED BY <1>2, <1>3

LEMMA AnswerStep ==
  ASSUME EmploymentsInv, NEW t \in Tab, NEW code \in Codes, Answer(t, code) PROVE EmploymentsInv'
<1> DEFINE r == [Idle EXCEPT !.answer = code]
<1>1. r \in Requests /\ r.at = "idle"
  BY DEF Idle, Requests, Spell, AnySpell, Codes
<1>2. tab' = [tab EXCEPT ![t] = r] /\ UNCHANGED <<spells, seen>>
  BY DEF Answer
<1> HIDE DEF r
<1>3. RequestInv(t)'
  BY <1>1, <1>2 DEF RequestInv, EmploymentsInv
<1> QED BY <1>1, <1>2, <1>3, RequestStep DEF EmploymentsInv

LEMMA EmploymentsStutter ==
  ASSUME EmploymentsInv, UNCHANGED employmentVars PROVE EmploymentsInv'
<1>1. UNCHANGED <<spells, tab, seen>>
  BY DEF employmentVars
<1>2. \A u \in Tab : RequestInv(u)'
  BY <1>1 DEF EmploymentsInv, RequestInv
<1>3. OneSpellADay'
  BY <1>1 DEF EmploymentsInv, OneSpellADay, EmploymentsTypeOK, SharesADay
<1> QED BY <1>1, <1>2, <1>3 DEF EmploymentsInv

LEMMA AskCreateStep ==
  ASSUME EmploymentsInv, NEW t \in Tab, NEW er \in Employed, NEW ee \in Employed, NEW start \in Day,
         NEW end \in 1..Open, AskCreate(t, Spell(0, er, ee, start, end))
  PROVE  EmploymentsInv'
<1> DEFINE r == [at |-> "kinds", op |-> "create", spell |-> Spell(0, er, ee, start, end), answer |-> "none"]
<1>1. r \in Requests /\ start <= end
  BY DaysAssumption DEF AskCreate, SchemaAccepts, Requests, Spell, AnySpell, Codes, Day, Open
<1>2. tab' = [tab EXCEPT ![t] = r] /\ UNCHANGED <<spells, seen>>
  BY DEF AskCreate
<1>3. tab'[t] = r
  BY <1>2 DEF EmploymentsInv
<1>4. RequestInv(t)'
  BY <1>1, <1>3 DEF RequestInv, Spell
<1> HIDE DEF r
<1> QED BY <1>1, <1>2, <1>4, RequestStep DEF EmploymentsInv

LEMMA AskEndStep ==
  ASSUME EmploymentsInv, NEW t \in Tab, NEW s \in spells, NEW end \in Day, AskEnd(t, s.id, end) PROVE EmploymentsInv'
<1> DEFINE r == [at |-> "find", op |-> "end", spell |-> Spell(s.id, 0, 0, 0, end), answer |-> "none"]
<1>1. r \in Requests
  <2>1. s.id \in Nat /\ end \in Nat
    BY DaysAssumption DEF EmploymentsInv, OneSpellADay, EmploymentsTypeOK, Day
  <2> QED BY <2>1 DEF Requests, Spell, AnySpell, Codes
<1>2. tab' = [tab EXCEPT ![t] = r] /\ UNCHANGED <<spells, seen>>
  BY DEF AskEnd
<1>3. tab'[t] = r
  BY <1>2 DEF EmploymentsInv
<1>4. RequestInv(t)'
  BY <1>1, <1>3 DEF RequestInv, Spell
<1> HIDE DEF r
<1> QED BY <1>1, <1>2, <1>4, RequestStep DEF EmploymentsInv

LEMMA CheckKindsStep ==
  ASSUME EmploymentsInv, NEW t \in Tab, CheckKinds(t) PROVE EmploymentsInv'
<1>1. CASE Answer(t, "employment.employer_must_be_company") \/ Answer(t, "employment.employee_must_be_individual")
  BY <1>1, AnswerStep DEF Codes
<1>2. CASE /\ tab[t].spell.employer \in Company /\ tab[t].spell.employee \in Person
           /\ tab' = [tab EXCEPT ![t].at = "check"] /\ UNCHANGED <<spells, calls, seen>>
  <2> DEFINE r == [tab[t] EXCEPT !.at = "check"]
  <2>1. tab[t] \in Requests /\ RequestInv(t) /\ tab[t].at = "kinds"
    BY DEF EmploymentsInv, CheckKinds
  <2>2. r \in Requests /\ r.at = "check" /\ r.op = tab[t].op /\ r.spell = tab[t].spell /\ r.answer = tab[t].answer
    BY <2>1 DEF Requests
  <2>3. tab' = [tab EXCEPT ![t] = r]
    BY <1>2 DEF EmploymentsInv
  <2>4. tab'[t] = r
    BY <2>3 DEF EmploymentsInv
  <2> HIDE DEF r
  <2>5. RequestInv(t)'
    BY <1>2, <2>1, <2>2, <2>4 DEF RequestInv
  <2> QED BY <1>2, <2>2, <2>3, <2>5, RequestStep DEF EmploymentsInv
<1> QED BY <1>1, <1>2 DEF CheckKinds

LEMMA FindSpellStep ==
  ASSUME EmploymentsInv, NEW t \in Tab, FindSpell(t) PROVE EmploymentsInv'
<1> PICK s \in spells :
       IF tab[t].spell.end < s.start THEN Answer(t, "employment.ended_before_started")
       ELSE /\ tab' = [tab EXCEPT ![t].at = "check", ![t].spell = [s EXCEPT !.end = tab[t].spell.end]]
            /\ UNCHANGED <<spells, calls, seen>>
  BY DEF FindSpell
<1>1. CASE tab[t].spell.end < s.start
  BY <1>1, AnswerStep DEF Codes
<1>2. CASE ~(tab[t].spell.end < s.start)
  <2> DEFINE x == [s EXCEPT !.end = tab[t].spell.end]
             r == [tab[t] EXCEPT !.at = "check", !.spell = x]
  <2>1. tab[t] \in Requests /\ RequestInv(t) /\ tab[t].at = "find"
    BY DEF EmploymentsInv, FindSpell
  <2>2. /\ s \in [id: Nat \ {0}, employer: Company, employee: Person, start: Day, end: 1..Open]
        /\ tab[t].spell.end \in Day
    BY <2>1 DEF EmploymentsInv, OneSpellADay, EmploymentsTypeOK, RequestInv
  <2>3. /\ x.id = s.id /\ x.employer = s.employer /\ x.employee = s.employee /\ x.start = s.start
        /\ x.end = tab[t].spell.end /\ x.end \in Day /\ x.start <= x.end
    BY <1>2, <2>2, DaysAssumption DEF Day
  <2>4. x \in AnySpell /\ x = [s EXCEPT !.end = x.end] /\ x.end \in 1..Open
    BY <2>2, <2>3, DaysAssumption DEF AnySpell, Employed, Day, Open
  <2> HIDE DEF x
  <2>5. r \in Requests /\ r.at = "check" /\ r.op = tab[t].op /\ r.spell = x /\ r.answer = tab[t].answer
    BY <2>1, <2>4 DEF Requests
  <2>6. tab' = [tab EXCEPT ![t] = r] /\ UNCHANGED <<spells, seen>>
    BY <1>2 DEF EmploymentsInv, x
  <2> HIDE DEF r
  <2>7. tab'[t] = r
    BY <2>6 DEF EmploymentsInv
  <2>8. RequestInv(t)'
    BY <2>1, <2>2, <2>3, <2>4, <2>5, <2>6, <2>7 DEF RequestInv
  <2> QED BY <2>5, <2>6, <2>8, RequestStep DEF EmploymentsInv
<1> QED BY <1>1, <1>2

LEMMA AssertNoOverlapStep ==
  ASSUME EmploymentsInv, NEW t \in Tab, AssertNoOverlap(t) PROVE EmploymentsInv'
<1>1. CASE Clashes(spells, tab[t].spell) # {}
  BY <1>1, AnswerStep DEF AssertNoOverlap, Codes
<1>2. CASE Clashes(spells, tab[t].spell) = {}
  <2> DEFINE r == [tab[t] EXCEPT !.at = "write"]
  <2>1. tab[t] \in Requests /\ RequestInv(t) /\ tab[t].at = "check"
    BY DEF EmploymentsInv, AssertNoOverlap
  <2>2. r \in Requests /\ r.at = "write" /\ r.op = tab[t].op /\ r.spell = tab[t].spell /\ r.answer = tab[t].answer
    BY <2>1 DEF Requests
  <2>3. /\ tab' = [tab EXCEPT ![t] = r] /\ seen' = [seen EXCEPT ![t] = spells]
        /\ UNCHANGED spells
    BY <1>2 DEF AssertNoOverlap, EmploymentsInv
  <2> HIDE DEF r
  <2>4. tab'[t] = r /\ seen'[t] = spells /\ DOMAIN seen' = Tab /\ \A u \in Tab \ {t} : seen'[u] = seen[u]
    BY <2>3 DEF EmploymentsInv
  <2>5. RequestInv(t)'
    BY <1>2, <2>1, <2>2, <2>3, <2>4 DEF RequestInv
  <2> QED BY <2>2, <2>3, <2>4, <2>5, RequestStep
<1> QED BY <1>1, <1>2

\* The row that is written, and the table it makes.
WrittenRow(t) ==
  IF tab[t].op = "end" THEN tab[t].spell ELSE [tab[t].spell EXCEPT !.id = Cardinality(spells) + 1]
TableWith(spell) == {s \in spells : s.id # spell.id} \cup {spell}
Rows == [id: Nat \ {0}, employer: Company, employee: Person, start: Day, end: 1..Open]
SameButEnd(s, s2) == \A e : [s EXCEPT !.end = e] = [s2 EXCEPT !.end = e]

LEMMA WrittenTable ==
  ASSUME EmploymentsInv, NEW t \in Tab, tab[t].at = "write",
         NEW spell, spell = WrittenRow(t), NEW table, table = TableWith(spell)
  PROVE  /\ spell \in Rows
         /\ spell.start <= spell.end /\ IsFiniteSet(table)
         /\ \A s \in table : s.id <= Cardinality(table)
         /\ \A s \in spells : \E s2 \in table : SameButEnd(s, s2)
         /\ \A s \in spells : s.id # tab[t].spell.id => s.id # spell.id
         /\ spell.employer = tab[t].spell.employer /\ spell.employee = tab[t].spell.employee
         /\ spell.start = tab[t].spell.start /\ spell.end = tab[t].spell.end
<1> USE DEF WrittenRow, TableWith, Rows, SameButEnd
<1>1. tab[t] \in Requests /\ RequestInv(t) /\ IsFiniteSet(spells) /\ \A s \in spells : s \in Rows /\ s.id <= Cardinality(spells)
  BY DEF EmploymentsInv, OneSpellADay, EmploymentsTypeOK
<1>2. \A s, s2 \in spells : s.id = s2.id => s = s2
  BY DEF EmploymentsInv, OneSpellADay, EmploymentsTypeOK
<1>3. Cardinality(spells) \in Nat
  BY <1>1, FS_CardinalityType
<1>4. /\ tab[t].spell \in AnySpell /\ tab[t].spell.employer \in Company /\ tab[t].spell.employee \in Person
      /\ tab[t].spell.start \in Day /\ tab[t].spell.end \in 1..Open /\ tab[t].spell.start <= tab[t].spell.end
  BY <1>1 DEF RequestInv, Requests
<1>5. CASE tab[t].op = "create"
  <2>1. spell = [tab[t].spell EXCEPT !.id = Cardinality(spells) + 1]
    BY <1>5
  <2>2. /\ spell \in Rows /\ spell.id = Cardinality(spells) + 1
        /\ spell.employer = tab[t].spell.employer /\ spell.employee = tab[t].spell.employee
        /\ spell.start = tab[t].spell.start /\ spell.end = tab[t].spell.end
    BY <2>1, <1>3, <1>4 DEF AnySpell
  <2>3. \A s \in spells : s.id # spell.id
    BY <1>1, <1>3, <2>2
  <2>4. table = spells \cup {spell} /\ spell \notin spells
    BY <2>3
  <2>5. IsFiniteSet(table) /\ Cardinality(table) = Cardinality(spells) + 1
    <3>1. IsFiniteSet(spells)
      BY <1>1
    <3>2. /\ IsFiniteSet(spells \cup {spell})
          /\ Cardinality(spells \cup {spell}) = IF spell \in spells THEN Cardinality(spells) ELSE Cardinality(spells) + 1
      BY ONLY <3>1, FS_AddElement
    <3> QED BY <2>4, <3>2
  <2>6. \A s \in table : s.id <= Cardinality(table)
    BY <1>1, <1>3, <2>2, <2>4, <2>5
  <2>7. \A s \in spells : s \in table
    BY <2>4
  <2> QED BY <1>4, <2>2, <2>3, <2>5, <2>6, <2>7
<1>6. CASE tab[t].op = "end"
  <2>1. spell = tab[t].spell
    BY <1>6
  <2>2. PICK old \in spells : spell = [old EXCEPT !.end = spell.end]
    BY <2>1, <1>1, <1>6 DEF RequestInv
  <2>3. old \in Rows /\ spell \in Rows /\ spell.id = old.id
    BY <1>1, <1>4, <2>1, <2>2
  <2>4. table = (spells \ {old}) \cup {spell} /\ spell \notin spells \ {old}
    BY <1>2, <2>3
  <2>5. IsFiniteSet(spells \ {old}) /\ Cardinality(spells \ {old}) = Cardinality(spells) - 1
    BY <1>1, FS_RemoveElement
  <2>6. IsFiniteSet(table) /\ Cardinality(table) = Cardinality(spells)
    <3> PICK S : S = spells \ {old}
      OBVIOUS
    <3>1. IsFiniteSet(S) /\ Cardinality(S) = Cardinality(spells) - 1 /\ spell \notin S
      BY <2>4, <2>5
    <3>2. /\ IsFiniteSet(S \cup {spell})
          /\ Cardinality(S \cup {spell}) = IF spell \in S THEN Cardinality(S) ELSE Cardinality(S) + 1
      BY ONLY <3>1, FS_AddElement
    <3>3. table = S \cup {spell} /\ Cardinality(spells) \in Nat
      BY <1>3, <2>4
    <3> QED BY ONLY <3>1, <3>2, <3>3
  <2>7. \A s \in table : s.id <= Cardinality(table)
    BY <1>1, <2>3, <2>4, <2>6
  <2>8. \A e : [old EXCEPT !.end = e] = [spell EXCEPT !.end = e]
    BY <2>2, <2>3
  <2>9. \A s \in spells : \E s2 \in table : \A e : [s EXCEPT !.end = e] = [s2 EXCEPT !.end = e]
    <3> SUFFICES ASSUME NEW s \in spells PROVE \E s2 \in table : \A e : [s EXCEPT !.end = e] = [s2 EXCEPT !.end = e]
      OBVIOUS
    <3>1. CASE s = old
      BY <3>1, <2>4, <2>8
    <3>2. CASE s # old
      <4>1. s \in table
        BY <3>2, <2>4
      <4> QED BY <4>1
    <3> QED BY <3>1, <3>2
  <2> QED BY <1>4, <2>1, <2>3, <2>6, <2>7, <2>9
<1> QED BY <1>1, <1>5, <1>6 DEF RequestInv

LEMMA WriteSpellStep ==
  ASSUME EmploymentsInv, NEW t \in Tab, WriteSpell(t) PROVE EmploymentsInv'
<1> PICK spell : spell = WrittenRow(t)
  OBVIOUS
<1>1. CASE Excluded(spell)
  BY <1>1, AnswerStep DEF WriteSpell, WrittenRow, Codes
<1>2. CASE ~Excluded(spell)
  <2> DEFINE r == [Idle EXCEPT !.answer = "ok"]
  <2>1. /\ tab[t].at = "write" /\ spells' = {s \in spells : s.id # spell.id} \cup {spell}
        /\ tab' = [tab EXCEPT ![t] = r] /\ UNCHANGED <<seen>>
    BY <1>2 DEF WriteSpell, WrittenRow
  <2>2. r \in Requests /\ r.at = "idle"
    BY DEF Idle, Requests, Spell, AnySpell, Codes
  <2> HIDE DEF r
  <2>3. /\ spell \in Rows
        /\ spell.start <= spell.end /\ IsFiniteSet(spells')
        /\ \A s \in spells' : s.id <= Cardinality(spells')
        /\ \A s \in spells : \E s2 \in spells' : SameButEnd(s, s2)
    <3> PICK table : table = TableWith(spell)
      OBVIOUS
    <3>1. spells' = table
      BY <2>1 DEF TableWith
    <3>2. /\ spell \in Rows
          /\ spell.start <= spell.end /\ IsFiniteSet(table)
          /\ \A s \in table : s.id <= Cardinality(table)
          /\ \A s \in spells : \E s2 \in table : SameButEnd(s, s2)
      BY <2>1, WrittenTable
    <3> QED BY <3>1, <3>2
  <2>4. tab' \in [Tab -> Requests] /\ tab'[t] = r /\ \A u \in Tab \ {t} : tab'[u] = tab[u]
    BY <2>1, <2>2 DEF EmploymentsInv
  <2>5. RequestInv(t)'
    BY <2>2, <2>4 DEF RequestInv
  <2>6. ASSUME NEW u \in Tab \ {t} PROVE RequestInv(u)'
    <3>1. RequestInv(u) /\ tab'[u] = tab[u] /\ seen'[u] = seen[u]
      BY <2>1, <2>4 DEF EmploymentsInv
    <3>2. (\E s \in spells : tab[u].spell = [s EXCEPT !.end = tab[u].spell.end])
            => \E s \in spells' : tab[u].spell = [s EXCEPT !.end = tab[u].spell.end]
      <4> PICK e : e = tab[u].spell.end
        OBVIOUS
      <4> SUFFICES ASSUME NEW s \in spells, tab[u].spell = [s EXCEPT !.end = e]
                   PROVE  \E s2 \in spells' : tab[u].spell = [s2 EXCEPT !.end = e]
        OBVIOUS
      <4>1. PICK s2 \in spells' : SameButEnd(s, s2)
        BY <2>3
      <4>2. [s EXCEPT !.end = e] = [s2 EXCEPT !.end = e]
        BY <4>1 DEF SameButEnd
      <4> QED BY <4>2
    <3> QED BY <3>1, <3>2 DEF RequestInv
  <2>7. EmploymentsTypeOK'
    <3>1. \A s \in spells' : s \in [id: Nat \ {0}, employer: Company, employee: Person, start: Day, end: 1..Open]
      BY <2>1, <2>3 DEF EmploymentsInv, OneSpellADay, EmploymentsTypeOK, Rows
    <3>2. \A s, s2 \in spells' : s.id = s2.id => s = s2
      BY <2>1 DEF EmploymentsInv, OneSpellADay, EmploymentsTypeOK
    <3>3. \A u \in Tab : tab'[u].at \in {"idle", "kinds", "find", "check", "write"}
      BY <2>1, <2>4 DEF EmploymentsInv, Requests
    <3> QED BY <3>1, <3>2, <3>3 DEF EmploymentsTypeOK
  <2>8. \A s \in spells : s.id # spell.id /\ s.employer = spell.employer /\ s.employee = spell.employee
                             => ~SharesADay(s, spell) /\ ~SharesADay(spell, s)
    BY <1>2 DEF Excluded, SharesADay
  <2>9. OneSpellADay'
    <3>1. \A s \in spells' : s.start <= s.end
      BY <2>1, <2>3 DEF EmploymentsInv, OneSpellADay
    <3>2. ASSUME NEW s \in spells', NEW s2 \in spells',
                 s.id # s2.id, s.employer = s2.employer, s.employee = s2.employee
          PROVE  ~SharesADay(s, s2)
      BY <2>1, <2>8, <3>2 DEF EmploymentsInv, OneSpellADay
    <3>3. \A s, s2 \in spells' : SharesADay(s, s2)' <=> SharesADay(s, s2)
      BY DEF SharesADay
    <3> QED BY <2>7, <3>1, <3>2, <3>3 DEF OneSpellADay
  <2> QED BY <2>1, <2>3, <2>4, <2>5, <2>6, <2>9 DEF EmploymentsInv
<1> QED BY <1>1, <1>2

LEMMA EmploymentsStep == EmploymentsInv /\ [EmploymentsNext]_employmentVars => EmploymentsInv'
<1> SUFFICES ASSUME EmploymentsInv, [EmploymentsNext]_employmentVars PROVE EmploymentsInv'
  OBVIOUS
<1>1. CASE UNCHANGED employmentVars
  BY <1>1, EmploymentsStutter
<1>2. ASSUME NEW t \in Tab, CheckKinds(t) \/ FindSpell(t) \/ AssertNoOverlap(t) \/ WriteSpell(t)
      PROVE  EmploymentsInv'
  BY <1>2, CheckKindsStep, FindSpellStep, AssertNoOverlapStep, WriteSpellStep
<1>3. ASSUME NEW t \in Tab, NEW s \in spells, NEW end \in Day, AskEnd(t, s.id, end) PROVE EmploymentsInv'
  BY <1>3, AskEndStep
<1>4. ASSUME NEW t \in Tab, NEW er \in Employed, NEW ee \in Employed, NEW start \in Day, NEW end \in 1..Open,
             AskCreate(t, Spell(0, er, ee, start, end))
      PROVE  EmploymentsInv'
  BY <1>4, AskCreateStep
<1> QED BY <1>1, <1>2, <1>3, <1>4 DEF EmploymentsNext

\* No pair ever has two employments on a day, whichever creations and endings race, for any
\* number of tabs, clients and days.
THEOREM PairsHaveOneSpellADay == EmploymentsSpec => []OneSpellADay
<1>1. EmploymentsInv => OneSpellADay
  BY DEF EmploymentsInv
<1> QED BY <1>1, EmploymentsInitially, EmploymentsStep, PTL DEF EmploymentsSpec

-------------------------------------------------------------------------------
(* The check and the constraint *)

LEMMA RefusalsAgree ==
  ASSUME EmploymentsInv, [EmploymentsNext]_employmentVars, NEW t \in Tab
  PROVE  /\ tab'[t].answer = "employment.overlapping_spell (constraint)" /\ tab[t].at = "write" => seen[t] # spells
         /\ tab[t].at = "check" /\ tab'[t].answer = "employment.overlapping_spell" => Excluded(tab[t].spell)
<1> SUFFICES ASSUME tab[t].at \in {"check", "write"},
                    tab'[t].answer \in {"employment.overlapping_spell (constraint)", "employment.overlapping_spell"}
             PROVE  /\ tab'[t].answer = "employment.overlapping_spell (constraint)" /\ tab[t].at = "write"
                          => seen[t] # spells
                    /\ tab[t].at = "check" /\ tab'[t].answer = "employment.overlapping_spell"
                          => Excluded(tab[t].spell)
  OBVIOUS
<1>1. tab[t].answer = "none" /\ RequestInv(t) /\ tab[t] \in Requests
  BY DEF EmploymentsInv, RequestInv
\* Only a step of the request itself answers it.
<1>2. AssertNoOverlap(t) \/ WriteSpell(t)
  <2>1. CASE UNCHANGED employmentVars
    BY <2>1, <1>1 DEF employmentVars
  <2>2. ASSUME NEW u \in Tab,
               CheckKinds(u) \/ FindSpell(u) \/ AssertNoOverlap(u) \/ WriteSpell(u)
        PROVE  AssertNoOverlap(t) \/ WriteSpell(t)
    <3>1. CASE u # t
      BY <2>2, <3>1, <1>1 DEF CheckKinds, FindSpell, AssertNoOverlap, WriteSpell, Answer, EmploymentsInv
    <3>2. CASE u = t
      BY <2>2, <3>2 DEF CheckKinds, FindSpell
    <3> QED BY <3>1, <3>2
  <2>3. ASSUME NEW u \in Tab, NEW id, NEW end, AskEnd(u, id, end) PROVE FALSE
    BY <2>3, <1>1 DEF AskEnd, EmploymentsInv
  <2>4. ASSUME NEW u \in Tab, NEW spell, AskCreate(u, spell) PROVE FALSE
    BY <2>4, <1>1 DEF AskCreate, EmploymentsInv
  <2> QED BY <2>1, <2>2, <2>3, <2>4 DEF EmploymentsNext
<1> DEFINE x == tab[t].spell
<1>3. x.start \in Day /\ x.end \in 1..Open /\ x.start <= x.end
  BY <1>1 DEF RequestInv
<1>4. ASSUME tab[t].at = "check" PROVE Excluded(x)
  <2>1. AssertNoOverlap(t)
    BY <1>2, <1>4 DEF WriteSpell
  <2>2. Clashes(spells, x) # {}
    <3> SUFFICES ASSUME Clashes(spells, x) = {} PROVE FALSE
      OBVIOUS
    <3>1. tab' = [tab EXCEPT ![t] = [tab[t] EXCEPT !.at = "write"]]
      BY <2>1 DEF AssertNoOverlap, EmploymentsInv
    <3>2. tab'[t] = [tab[t] EXCEPT !.at = "write"]
      BY <3>1 DEF EmploymentsInv
    <3>3. tab'[t].answer = tab[t].answer
      BY <1>1, <3>2 DEF Requests
    <3> QED BY <3>3, <1>1
  <2>3. PICK s \in spells : s \in Clashes(spells, x)
    BY <2>2 DEF Clashes
  <2>4. s.employer = x.employer /\ s.employee = x.employee /\ s.id # x.id /\ SharesADay(s, x)
    BY <2>3, <1>3, ClashIsSharing
  <2> QED BY <2>4 DEF Excluded
<1>5. ASSUME tab[t].at = "write" PROVE seen[t] # spells
  <2> SUFFICES ASSUME seen[t] = spells PROVE FALSE
    OBVIOUS
  <2> PICK spell : spell = WrittenRow(t)
    OBVIOUS
  <2>1. WriteSpell(t)
    BY <1>2, <1>5 DEF AssertNoOverlap
  <2>2. Excluded(spell)
    <3> SUFFICES ASSUME ~Excluded(spell) PROVE FALSE
      OBVIOUS
    <3>1. tab'[t].answer = "ok"
      BY <2>1 DEF WriteSpell, WrittenRow, EmploymentsInv, Idle
    <3> QED BY <3>1
  <2>3. PICK s \in spells : /\ s.employer = spell.employer /\ s.employee = spell.employee /\ s.id # spell.id
                            /\ SharesADay(s, spell)
    BY <2>2 DEF Excluded
  <2>4. /\ spell.employer = x.employer /\ spell.employee = x.employee
        /\ spell.start = x.start /\ spell.end = x.end
    BY <1>5, WrittenTable
  <2>5. s.id # x.id
    BY <1>1, <1>5, <2>3 DEF WrittenRow, RequestInv, EmploymentsInv, OneSpellADay, EmploymentsTypeOK
  <2>6. SharesADay(s, x)
    BY <2>3, <2>4 DEF SharesADay
  <2>7. s.employer = x.employer /\ s.employee = x.employee
    BY <2>3, <2>4
  <2>8. s \in Clashes(spells, x)
    BY <1>3, <2>5, <2>6, <2>7, ClashIsSharing
  <2> QED BY <1>1, <1>5, <2>8 DEF RequestInv
<1> QED BY <1>4, <1>5

\* The constraint refuses only what changed after the check, and the check refuses nothing the
\* constraint would take, on any calendar.
THEOREM CheckAndConstraintAgree == EmploymentsSpec => CheckAgreesWithConstraint
<1>1. EmploymentsInv /\ [EmploymentsNext]_employmentVars =>
        [\A t \in Tab : tab'[t].answer = "employment.overlapping_spell (constraint)" /\ tab[t].at = "write"
                           => seen[t] # spells]_employmentVars
  BY RefusalsAgree
<1>2. EmploymentsInv /\ [EmploymentsNext]_employmentVars =>
        [\A t \in Tab : tab[t].at = "check" /\ tab'[t].answer = "employment.overlapping_spell"
                           => Excluded(tab[t].spell)]_employmentVars
  BY RefusalsAgree
<1> QED BY <1>1, <1>2, EmploymentsInitially, EmploymentsStep, PTL
        DEF EmploymentsSpec, CheckAgreesWithConstraint, ConstraintOnlyOnRace, CheckIsNotStricter

-------------------------------------------------------------------------------
(***************************************************************************)
(* The register of clients, for any tabs, clients, tax ids and texts: what *)
(* a request that is past its form may rely on.                            *)
(***************************************************************************)
AnyText == Text \cup {None}
AnyTaxId == TaxId \cup {None}
ClientRows == [kind : C!Kind \cup {"none"}, taxId : AnyTaxId, email : AnyText, socialSecurityNo : AnyText]
Working == {"form", "check", "find", "write", "saved"}
Answers == {"none", "ok", "clients.archived", "clients.tax_id_taken", "common.internal_error"}
ClientTabs == [at : Working \cup {"closed"}, mode : {"create", "edit"},
               id : Client \cup {None}, edits : Nat, baseline : ClientRows, form : ClientRows,
               sent : SUBSET C!Field, existing : ClientRows,
               answer : Answers]

ClientsTyped ==
  /\ row \in [Client -> ClientRows]
  /\ archived \subseteq {c \in Client : C!Exists(c)}
  /\ clientTab \in [Tab -> ClientTabs]
  /\ forms \in 0..MaxForms

\* A form shows what its kind has; an edit is of a client, whose kind it keeps.
FormInv(t) ==
  LET p == clientTab[t] IN
  p.at # "closed" =>
    /\ p.form.kind \in C!Kind
    /\ p.form.kind = "COMPANY" => p.form.socialSecurityNo = None
    /\ p.mode = "edit" => /\ p.id \in Client /\ C!Exists(p.id)
                          /\ p.form.kind = row[p.id].kind /\ p.baseline.kind = p.form.kind
    /\ p.mode = "create" => p.id = None

\* What was sent is shown, and of an edit what its user changed; nothing is being cleared.
SentInv(t) ==
  LET p == clientTab[t] IN
  p.at \in {"find", "check", "write", "saved"} =>
    /\ p.sent \subseteq C!Shown(p.form.kind)
    /\ p.mode = "edit" => C!ClearedFields(p.form, p.baseline) = {} /\ \A f \in p.sent : p.form[f] # p.baseline[f]

\* Only an edit looks for its client; a tax id it then checks is not the one it found.
CheckInv(t) ==
  LET p == clientTab[t] IN
  /\ p.at = "find" => p.mode = "edit"
  /\ p.at = "check" /\ p.mode = "edit" => p.form.taxId # p.existing.taxId

RegisterInv ==
  /\ ClientsTyped /\ C!KindFieldsHold
  /\ \A t \in Tab : FormInv(t) /\ SentInv(t) /\ CheckInv(t)

LEMMA FieldsOf ==
  ASSUME NEW r \in ClientRows
  PROVE  /\ \A f \in C!Optional : r[f] \in AnyText
         /\ r["taxId"] = r.taxId /\ r["socialSecurityNo"] = r.socialSecurityNo
         /\ r.taxId \in AnyTaxId /\ r.kind \in C!Kind \cup {"none"}
BY DEF C!Optional, ClientRows

LEMMA BlankRows ==
  /\ C!NoRow \in ClientRows /\ C!NoRow.kind = "none" /\ C!NoRow.socialSecurityNo = None
  /\ C!EmptyForm \in ClientRows /\ C!EmptyForm.kind = "COMPANY" /\ C!EmptyForm.socialSecurityNo = None
  /\ DOMAIN C!NoRow = {"kind", "taxId", "email", "socialSecurityNo"}
BY DEF C!NoRow, C!EmptyForm, ClientRows, AnyText, AnyTaxId, C!Kind

LEMMA ClosedIs ==
  /\ C!Closed \in ClientTabs /\ C!Closed.at = "closed" /\ C!Closed.mode = "create" /\ C!Closed.answer = "none"
  /\ C!Closed.id = None
BY BlankRows DEF C!Closed, ClientTabs, C!Field, Answers

LEMMA RegisterInitially == C!ClientsInit => RegisterInv
<1> SUFFICES ASSUME C!ClientsInit PROVE RegisterInv
  OBVIOUS
<1>1. ClientsTyped
  BY BlankRows, ClosedIs, ClientsAssumption DEF C!ClientsInit, ClientsTyped
<1>2. C!KindFieldsHold
  BY BlankRows DEF C!ClientsInit, C!KindFieldsHold
<1>3. \A t \in Tab : clientTab[t].at = "closed"
  BY ClosedIs DEF C!ClientsInit
<1> QED BY <1>1, <1>2, <1>3 DEF RegisterInv, FormInv, SentInv, CheckInv

\* A step of one tab that leaves the rows alone.
LEMMA TabStep ==
  ASSUME RegisterInv, NEW t \in Tab, NEW p \in ClientTabs, clientTab' = [clientTab EXCEPT ![t] = p],
         UNCHANGED <<row, archived>>, forms' \in 0..MaxForms,
         FormInv(t)', SentInv(t)', CheckInv(t)'
  PROVE  RegisterInv'
<1>1. ClientsTyped' /\ C!KindFieldsHold'
  BY DEF RegisterInv, ClientsTyped, C!Exists, C!KindFieldsHold
<1>2. \A u \in Tab : u # t => clientTab'[u] = clientTab[u]
  BY DEF RegisterInv, ClientsTyped
<1>3. \A u \in Tab : u # t => FormInv(u)' /\ SentInv(u)' /\ CheckInv(u)'
  BY <1>2 DEF RegisterInv, FormInv, SentInv, CheckInv, C!Exists
<1> QED BY <1>1, <1>3 DEF RegisterInv

LEMMA OpenStep ==
  ASSUME RegisterInv, NEW t \in Tab, C!OpenNew(t) \/ (\E c \in Client : C!OpenEdit(t, c)) PROVE RegisterInv'
<1>0. ClientsTyped /\ C!KindFieldsHold /\ clientTab \in [Tab -> ClientTabs]
  BY DEF RegisterInv, ClientsTyped
<1>1. CASE C!OpenNew(t)
  <2> DEFINE p == [C!Closed EXCEPT !.at = "form", !.form = C!EmptyForm]
  <2>1. /\ clientTab' = [clientTab EXCEPT ![t] = p] /\ UNCHANGED <<row, archived>> /\ forms' = forms + 1
        /\ forms < MaxForms
    BY <1>1 DEF C!OpenNew
  <2>2. p \in ClientTabs /\ p.at = "form" /\ p.mode = "create" /\ p.form = C!EmptyForm /\ p.id = None
    BY BlankRows, ClosedIs DEF ClientTabs, Working
  <2>3. forms' \in 0..MaxForms
    BY <1>0, <2>1, ClientsAssumption DEF ClientsTyped
  <2> HIDE DEF p
  <2>4. clientTab'[t] = p
    BY <1>0, <2>1
  <2>5. FormInv(t)' /\ SentInv(t)' /\ CheckInv(t)'
    BY <2>2, <2>4, BlankRows DEF FormInv, SentInv, CheckInv, C!Kind
  <2> QED BY <2>1, <2>2, <2>3, <2>5, TabStep
<1>2. ASSUME NEW c \in Client, C!OpenEdit(t, c) PROVE RegisterInv'
  <2> DEFINE p == [C!Closed EXCEPT !.at = "form", !.mode = "edit", !.id = c, !.baseline = row[c], !.form = row[c]]
  <2>1. /\ clientTab' = [clientTab EXCEPT ![t] = p] /\ UNCHANGED <<row, archived>> /\ forms' = forms + 1
        /\ forms < MaxForms /\ C!Exists(c)
    BY <1>2 DEF C!OpenEdit
  <2>2. row[c] \in ClientRows
    BY <1>0 DEF ClientsTyped
  <2>3. /\ p \in ClientTabs /\ p.at = "form" /\ p.mode = "edit" /\ p.form = row[c] /\ p.id = c /\ p.baseline = row[c]
    BY <2>2, ClosedIs DEF ClientTabs, Working
  <2>4. forms' \in 0..MaxForms
    BY <1>0, <2>1, ClientsAssumption DEF ClientsTyped
  <2> HIDE DEF p
  <2>5. clientTab'[t] = p
    BY <1>0, <2>1
  <2>6. row[c].kind \in C!Kind /\ (row[c].kind = "COMPANY" => row[c].socialSecurityNo = None)
    BY <1>0, <2>1, <2>2, FieldsOf DEF C!Exists, C!KindFieldsHold
  <2>7. FormInv(t)' /\ SentInv(t)' /\ CheckInv(t)'
    BY <2>1, <2>3, <2>5, <2>6 DEF FormInv, SentInv, CheckInv, C!Exists
  <2> QED BY <2>1, <2>3, <2>4, <2>7, TabStep
<1> QED BY <1>1, <1>2

\* A form that was typed into.
TypedTab(old, form, n) == [old EXCEPT !.form = form, !.edits = n]

LEMMA Typed ==
  ASSUME NEW old \in ClientTabs, NEW form \in ClientRows, NEW n \in Nat
  PROVE  /\ TypedTab(old, form, n) \in ClientTabs
         /\ \A p : p = TypedTab(old, form, n) =>
              /\ p.at = old.at /\ p.mode = old.mode /\ p.id = old.id /\ p.form = form
              /\ p.baseline = old.baseline
BY DEF ClientTabs, TypedTab

LEMMA TypeStep ==
  ASSUME RegisterInv, NEW t \in Tab, NEW f \in C!Field, NEW v \in TaxId \cup Text \cup {None}, C!Type(t, f, v)
  PROVE  RegisterInv'
<1> DEFINE old == clientTab[t]
           form == [old.form EXCEPT ![f] = v]
           p == [old EXCEPT !.form = form, !.edits = old.edits + 1]
<1>0. /\ clientTab \in [Tab -> ClientTabs] /\ old \in ClientTabs /\ FormInv(t) /\ old.at = "form"
      /\ f \in C!Shown(old.form.kind) /\ v \in (IF f = "taxId" THEN AnyTaxId ELSE AnyText)
      /\ clientTab' = [clientTab EXCEPT ![t] = p] /\ UNCHANGED <<row, archived, forms>> /\ forms \in 0..MaxForms
  BY DEF RegisterInv, ClientsTyped, C!Type, C!Typing, AnyTaxId, AnyText
<1>1. old.form \in ClientRows /\ f \in {"email", "socialSecurityNo", "taxId"}
  BY <1>0 DEF ClientTabs, C!Field, C!Optional
<1> HIDE DEF old
<1>2. form \in ClientRows /\ form.kind = old.form.kind /\ (f # "socialSecurityNo" => form.socialSecurityNo = old.form.socialSecurityNo)
  BY <1>0, <1>1 DEF ClientRows
<1> HIDE DEF form
<1>3. /\ p \in ClientTabs /\ p.at = "form" /\ p.mode = old.mode /\ p.id = old.id /\ p.form = form
      /\ p.baseline = old.baseline
  <2>1. old \in ClientTabs /\ old.at = "form" /\ form \in ClientRows
    BY <1>0, <1>2
  <2>2. old.edits + 1 \in Nat
    BY <2>1 DEF ClientTabs
  <2> DEFINE n == old.edits + 1
  <2> HIDE DEF n
  <2>3. n \in Nat /\ p = TypedTab(old, form, n)
    BY <2>2 DEF n, TypedTab
  <2> HIDE DEF p
  <2> QED BY <2>1, <2>3, Typed
<1> HIDE DEF p
<1>4. clientTab'[t] = p
  BY <1>0
<1>5. form.kind = "COMPANY" => form.socialSecurityNo = None
  BY <1>0, <1>2 DEF FormInv, C!Shown, old
<1>6. FormInv(t)' /\ SentInv(t)' /\ CheckInv(t)'
  BY <1>0, <1>2, <1>3, <1>4, <1>5 DEF FormInv, SentInv, CheckInv, C!Exists, old
<1> QED BY <1>0, <1>3, <1>6, TabStep

LEMMA ChangeKindStep ==
  ASSUME RegisterInv, NEW t \in Tab, NEW kind \in C!Kind, C!ChangeKind(t, kind) PROVE RegisterInv'
<1> DEFINE old == clientTab[t]
           form == [old.form EXCEPT !.kind = kind, !.socialSecurityNo = None]
           p == [old EXCEPT !.form = form, !.edits = old.edits + 1]
<1>0. /\ clientTab \in [Tab -> ClientTabs] /\ old \in ClientTabs /\ FormInv(t) /\ old.at = "form" /\ old.mode = "create"
      /\ UNCHANGED <<row, archived, forms>> /\ forms \in 0..MaxForms
  BY DEF RegisterInv, ClientsTyped, C!ChangeKind, C!Typing
<1>1. old.form \in ClientRows /\ clientTab' = [clientTab EXCEPT ![t] = p]
  BY <1>0 DEF ClientTabs, ClientRows, C!ChangeKind
<1> HIDE DEF old
<1>2. form \in ClientRows /\ form.kind = kind /\ form.socialSecurityNo = None
  BY <1>1 DEF ClientRows, AnyText
<1> HIDE DEF form
<1>3. p \in ClientTabs /\ p.at = "form" /\ p.mode = "create" /\ p.id = old.id /\ p.form = form
  <2>1. old \in ClientTabs /\ old.at = "form" /\ old.mode = "create" /\ form \in ClientRows
    BY <1>0, <1>2
  <2>2. old.edits + 1 \in Nat
    BY <2>1 DEF ClientTabs
  <2> DEFINE n == old.edits + 1
  <2> HIDE DEF n
  <2>3. n \in Nat /\ p = TypedTab(old, form, n)
    BY <2>2 DEF n, TypedTab
  <2> HIDE DEF p
  <2> QED BY <2>1, <2>3, Typed
<1> HIDE DEF p
<1>4. clientTab'[t] = p
  BY <1>0, <1>1
<1>5. FormInv(t)' /\ SentInv(t)' /\ CheckInv(t)'
  BY <1>0, <1>2, <1>3, <1>4 DEF FormInv, SentInv, CheckInv, old
<1> QED BY <1>0, <1>1, <1>3, <1>5, TabStep

\* A tab moves on, with an answer.
MovedTab(old, at, sent, existing, code) ==
  [old EXCEPT !.at = at, !.sent = sent, !.existing = existing, !.answer = code]

Moves(t, at, sent, existing, code) ==
  clientTab' = [clientTab EXCEPT ![t] = MovedTab(clientTab[t], at, sent, existing, code)]

LEMMA Moved ==
  ASSUME NEW old \in ClientTabs, NEW at \in Working, NEW sent \in SUBSET C!Field,
         NEW existing \in ClientRows,
         NEW code \in Answers
  PROVE  /\ MovedTab(old, at, sent, existing, code) \in ClientTabs
         /\ \A p : p = MovedTab(old, at, sent, existing, code) =>
              /\ p.at = at /\ p.sent = sent /\ p.existing = existing /\ p.answer = code
              /\ p.mode = old.mode /\ p.id = old.id /\ p.form = old.form /\ p.baseline = old.baseline
BY DEF ClientTabs, MovedTab

\* A tab that moves on with the form it had.
LEMMA MoveStep ==
  ASSUME RegisterInv, NEW t \in Tab, clientTab[t].at # "closed",
         NEW at \in Working, NEW sent \in SUBSET C!Field,
         NEW existing \in ClientRows,
         NEW code \in Answers,
         Moves(t, at, sent, existing, code)
  PROVE  /\ clientTab'[t] \in ClientTabs /\ clientTab' \in [Tab -> ClientTabs]
         /\ \A u \in Tab : u # t => clientTab'[u] = clientTab[u]
         /\ clientTab'[t].at = at /\ clientTab'[t].sent = sent /\ clientTab'[t].existing = existing
         /\ clientTab'[t].mode = clientTab[t].mode /\ clientTab'[t].id = clientTab[t].id
         /\ clientTab'[t].form = clientTab[t].form /\ clientTab'[t].baseline = clientTab[t].baseline
         /\ clientTab'[t].answer = code
         /\ clientTab'[t].at # "closed"
<1>1. clientTab \in [Tab -> ClientTabs] /\ FormInv(t)
  BY DEF RegisterInv, ClientsTyped
<1> DEFINE p == MovedTab(clientTab[t], at, sent, existing, code)
<1>2. /\ p \in ClientTabs /\ p.at = at /\ p.sent = sent /\ p.existing = existing /\ p.answer = code
      /\ p.mode = clientTab[t].mode /\ p.id = clientTab[t].id /\ p.form = clientTab[t].form
      /\ p.baseline = clientTab[t].baseline
  BY <1>1, Moved
<1> HIDE DEF p, ClientTabs
<1>3. clientTab'[t] = p /\ clientTab' \in [Tab -> ClientTabs] /\ \A u \in Tab : u # t => clientTab'[u] = clientTab[u]
  BY <1>1, <1>2 DEF p, Moves
<1> QED BY <1>2, <1>3 DEF Working

LEMMA FormKept ==
  ASSUME RegisterInv, NEW t \in Tab, clientTab[t].at # "closed", UNCHANGED row,
         clientTab'[t].mode = clientTab[t].mode, clientTab'[t].id = clientTab[t].id,
         clientTab'[t].form = clientTab[t].form, clientTab'[t].baseline = clientTab[t].baseline
  PROVE  FormInv(t)'
BY DEF RegisterInv, FormInv, C!Exists

\* The fields of a tab, and its own values for what a step leaves of it.
LEMMA TabOf ==
  ASSUME ClientsTyped, NEW t \in Tab
  PROVE  /\ clientTab[t] \in ClientTabs /\ clientTab[t].sent \in SUBSET C!Field
         /\ clientTab[t].existing \in ClientRows /\ clientTab[t].form \in ClientRows /\ clientTab[t].baseline \in ClientRows
         /\ clientTab[t].answer \in Answers
         /\ clientTab[t].mode \in {"create", "edit"} /\ clientTab[t].id \in Client \cup {None}
         /\ clientTab[t] = [clientTab[t] EXCEPT !.sent = clientTab[t].sent, !.existing = clientTab[t].existing]
BY DEF ClientsTyped, ClientTabs

LEMMA SubmitStep ==
  ASSUME RegisterInv, NEW t \in Tab, C!Submit(t) PROVE RegisterInv'
<1> DEFINE old == clientTab[t]
           form == old.form
           sent == IF old.mode = "create" THEN C!Candidate(form) ELSE C!Changes(form, old.baseline)
           at == IF old.mode = "create" THEN "check" ELSE "find"
<1>0. ClientsTyped /\ old \in ClientTabs /\ FormInv(t) /\ old.existing \in ClientRows /\ old.mode \in {"create", "edit"}
  BY TabOf DEF RegisterInv
<1>1. /\ old.at = "form" /\ (old.mode = "edit" => C!ClearedFields(form, old.baseline) = {})
      /\ UNCHANGED <<row, archived, forms>> /\ forms \in 0..MaxForms
  BY <1>0 DEF C!Submit, ClientsTyped
<1>2. Moves(t, at, sent, old.existing, "none")
  <2>1. clientTab' = [clientTab EXCEPT ![t] = [old EXCEPT !.at = at, !.sent = sent, !.answer = "none"]]
    BY <1>0 DEF C!Submit, ClientsTyped
  <2> HIDE DEF at, sent
  <2>2. [old EXCEPT !.at = at, !.sent = sent, !.answer = "none"]
          = MovedTab(old, at, sent, old.existing, "none")
    BY <1>0 DEF ClientTabs, MovedTab
  <2> QED BY <2>1, <2>2 DEF Moves
<1>3. /\ sent \subseteq C!Shown(form.kind) /\ sent \in SUBSET C!Field
      /\ old.mode = "edit" => \A f \in sent : form[f] # old.baseline[f]
  BY <1>0 DEF C!Candidate, C!Changes, C!Shown
<1>4. at \in {"check", "find"} /\ (old.mode = "edit" => at = "find") /\ (old.mode = "create" => at = "check")
  BY <1>0
<1> HIDE DEF at, sent, form
<1>5. /\ clientTab'[t] \in ClientTabs /\ FormInv(t)' /\ clientTab'[t].at = at /\ clientTab'[t].sent = sent
      /\ clientTab'[t].mode = old.mode /\ clientTab'[t].form = old.form /\ clientTab'[t].baseline = old.baseline
  <2>1. old.at # "closed" /\ UNCHANGED row /\ at \in Working /\ "none" \in Answers
    BY <1>1, <1>4 DEF Working, Answers
    <2>8. /\ clientTab'[t] \in ClientTabs /\ clientTab'[t].at = at /\ clientTab'[t].sent = sent
          /\ clientTab'[t].mode = old.mode /\ clientTab'[t].id = old.id /\ clientTab'[t].form = old.form
          /\ clientTab'[t].baseline = old.baseline
    BY <1>0, <1>2, <1>3, <2>1, MoveStep
  <2> QED BY <2>1, <2>8, FormKept
<1>6. SentInv(t)' /\ CheckInv(t)'
  <2>1. SentInv(t)'
    BY <1>1, <1>3, <1>5 DEF SentInv, form
  <2>2. CheckInv(t)'
    BY <1>0, <1>4, <1>5 DEF CheckInv
  <2> QED BY <2>1, <2>2
<1>7. clientTab' = [clientTab EXCEPT ![t] = clientTab'[t]]
  BY <1>0, <1>2, <1>5 DEF ClientsTyped, Moves
<1> QED BY <1>1, <1>5, <1>6, <1>7, TabStep

LEMMA LeaveStep ==
  ASSUME RegisterInv, NEW t \in Tab, C!Leave(t) PROVE RegisterInv'
<1>1. /\ clientTab' = [clientTab EXCEPT ![t] = C!Closed] /\ UNCHANGED <<row, archived, forms>>
      /\ clientTab \in [Tab -> ClientTabs] /\ forms \in 0..MaxForms
  BY DEF C!Leave, RegisterInv, ClientsTyped
<1>2. clientTab'[t].at = "closed"
  BY <1>1, ClosedIs
<1>3. FormInv(t)' /\ SentInv(t)' /\ CheckInv(t)'
  BY <1>2 DEF FormInv, SentInv, CheckInv
<1> QED BY <1>1, <1>3, ClosedIs, TabStep

LEMMA RefuseStep ==
  ASSUME RegisterInv, NEW t \in Tab, clientTab[t].at # "closed",
         NEW code \in {"clients.archived", "clients.tax_id_taken", "common.internal_error"}, C!Refuse(t, code)
  PROVE  RegisterInv' /\ clientTab'[t].at = "form" /\ clientTab'[t].answer = code
         /\ \A u \in Tab : u # t => clientTab'[u] = clientTab[u]
<1> DEFINE old == clientTab[t]
<1>0. /\ ClientsTyped /\ old \in ClientTabs /\ old.sent \in SUBSET C!Field /\ old.existing \in ClientRows
      /\ UNCHANGED <<row, archived, forms>> /\ forms \in 0..MaxForms
  BY TabOf DEF RegisterInv, ClientsTyped, C!Refuse
<1>1. Moves(t, "form", old.sent, old.existing, code)
  <2>1. clientTab' = [clientTab EXCEPT ![t] = [old EXCEPT !.at = "form", !.answer = code]]
    BY <1>0 DEF C!Refuse, ClientsTyped
  <2>2. [old EXCEPT !.at = "form", !.answer = code]
          = MovedTab(old, "form", old.sent, old.existing, code)
    BY <1>0 DEF ClientTabs, MovedTab
  <2> QED BY <2>1, <2>2 DEF Moves
<1>2. /\ clientTab'[t] \in ClientTabs /\ FormInv(t)' /\ clientTab'[t].at = "form" /\ clientTab'[t].answer = code
      /\ \A u \in Tab : u # t => clientTab'[u] = clientTab[u]
  <2>1. "form" \in Working /\ code \in Answers /\ UNCHANGED row
    BY <1>0 DEF Working, Answers
    <2>8. /\ clientTab'[t] \in ClientTabs /\ clientTab'[t].at = "form" /\ clientTab'[t].sent = old.sent
          /\ clientTab'[t].mode = old.mode /\ clientTab'[t].id = old.id /\ clientTab'[t].form = old.form
          /\ clientTab'[t].baseline = old.baseline /\ clientTab'[t].answer = code
        /\ \A u \in Tab : u # t => clientTab'[u] = clientTab[u]
    BY <1>0, <1>1, <2>1, MoveStep
  <2> QED BY <2>1, <2>8, FormKept
<1>3. SentInv(t)' /\ CheckInv(t)'
  BY <1>2 DEF SentInv, CheckInv
<1>4. clientTab' = [clientTab EXCEPT ![t] = clientTab'[t]]
  BY <1>0, <1>1, <1>2 DEF ClientsTyped, Moves
<1> QED BY <1>0, <1>2, <1>3, <1>4, TabStep

LEMMA FindStep ==
  ASSUME RegisterInv, NEW t \in Tab, C!FindExisting(t) PROVE RegisterInv'
<1> DEFINE old == clientTab[t]
           c == old.id
           at == IF "taxId" \in old.sent /\ old.form.taxId # row[c].taxId THEN "check" ELSE "write"
<1>0. /\ ClientsTyped /\ old \in ClientTabs /\ old.sent \in SUBSET C!Field /\ FormInv(t) /\ SentInv(t)
      /\ old.at = "find" /\ old.mode = "edit" /\ forms \in 0..MaxForms
      /\ old.answer \in Answers
  BY TabOf DEF RegisterInv, ClientsTyped, C!FindExisting, CheckInv
<1>1. CASE c \in archived
  BY <1>0, <1>1, RefuseStep DEF C!FindExisting
<1>2. CASE c \notin archived
  <2>1. UNCHANGED <<row, archived, forms>>
    BY <1>2 DEF C!FindExisting
  <2>2. Moves(t, at, old.sent, row[c], old.answer)
    <3>1. clientTab' = [clientTab EXCEPT ![t] = [old EXCEPT !.existing = row[c], !.at = at]]
      BY <1>0, <1>2 DEF C!FindExisting, ClientsTyped
    <3> HIDE DEF at
    <3>2. [old EXCEPT !.existing = row[c], !.at = at]
            = MovedTab(old, at, old.sent, row[c], old.answer)
      BY <1>0 DEF ClientTabs, MovedTab
    <3> QED BY <3>1, <3>2 DEF Moves
  <2>3. row[c] \in ClientRows /\ at \in {"check", "write"} /\ (at = "check" => old.form.taxId # row[c].taxId)
    BY <1>0 DEF FormInv, ClientsTyped
  <2> HIDE DEF at
  <2>4. /\ clientTab'[t] \in ClientTabs /\ FormInv(t)' /\ clientTab'[t].at = at /\ clientTab'[t].sent = old.sent
        /\ clientTab'[t].mode = old.mode /\ clientTab'[t].form = old.form /\ clientTab'[t].baseline = old.baseline
        /\ clientTab'[t].existing = row[c]
    <3>1. /\ old.at # "closed" /\ at \in Working
          /\ old.sent \in SUBSET C!Field /\ row[c] \in ClientRows /\ UNCHANGED row
      BY <1>0, <2>1, <2>3 DEF Working
    <3> DEFINE code == old.answer
               found == row[c]
    <3>2. code \in Answers
      BY <1>0
    <3>3. Moves(t, at, old.sent, found, code) /\ found \in ClientRows
      BY <2>2, <3>1
    <3> HIDE DEF code, found
      <3>8. /\ clientTab'[t] \in ClientTabs /\ clientTab'[t].at = at /\ clientTab'[t].sent = old.sent
            /\ clientTab'[t].mode = old.mode /\ clientTab'[t].id = old.id /\ clientTab'[t].form = old.form
            /\ clientTab'[t].baseline = old.baseline /\ clientTab'[t].existing = found
      BY <3>1, <3>2, <3>3, MoveStep
    <3> QED BY <3>1, <3>8, FormKept DEF found
  <2>5. SentInv(t)' /\ CheckInv(t)'
    BY <1>0, <2>3, <2>4 DEF SentInv, CheckInv
  <2>6. clientTab' = [clientTab EXCEPT ![t] = clientTab'[t]]
    BY <1>0, <2>2, <2>4 DEF ClientsTyped, Moves
  <2> QED BY <1>0, <2>1, <2>4, <2>5, <2>6, TabStep
<1> QED BY <1>1, <1>2

LEMMA AssertStep ==
  ASSUME RegisterInv, NEW t \in Tab, C!AssertTaxIdFree(t) PROVE RegisterInv'
<1> DEFINE old == clientTab[t]
<1>0. /\ ClientsTyped /\ old \in ClientTabs /\ old.sent \in SUBSET C!Field /\ old.existing \in ClientRows
      /\ SentInv(t) /\ old.at = "check" /\ forms \in 0..MaxForms
      /\ old.answer \in Answers
  BY TabOf DEF RegisterInv, ClientsTyped, C!AssertTaxIdFree
<1>1. CASE C!Refuse(t, "clients.tax_id_taken")
  BY <1>0, <1>1, RefuseStep
<1>2. CASE clientTab' = [clientTab EXCEPT ![t].at = "write"] /\ UNCHANGED <<row, archived, forms>>
  <2>1. Moves(t, "write", old.sent, old.existing, old.answer)
    <3>1. clientTab' = [clientTab EXCEPT ![t] = [old EXCEPT !.at = "write"]]
      BY <1>0, <1>2 DEF ClientsTyped
    <3>2. [old EXCEPT !.at = "write"]
            = MovedTab(old, "write", old.sent, old.existing, old.answer)
      BY <1>0 DEF ClientTabs, MovedTab
    <3> QED BY <3>1, <3>2 DEF Moves
  <2>2. /\ clientTab'[t] \in ClientTabs /\ FormInv(t)' /\ clientTab'[t].at = "write" /\ clientTab'[t].sent = old.sent
        /\ clientTab'[t].mode = old.mode /\ clientTab'[t].form = old.form /\ clientTab'[t].baseline = old.baseline
    <3>1. old.at # "closed" /\ UNCHANGED row /\ "write" \in Working
      BY <1>0, <1>2 DEF Working
    <3> DEFINE code == old.answer
    <3>2. code \in Answers
      BY <1>0
    <3>3. Moves(t, "write", old.sent, old.existing, code)
      BY <2>1
    <3> HIDE DEF code
      <3>8. /\ clientTab'[t] \in ClientTabs /\ clientTab'[t].at = "write" /\ clientTab'[t].sent = old.sent
            /\ clientTab'[t].mode = old.mode /\ clientTab'[t].id = old.id /\ clientTab'[t].form = old.form
            /\ clientTab'[t].baseline = old.baseline
      BY <1>0, <3>1, <3>2, <3>3, MoveStep
    <3> QED BY <3>1, <3>8, FormKept
  <2>3. SentInv(t)' /\ CheckInv(t)'
    BY <1>0, <2>2 DEF SentInv, CheckInv
  <2>4. clientTab' = [clientTab EXCEPT ![t] = clientTab'[t]]
    BY <1>0, <2>1, <2>2 DEF ClientsTyped, Moves
  <2> QED BY <1>0, <1>2, <2>2, <2>3, <2>4, TabStep
<1> QED BY <1>1, <1>2 DEF C!AssertTaxIdFree

\* The row that a request writes.
Before(t) == IF clientTab[t].mode = "create" THEN C!NoRow ELSE row[clientTab[t].id]
RowOf(t) == [f \in DOMAIN C!NoRow |-> IF f \in clientTab[t].sent THEN clientTab[t].form[f]
                                      ELSE IF f = "kind" THEN clientTab[t].form.kind ELSE Before(t)[f]]

LEMMA RowWritten ==
  ASSUME RegisterInv, NEW t \in Tab, clientTab[t].at = "write"
  PROVE  /\ RowOf(t) \in ClientRows /\ RowOf(t).kind = clientTab[t].form.kind /\ RowOf(t).kind \in C!Kind
         /\ RowOf(t).kind = "COMPANY" => RowOf(t).socialSecurityNo = None
         /\ \A f \in C!Field \ clientTab[t].sent : RowOf(t)[f] = Before(t)[f]
<1> DEFINE form == clientTab[t].form
           sent == clientTab[t].sent
           w == RowOf(t)
<1>0. /\ ClientsTyped /\ form \in ClientRows /\ sent \in SUBSET C!Field /\ FormInv(t) /\ SentInv(t)
      /\ C!KindFieldsHold /\ clientTab[t].mode \in {"create", "edit"}
  BY TabOf DEF RegisterInv
<1>1. /\ Before(t) \in ClientRows /\ form.kind \in C!Kind
      /\ form.kind = "COMPANY" => Before(t).socialSecurityNo = None
  <2>1. CASE clientTab[t].mode = "create"
    BY <1>0, <2>1, BlankRows DEF Before, FormInv
  <2>2. CASE clientTab[t].mode = "edit"
    BY <1>0, <2>2 DEF Before, FormInv, ClientsTyped, C!KindFieldsHold
  <2> QED BY <1>0, <2>1, <2>2
<1>2. w = [f \in {"kind", "taxId", "email", "socialSecurityNo"} |->
             IF f \in sent THEN form[f] ELSE IF f = "kind" THEN form.kind ELSE Before(t)[f]]
  BY BlankRows DEF RowOf
<1>3. "kind" \notin sent /\ sent \subseteq {"taxId", "email", "socialSecurityNo"}
      /\ (form.kind = "COMPANY" => "socialSecurityNo" \notin sent)
  BY <1>0 DEF C!Field, C!Optional, SentInv, C!Shown
<1> DEFINE before == Before(t)
<1>4. before \in ClientRows /\ (form.kind = "COMPANY" => before.socialSecurityNo = None)
  BY <1>1
<1> HIDE DEF w, form, sent, before
<1>5. w = [f \in {"kind", "taxId", "email", "socialSecurityNo"} |->
             IF f \in sent THEN form[f] ELSE IF f = "kind" THEN form.kind ELSE before[f]]
  BY <1>2 DEF before
<1>6. /\ w.kind = form.kind
      /\ w.taxId \in AnyTaxId /\ w.email \in AnyText /\ w.socialSecurityNo \in AnyText
      /\ form.kind = "COMPANY" => w.socialSecurityNo = None
  BY <1>0, <1>1, <1>3, <1>4, <1>5 DEF ClientRows
<1>7. w = [kind |-> w.kind, taxId |-> w.taxId, email |-> w.email, socialSecurityNo |-> w.socialSecurityNo]
  BY <1>5
<1>8. \A f \in C!Field \ sent : w[f] = before[f]
  BY <1>5 DEF C!Field, C!Optional
<1>9. w \in ClientRows
  BY <1>1, <1>6, <1>7 DEF ClientRows
<1> QED BY <1>1, <1>6, <1>8, <1>9 DEF w, form, sent, before

\* A write is of a row that is new, or of the client that is edited.
LEMMA WriteIs ==
  ASSUME RegisterInv, NEW t \in Tab, C!Write(t)
  PROVE  /\ clientTab[t].at = "write"
         /\ \/ C!Refuse(t, "common.internal_error")
            \/ /\ \E c \in Client : /\ IF clientTab[t].mode = "create" THEN ~C!Exists(c) ELSE c = clientTab[t].id
                                    /\ row' = [row EXCEPT ![c] = RowOf(t)]
               /\ Moves(t, "saved", clientTab[t].sent, clientTab[t].existing, "ok")
               /\ UNCHANGED <<archived, forms>>
<1>1. clientTab[t] \in ClientTabs /\ clientTab \in [Tab -> ClientTabs]
  BY DEF RegisterInv, ClientsTyped
<1>2. [clientTab EXCEPT ![t].at = "saved", ![t].answer = "ok"]
        = [clientTab EXCEPT ![t] = MovedTab(clientTab[t], "saved", clientTab[t].sent, clientTab[t].existing, "ok")]
  <2>1. [clientTab[t] EXCEPT !.at = "saved", !.answer = "ok"]
          = MovedTab(clientTab[t], "saved", clientTab[t].sent, clientTab[t].existing, "ok")
    BY <1>1 DEF ClientTabs, MovedTab
  <2>2. [clientTab EXCEPT ![t].at = "saved", ![t].answer = "ok"]
          = [clientTab EXCEPT ![t] = [clientTab[t] EXCEPT !.at = "saved", !.answer = "ok"]]
    BY <1>1
  <2> QED BY <2>1, <2>2
<1> QED BY <1>2 DEF Moves, C!Write, RowOf, Before, C!ConflictAnswer

LEMMA WriteStep ==
  ASSUME RegisterInv, NEW t \in Tab, C!Write(t) PROVE RegisterInv'
<1> DEFINE old == clientTab[t]
<1>0. /\ ClientsTyped /\ C!KindFieldsHold /\ FormInv(t) /\ SentInv(t) /\ old.at = "write"
      /\ old.sent \in SUBSET C!Field /\ old.existing \in ClientRows /\ old.mode \in {"create", "edit"}
      /\ \A u \in Tab : FormInv(u) /\ SentInv(u) /\ CheckInv(u)
  BY TabOf, WriteIs DEF RegisterInv
<1>1. CASE C!Refuse(t, "common.internal_error")
  BY <1>0, <1>1, RefuseStep
<1>2. ASSUME NEW c \in Client, IF old.mode = "create" THEN ~C!Exists(c) ELSE c = old.id,
             row' = [row EXCEPT ![c] = RowOf(t)], UNCHANGED <<archived, forms>>,
             Moves(t, "saved", old.sent, old.existing, "ok")
      PROVE  RegisterInv'
  <2>1. /\ clientTab' \in [Tab -> ClientTabs] /\ \A u \in Tab : u # t => clientTab'[u] = clientTab[u]
        /\ clientTab'[t].at = "saved" /\ clientTab'[t].sent = old.sent
        /\ clientTab'[t].mode = old.mode /\ clientTab'[t].form = old.form /\ clientTab'[t].baseline = old.baseline
        /\ clientTab'[t].id = old.id
    <3>1. /\ "saved" \in Working /\ "ok" \in Answers /\ old.at # "closed"
          /\ old.sent \in SUBSET C!Field /\ old.existing \in ClientRows
      BY <1>0 DEF Working, Answers
    <3>2. Moves(t, "saved", old.sent, old.existing, "ok")
      BY <1>2
    <3> QED BY <3>1, <3>2, MoveStep
  <2>2. /\ RowOf(t) \in ClientRows /\ RowOf(t).kind = old.form.kind /\ RowOf(t).kind \in C!Kind
        /\ RowOf(t).kind = "COMPANY" => RowOf(t).socialSecurityNo = None
    BY <1>0, RowWritten
  <2>3. /\ row' \in [Client -> ClientRows] /\ row'[c] = RowOf(t)
        /\ \A d \in Client : d # c => row'[d] = row[d]
    BY <1>0, <1>2, <2>2 DEF ClientsTyped
  <2>4. \A d \in Client : C!Exists(d) => C!Exists(d)' /\ row'[d].kind = row[d].kind
    <3>1. C!Exists(c)' /\ (C!Exists(c) => row'[c].kind = row[c].kind)
      BY <1>0, <1>2, <2>2, <2>3 DEF C!Exists, C!Kind, FormInv
    <3> QED BY <2>3, <3>1 DEF C!Exists
  <2>5. ClientsTyped' /\ C!KindFieldsHold'
    BY <1>0, <1>2, <2>1, <2>2, <2>3, <2>4 DEF ClientsTyped, C!KindFieldsHold
  <2>6. \A u \in Tab : FormInv(u)'
    BY <1>0, <2>1, <2>4 DEF FormInv
  <2>7. \A u \in Tab : SentInv(u)' /\ CheckInv(u)'
    BY <1>0, <2>1 DEF SentInv, CheckInv
  <2> QED BY <2>5, <2>6, <2>7 DEF RegisterInv
<1> QED BY <1>1, <1>2, WriteIs

LEMMA ArchiveStep ==
  ASSUME RegisterInv, NEW c \in Client, C!Archive(c) \/ C!Restore(c) PROVE RegisterInv'
<1>1. ClientsTyped' /\ UNCHANGED <<row, clientTab>>
  BY DEF RegisterInv, ClientsTyped, C!Archive, C!Restore, C!Exists
<1> QED BY <1>1 DEF RegisterInv, C!KindFieldsHold, FormInv, SentInv, CheckInv, C!Exists

LEMMA RegisterStep == RegisterInv /\ [C!ClientsNext]_(C!clientVars) => RegisterInv'
<1> SUFFICES ASSUME RegisterInv, [C!ClientsNext]_(C!clientVars) PROVE RegisterInv'
  OBVIOUS
<1>1. CASE UNCHANGED C!clientVars
  BY <1>1 DEF C!clientVars, RegisterInv, ClientsTyped, C!KindFieldsHold, FormInv, SentInv, CheckInv, C!Exists
<1>2. CASE C!ClientsNext
  BY <1>2, OpenStep, TypeStep, ChangeKindStep, SubmitStep, LeaveStep, FindStep, AssertStep, WriteStep, ArchiveStep
  DEF C!ClientsNext
<1> QED BY <1>1, <1>2

LEMMA RegisterImplies == RegisterInv => FieldsHold
<1> SUFFICES ASSUME RegisterInv PROVE FieldsHold
  OBVIOUS
<1>1. C!ClientsTypeOK
  <2>1. \A c \in Client : row[c].kind \in C!Kind \cup {"none"} /\ row[c].taxId \in TaxId \cup {None}
    BY DEF RegisterInv, ClientsTyped, ClientRows, AnyTaxId
  <2>2. \A t \in Tab : clientTab[t].sent \subseteq C!Field /\ clientTab[t].form.kind \in C!Kind \cup {"none"}
    BY TabOf, FieldsOf DEF RegisterInv
  <2> QED BY <2>1, <2>2 DEF C!ClientsTypeOK, RegisterInv, ClientsTyped
<1>2. C!NothingSeemsCleared
  BY DEF RegisterInv, SentInv, C!NothingSeemsCleared, C!ClearedFields
<1> QED BY <1>1, <1>2 DEF FieldsHold, RegisterInv


\* A step of a tab is its own; one that neither checks nor writes does not take a tab from
\* "write", and does not answer that the tax id is taken.
QuietStep(t) ==
  \/ C!OpenNew(t) \/ C!Submit(t) \/ C!Leave(t) \/ C!FindExisting(t)
  \/ \E c \in Client : C!OpenEdit(t, c)
  \/ \E k \in C!Kind : C!ChangeKind(t, k)
  \/ \E f \in C!Field, v \in TaxId \cup Text \cup {None} : C!Type(t, f, v)

Quiet(t) ==
  /\ clientTab[t].at # "write"
  /\ clientTab'[t].answer = "clients.tax_id_taken" => clientTab[t].answer = "clients.tax_id_taken"
  /\ \A u \in Tab : u # t => clientTab'[u] = clientTab[u]

LEMMA QuietSteps ==
  ASSUME RegisterInv, NEW t \in Tab, QuietStep(t) PROVE Quiet(t)
<1> DEFINE old == clientTab[t]
<1>0. clientTab \in [Tab -> ClientTabs] /\ old \in ClientTabs
  BY DEF RegisterInv, ClientsTyped
<1>1. ASSUME NEW p, clientTab' = [clientTab EXCEPT ![t] = p], old.at # "write",
             p.answer = "clients.tax_id_taken" => old.answer = "clients.tax_id_taken"
      PROVE  Quiet(t)
  BY <1>0, <1>1 DEF Quiet
<1>2. CASE C!OpenNew(t)
  <2>1. [C!Closed EXCEPT !.at = "form", !.form = C!EmptyForm].answer = "none"
    BY DEF C!Closed
  <2> QED BY <1>1, <1>2, <2>1 DEF C!OpenNew
<1>3. ASSUME NEW c \in Client, C!OpenEdit(t, c) PROVE Quiet(t)
  <2>1. [C!Closed EXCEPT !.at = "form", !.mode = "edit", !.id = c, !.baseline = row[c], !.form = row[c]].answer = "none"
    BY DEF C!Closed
  <2> QED BY <1>1, <1>3, <2>1 DEF C!OpenEdit
<1>4. ASSUME NEW form, NEW n, NEW at, NEW sent, NEW existing, NEW code, old.at # "write", code # "clients.tax_id_taken",
             \/ clientTab' = [clientTab EXCEPT ![t] = [old EXCEPT !.form = form, !.edits = n]]
             \/ clientTab' = [clientTab EXCEPT ![t] = [old EXCEPT !.at = at, !.sent = sent, !.answer = code]]
             \/ clientTab' = [clientTab EXCEPT ![t] = [old EXCEPT !.existing = existing, !.at = at]]
             \/ clientTab' = [clientTab EXCEPT ![t] = [old EXCEPT !.at = at, !.answer = code]]
      PROVE  Quiet(t)
  <2>1. /\ [old EXCEPT !.form = form, !.edits = n].answer = old.answer
        /\ [old EXCEPT !.at = at, !.sent = sent, !.answer = code].answer = code
        /\ [old EXCEPT !.existing = existing, !.at = at].answer = old.answer
        /\ [old EXCEPT !.at = at, !.answer = code].answer = code
    BY <1>0 DEF ClientTabs
  <2> QED BY <1>1, <1>4, <2>1
<1>5. CASE C!Submit(t)
  <2> DEFINE sent == IF old.mode = "create" THEN C!Candidate(old.form) ELSE C!Changes(old.form, old.baseline)
             at == IF old.mode = "create" THEN "check" ELSE "find"
             p == [old EXCEPT !.at = at, !.sent = sent, !.answer = "none"]
  <2>1. clientTab' = [clientTab EXCEPT ![t] = p] /\ old.at = "form"
    BY <1>0, <1>5 DEF C!Submit
  <2>2. p.answer = "none"
    BY <1>0 DEF ClientTabs
  <2> HIDE DEF p
  <2> QED BY <1>1, <2>1, <2>2
<1>6. CASE C!Leave(t)
  BY <1>1, <1>6, ClosedIs DEF C!Leave
<1>7. CASE C!FindExisting(t)
  <2>1. CASE C!Refuse(t, "clients.archived")
    <3>1. /\ old.at = "find" /\ clientTab'[t].answer = "clients.archived"
          /\ \A u \in Tab : u # t => clientTab'[u] = clientTab[u]
      BY <1>7, <2>1, RefuseStep DEF C!FindExisting
    <3> QED BY <3>1 DEF Quiet
  <2>2. CASE ~C!Refuse(t, "clients.archived")
    <3> DEFINE c == old.id
               at == IF "taxId" \in old.sent /\ old.form.taxId # row[c].taxId THEN "check" ELSE "write"
    <3>1. old.at = "find" /\ clientTab' = [clientTab EXCEPT ![t] = [old EXCEPT !.existing = row[c], !.at = at]]
      BY <1>0, <1>7, <2>2 DEF C!FindExisting
    <3> HIDE DEF at
    <3> QED BY <1>4, <3>1
  <2> QED BY <2>1, <2>2
<1>8. ASSUME NEW k \in C!Kind, C!ChangeKind(t, k) PROVE Quiet(t)
  <2>1. old.at = "form" /\ clientTab' = [clientTab EXCEPT ![t] = [old EXCEPT
             !.form = [old.form EXCEPT !.kind = k, !.socialSecurityNo = None], !.edits = old.edits + 1]]
    BY <1>0, <1>8 DEF C!ChangeKind, C!Typing, ClientTabs, ClientRows
  <2> QED BY <1>4, <2>1
<1>9. ASSUME NEW f \in C!Field, NEW v \in TaxId \cup Text \cup {None}, C!Type(t, f, v) PROVE Quiet(t)
  BY <1>0, <1>4, <1>9 DEF C!Type, C!Typing
<1> QED BY <1>2, <1>3, <1>5, <1>6, <1>7, <1>8, <1>9 DEF QuietStep

\* What a tab may do to a client: write what its user changed, and nothing it did not send.
SaveSound(t) ==
  /\ \A f \in C!Field :
       clientTab[t].at = "write" /\ clientTab'[t].at = "saved" /\ clientTab[t].mode = "edit"
         /\ clientTab[t].form[f] = clientTab[t].baseline[f]
       => row'[clientTab[t].id][f] = row[clientTab[t].id][f]
  /\ clientTab'[t].answer = "clients.tax_id_taken" /\ clientTab[t].answer # "clients.tax_id_taken"
     => \/ C!HoldersOf(clientTab[t].form.taxId) \ {clientTab[t].id} # {}
        \/ row[clientTab[t].id].taxId # clientTab[t].existing.taxId

LEMMA WriteIsSound ==
  ASSUME RegisterInv, NEW t \in Tab, C!Write(t)
  PROVE  SaveSound(t) /\ \A u \in Tab : u # t => clientTab'[u] = clientTab[u]
<1> DEFINE old == clientTab[t]
<1>0. /\ ClientsTyped /\ old \in ClientTabs /\ old.at = "write" /\ SentInv(t) /\ FormInv(t)
      /\ old.sent \in SUBSET C!Field /\ old.existing \in ClientRows
  BY TabOf, WriteIs DEF RegisterInv
<1>1. CASE C!Refuse(t, "common.internal_error")
  <2>1. clientTab'[t].at = "form" /\ clientTab'[t].answer = "common.internal_error"
        /\ \A u \in Tab : u # t => clientTab'[u] = clientTab[u]
    BY <1>0, <1>1, RefuseStep
  <2> QED BY <2>1 DEF SaveSound
<1>2. ASSUME NEW c \in Client, IF old.mode = "create" THEN ~C!Exists(c) ELSE c = old.id,
             row' = [row EXCEPT ![c] = RowOf(t)], Moves(t, "saved", old.sent, old.existing, "ok")
      PROVE  SaveSound(t) /\ \A u \in Tab : u # t => clientTab'[u] = clientTab[u]
  <2>1. clientTab'[t].answer = "ok" /\ \A u \in Tab : u # t => clientTab'[u] = clientTab[u]
    <3>1. /\ "saved" \in Working /\ "ok" \in Answers /\ old.at # "closed"
          /\ old.sent \in SUBSET C!Field /\ old.existing \in ClientRows
      BY <1>0 DEF Working, Answers
    <3>2. Moves(t, "saved", old.sent, old.existing, "ok")
      BY <1>2
    <3> QED BY <3>1, <3>2, MoveStep
  <2>2. ASSUME NEW f \in C!Field, old.mode = "edit", old.form[f] = old.baseline[f]
        PROVE  row'[old.id][f] = row[old.id][f]
    <3>1. c = old.id /\ f \notin old.sent /\ Before(t) = row[c]
      BY <1>0, <1>2, <2>2 DEF SentInv, Before
    <3>2. RowOf(t)[f] = row[c][f]
      BY <1>0, <3>1, RowWritten
    <3>3. row'[c] = RowOf(t)
      BY <1>0, <1>2 DEF ClientsTyped
    <3> QED BY <3>1, <3>2, <3>3
  <2> QED BY <2>1, <2>2 DEF SaveSound
<1> QED BY <1>1, <1>2, WriteIs

LEMMA AssertIsSound ==
  ASSUME RegisterInv, NEW t \in Tab, C!AssertTaxIdFree(t)
  PROVE  SaveSound(t) /\ \A u \in Tab : u # t => clientTab'[u] = clientTab[u]
<1> DEFINE old == clientTab[t]
<1>0. /\ clientTab \in [Tab -> ClientTabs] /\ old \in ClientTabs /\ old.at = "check" /\ CheckInv(t) /\ FormInv(t)
      /\ old.mode \in {"create", "edit"}
  BY TabOf DEF RegisterInv, ClientsTyped, C!AssertTaxIdFree
<1>1. \A u \in Tab : u # t => clientTab'[u] = clientTab[u]
  BY <1>0 DEF C!AssertTaxIdFree, C!Refuse
<1>2. CASE C!HoldersOf(old.form.taxId) # {}
  <2>1. CASE old.mode = "create"
    <3>1. C!HoldersOf(old.form.taxId) \subseteq Client /\ old.id = None
      BY <1>0, <2>1 DEF C!HoldersOf, FormInv
    <3> QED BY <1>0, <1>1, <1>2, <3>1, ClientsAssumption DEF SaveSound
  <2>2. CASE old.mode = "edit"
    <3>1. old.form.taxId # old.existing.taxId
      BY <1>0, <2>2 DEF CheckInv
    <3>2. ASSUME C!HoldersOf(old.form.taxId) \ {old.id} = {} PROVE row[old.id].taxId # old.existing.taxId
      <4>1. old.id \in C!HoldersOf(old.form.taxId)
        BY <1>2, <3>2
      <4> QED BY <3>1, <4>1 DEF C!HoldersOf
    <3> QED BY <1>0, <1>1, <3>2 DEF SaveSound
  <2> QED BY <1>0, <2>1, <2>2
<1>3. CASE C!HoldersOf(old.form.taxId) = {}
  <2>1. clientTab' = [clientTab EXCEPT ![t] = [old EXCEPT !.at = "write"]]
    BY <1>0, <1>3 DEF C!AssertTaxIdFree
  <2>2. [old EXCEPT !.at = "write"].answer = old.answer
    BY <1>0 DEF ClientTabs
  <2>3. clientTab'[t].answer = old.answer
    BY <1>0, <2>1, <2>2
  <2> QED BY <1>0, <1>1, <2>3 DEF SaveSound
<1> QED BY <1>2, <1>3

LEMMA StepIsSound ==
  ASSUME RegisterInv, [C!ClientsNext]_(C!clientVars), NEW u \in Tab PROVE SaveSound(u)
<1>1. ASSUME clientTab'[u] = clientTab[u] PROVE SaveSound(u)
  BY <1>1 DEF SaveSound
<1>2. CASE UNCHANGED C!clientVars
  BY <1>1, <1>2 DEF C!clientVars
<1>3. ASSUME NEW c \in Client, C!Archive(c) \/ C!Restore(c) PROVE SaveSound(u)
  BY <1>1, <1>3 DEF C!Archive, C!Restore
<1>4. ASSUME NEW t \in Tab, C!Write(t) \/ C!AssertTaxIdFree(t) PROVE SaveSound(u)
  BY <1>1, <1>4, WriteIsSound, AssertIsSound
<1>5. ASSUME NEW t \in Tab, QuietStep(t) PROVE SaveSound(u)
  <2>1. Quiet(t)
    BY <1>5, QuietSteps
  <2> QED BY <1>1, <2>1 DEF SaveSound, Quiet
<1> QED BY <1>2, <1>3, <1>4, <1>5 DEF C!ClientsNext, QuietStep

\* Clients: the kind's fields stay its own, and no save seems to empty a field it leaves.
THEOREM FieldsStayTrue == C!ClientsSpec => []FieldsHold
<1>1. C!ClientsSpec => []RegisterInv
  BY RegisterInitially, RegisterStep, PTL DEF C!ClientsSpec
<1> QED BY <1>1, RegisterImplies, PTL

\* Clients: no save puts back what another tab replaced, or meets its own client's tax id.
THEOREM SavesAreSound == C!ClientsSpec => SavesOfClientsAreSound
<1>1. C!ClientsSpec => []RegisterInv
  BY RegisterInitially, RegisterStep, PTL DEF C!ClientsSpec
<1>2. RegisterInv /\ [C!ClientsNext]_(C!clientVars) =>
        [\A t \in Tab, f \in C!Field :
           clientTab[t].at = "write" /\ clientTab'[t].at = "saved" /\ clientTab[t].mode = "edit"
             /\ clientTab[t].form[f] = clientTab[t].baseline[f]
           => row'[clientTab[t].id][f] = row[clientTab[t].id][f]]_(C!clientVars)
  BY StepIsSound DEF SaveSound
<1>3. RegisterInv /\ [C!ClientsNext]_(C!clientVars) =>
        [\A t \in Tab :
           clientTab'[t].answer = "clients.tax_id_taken" /\ clientTab[t].answer # "clients.tax_id_taken"
           => \/ C!HoldersOf(clientTab[t].form.taxId) \ {clientTab[t].id} # {}
              \/ row[clientTab[t].id].taxId # clientTab[t].existing.taxId]_(C!clientVars)
  BY StepIsSound DEF SaveSound
<1> QED BY <1>1, <1>2, <1>3, PTL DEF C!ClientsSpec, SavesOfClientsAreSound, C!NoLostUpdate, C!NoConflictWithItself

-------------------------------------------------------------------------------
(***************************************************************************)
(* Fiscal profiles: what the catalogue makes of a profile without          *)
(* violations, and that every profile is one.                              *)
(***************************************************************************)

LEMMA SubjectIs ==
  ASSUME NEW k, NEW v \in P!Profile
  PROVE  /\ P!Subject(k, v)["kind"] = k /\ P!Subject(k, v)["hasOpenActivity"] = v.hasOpenActivity
         /\ P!Subject(k, v)["vatRegime"] = v.vatRegime
BY DEF P!Subject, P!Profile


\* The entries of the owed that the property looks at.
VatMonthly    == P!Entry("VAT_MONTHLY_RETURN", "MONTHLY", <<P!OpenActivity, P!Vat("MONTHLY")>>, P!DayAfter(20, 2))
VatQuarterly  == P!Entry("VAT_QUARTERLY_RETURN", "QUARTERLY", <<P!OpenActivity, P!Vat("QUARTERLY")>>, P!DayAfter(20, 2))
PaidMonthly   == P!Entry("VAT_PAYMENT_MONTHLY", "MONTHLY", <<P!OpenActivity, P!Vat("MONTHLY")>>, P!DayAfter(25, 2))
PaidQuarterly == P!Entry("VAT_PAYMENT_QUARTERLY", "QUARTERLY", <<P!OpenActivity, P!Vat("QUARTERLY")>>, P!DayAfter(25, 2))
Efatura       == P!Entry("EFATURA_INVOICE_REPORTING", "MONTHLY", <<P!OpenActivity>>, P!DayAfter(5, 1))
Model22       == P!Entry("MODEL_22_CIT_RETURN", "ANNUAL", <<P!IsCompany>>, P!FixedDate(5, 31, 1))
Model3        == P!Entry("MODEL_3_PIT_RETURN", "ANNUAL", <<P!IsIndividual>>, P!FixedDate(6, 30, 1))

\* No code has two entries.
LEMMA EntryOfCode ==
  /\ \A d \in P!FiscalCatalog : d.code = "VAT_MONTHLY_RETURN" <=> d = VatMonthly
  /\ \A d \in P!FiscalCatalog : d.code = "VAT_QUARTERLY_RETURN" <=> d = VatQuarterly
  /\ \A d \in P!FiscalCatalog : d.code = "VAT_PAYMENT_MONTHLY" <=> d = PaidMonthly
  /\ \A d \in P!FiscalCatalog : d.code = "VAT_PAYMENT_QUARTERLY" <=> d = PaidQuarterly
  /\ \A d \in P!FiscalCatalog : d.code = "EFATURA_INVOICE_REPORTING" <=> d = Efatura
  /\ \A d \in P!FiscalCatalog : d.code = "MODEL_22_CIT_RETURN" <=> d = Model22
  /\ \A d \in P!FiscalCatalog : d.code = "MODEL_3_PIT_RETURN" <=> d = Model3
  /\ {VatMonthly, VatQuarterly, PaidMonthly, PaidQuarterly, Efatura, Model22, Model3} \subseteq P!FiscalCatalog
<1>1. \A code, often, when, due : P!Entry(code, often, when, due).code = code
  BY DEF P!Entry
<1> QED BY <1>1 DEF P!FiscalCatalog, P!VatCatalog, P!CorporateCatalog, P!SocialSecurityCatalog, P!IndividualCatalog,
                    VatMonthly, VatQuarterly, PaidMonthly, PaidQuarterly, Efatura, Model22, Model3

\* An entry with one condition, or with two.
LEMMA AppliesIs ==
  ASSUME NEW s, NEW a, NEW x, NEW b, NEW y, NEW e
  PROVE  /\ e.when = << <<a, x>> >> => (P!AppliesTo(e, s) <=> s[a] = x)
         /\ e.when = << <<a, x>>, <<b, y>> >> => (P!AppliesTo(e, s) <=> s[a] = x /\ s[b] = y)
BY DEF P!AppliesTo

Yes == TRUE  \* a name that keeps a truth value among the other values of conditions

LEMMA CodesAre ==
  ASSUME NEW k, NEW v \in P!Profile
  PROVE  /\ "VAT_MONTHLY_RETURN" \in P!CodesOf(k, v) <=> v.hasOpenActivity /\ v.vatRegime = "MONTHLY"
         /\ "VAT_QUARTERLY_RETURN" \in P!CodesOf(k, v) <=> v.hasOpenActivity /\ v.vatRegime = "QUARTERLY"
         /\ "VAT_PAYMENT_MONTHLY" \in P!CodesOf(k, v) <=> v.hasOpenActivity /\ v.vatRegime = "MONTHLY"
         /\ "VAT_PAYMENT_QUARTERLY" \in P!CodesOf(k, v) <=> v.hasOpenActivity /\ v.vatRegime = "QUARTERLY"
         /\ "EFATURA_INVOICE_REPORTING" \in P!CodesOf(k, v) <=> v.hasOpenActivity
         /\ "MODEL_22_CIT_RETURN" \in P!CodesOf(k, v) <=> k = "COMPANY"
         /\ "MODEL_3_PIT_RETURN" \in P!CodesOf(k, v) <=> k = "INDIVIDUAL"
<1> DEFINE s == P!Subject(k, v)
<1>0. v.hasOpenActivity \in BOOLEAN
  BY DEF P!Profile
<1>1. s["kind"] = k /\ s["hasOpenActivity"] = v.hasOpenActivity /\ s["vatRegime"] = v.vatRegime
  BY SubjectIs
<1>2. \A code : code \in P!CodesOf(k, v) <=> \E d \in P!FiscalCatalog : d.code = code /\ P!AppliesTo(d, s)
  BY DEF P!CodesOf
<1> HIDE DEF s
<1>3. ASSUME NEW e \in P!FiscalCatalog, NEW code, \A d \in P!FiscalCatalog : d.code = code <=> d = e
      PROVE  code \in P!CodesOf(k, v) <=> P!AppliesTo(e, s)
  BY <1>2, <1>3
<1>4. /\ VatMonthly.when = << <<"hasOpenActivity", Yes>>, <<"vatRegime", "MONTHLY">> >>
      /\ VatQuarterly.when = << <<"hasOpenActivity", Yes>>, <<"vatRegime", "QUARTERLY">> >>
      /\ PaidMonthly.when = << <<"hasOpenActivity", Yes>>, <<"vatRegime", "MONTHLY">> >>
      /\ PaidQuarterly.when = << <<"hasOpenActivity", Yes>>, <<"vatRegime", "QUARTERLY">> >>
      /\ Efatura.when = << <<"hasOpenActivity", Yes>> >>
      /\ Model22.when = << <<"kind", "COMPANY">> >> /\ Model3.when = << <<"kind", "INDIVIDUAL">> >>
  BY DEF VatMonthly, VatQuarterly, PaidMonthly, PaidQuarterly, Efatura, Model22, Model3, P!Entry,
         P!OpenActivity, P!Vat, Yes, P!IsCompany, P!IsIndividual
<1>5. P!AppliesTo(VatMonthly, s) <=> s["hasOpenActivity"] = Yes /\ s["vatRegime"] = "MONTHLY"
  BY <1>4, AppliesIs
<1>6. P!AppliesTo(VatQuarterly, s) <=> s["hasOpenActivity"] = Yes /\ s["vatRegime"] = "QUARTERLY"
  BY <1>4, AppliesIs
<1>7. P!AppliesTo(PaidMonthly, s) <=> s["hasOpenActivity"] = Yes /\ s["vatRegime"] = "MONTHLY"
  BY <1>4, AppliesIs
<1>8. P!AppliesTo(PaidQuarterly, s) <=> s["hasOpenActivity"] = Yes /\ s["vatRegime"] = "QUARTERLY"
  BY <1>4, AppliesIs
<1>9. P!AppliesTo(Efatura, s) <=> s["hasOpenActivity"] = Yes
  BY <1>4, AppliesIs
<1>10. P!AppliesTo(Model22, s) <=> s["kind"] = "COMPANY"
  BY <1>4, AppliesIs
<1>11. P!AppliesTo(Model3, s) <=> s["kind"] = "INDIVIDUAL"
  BY <1>4, AppliesIs
<1>12.
      /\ "VAT_MONTHLY_RETURN" \in P!CodesOf(k, v) <=> P!AppliesTo(VatMonthly, s)
      /\ "VAT_QUARTERLY_RETURN" \in P!CodesOf(k, v) <=> P!AppliesTo(VatQuarterly, s)
      /\ "VAT_PAYMENT_MONTHLY" \in P!CodesOf(k, v) <=> P!AppliesTo(PaidMonthly, s)
      /\ "VAT_PAYMENT_QUARTERLY" \in P!CodesOf(k, v) <=> P!AppliesTo(PaidQuarterly, s)
      /\ "EFATURA_INVOICE_REPORTING" \in P!CodesOf(k, v) <=> P!AppliesTo(Efatura, s)
      /\ "MODEL_22_CIT_RETURN" \in P!CodesOf(k, v) <=> P!AppliesTo(Model22, s)
      /\ "MODEL_3_PIT_RETURN" \in P!CodesOf(k, v) <=> P!AppliesTo(Model3, s)
  BY <1>3, EntryOfCode
<1> QED BY <1>0, <1>1, <1>5, <1>6, <1>7, <1>8, <1>9, <1>10, <1>11, <1>12 DEF Yes

\* What a profile makes of the catalogue.
Coherent(k, v) ==
  LET owed == P!CodesOf(k, v)
  IN /\ ~({"VAT_MONTHLY_RETURN", "VAT_QUARTERLY_RETURN"} \subseteq owed)
     /\ "VAT_MONTHLY_RETURN" \in owed <=> "VAT_PAYMENT_MONTHLY" \in owed
     /\ "VAT_QUARTERLY_RETURN" \in owed <=> "VAT_PAYMENT_QUARTERLY" \in owed
     /\ v.vatRegime \in {"MONTHLY", "QUARTERLY"} => "EFATURA_INVOICE_REPORTING" \in owed
     /\ Cardinality(owed \cap {"MODEL_22_CIT_RETURN", "MODEL_3_PIT_RETURN"}) = 1
     /\ ("MODEL_22_CIT_RETURN" \in owed) <=> (v.incomeTax = "CIT")

LEMMA NoViolationIsCoherent ==
  ASSUME NEW k \in {"COMPANY", "INDIVIDUAL"}, NEW v \in P!Profile, P!Violations(k, v) = {}
  PROVE  Coherent(k, v)
<1> DEFINE owed == P!CodesOf(k, v)
<1>1. /\ v.vatRegime # "NOT_APPLICABLE" => v.hasOpenActivity
      /\ (v.incomeTax = "CIT") <=> (k = "COMPANY")
  BY DEF P!Violations, P!Profile
<1>2. \E c : owed \cap {"MODEL_22_CIT_RETURN", "MODEL_3_PIT_RETURN"} = {c}
  <2>1. "MODEL_22_CIT_RETURN" \in owed <=> "MODEL_3_PIT_RETURN" \notin owed
    BY CodesAre
  <2> HIDE DEF owed
  <2> QED BY <2>1
<1>3. Cardinality(owed \cap {"MODEL_22_CIT_RETURN", "MODEL_3_PIT_RETURN"}) = 1
  BY <1>2, FS_Singleton
<1> QED BY <1>1, <1>3, CodesAre DEF Coherent

(***************************************************************************)
(* A page of a client's profile, whatever the tabs and the clients are:    *)
(* MCOffice has two instances of FiscalProfiles over the same variables,   *)
(* which differ in their tabs, their clients and their bounds only.        *)
(***************************************************************************)
AnyProfile == P!Profile \cup {P!NoProfile}
PageOf(Clients) ==
  [at : {"away", "card", "form", "hidden", "check", "upsert", "audit"}, client : Clients \cup {"nobody"},
   query : {"pending", "answered", "failed"}, shown : AnyProfile, writesSeen : Nat, values : AnyProfile,
   new : BOOLEAN, edits : Nat, before : AnyProfile, after : AnyProfile]
WriteOf == [from : AnyProfile, to : AnyProfile]
EventOf(Clients) == [client : Clients, from : AnyProfile, to : P!Profile]

Consistent(c, v) == P!Violations(MCKindOf(c), v) = {}

\* The client has no profile, or got one after the page's last answer.
Unknown(p) == profile[p.client] = P!NoProfile \/ Len(log[p.client]) > p.writesSeen

\* The values of a form have no violations when it opens and when they are sent, and what it
\* took for missing was missing when the page last heard of it.
PageInv(p, Clients) ==
  /\ p \in PageOf(Clients)
  /\ p.at # "away" => p.client \in Clients /\ p.writesSeen <= Len(log[p.client])
  /\ p.at \notin {"away", "card"} => p.values \in P!Profile
  /\ p.at \in {"check", "upsert", "audit"} \/ (p.at = "form" /\ p.edits = 0) => Consistent(p.client, p.values)
  /\ p.at = "audit" => p.after \in P!Profile
  /\ p.shown # P!NoProfile => Consistent(p.client, p.shown)
  /\ p.at # "away" /\ p.query = "answered" /\ p.shown = P!NoProfile => Unknown(p)
  /\ p.new => p.at \notin {"away", "card"} /\ Unknown(p)

TablesTyped(Clients) ==
  /\ profile \in [Clients -> AnyProfile] /\ log \in [Clients -> Seq(WriteOf)] /\ audit \in Seq(EventOf(Clients))
  /\ \A c \in Clients : profile[c] # P!NoProfile => Consistent(c, profile[c])

ProfilesInv(Tabs, Clients) ==
  /\ TablesTyped(Clients)
  /\ DOMAIN formTab = Tabs /\ formTab = [t \in Tabs |-> formTab[t]]
  /\ \A t \in Tabs : PageInv(formTab[t], Clients)

\* The steps of either instance, without the bounds.
Visited(t, c) ==
  /\ formTab' = [formTab EXCEPT ![t] = [P!Away EXCEPT !.at = "card", !.client = c, !.writesSeen = Len(log[c])]]
  /\ UNCHANGED <<profile, audit, log>>
Edited(t, values) ==
  /\ formTab[t].at = "form"
  /\ formTab' = [formTab EXCEPT ![t].values = values, ![t].edits = @ + 1]
  /\ UNCHANGED <<profile, audit, log>>
Saved(t) ==
  /\ formTab[t].at = "form" /\ P!Violations(MCKindOf(formTab[t].client), formTab[t].values) = {}
  /\ formTab' = [formTab EXCEPT ![t].at = "check"]
  /\ UNCHANGED <<profile, audit, log>>

StepOf(t, Clients) ==
  \/ \E c \in Clients : Visited(t, c)
  \/ \E values \in P!Profile : Edited(t, values)
  \/ Saved(t) \/ P!Leave(t) \/ P!Fetch(t) \/ P!FetchFails(t) \/ P!OpenForm(t) \/ P!Cancel(t)
  \/ P!ReadBefore(t) \/ P!Upsert(t) \/ P!Record(t) \/ P!RecordFails(t)

LEMMA StepsOfOne == P!ProfilesNext => \E t \in OneTab : StepOf(t, Taxpayer)
BY DEF P!ProfilesNext, StepOf, P!Visit, P!Edit, P!Save, Visited, Edited, Saved

LEMMA StepsOfTwo == T!ProfilesNext => \E t \in Tab : StepOf(t, Shared)
<1>1. T!Profile = P!Profile /\ T!Away = P!Away /\ T!NoProfile = P!NoProfile
  BY DEF T!Profile, P!Profile, T!Away, P!Away, T!NoProfile, P!NoProfile, T!VatRegime, P!VatRegime, T!IncomeTax, P!IncomeTax
<1>2. \A k, v : T!Violations(k, v) = P!Violations(k, v)
  BY DEF T!Violations, P!Violations
<1>3. \A k : T!DefaultsFor(k) = P!DefaultsFor(k)
  BY DEF T!DefaultsFor, P!DefaultsFor
<1>4. \A p : T!Opened(p) = P!Opened(p)
  BY <1>1, <1>3 DEF T!Opened, P!Opened
<1>5. \A t : /\ T!Leave(t) = P!Leave(t) /\ T!Fetch(t) = P!Fetch(t) /\ T!FetchFails(t) = P!FetchFails(t)
             /\ T!OpenForm(t) = P!OpenForm(t) /\ T!Cancel(t) = P!Cancel(t) /\ T!RecordFails(t) = P!RecordFails(t)
  BY <1>1, <1>4 DEF T!Leave, P!Leave, T!Fetch, P!Fetch, T!FetchFails, P!FetchFails, T!OpenForm, P!OpenForm,
                    T!Cancel, P!Cancel, T!RecordFails, P!RecordFails
<1>6. \A t : /\ T!ReadBefore(t) = P!ReadBefore(t) /\ T!Upsert(t) = P!Upsert(t) /\ T!Record(t) = P!Record(t)
  BY <1>1, <1>2 DEF T!ReadBefore, P!ReadBefore, T!Upsert, P!Upsert, T!Record, P!Record
<1>7. \A t : /\ \A c : T!Visit(t, c) => Visited(t, c)
             /\ \A v : T!Edit(t, v) => Edited(t, v)
             /\ T!Save(t) => Saved(t)
  BY <1>1, <1>2 DEF T!Visit, T!Edit, T!Save, Visited, Edited, Saved
<1> QED BY <1>1, <1>5, <1>6, <1>7 DEF T!ProfilesNext, StepOf

LEMMA AwayIs ==
  ASSUME NEW Clients
  PROVE  /\ P!Away \in PageOf(Clients) /\ P!Away.at = "away" /\ P!Away.shown = P!NoProfile /\ ~P!Away.new
         /\ P!Away.edits = 0 /\ P!Away.query = "pending" /\ P!Away.client = "nobody"
BY DEF P!Away, PageOf, AnyProfile

LEMMA AwayHolds == ASSUME NEW Clients PROVE PageInv(P!Away, Clients)
BY AwayIs DEF PageInv

\* The defaults of each kind have no violations.
LEMMA DefaultsHold ==
  ASSUME NEW c PROVE P!DefaultsFor(MCKindOf(c)) \in P!Profile /\ Consistent(c, P!DefaultsFor(MCKindOf(c)))
<1>1. CASE c \in Firm
  BY <1>1 DEF MCKindOf, P!DefaultsFor, Consistent, P!Violations, P!Profile, P!VatRegime, P!IncomeTax
<1>2. CASE c \notin Firm
  BY <1>2 DEF MCKindOf, P!DefaultsFor, Consistent, P!Violations, P!Profile, P!VatRegime, P!IncomeTax
<1> QED BY <1>1, <1>2

LEMMA PagesInitially ==
  ASSUME NEW Tabs, NEW Clients, formTab = [t \in Tabs |-> P!Away],
         profile = [c \in Clients |-> P!NoProfile], log = [c \in Clients |-> <<>>], audit = <<>>
  PROVE  ProfilesInv(Tabs, Clients)
<1>1. P!NoProfile \in AnyProfile /\ <<>> \in Seq(WriteOf) /\ <<>> \in Seq(EventOf(Clients))
  BY DEF AnyProfile
<1>2. TablesTyped(Clients)
  BY <1>1 DEF TablesTyped
<1> QED BY <1>2, AwayHolds DEF ProfilesInv

\* A step that changes one page only.
LEMMA PageStep ==
  ASSUME NEW Tabs, NEW Clients, ProfilesInv(Tabs, Clients), NEW t \in Tabs, NEW p, PageInv(p, Clients),
         formTab' = [formTab EXCEPT ![t] = p], UNCHANGED <<profile, log>>, audit' \in Seq(EventOf(Clients))
  PROVE  ProfilesInv(Tabs, Clients)'
<1>1. TablesTyped(Clients)'
  BY DEF ProfilesInv, TablesTyped
<1>2. /\ DOMAIN formTab' = Tabs /\ formTab' = [u \in Tabs |-> formTab'[u]]
      /\ \A u \in Tabs : formTab'[u] = IF u = t THEN p ELSE formTab[u]
  BY DEF ProfilesInv
<1>3. ASSUME NEW q, PageInv(q, Clients) PROVE PageInv(q, Clients)'
  BY <1>3 DEF PageInv, Unknown
<1>4. \A u \in Tabs : PageInv(formTab[u], Clients)
  BY DEF ProfilesInv
<1>5. \A u \in Tabs : PageInv(formTab[u], Clients)'
  BY <1>2, <1>3, <1>4
<1> QED BY <1>1, <1>2, <1>5 DEF ProfilesInv

LEMMA OldPage ==
  ASSUME NEW Tabs, NEW Clients, ProfilesInv(Tabs, Clients), NEW t \in Tabs
  PROVE  /\ PageInv(formTab[t], Clients) /\ formTab[t] \in PageOf(Clients) /\ TablesTyped(Clients)
         /\ audit \in Seq(EventOf(Clients))
         /\ \A c \in Clients : /\ Len(log[c]) \in Nat /\ profile[c] \in AnyProfile
                               /\ profile[c] # P!NoProfile => Consistent(c, profile[c])
<1>1. \A c \in Clients : Len(log[c]) \in Nat
  BY LenProperties DEF ProfilesInv, TablesTyped
<1> QED BY <1>1 DEF ProfilesInv, PageInv, TablesTyped

LEMMA VisitHolds ==
  ASSUME NEW Tabs, NEW Clients, ProfilesInv(Tabs, Clients), NEW t \in Tabs, NEW c \in Clients, Visited(t, c)
  PROVE  ProfilesInv(Tabs, Clients)'
<1> DEFINE p == [P!Away EXCEPT !.at = "card", !.client = c, !.writesSeen = Len(log[c])]
<1>1. Len(log[c]) \in Nat /\ audit \in Seq(EventOf(Clients))
  BY OldPage
<1>2. /\ p \in PageOf(Clients) /\ p.at = "card" /\ p.client = c /\ p.writesSeen = Len(log[c]) /\ p.query = "pending"
      /\ p.shown = P!NoProfile /\ ~p.new
  BY <1>1, AwayIs DEF PageOf
<1> HIDE DEF p
<1>3. PageInv(p, Clients)
  BY <1>1, <1>2 DEF PageInv
<1>4. formTab' = [formTab EXCEPT ![t] = p] /\ UNCHANGED <<profile, audit, log>>
  BY DEF Visited, p
<1> QED BY <1>1, <1>3, <1>4, PageStep

LEMMA EditHolds ==
  ASSUME NEW Tabs, NEW Clients, ProfilesInv(Tabs, Clients), NEW t \in Tabs, NEW values \in P!Profile, Edited(t, values)
  PROVE  ProfilesInv(Tabs, Clients)'
<1> DEFINE old == formTab[t]
           n == old.edits + 1
           p == [old EXCEPT !.values = values, !.edits = n]
<1>1. PageInv(old, Clients) /\ old \in PageOf(Clients) /\ audit \in Seq(EventOf(Clients)) /\ old.at = "form"
  BY OldPage DEF Edited
<1>2. formTab' = [formTab EXCEPT ![t] = p] /\ UNCHANGED <<profile, audit, log>>
  BY DEF Edited, ProfilesInv
<1> HIDE DEF old
<1>3. /\ p \in PageOf(Clients) /\ p.at = "form" /\ p.client = old.client /\ p.writesSeen = old.writesSeen
      /\ p.query = old.query /\ p.shown = old.shown /\ p.new = old.new /\ p.values = values /\ p.edits # 0
  <2>1. n \in Nat /\ n # 0 /\ values \in AnyProfile
    BY <1>1 DEF PageOf, AnyProfile
  <2> HIDE DEF n
  <2> QED BY <1>1, <2>1 DEF PageOf
<1> HIDE DEF p
<1>4. PageInv(p, Clients)
  BY <1>1, <1>3 DEF PageInv, Unknown
<1> QED BY <1>1, <1>2, <1>4, PageStep

\* A page that only moves on.
LEMMA AtHolds ==
  ASSUME NEW Tabs, NEW Clients, ProfilesInv(Tabs, Clients), NEW t \in Tabs, NEW at \in {"form", "check"},
         formTab' = [formTab EXCEPT ![t].at = at], UNCHANGED <<profile, audit, log>>,
         formTab[t].at \in {"form", "audit"}, Consistent(formTab[t].client, formTab[t].values)
  PROVE  ProfilesInv(Tabs, Clients)'
<1> DEFINE old == formTab[t]
           p == [old EXCEPT !.at = at]
<1>1. PageInv(old, Clients) /\ old \in PageOf(Clients) /\ audit \in Seq(EventOf(Clients))
  BY OldPage
<1>2. formTab' = [formTab EXCEPT ![t] = p]
  BY DEF ProfilesInv
<1>3. old.at \in {"form", "audit"} /\ Consistent(old.client, old.values)
  OBVIOUS
<1> HIDE DEF old
<1>4. /\ p \in PageOf(Clients) /\ p.at = at /\ p.client = old.client /\ p.writesSeen = old.writesSeen
      /\ p.query = old.query /\ p.shown = old.shown /\ p.new = old.new /\ p.values = old.values
  BY <1>1 DEF PageOf
<1> HIDE DEF p
<1>5. PageInv(p, Clients)
  BY <1>1, <1>3, <1>4 DEF PageInv, Unknown
<1> QED BY <1>1, <1>2, <1>5, PageStep

LEMMA FailHolds ==
  ASSUME NEW Tabs, NEW Clients, ProfilesInv(Tabs, Clients), NEW t \in Tabs, P!FetchFails(t)
  PROVE  ProfilesInv(Tabs, Clients)'
<1> DEFINE old == formTab[t]
           at == IF old.at = "form" THEN "hidden" ELSE old.at
           p == [old EXCEPT !.query = "failed", !.at = at]
<1>1. /\ PageInv(old, Clients) /\ old \in PageOf(Clients) /\ audit \in Seq(EventOf(Clients))
      /\ old.at \in {"card", "form", "hidden"}
  BY OldPage DEF P!FetchFails
<1>2. formTab' = [formTab EXCEPT ![t] = p] /\ UNCHANGED <<profile, audit, log>>
  BY DEF P!FetchFails, ProfilesInv
<1>3. at \in {"card", "hidden"} /\ (at = "hidden" => old.at \in {"form", "hidden"}) /\ (at = "card" => old.at = "card")
  BY <1>1
<1> HIDE DEF old, at
<1>4. /\ p \in PageOf(Clients) /\ p.at = at /\ p.client = old.client /\ p.writesSeen = old.writesSeen
      /\ p.query = "failed" /\ p.shown = old.shown /\ p.new = old.new /\ p.values = old.values
  BY <1>1, <1>3 DEF PageOf
<1> HIDE DEF p
<1>5. PageInv(p, Clients)
  BY <1>1, <1>3, <1>4 DEF PageInv, Unknown
<1> QED BY <1>1, <1>2, <1>5, PageStep

\* The form of a page whose query answered opens without violations.
LEMMA OpenedHolds ==
  ASSUME NEW Clients, NEW p \in PageOf(Clients), p.client \in Clients, p.writesSeen <= Len(log[p.client]),
         p.shown # P!NoProfile => Consistent(p.client, p.shown),
         p.shown = P!NoProfile => Unknown(p)
  PROVE  PageInv(P!Opened(p), Clients)
<1> DEFINE values == IF p.shown = P!NoProfile THEN P!DefaultsFor(MCKindOf(p.client)) ELSE p.shown
           new == p.shown = P!NoProfile
           q == P!Opened(p)
<1>1. p.shown \in AnyProfile
  BY DEF PageOf
<1>2. values \in P!Profile /\ values \in AnyProfile /\ Consistent(p.client, values) /\ new \in BOOLEAN
  BY <1>1, DefaultsHold DEF AnyProfile
<1>3. q = [p EXCEPT !.at = "form", !.edits = 0, !.new = new, !.values = values]
  BY DEF P!Opened
<1> HIDE DEF values, new, q
<1>4. /\ q \in PageOf(Clients) /\ q.at = "form" /\ q.client = p.client /\ q.writesSeen = p.writesSeen
      /\ q.query = p.query /\ q.shown = p.shown /\ q.new = new /\ q.values = values
  BY <1>1, <1>2, <1>3 DEF PageOf
<1>5. PageInv(q, Clients)
  BY <1>2, <1>4 DEF PageInv, Unknown, new
<1> QED BY <1>5 DEF q

LEMMA OpenHolds ==
  ASSUME NEW Tabs, NEW Clients, ProfilesInv(Tabs, Clients), NEW t \in Tabs, P!OpenForm(t)
  PROVE  ProfilesInv(Tabs, Clients)'
<1>1. PageInv(formTab[t], Clients) /\ audit \in Seq(EventOf(Clients))
  BY OldPage
<1>2. PageInv(P!Opened(formTab[t]), Clients)
  BY <1>1, OpenedHolds DEF P!OpenForm, PageInv
<1>3. formTab' = [formTab EXCEPT ![t] = P!Opened(formTab[t])] /\ UNCHANGED <<profile, audit, log>>
  BY DEF P!OpenForm
<1> QED BY <1>1, <1>2, <1>3, PageStep

LEMMA FetchHolds ==
  ASSUME NEW Tabs, NEW Clients, ProfilesInv(Tabs, Clients), NEW t \in Tabs, P!Fetch(t)
  PROVE  ProfilesInv(Tabs, Clients)'
<1> DEFINE old == formTab[t]
           c == old.client
           seen0 == IF old.at = "form" THEN old.writesSeen ELSE Len(log[c])
           p == [old EXCEPT !.query = "answered", !.shown = profile[c], !.writesSeen = seen0]
<1>1. /\ PageInv(old, Clients) /\ old \in PageOf(Clients) /\ audit \in Seq(EventOf(Clients))
      /\ old.at \in {"card", "form", "hidden"} /\ old.writesSeen \in Nat
  BY OldPage DEF P!Fetch, PageOf
<1>2. c \in Clients /\ old.writesSeen <= Len(log[c])
  BY <1>1 DEF PageInv
<1>3. /\ profile[c] \in AnyProfile /\ Len(log[c]) \in Nat
      /\ profile[c] # P!NoProfile => Consistent(c, profile[c])
  BY <1>2, OldPage
<1>4. formTab' = [formTab EXCEPT ![t] = IF p.at = "hidden" THEN P!Opened(p) ELSE p] /\ UNCHANGED <<profile, audit, log>>
  BY DEF P!Fetch
<1>5. /\ seen0 \in Nat /\ seen0 <= Len(log[c])
  BY <1>1, <1>2, <1>3
<1>6. seen0 # old.writesSeen => old.at # "form"
  OBVIOUS
<1> HIDE DEF old, seen0
<1>7. /\ p \in PageOf(Clients) /\ p.at = old.at /\ p.client = c /\ p.writesSeen = seen0 /\ p.edits = old.edits
      /\ p.query = "answered" /\ p.shown = profile[c] /\ p.new = old.new /\ p.values = old.values
  BY <1>1, <1>3, <1>5 DEF PageOf
<1> HIDE DEF p
<1>8. p.at # "hidden" => PageInv(p, Clients)
  BY <1>1, <1>2, <1>3, <1>5, <1>6, <1>7 DEF PageInv, Unknown
<1>9. PageInv(P!Opened(p), Clients)
  BY <1>2, <1>3, <1>5, <1>7, OpenedHolds DEF Unknown
<1> QED BY <1>1, <1>4, <1>8, <1>9, PageStep

LEMMA LeaveHolds ==
  ASSUME NEW Tabs, NEW Clients, ProfilesInv(Tabs, Clients), NEW t \in Tabs, P!Leave(t)
  PROVE  ProfilesInv(Tabs, Clients)'
BY OldPage, AwayHolds, PageStep DEF P!Leave

LEMMA CancelHolds ==
  ASSUME NEW Tabs, NEW Clients, ProfilesInv(Tabs, Clients), NEW t \in Tabs, P!Cancel(t)
  PROVE  ProfilesInv(Tabs, Clients)'
<1> DEFINE old == formTab[t]
           none == P!NoProfile
           p == [old EXCEPT !.at = "card", !.values = none, !.edits = 0, !.new = FALSE, !.before = none, !.after = none]
<1>1. PageInv(old, Clients) /\ old \in PageOf(Clients) /\ audit \in Seq(EventOf(Clients)) /\ old.at \in {"form", "hidden"}
  BY OldPage DEF P!Cancel, PageOf
<1>2. formTab' = [formTab EXCEPT ![t] = p] /\ UNCHANGED <<profile, audit, log>>
  BY DEF P!Cancel, ProfilesInv
<1>3. none \in AnyProfile
  BY DEF AnyProfile
<1> HIDE DEF old, none
<1>4. /\ p \in PageOf(Clients) /\ p.at = "card" /\ p.client = old.client /\ p.writesSeen = old.writesSeen
      /\ p.query = old.query /\ p.shown = old.shown /\ ~p.new
  BY <1>1, <1>3 DEF PageOf
<1> HIDE DEF p
<1>5. PageInv(p, Clients)
  BY <1>1, <1>4 DEF PageInv, Unknown
<1> QED BY <1>1, <1>2, <1>5, PageStep

LEMMA SaveHolds ==
  ASSUME NEW Tabs, NEW Clients, ProfilesInv(Tabs, Clients), NEW t \in Tabs, Saved(t) \/ P!RecordFails(t)
  PROVE  ProfilesInv(Tabs, Clients)'
<1>1. CASE Saved(t)
  BY <1>1, AtHolds DEF Saved, Consistent
<1>2. CASE P!RecordFails(t)
  <2>1. Consistent(formTab[t].client, formTab[t].values)
    BY <1>2, OldPage DEF P!RecordFails, PageInv
  <2> QED BY <1>2, <2>1, AtHolds DEF P!RecordFails
<1> QED BY <1>1, <1>2

LEMMA ReadHolds ==
  ASSUME NEW Tabs, NEW Clients, ProfilesInv(Tabs, Clients), NEW t \in Tabs, P!ReadBefore(t)
  PROVE  ProfilesInv(Tabs, Clients)'
<1> DEFINE old == formTab[t]
           before == profile[old.client]
           p == [old EXCEPT !.at = "upsert", !.before = before]
<1>1. PageInv(old, Clients) /\ old \in PageOf(Clients) /\ audit \in Seq(EventOf(Clients)) /\ old.at = "check"
  BY OldPage DEF P!ReadBefore
<1>2. old.client \in Clients /\ Consistent(old.client, old.values)
  BY <1>1 DEF PageInv
<1>3. before \in AnyProfile
  BY <1>2, OldPage
<1>4. formTab' = [formTab EXCEPT ![t] = p] /\ UNCHANGED <<profile, audit, log>>
  BY <1>2 DEF P!ReadBefore, Consistent, ProfilesInv
<1> HIDE DEF old, before
<1>5. /\ p \in PageOf(Clients) /\ p.at = "upsert" /\ p.client = old.client /\ p.writesSeen = old.writesSeen
      /\ p.query = old.query /\ p.shown = old.shown /\ p.new = old.new /\ p.values = old.values
  BY <1>1, <1>3 DEF PageOf
<1> HIDE DEF p
<1>6. PageInv(p, Clients)
  BY <1>1, <1>2, <1>5 DEF PageInv, Unknown
<1> QED BY <1>1, <1>4, <1>6, PageStep

\* A write makes the log longer, and so no page that knew of a profile, or of none, is wrong now.
LEMMA UpsertHolds ==
  ASSUME NEW Tabs, NEW Clients, ProfilesInv(Tabs, Clients), NEW t \in Tabs, P!Upsert(t)
  PROVE  ProfilesInv(Tabs, Clients)'
<1> DEFINE old == formTab[t]
           c == old.client
           v == old.values
           p == [old EXCEPT !.at = "audit", !.after = v]
           w == [from |-> profile[c], to |-> v]
<1>1. /\ PageInv(old, Clients) /\ old \in PageOf(Clients) /\ audit \in Seq(EventOf(Clients)) /\ old.at = "upsert"
      /\ TablesTyped(Clients)
  BY OldPage DEF P!Upsert
<1>2. c \in Clients /\ v \in P!Profile /\ v \in AnyProfile /\ Consistent(c, v)
  BY <1>1 DEF PageInv, AnyProfile
<1>3. /\ formTab' = [formTab EXCEPT ![t] = p] /\ profile' = [profile EXCEPT ![c] = v]
      /\ log' = [log EXCEPT ![c] = Append(log[c], w)] /\ audit' = audit
  BY <1>1 DEF P!Upsert, ProfilesInv, TablesTyped
<1>4. log[c] \in Seq(WriteOf) /\ w \in WriteOf
  BY <1>1, <1>2 DEF TablesTyped, WriteOf
<1>5. Append(log[c], w) \in Seq(WriteOf) /\ Len(Append(log[c], w)) = Len(log[c]) + 1
  BY <1>4, AppendProperties
<1> HIDE DEF old, w
<1>6. TablesTyped(Clients)'
  BY <1>1, <1>2, <1>3, <1>5 DEF TablesTyped
<1>7. /\ \A d \in Clients : d # c => profile'[d] = profile[d] /\ log'[d] = log[d]
      /\ Len(log'[c]) = Len(log[c]) + 1
  BY <1>1, <1>2, <1>3, <1>5 DEF TablesTyped
<1>8. \A d \in Clients : Len(log[d]) \in Nat
  BY <1>1, LenProperties DEF TablesTyped
<1>9. ASSUME NEW q, PageInv(q, Clients) PROVE PageInv(q, Clients)'
  <2>1. q \in PageOf(Clients) /\ q.writesSeen \in Nat
    BY <1>9 DEF PageInv, PageOf
  <2>2. CASE q.at = "away"
    <3>1. ~q.new
      BY <1>9, <2>2 DEF PageInv
    <3> QED BY <1>9, <2>2, <3>1 DEF PageInv
  <2>3. CASE q.at # "away"
    <3>1. q.client \in Clients /\ q.writesSeen <= Len(log[q.client])
      BY <1>9, <2>3 DEF PageInv
    <3>2. Len(log'[q.client]) >= Len(log[q.client]) /\ (Unknown(q) => Unknown(q)')
      BY <1>7, <1>8, <2>1, <3>1 DEF Unknown
    <3>3. q.writesSeen <= Len(log'[q.client])
      <4>1. Len(log'[q.client]) \in Nat /\ Len(log[q.client]) \in Nat
        BY <1>7, <1>8, <3>1
      <4> QED BY <2>1, <3>1, <3>2, <4>1
    <3> QED BY <1>9, <2>1, <3>1, <3>2, <3>3 DEF PageInv
  <2> QED BY <2>2, <2>3
<1>10. /\ p \in PageOf(Clients) /\ p.at = "audit" /\ p.client = c /\ p.writesSeen = old.writesSeen
       /\ p.query = old.query /\ p.shown = old.shown /\ p.new = old.new /\ p.values = v /\ p.after = v
  BY <1>1, <1>2 DEF PageOf
<1> HIDE DEF p
<1>11. PageInv(p, Clients)
  BY <1>1, <1>2, <1>10 DEF PageInv, Unknown
<1>12. /\ DOMAIN formTab' = Tabs /\ formTab' = [u \in Tabs |-> formTab'[u]]
       /\ \A u \in Tabs : formTab'[u] = IF u = t THEN p ELSE formTab[u]
  BY <1>3 DEF ProfilesInv
<1>13. \A u \in Tabs : PageInv(formTab[u], Clients)
  BY DEF ProfilesInv
<1>14. \A u \in Tabs : PageInv(formTab[u], Clients)'
  BY <1>9, <1>11, <1>12, <1>13
<1> QED BY <1>6, <1>12, <1>14 DEF ProfilesInv

LEMMA RecordHolds ==
  ASSUME NEW Tabs, NEW Clients, ProfilesInv(Tabs, Clients), NEW t \in Tabs, P!Record(t)
  PROVE  ProfilesInv(Tabs, Clients)'
<1> DEFINE old == formTab[t]
           c == old.client
           e == [client |-> c, from |-> old.before, to |-> old.after]
           shown == profile[c]
           n == Len(log[c])
           p == [P!Away EXCEPT !.at = "card", !.client = c, !.query = "answered", !.shown = shown, !.writesSeen = n]
<1>1. PageInv(old, Clients) /\ old \in PageOf(Clients) /\ audit \in Seq(EventOf(Clients)) /\ old.at = "audit"
  BY OldPage DEF P!Record
<1>2. c \in Clients /\ old.after \in P!Profile /\ old.before \in AnyProfile
  BY <1>1 DEF PageInv, PageOf
<1>3. shown \in AnyProfile /\ n \in Nat /\ (shown # P!NoProfile => Consistent(c, shown))
  BY <1>2, OldPage
<1>4. formTab' = [formTab EXCEPT ![t] = p] /\ audit' = Append(audit, e) /\ UNCHANGED <<profile, log>>
  BY DEF P!Record
<1>5. e \in EventOf(Clients)
  BY <1>2 DEF EventOf
<1>6. audit' \in Seq(EventOf(Clients))
  BY <1>1, <1>4, <1>5, AppendProperties
<1> HIDE DEF shown, n
<1>7. /\ p \in PageOf(Clients) /\ p.at = "card" /\ p.client = c /\ p.writesSeen = n /\ p.query = "answered"
      /\ p.shown = shown /\ ~p.new
  BY <1>2, <1>3, AwayIs DEF PageOf
<1> HIDE DEF p
<1>8. PageInv(p, Clients)
  BY <1>2, <1>3, <1>7 DEF PageInv, Unknown, shown, n
<1> QED BY <1>4, <1>6, <1>8, PageStep

LEMMA StepHolds ==
  ASSUME NEW Tabs, NEW Clients, ProfilesInv(Tabs, Clients), NEW t \in Tabs, StepOf(t, Clients)
  PROVE  ProfilesInv(Tabs, Clients)'
BY VisitHolds, EditHolds, SaveHolds, LeaveHolds, FetchHolds, FailHolds, OpenHolds, CancelHolds, ReadHolds,
   UpsertHolds, RecordHolds DEF StepOf

LEMMA NothingHappens ==
  ASSUME NEW Tabs, NEW Clients, ProfilesInv(Tabs, Clients), UNCHANGED <<profile, audit, formTab, log>>
  PROVE  ProfilesInv(Tabs, Clients)'
BY DEF ProfilesInv, TablesTyped, PageInv, Unknown

LEMMA InvIsCoherent == ProfilesInv(OneTab, Taxpayer) => ProfilesAreCoherent
<1> SUFFICES ASSUME ProfilesInv(OneTab, Taxpayer) PROVE ProfilesAreCoherent
  OBVIOUS
<1>1. P!ProfilesTypeOK
  <2>1. profile \in [Taxpayer -> P!Profile \cup {P!NoProfile}]
    BY DEF ProfilesInv, TablesTyped, AnyProfile
  <2>2. \A i \in DOMAIN audit : audit[i] \in EventOf(Taxpayer)
    BY DEF ProfilesInv, TablesTyped
  <2>3. \A i \in DOMAIN audit : audit[i].client \in Taxpayer /\ audit[i].to \in P!Profile
    BY <2>2 DEF EventOf
  <2> QED BY <2>1, <2>3 DEF P!ProfilesTypeOK, ProfilesInv, PageInv
<1>2. P!FormAndServerAgree
  BY DEF P!FormAndServerAgree, ProfilesInv, PageInv, Consistent, PageOf
<1>3. ASSUME NEW c \in Taxpayer, profile[c] # P!NoProfile PROVE Coherent(MCKindOf(c), profile[c])
  <2>1. profile[c] \in P!Profile /\ Consistent(c, profile[c])
    BY <1>3 DEF ProfilesInv, TablesTyped, AnyProfile
  <2> QED BY <2>1, NoViolationIsCoherent DEF MCKindOf, Consistent
<1>4. P!ObligationsAreCoherent
  <2>1. \A owed : P!Cardinality(owed) = Cardinality(owed)
    BY DEF P!Cardinality, Cardinality
  <2> QED BY <1>3, <2>1 DEF P!ObligationsAreCoherent, Coherent
<1> QED BY <1>1, <1>2, <1>4 DEF ProfilesAreCoherent

\* Fiscal profiles: the form and the server accept the same values, and what a saved profile
\* makes of the catalogue does not contradict itself.
THEOREM ProfilesStayCoherent == P!ProfilesSpec => []ProfilesAreCoherent
<1>1. P!ProfilesInit => ProfilesInv(OneTab, Taxpayer)
  BY PagesInitially DEF P!ProfilesInit
<1>2. ProfilesInv(OneTab, Taxpayer) /\ [P!ProfilesNext]_(P!profileVars) => ProfilesInv(OneTab, Taxpayer)'
  BY StepsOfOne, StepHolds, NothingHappens DEF P!profileVars
<1> QED BY <1>1, <1>2, InvIsCoherent, PTL DEF P!ProfilesSpec

LEMMA DefaultsAreLast ==
  ASSUME ProfilesInv(Tab, Shared), NEW t \in Tab PROVE T!ReplacesNothingKnown(t)
<1>1. T!NoProfile = P!NoProfile
  BY DEF T!NoProfile, P!NoProfile
<1> QED BY <1>1 DEF T!ReplacesNothingKnown, ProfilesInv, PageInv, Unknown

\* Fiscal profiles, with two tabs: a form that opened with the defaults replaces no profile the
\* page could have known of, even after fetches that failed.
THEOREM DefaultsReplaceNothing == T!ProfilesSpec => DefaultsReplaceNothingKnown
<1>1. T!ProfilesInit => ProfilesInv(Tab, Shared)
  <2>1. T!Away = P!Away /\ T!NoProfile = P!NoProfile
    BY DEF T!Away, P!Away, T!NoProfile, P!NoProfile
  <2> QED BY <2>1, PagesInitially DEF T!ProfilesInit
<1>2. ProfilesInv(Tab, Shared) /\ [T!ProfilesNext]_(T!profileVars) => ProfilesInv(Tab, Shared)'
  BY StepsOfTwo, StepHolds, NothingHappens DEF T!profileVars
<1>3. ProfilesInv(Tab, Shared) => [part = "two tabs" => \A t \in Tab : T!ReplacesNothingKnown(t)]_allVars
  BY DefaultsAreLast
<1> QED BY <1>1, <1>2, <1>3, PTL DEF T!ProfilesSpec, DefaultsReplaceNothingKnown

(***************************************************************************)
(* The obligations made by hand, O of MCOffice.  HandmadeStays of          *)
(* ObligationsProofs says the same of any catalogue and clients, but what  *)
(* an instanced module proves cannot be cited.  Its argument is shorter    *)
(* here, for it takes no forward look: a generation deletes what it read   *)
(* of the catalogue's codes, no request passed the check of a code that    *)
(* was the catalogue's when it looked, and whose a definition is stays.    *)
(***************************************************************************)
IsRow(r) == r = [id |-> r.id, end |-> r.end, status |-> r.status, adHoc |-> r.adHoc, overtaken |-> r.overtaken]

IsGeneration(r) ==
  r = [pc |-> r.pc, asOf |-> r.asOf, scope |-> r.scope, dry |-> r.dry, codes |-> r.codes, todo |-> r.todo,
       client |-> r.client, applies |-> r.applies, toCreate |-> r.toCreate, toRetract |-> r.toRetract]

\* Whose definition a code has, once there is one.
Owned(x) == definition[x] \in {"CATALOG", "CUSTOM"}

HandmadeDefinitions ==
  /\ DOMAIN definition = O!Code
  /\ \A x \in O!Code : definition[x] = None \/ Owned(x)

\* A row made by hand stands under the accountant's definition, or one that came after the check.
OwnOrOvertaken(k) == instance[k].adHoc => definition[k.code] = "CUSTOM" \/ instance[k].overtaken

HandmadeTables == DOMAIN instance = O!Key /\ \A k \in O!Key : IsRow(instance[k]) /\ OwnOrOvertaken(k)

HandmadeGenerations ==
  /\ DOMAIN gen = Generation
  /\ \A g \in Generation : /\ IsGeneration(gen[g])
                           /\ \A x \in gen[g].toRetract : x[1].code \in Rule /\ x[2] # 0

\* A request that got past its check asks for a key, and its upsert leaves a definition.
Asks(r) ==
  /\ r = [pc |-> r.pc, key |-> r.key, end |-> r.end, mirrored |-> r.mirrored]
  /\ ~r.mirrored
  /\ r.pc # "idle" => r.key \in O!Key
  /\ r.pc = "insert" => Owned(r.key.code)

HandmadeEdits == DOMAIN edit = Editor /\ \A e \in Editor : Asks(edit[e])

\* What AdHocSurvives asks of a row that goes.
RightlyRemoved(k) ==
  instance[k].adHoc /\ O!Removed(k) => k.code \in Rule /\ (definition[k.code] = "CUSTOM" \/ instance[k].overtaken)

HandmadeInv == HandmadeDefinitions /\ HandmadeTables /\ HandmadeGenerations /\ HandmadeEdits

LEMMA HandmadeInitially == O!Init => HandmadeInv
<1> SUFFICES ASSUME O!Init PROVE HandmadeInv
  OBVIOUS
<1>1. HandmadeDefinitions
  BY DEF O!Init, HandmadeDefinitions
<1>2. HandmadeTables
  BY DEF O!Init, O!NoRow, IsRow, OwnOrOvertaken, HandmadeTables
<1>3. HandmadeGenerations
  BY DEF O!Init, O!NoGen, IsGeneration, HandmadeGenerations
<1>4. HandmadeEdits
  BY DEF O!Init, O!NoEdit, Asks, HandmadeEdits
<1> QED BY <1>1, <1>2, <1>3, <1>4 DEF HandmadeInv

LEMMA GenerationsHoldTheCatalog ==
  ASSUME HandmadeInv, NEW g \in Generation,
         \/ O!Cron(g) \/ O!GenerateRequest(g) \/ O!Progress(g) \/ O!LoseGeneration(g)
  PROVE  HandmadeGenerations'
<1>0. DOMAIN gen = Generation /\ IsGeneration(gen[g])
  BY DEF HandmadeInv, HandmadeGenerations
<1>1. ASSUME NEW r, gen' = [gen EXCEPT ![g] = r], IsGeneration(r),
             \A x \in r.toRetract : x[1].code \in Rule /\ x[2] # 0
      PROVE  HandmadeGenerations'
  BY <1>1 DEF HandmadeInv, HandmadeGenerations, IsGeneration
<1>2. ASSUME NEW asOf, NEW scope, NEW dry, O!StartGeneration(g, asOf, scope, dry) PROVE HandmadeGenerations'
  <2>1. PICK r : r = [O!NoGen EXCEPT !.pc = "sync", !.asOf = asOf, !.scope = scope,
                                     !.dry = dry, !.codes = Rule]
    OBVIOUS
  <2>2. gen' = [gen EXCEPT ![g] = r]
    BY <1>2, <2>1 DEF O!StartGeneration
  <2>3. IsGeneration(r) /\ r.toRetract = {}
    BY <2>1 DEF O!NoGen, IsGeneration
  <2> QED BY <1>1, <2>2, <2>3
<1>3. CASE O!SyncDefinition(g)
  <2>1. PICK x : gen' = [gen EXCEPT ![g].codes = @ \ {x}]
    BY <1>3 DEF O!SyncDefinition
  <2> QED BY <1>0, <2>1 DEF HandmadeInv, HandmadeGenerations, IsGeneration
<1>4. CASE O!ListClients(g)
  BY <1>0, <1>4 DEF O!ListClients, HandmadeInv, HandmadeGenerations, IsGeneration
<1>5. CASE O!ReadProfile(g)
  <2>1. PICK c \in gen[g].todo :
          gen' = IF codes[c] = None
                 THEN [gen EXCEPT ![g].todo = @ \ {c}]
                 ELSE [gen EXCEPT ![g].pc = "instances", ![g].todo = @ \ {c},
                                  ![g].client = c, ![g].applies = codes[c].codes]
    BY <1>5 DEF O!ReadProfile
  <2>2. /\ DOMAIN gen' = Generation /\ IsGeneration(gen'[g])
        /\ gen'[g].toRetract = gen[g].toRetract
        /\ \A h \in Generation : h # g => gen'[h] = gen[h]
    <3>1. CASE codes[c] = None
      BY <1>0, <2>1, <3>1 DEF IsGeneration
    <3>2. CASE codes[c] # None
      BY <1>0, <2>1, <3>2 DEF IsGeneration
    <3> QED BY <3>1, <3>2
  <2> QED BY <2>2 DEF HandmadeInv, HandmadeGenerations
<1>6. CASE O!ReadInstances(g)
  <2>1. PICK new, found :
          /\ new = O!Proposed(gen[g].client, gen[g].applies, gen[g].asOf)
          /\ found = {<<k, instance[k].id>> : k \in O!Retracted(gen[g].client, gen[g].applies, gen[g].asOf)}
    OBVIOUS
  <2>2. gen' = [gen EXCEPT ![g].pc = "clients", ![g].client = None, ![g].applies = {},
                           ![g].toCreate = @ \cup new, ![g].toRetract = @ \cup found]
    BY <1>6, <2>1 DEF O!ReadInstances
  <2>3. \A x \in found : x[1].code \in Rule /\ x[2] # 0
    <3>1. ASSUME NEW x \in found PROVE x[1].code \in Rule /\ x[2] # 0
      <4>1. PICK k \in O!Retracted(gen[g].client, gen[g].applies, gen[g].asOf) : x = <<k, instance[k].id>>
        BY <2>1
      <4>2. k.code \in Rule /\ instance[k].id # 0
        BY DEF O!Retracted, O!Exists
      <4> QED BY <4>1, <4>2
    <3> QED BY <3>1
  <2>4. /\ DOMAIN gen' = Generation /\ IsGeneration(gen'[g])
        /\ gen'[g].toRetract = gen[g].toRetract \cup found
        /\ \A h \in Generation : h # g => gen'[h] = gen[h]
    BY <1>0, <2>2 DEF IsGeneration
  <2> QED BY <2>3, <2>4 DEF HandmadeInv, HandmadeGenerations
<1>7. CASE O!EndGeneration(g) \/ O!LoseGeneration(g)
  <2>1. gen' = [gen EXCEPT ![g] = O!NoGen]
    BY <1>7 DEF O!EndGeneration, O!LoseGeneration
  <2>2. IsGeneration(O!NoGen) /\ O!NoGen.toRetract = {}
    BY DEF O!NoGen, IsGeneration
  <2> QED BY <1>1, <2>1, <2>2
<1> QED BY <1>2, <1>3, <1>4, <1>5, <1>6, <1>7 DEF O!Cron, O!GenerateRequest, O!Progress

\* Whatever happens to a definition, whose it is stays.
LEMMA DefinitionsStay ==
  ASSUME HandmadeInv, [O!Next]_(O!vars)
  PROVE  HandmadeDefinitions' /\ \A x \in O!Code : Owned(x) => definition'[x] = definition[x]
<1> DEFINE Stay == \A x \in O!Code : Owned(x) => definition'[x] = definition[x]
<1>0. HandmadeDefinitions /\ None \notin {"CATALOG", "CUSTOM"}
  BY ClientsAssumption DEF HandmadeInv
<1>1. ASSUME NEW y, NEW z \in {"CATALOG", "CUSTOM"}, definition' = [definition EXCEPT ![y] = IF @ = None THEN z ELSE @]
      PROVE  HandmadeDefinitions' /\ Stay
  <2>1. ASSUME NEW x \in O!Code
        PROVE  \/ definition'[x] = definition[x]
               \/ definition[x] = None /\ definition'[x] \in {"CATALOG", "CUSTOM"}
    BY <1>0, <1>1 DEF HandmadeDefinitions
  <2>2. DOMAIN definition' = O!Code
    BY <1>0, <1>1 DEF HandmadeDefinitions
  <2>3. HandmadeDefinitions'
    BY <1>0, <2>1, <2>2 DEF HandmadeDefinitions, Owned
  <2>4. Stay
    BY <1>0, <2>1 DEF Owned
  <2> QED BY <2>3, <2>4
<1>2. ASSUME NEW g \in Generation, O!SyncDefinition(g) PROVE HandmadeDefinitions' /\ Stay
  <2>1. PICK y : definition' = [definition EXCEPT ![y] = IF @ = None THEN "CATALOG" ELSE @]
    BY <1>2 DEF O!SyncDefinition
  <2> QED BY <1>1, <2>1
<1>3. ASSUME NEW e \in Editor, O!UpsertDefinition(e) PROVE HandmadeDefinitions' /\ Stay
  <2>1. PICK y : definition' = [definition EXCEPT ![y] = IF @ = None THEN "CUSTOM" ELSE @]
    BY <1>3 DEF O!UpsertDefinition
  <2> QED BY <1>1, <2>1
<1>4. CASE UNCHANGED definition
  BY <1>0, <1>4 DEF HandmadeDefinitions, Owned
<1>5. \/ UNCHANGED definition
      \/ \E g \in Generation : O!SyncDefinition(g)
      \/ \E e \in Editor : O!UpsertDefinition(e)
  BY DEF O!vars, O!Next, O!Cron, O!GenerateRequest, O!StartGeneration, O!Progress, O!ListClients, O!ReadProfile,
         O!ReadInstances, O!EndGeneration, O!LoseGeneration, O!Patch, O!CreateAdHoc, O!InsertAdHoc, O!LoseAdHoc,
         O!SaveProfile, O!Archive, O!Restore, O!Midnight
<1> QED BY <1>2, <1>3, <1>4, <1>5

LEMMA HandmadeIsKept ==
  ASSUME HandmadeInv, NEW g \in Generation, O!EndGeneration(g), NEW k \in O!Key
  PROVE  /\ IsRow(instance'[k])
         /\ instance'[k].adHoc => instance[k].adHoc /\ instance'[k].overtaken = instance[k].overtaken
         /\ O!Removed(k) => k.code \in Rule
<1>0. IsRow(instance[k])
  BY DEF HandmadeInv, HandmadeTables
<1>1. UNCHANGED instance \/ instance'[k] = O!Applied(g, k)
  BY DEF O!EndGeneration
<1>2. <<k, instance[k].id>> \in gen[g].toRetract => k.code \in Rule /\ instance[k].id # 0
  BY DEF HandmadeInv, HandmadeGenerations
<1>3. CASE UNCHANGED instance
  BY <1>0, <1>3 DEF O!Removed
<1>4. CASE instance'[k] = O!Applied(g, k)
  <2>1. CASE k \in gen[g].toCreate /\ ~O!Exists(k)
    <3>1. <<k, instance[k].id>> \notin gen[g].toRetract
      BY <1>2, <2>1 DEF O!Exists
    <3> QED BY <1>4, <2>1, <3>1 DEF O!Applied, O!Removed, IsRow
  <2>2. CASE ~(k \in gen[g].toCreate /\ ~O!Exists(k)) /\ <<k, instance[k].id>> \in gen[g].toRetract
    BY <1>0, <1>2, <1>4, <2>2 DEF O!Applied, O!NoRow, IsRow
  <2>3. CASE ~(k \in gen[g].toCreate /\ ~O!Exists(k)) /\ <<k, instance[k].id>> \notin gen[g].toRetract
    BY <1>0, <1>4, <2>3 DEF O!Applied, O!Removed
  <2> QED BY <2>1, <2>2, <2>3
<1> QED BY <1>1, <1>3, <1>4

\* The tables of instances: made by hand only by the INSERT, taken away only by a generation.
LEMMA RowsComeAndGo ==
  ASSUME HandmadeInv, [O!Next]_(O!vars), NEW k \in O!Key
  PROVE  /\ DOMAIN instance' = O!Key /\ IsRow(instance'[k])
         /\ O!Removed(k) => k.code \in Rule
         /\ instance'[k].adHoc =>
              \/ instance[k].adHoc /\ instance'[k].overtaken = instance[k].overtaken
              \/ \E e \in Editor : /\ edit[e].pc = "insert" /\ edit[e].key = k
                                   /\ instance'[k].overtaken <=> definition[k.code] = "CATALOG"
                                   /\ UNCHANGED definition
<1> DEFINE Same == instance'[k].adHoc => instance[k].adHoc /\ instance'[k].overtaken = instance[k].overtaken
           Goal == /\ DOMAIN instance' = O!Key /\ IsRow(instance'[k])
                   /\ O!Removed(k) => k.code \in Rule
<1>0. DOMAIN instance = O!Key /\ IsRow(instance[k])
  BY DEF HandmadeInv, HandmadeTables
<1>1. CASE UNCHANGED instance
  <2>1. Goal /\ Same
    BY <1>0, <1>1 DEF O!Removed
  <2> QED BY <2>1
<1>2. ASSUME NEW g \in Generation, O!EndGeneration(g) PROVE Goal /\ Same
  <2>1. DOMAIN instance' = O!Key
    BY <1>0, <1>2 DEF O!EndGeneration
  <2> QED BY <1>2, <2>1, HandmadeIsKept
<1>3. ASSUME NEW x, NEW s, O!Patch(x, s) PROVE Goal /\ Same
  BY <1>0, <1>3 DEF O!Patch, O!Removed, IsRow
<1>4. ASSUME NEW e \in Editor, O!InsertAdHoc(e), ~UNCHANGED instance
      PROVE  /\ Goal
             /\ \/ Same
                \/ /\ edit[e].pc = "insert" /\ edit[e].key = k
                   /\ instance'[k].overtaken <=> definition[k.code] = "CATALOG"
                   /\ UNCHANGED definition
  <2>0. PICK late : late = (~edit[e].mirrored /\ definition[edit[e].key.code] = "CATALOG")
    OBVIOUS
  <2>1. PICK r : r = [id |-> lastId[edit[e].key] + 1, end |-> edit[e].end, status |-> "PENDING", adHoc |-> TRUE,
                      overtaken |-> late]
    OBVIOUS
  <2>2. /\ instance' = [instance EXCEPT ![edit[e].key] = r]
        /\ ~O!Exists(edit[e].key) /\ edit[e].pc = "insert" /\ UNCHANGED definition
    BY <1>4, <2>0, <2>1 DEF O!InsertAdHoc
  <2>3. IsRow(r)
    BY <2>1 DEF IsRow
  <2>4. CASE edit[e].key = k
    <3>1. instance'[k] = r
      BY <1>0, <2>2, <2>4
    <3>2. instance'[k].overtaken <=> definition[k.code] = "CATALOG"
      <4>1. ~edit[e].mirrored
        BY DEF HandmadeInv, HandmadeEdits, Asks
      <4>2. instance'[k].overtaken = late
        BY <2>1, <3>1
      <4> QED BY <2>0, <2>4, <4>1, <4>2, Zenon
    <3>3. Goal
      BY <1>0, <2>2, <2>3, <2>4, <3>1 DEF O!Removed, O!Exists
    <3> QED BY <2>2, <2>4, <3>2, <3>3
  <2>5. CASE edit[e].key # k
    BY <1>0, <2>2, <2>5 DEF O!Removed
  <2> QED BY <2>4, <2>5
<1>5. \/ UNCHANGED instance
      \/ \E g \in Generation : O!EndGeneration(g)
      \/ \E x \in O!Key, s \in {"PENDING"} : O!Patch(x, s)
      \/ \E e \in Editor : O!InsertAdHoc(e)
  BY DEF O!vars, O!Next, O!Cron, O!GenerateRequest, O!StartGeneration, O!Progress, O!SyncDefinition, O!ListClients,
         O!ReadProfile, O!ReadInstances, O!LoseGeneration, O!CreateAdHoc, O!UpsertDefinition, O!LoseAdHoc,
         O!SaveProfile, O!Archive, O!Restore, O!Midnight
<1> QED BY <1>1, <1>2, <1>3, <1>4, <1>5

LEMMA RequestsComeAndGo ==
  ASSUME HandmadeInv, [O!Next]_(O!vars)
  PROVE  HandmadeEdits'
<1>0. HandmadeEdits /\ HandmadeDefinitions
  BY DEF HandmadeInv
<1>1. ASSUME NEW f \in Editor, edit'[f] = edit[f] PROVE Asks(edit[f])'
  <2>1. edit[f].pc = "insert" => edit[f].key.code \in O!Code
    BY <1>0 DEF HandmadeEdits, Asks, O!Key
  <2>2. edit[f].pc = "insert" => definition'[edit[f].key.code] = definition[edit[f].key.code]
    BY <1>0, <2>1, DefinitionsStay DEF HandmadeEdits, Asks
  <2> QED BY <1>0, <1>1, <2>2 DEF HandmadeEdits, Asks, Owned
<1>2. ASSUME NEW f \in Editor, edit'[f] = O!NoEdit PROVE Asks(edit[f])'
  BY <1>2 DEF O!NoEdit, Asks
<1>3. ASSUME NEW e \in Editor, O!CreateAdHoc(e) PROVE HandmadeEdits'
  <2>1. PICK k \in O!Key, end \in O!Day :
          /\ definition[k.code] # "CATALOG"
          /\ edit' = [edit EXCEPT ![e] = [pc |-> "upsert", key |-> k, end |-> end,
                                          mirrored |-> definition[k.code] = "CATALOG"]]
    BY <1>3 DEF O!CreateAdHoc, O!NotACatalogCode
  <2>2. DOMAIN edit' = Editor /\ edit'[e] = [pc |-> "upsert", key |-> k, end |-> end, mirrored |-> FALSE]
    BY <1>0, <2>1 DEF HandmadeEdits
  <2>3. Asks(edit[e])'
    BY <2>2 DEF Asks
  <2>4. \A f \in Editor : f # e => edit'[f] = edit[f]
    BY <1>0, <2>1 DEF HandmadeEdits
  <2> QED BY <1>1, <2>2, <2>3, <2>4 DEF HandmadeEdits
<1>4. ASSUME NEW e \in Editor, O!UpsertDefinition(e) PROVE HandmadeEdits'
  <2>1. /\ edit[e].pc = "upsert" /\ edit' = [edit EXCEPT ![e].pc = "insert"]
        /\ definition' = [definition EXCEPT ![edit[e].key.code] = IF @ = None THEN "CUSTOM" ELSE @]
    BY <1>4 DEF O!UpsertDefinition
  <2>2. /\ DOMAIN edit' = Editor
        /\ edit'[e] = [pc |-> "insert", key |-> edit[e].key, end |-> edit[e].end, mirrored |-> edit[e].mirrored]
        /\ edit[e].key \in O!Key /\ ~edit[e].mirrored
    BY <1>0, <2>1 DEF HandmadeEdits, Asks
  <2>3. edit[e].key.code \in O!Code
    BY <2>2 DEF O!Key
  <2>4. definition'[edit[e].key.code] \in {"CATALOG", "CUSTOM"}
    BY <1>0, <2>1, <2>3 DEF HandmadeDefinitions, Owned
  <2>5. Asks(edit[e])'
    BY <2>2, <2>4 DEF Asks, Owned
  <2>6. \A f \in Editor : f # e => edit'[f] = edit[f]
    BY <1>0, <2>1 DEF HandmadeEdits
  <2> QED BY <1>1, <2>2, <2>5, <2>6 DEF HandmadeEdits
<1>5. ASSUME NEW e \in Editor, O!InsertAdHoc(e) \/ O!LoseAdHoc(e) PROVE HandmadeEdits'
  <2>1. DOMAIN edit' = Editor /\ \A f \in Editor : edit'[f] = edit[f] \/ edit'[f] = O!NoEdit
    BY <1>0, <1>5 DEF O!InsertAdHoc, O!LoseAdHoc, HandmadeEdits
  <2> QED BY <1>1, <1>2, <2>1 DEF HandmadeEdits
<1>6. ASSUME UNCHANGED edit PROVE HandmadeEdits'
  BY <1>0, <1>1, <1>6 DEF HandmadeEdits
<1>7. \/ UNCHANGED edit
      \/ \E e \in Editor : O!CreateAdHoc(e) \/ O!UpsertDefinition(e) \/ O!InsertAdHoc(e) \/ O!LoseAdHoc(e)
  BY DEF O!vars, O!Next, O!Cron, O!GenerateRequest, O!StartGeneration, O!Progress, O!SyncDefinition, O!ListClients,
         O!ReadProfile, O!ReadInstances, O!EndGeneration, O!LoseGeneration, O!Patch, O!SaveProfile, O!Archive,
         O!Restore, O!Midnight
<1> QED BY <1>3, <1>4, <1>5, <1>6, <1>7

LEMMA HandmadeStep ==
  ASSUME HandmadeInv, [O!Next]_(O!vars)
  PROVE  HandmadeInv' /\ \A k \in O!Key : RightlyRemoved(k)
<1>1. HandmadeGenerations'
  <2>1. \/ UNCHANGED gen
        \/ \E g \in Generation : O!Cron(g) \/ O!GenerateRequest(g) \/ O!Progress(g) \/ O!LoseGeneration(g)
    BY DEF O!vars, O!Next, O!Patch, O!CreateAdHoc, O!UpsertDefinition, O!InsertAdHoc, O!LoseAdHoc, O!SaveProfile,
           O!Archive, O!Restore, O!Midnight
  <2>2. CASE UNCHANGED gen
    BY <2>2 DEF HandmadeInv, HandmadeGenerations
  <2> QED BY <2>1, <2>2, GenerationsHoldTheCatalog
<1>2. ASSUME NEW k \in O!Key PROVE OwnOrOvertaken(k)'
  <2> SUFFICES ASSUME instance'[k].adHoc PROVE definition'[k.code] = "CUSTOM" \/ instance'[k].overtaken
    BY DEF OwnOrOvertaken
  <2>0. k.code \in O!Code
    BY DEF O!Key
  <2>1. definition[k.code] = "CUSTOM" => definition'[k.code] = "CUSTOM"
    BY <2>0, DefinitionsStay DEF Owned
  <2>2. CASE instance[k].adHoc /\ instance'[k].overtaken = instance[k].overtaken
    BY <2>1, <2>2 DEF HandmadeInv, HandmadeTables, OwnOrOvertaken
  <2>3. ASSUME NEW e \in Editor, edit[e].pc = "insert", edit[e].key = k,
               instance'[k].overtaken <=> definition[k.code] = "CATALOG", UNCHANGED definition
        PROVE  definition'[k.code] = "CUSTOM" \/ instance'[k].overtaken
    <3>1. definition[k.code] \in {"CATALOG", "CUSTOM"}
      BY <2>3 DEF HandmadeInv, HandmadeEdits, Asks, Owned
    <3> QED BY <2>3, <3>1
  <2> QED BY <2>2, <2>3, RowsComeAndGo
<1>3. HandmadeTables'
  <2>1. DOMAIN instance' = O!Key
    BY DEF HandmadeInv, HandmadeTables, O!vars, O!Next, O!Cron, O!GenerateRequest, O!StartGeneration, O!Progress,
           O!SyncDefinition, O!ListClients, O!ReadProfile, O!ReadInstances, O!EndGeneration, O!LoseGeneration,
           O!Patch, O!CreateAdHoc, O!UpsertDefinition, O!InsertAdHoc, O!LoseAdHoc, O!SaveProfile, O!Archive,
           O!Restore, O!Midnight
  <2> QED BY <1>2, <2>1, RowsComeAndGo DEF HandmadeTables
<1>4. \A k \in O!Key : RightlyRemoved(k)
  BY RowsComeAndGo DEF HandmadeInv, HandmadeTables, OwnOrOvertaken, RightlyRemoved
<1> QED BY <1>1, <1>3, <1>4, DefinitionsStay, RequestsComeAndGo DEF HandmadeInv

\* Obligations: whatever generations run meanwhile, and from an empty table of definitions on, what
\* the accountant added by hand stays, but under a code of the catalogue whose definition is the
\* accountant's own or came between the check and the INSERT.
THEOREM AdHocStays == O!Spec => AdHocSurvives
<1>1. HandmadeInv /\ [O!Next]_(O!vars) => HandmadeInv'
  BY HandmadeStep
<1>2. HandmadeInv /\ [O!Next]_(O!vars) =>
        [\A k \in O!Key : instance[k].adHoc /\ O!Removed(k) =>
           /\ k.code \in Rule
           /\ definition[k.code] = "CUSTOM" \/ instance[k].overtaken]_(O!vars)
  BY HandmadeStep DEF RightlyRemoved
<1> QED BY <1>1, <1>2, HandmadeInitially, PTL DEF O!Spec, AdHocSurvives, O!AdHocSurvives

(***************************************************************************)
(* The parts together, as the run checks them.  A part that is not played  *)
(* stays where it started, so a behaviour of Spec is one of each part; the *)
(* two instances of FiscalProfiles share their tables, and part says which *)
(* of them is played.                                                      *)
(***************************************************************************)
LEMMA OfficeParts ==
  Init => /\ C!ClientsInit /\ EmploymentsInit /\ O!Init
          /\ part = "two tabs" => T!ProfilesInit
          /\ part # "two tabs" => P!ProfilesInit
BY DEF Init

LEMMA OfficeSteps ==
  [Next]_allVars =>
    /\ [C!ClientsNext]_(C!clientVars) /\ [EmploymentsNext]_employmentVars /\ [O!Next]_(O!vars)
    /\ part' = part
    /\ part = "two tabs" => [T!ProfilesNext]_(T!profileVars)
    /\ part # "two tabs" => [P!ProfilesNext]_(P!profileVars)
<1>1. UNCHANGED clientVars => UNCHANGED C!clientVars
  BY DEF clientVars, C!clientVars
<1>2. UNCHANGED obligationVars => UNCHANGED O!vars
  BY DEF obligationVars, O!vars
<1>3. UNCHANGED profileVars => UNCHANGED P!profileVars /\ UNCHANGED T!profileVars
  BY DEF profileVars, P!profileVars, T!profileVars
<1> QED BY <1>1, <1>2, <1>3 DEF Next, allVars

\* Everything the run "office" checks, for any tabs, clients, texts, days and numbers of edits.
THEOREM OfficeAllHolds ==
  Spec => /\ []FieldsHold /\ SavesOfClientsAreSound
          /\ []OneSpellADay /\ CheckAgreesWithConstraint
          /\ []ProfilesAreCoherent /\ DefaultsReplaceNothingKnown
          /\ AdHocSurvives
<1> DEFINE OnePlays == part # "two tabs" => ProfilesInv(OneTab, Taxpayer)
           TwoPlay == part = "two tabs" => ProfilesInv(Tab, Shared)
<1>1. Spec => C!ClientsSpec /\ EmploymentsSpec /\ O!Spec
  BY OfficeParts, OfficeSteps, PTL DEF Spec, C!ClientsSpec, EmploymentsSpec, O!Spec
<1>2. Init => OnePlays /\ TwoPlay
  <2>1. P!ProfilesInit => ProfilesInv(OneTab, Taxpayer)
    BY PagesInitially DEF P!ProfilesInit
  <2>2. T!ProfilesInit => ProfilesInv(Tab, Shared)
    <3>1. T!Away = P!Away /\ T!NoProfile = P!NoProfile
      BY DEF T!Away, P!Away, T!NoProfile, P!NoProfile
    <3> QED BY <3>1, PagesInitially DEF T!ProfilesInit
  <2> QED BY <2>1, <2>2, OfficeParts
<1>3. OnePlays /\ TwoPlay /\ [Next]_allVars => (OnePlays /\ TwoPlay)'
  <2>1. ProfilesInv(OneTab, Taxpayer) /\ [P!ProfilesNext]_(P!profileVars) => ProfilesInv(OneTab, Taxpayer)'
    BY StepsOfOne, StepHolds, NothingHappens DEF P!profileVars
  <2>2. ProfilesInv(Tab, Shared) /\ [T!ProfilesNext]_(T!profileVars) => ProfilesInv(Tab, Shared)'
    BY StepsOfTwo, StepHolds, NothingHappens DEF T!profileVars
  <2> QED BY <2>1, <2>2, OfficeSteps
<1>4. OnePlays => ProfilesAreCoherent
  BY InvIsCoherent DEF ProfilesAreCoherent
<1>5. TwoPlay => [part = "two tabs" => \A t \in Tab : T!ReplacesNothingKnown(t)]_allVars
  BY DefaultsAreLast
<1>6. Spec => []ProfilesAreCoherent /\ DefaultsReplaceNothingKnown
  BY <1>2, <1>3, <1>4, <1>5, PTL DEF Spec, DefaultsReplaceNothingKnown
<1> QED BY <1>1, <1>6, FieldsStayTrue, SavesAreSound, PairsHaveOneSpellADay, CheckAndConstraintAgree, AdHocStays

================================================================================
