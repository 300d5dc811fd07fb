--------------------------- MODULE ObligationsProofs ---------------------------
(***************************************************************************)
(* Of what was added by hand a generation takes away only what stands      *)
(* under a code of the catalogue that no generation had entered when the   *)
(* code was checked, and of all rows only what it found, as it found it:   *)
(* rows of its year that had not ended.  For any clients, catalogue,       *)
(* calendar, generations and editors.                                      *)
(***************************************************************************)
EXTENDS Obligations, TLAPS

USE CalendarAssumption, StatusAssumption, BoundsAssumption

\* The year of a day of the calendar ends on a day of the calendar.
LEMMA YearsEndInTheCalendar == ASSUME NEW d \in Day PROVE YearEnd(d) \in Day
<1> DEFINE q == (d - 1) \div YearLength
           r == (d - 1) % YearLength
<1>1. d \in Int /\ 1 <= d /\ d <= Years * YearLength /\ YearLength \in Nat \ {0} /\ Years \in Nat \ {0}
  BY DEF Day
<1>2. q \in Int /\ r \in Int /\ d - 1 = (YearLength * q) + r /\ 0 <= r /\ r < YearLength
  BY <1>1
<1>3. YearEnd(d) = (q * YearLength) + YearLength
  BY <1>1, <1>2 DEF YearEnd, YearStart
<1> HIDE DEF q, r
<1>4. q >= 0
  <2>1. SUFFICES ASSUME q <= -1 PROVE FALSE
    BY <1>2
  <2>2. YearLength * q <= -YearLength
    BY <1>1, <1>2, <2>1
  <2> QED BY <1>1, <1>2, <2>2
<1>5. q + 1 <= Years
  <2>1. SUFFICES ASSUME Years <= q PROVE FALSE
    BY <1>1, <1>2
  <2>2. YearLength * Years <= YearLength * q
    BY <1>1, <1>2, <2>1
  <2> QED BY <1>1, <1>2, <2>2
<1>6. (q + 1) * YearLength <= Years * YearLength
  BY <1>1, <1>2, <1>5
<1>7. (q + 1) * YearLength = (q * YearLength) + YearLength /\ q * YearLength >= 0
  BY <1>1, <1>2, <1>4
<1>8. q * YearLength \in Int /\ Years * YearLength \in Int
  BY <1>1, <1>2
<1> QED BY <1>1, <1>3, <1>6, <1>7, <1>8 DEF Day

Gen == [pc: {"idle", "sync", "clients", "instances"}, asOf: Day, scope: Client \cup {None}, dry: BOOLEAN,
        codes: SUBSET Catalog, todo: SUBSET Client, client: Client \cup {None}, applies: SUBSET Catalog,
        toCreate: SUBSET Key, toRetract: SUBSET (Key \X Nat)]
Row == [id: Nat, end: Day, status: Status, adHoc: BOOLEAN, overtaken: BOOLEAN]

\* The calendar has a first day; no row and no generation are values of their types.
LEMMA EmptyValues == 1 \in Day /\ NoRow \in Row /\ NoGen \in Gen
<1>1. 1 \in Day
  BY DEF Day
<1> QED BY <1>1 DEF NoRow, Row, NoGen, Gen

LEMMA TypeInit == Init => TypeOK
  BY EmptyValues DEF Init, TypeOK, NoEdit, Row, Gen

\* A generation in another state of its type, everything else as it was.
LEMMA TypeOfGen ==
  ASSUME TypeOK, NEW g \in Generation, NEW x \in Gen, gen' = [gen EXCEPT ![g] = x],
         UNCHANGED <<today, archived, profile, changes, instance, lastId, edit>>,
         definition' \in [Code -> {"CATALOG", "CUSTOM", None}]
  PROVE  TypeOK'
  BY DEF TypeOK, Gen

\* A generation: every statement leaves tables and generations of their types.
LEMMA TypeOfGeneration ==
  ASSUME TypeOK, NEW g \in Generation,
         Cron(g) \/ GenerateRequest(g) \/ Progress(g) \/ LoseGeneration(g)
  PROVE  TypeOK'
<1>0. /\ gen[g] \in Gen /\ gen \in [Generation -> Gen]
      /\ definition \in [Code -> {"CATALOG", "CUSTOM", None}]
  BY DEF Gen, TypeOK
<1>1. ASSUME NEW asOf \in Day, NEW scope \in Client \cup {None}, NEW dry \in BOOLEAN,
             StartGeneration(g, asOf, scope, dry)
      PROVE  TypeOK'
  <2>1. [NoGen EXCEPT !.pc = "sync", !.asOf = asOf, !.scope = scope, !.dry = dry, !.codes = Catalog] \in Gen
    BY DEF NoGen, Gen
  <2> QED BY <1>0, <1>1, <2>1, TypeOfGen DEF StartGeneration
<1>2. CASE SyncDefinition(g)
  <2>1. PICK c \in gen[g].codes :
          /\ definition' = [definition EXCEPT ![c] = IF @ = None THEN "CATALOG" ELSE @]
          /\ gen' = [gen EXCEPT ![g] = [gen[g] EXCEPT !.codes = gen[g].codes \ {c}]]
    BY <1>0, <1>2 DEF SyncDefinition
  <2>2. [gen[g] EXCEPT !.codes = gen[g].codes \ {c}] \in Gen
    BY <1>0 DEF Gen
  <2>3. definition' \in [Code -> {"CATALOG", "CUSTOM", None}]
    BY <1>0, <2>1
  <2> QED BY <1>2, <2>1, <2>2, <2>3, TypeOfGen DEF SyncDefinition
<1>3. CASE ListClients(g)
  <2> DEFINE todo == IF gen[g].scope = None THEN Client \ archived ELSE {gen[g].scope}
             x == [gen[g] EXCEPT !.pc = "clients", !.todo = todo]
  <2>1. todo \subseteq Client
    BY <1>0 DEF Gen
  <2>2. gen' = [gen EXCEPT ![g] = x]
    BY <1>0, <1>3 DEF ListClients
  <2> HIDE DEF todo
  <2>3. x \in Gen
    BY <1>0, <2>1 DEF Gen
  <2> HIDE DEF x
  <2> QED BY <1>0, <1>3, <2>2, <2>3, TypeOfGen DEF ListClients
<1>4. CASE ReadProfile(g)
  <2>1. PICK c \in gen[g].todo :
          gen' = [gen EXCEPT ![g] =
                    IF profile[c] = None THEN [gen[g] EXCEPT !.todo = gen[g].todo \ {c}]
                    ELSE [gen[g] EXCEPT !.pc = "instances", !.todo = gen[g].todo \ {c},
                                        !.client = c, !.applies = profile[c].codes]]
    BY <1>0, <1>4 DEF ReadProfile
  <2>2. c \in Client /\ (profile[c] # None => profile[c].codes \subseteq Catalog)
    BY <1>0 DEF Gen, TypeOK
  <2> DEFINE x == IF profile[c] = None THEN [gen[g] EXCEPT !.todo = gen[g].todo \ {c}]
                  ELSE [gen[g] EXCEPT !.pc = "instances", !.todo = gen[g].todo \ {c},
                                      !.client = c, !.applies = profile[c].codes]
  <2>3. x \in Gen
    BY <1>0, <2>2 DEF Gen
  <2>4. gen' = [gen EXCEPT ![g] = x]
    BY <2>1
  <2> HIDE DEF x
  <2> QED BY <1>0, <1>4, <2>3, <2>4, TypeOfGen DEF ReadProfile
<1>5. CASE ReadInstances(g)
  <2> DEFINE made == Proposed(gen[g].client, gen[g].applies, gen[g].asOf)
             found == {<<k, instance[k].id>> : k \in Retracted(gen[g].client, gen[g].applies, gen[g].asOf)}
             x == [gen[g] EXCEPT !.pc = "clients", !.client = None, !.applies = {},
                                 !.toCreate = gen[g].toCreate \cup made,
                                 !.toRetract = gen[g].toRetract \cup found]
  <2>1. made \subseteq Key
    BY DEF Proposed
  <2>2. found \subseteq Key \X Nat
    <3>1. Retracted(gen[g].client, gen[g].applies, gen[g].asOf) \subseteq Key
      BY DEF Retracted
    <3>2. \A k \in Key : instance[k].id \in Nat
      BY DEF TypeOK
    <3> QED BY <3>1, <3>2
  <2>3. gen' = [gen EXCEPT ![g] = x]
    BY <1>0, <1>5 DEF ReadInstances
  <2> HIDE DEF made, found
  <2>4. x \in Gen
    BY <1>0, <2>1, <2>2 DEF Gen
  <2> HIDE DEF x
  <2> QED BY <1>0, <1>5, <2>3, <2>4, TypeOfGen DEF ReadInstances
<1>6. CASE EndGeneration(g)
  <2>1. ASSUME NEW k \in Key PROVE Applied(g, k) \in Row
    <3>1. PeriodEnd(k.code, k.start) \in Day
      BY YearsEndInTheCalendar DEF PeriodEnd, Key
    <3>2. instance[k] \in Row /\ lastId[k] \in Nat
      BY DEF TypeOK, Row
    <3> QED BY <3>1, <3>2, EmptyValues DEF Applied, Row
  <2>2. gen' = [gen EXCEPT ![g] = NoGen] /\ UNCHANGED <<today, archived, profile, changes, definition, edit>>
    BY <1>6 DEF EndGeneration
  <2>3. instance' \in [Key -> Row] /\ lastId' \in [Key -> Nat]
    BY <1>6, <2>1 DEF EndGeneration, Row, TypeOK
  <2> QED BY <2>2, <2>3, <1>0, EmptyValues DEF Row, Gen, TypeOK
<1>7. CASE LoseGeneration(g)
  BY <1>7, <1>0, EmptyValues, TypeOfGen DEF LoseGeneration
<1>8. today \in Day
  BY DEF TypeOK
<1>9. CASE Cron(g)
  BY <1>1, <1>8, <1>9 DEF Cron
<1>10. CASE GenerateRequest(g)
  BY <1>1, <1>10 DEF GenerateRequest
<1> QED BY <1>2, <1>3, <1>4, <1>5, <1>6, <1>7, <1>9, <1>10 DEF Progress

\* Everything else that may happen.
LEMMA TypeOfEdits ==
  ASSUME TypeOK,
         \/ \E k \in Key, s \in Status : Patch(k, s)
         \/ \E e \in Editor : CreateAdHoc(e) \/ UpsertDefinition(e) \/ InsertAdHoc(e) \/ LoseAdHoc(e)
         \/ \E c \in Client : SaveProfile(c) \/ Archive(c) \/ Restore(c)
         \/ Midnight
  PROVE  TypeOK'
<1> USE EmptyValues DEF TypeOK
<1>1. ASSUME NEW k \in Key, NEW s \in Status, Patch(k, s) PROVE TypeOK'
  BY <1>1 DEF Patch
<1>2. ASSUME NEW e \in Editor, CreateAdHoc(e) PROVE TypeOK'
  BY <1>2 DEF CreateAdHoc
<1>3. ASSUME NEW e \in Editor, UpsertDefinition(e) PROVE TypeOK'
  BY <1>3 DEF UpsertDefinition
<1>4. ASSUME NEW e \in Editor, InsertAdHoc(e) PROVE TypeOK'
  <2>1. CASE UNCHANGED <<instance, lastId>>
    BY <1>4, <2>1 DEF InsertAdHoc, NoEdit
  <2>2. CASE ~UNCHANGED <<instance, lastId>>
    <3> DEFINE k == edit[e].key
               row == [id |-> lastId[k] + 1, end |-> edit[e].end, status |-> "PENDING", adHoc |-> TRUE,
                       overtaken |-> ~edit[e].mirrored /\ definition[k.code] = "CATALOG"]
    <3>1. instance' = [instance EXCEPT ![k] = row] /\ lastId' = [lastId EXCEPT ![k] = lastId[k] + 1]
      BY <1>4, <2>2 DEF InsertAdHoc
    <3>2. k \in Key => row \in Row /\ lastId[k] + 1 \in Nat
      BY DEF Row
    <3>3. lastId' \in [Key -> Nat] /\ instance' \in [Key -> Row]
      <4>1. instance \in [Key -> Row] /\ lastId \in [Key -> Nat]
        BY DEF Row
      <4> HIDE DEF row, k
      <4>2. lastId' \in [Key -> Nat]
        BY <3>1, <3>2, <4>1
      <4>3. instance' \in [Key -> Row]
        BY <3>1, <3>2, <4>1
      <4> QED BY <4>2, <4>3
    <3>4. edit' = [edit EXCEPT ![e] = NoEdit] /\ UNCHANGED <<today, archived, profile, changes, definition, gen>>
      BY <1>4 DEF InsertAdHoc
    <3> QED BY <3>3, <3>4 DEF NoEdit, Row
  <2> QED BY <2>1, <2>2
<1>5. ASSUME NEW e \in Editor, LoseAdHoc(e) PROVE TypeOK'
  BY <1>5 DEF LoseAdHoc, NoEdit
<1>6. ASSUME NEW c \in Client, SaveProfile(c) PROVE TypeOK'
  BY <1>6 DEF SaveProfile
<1>7. ASSUME NEW c \in Client, Archive(c) \/ Restore(c) PROVE TypeOK'
  BY <1>7 DEF Archive, Restore
<1>8. CASE Midnight
  BY <1>8 DEF Midnight
<1> QED BY <1>1, <1>2, <1>3, <1>4, <1>5, <1>6, <1>7, <1>8

LEMMA TypeStep == TypeOK /\ [Next]_vars => TypeOK'
<1> SUFFICES ASSUME TypeOK, [Next]_vars PROVE TypeOK'
  OBVIOUS
<1>1. CASE UNCHANGED vars
  BY <1>1 DEF TypeOK, vars
<1>2. CASE Next
  BY <1>2, TypeOfGeneration, TypeOfEdits DEF Next
<1> QED BY <1>1, <1>2

\* Tables, generations and requests keep their types, from a fresh installation on.
THEOREM ObligationsTypeCorrect == Spec => []TypeOK
<1>1. Init => TypeOK
  BY TypeInit DEF Init
<1> QED BY <1>1, TypeStep, PTL DEF Spec

-------------------------------------------------------------------------------
(* What a generation holds for retraction stays true of the row until the    *)
(* transaction: a row that is still there under its id ends when it did, and *)
(* a key whose row went is never given the same id again.                    *)

Held(g) ==
  \A p \in gen[g].toRetract :
    /\ p[1].code \in Catalog
    /\ p[1].start <= YearEnd(gen[g].asOf)
    /\ p[2] # 0 /\ p[2] <= lastId[p[1]]
    /\ instance[p[1]].id = p[2] => instance[p[1]].end >= gen[g].asOf

RetractInv ==
  /\ TypeOK
  /\ \A k \in Key : instance[k].id <= lastId[k]
  /\ \A g \in Generation : Held(g)

\* A step that changes no row and adds nothing to hold keeps what is held true.
LEMMA HeldUnchanged ==
  ASSUME RetractInv, UNCHANGED <<instance, lastId>>, NEW g \in Generation,
         gen'[g].toRetract = {} \/ (gen'[g].toRetract = gen[g].toRetract /\ gen'[g].asOf = gen[g].asOf)
  PROVE  Held(g)'
  BY DEF RetractInv, Held

\* A row that is still there under an id it had before is as it was, or differs in its status.
LEMMA HeldOfOlderRows ==
  ASSUME RetractInv, TypeOK', NEW g \in Generation,
         gen'[g].toRetract = {} \/ (gen'[g].toRetract = gen[g].toRetract /\ gen'[g].asOf = gen[g].asOf),
         \A k \in Key : /\ lastId[k] <= lastId'[k]
                        /\ \/ instance'[k].id = instance[k].id /\ instance'[k].end = instance[k].end
                           \/ instance'[k].id > lastId[k]
                           \/ instance'[k] = NoRow
  PROVE  Held(g)'
<1>1. CASE gen'[g].toRetract = {}
  BY <1>1 DEF Held
<1>2. CASE gen'[g].toRetract = gen[g].toRetract /\ gen'[g].asOf = gen[g].asOf
  <2> SUFFICES ASSUME NEW p \in gen[g].toRetract
               PROVE  /\ p[2] # 0 /\ p[2] <= lastId'[p[1]]
                      /\ instance'[p[1]].id = p[2] => instance'[p[1]].end >= gen[g].asOf
    BY <1>2 DEF RetractInv, Held
  <2>1. /\ p[1] \in Key /\ p[2] \in Nat /\ p[2] # 0
        /\ lastId[p[1]] \in Nat /\ lastId'[p[1]] \in Nat /\ p[2] <= lastId[p[1]]
        /\ instance[p[1]].id = p[2] => instance[p[1]].end >= gen[g].asOf
    BY DEF RetractInv, Held, TypeOK
  <2> QED BY <2>1 DEF NoRow
<1> QED BY <1>1, <1>2

\* What the findMany of a generation finds is held from then on.
LEMMA HeldWhenRead ==
  ASSUME RetractInv, TypeOK', NEW g \in Generation, ReadInstances(g)
  PROVE  RetractInv'
<1> DEFINE found == {<<k, instance[k].id>> : k \in Retracted(gen[g].client, gen[g].applies, gen[g].asOf)}
<1>1. /\ \A h \in Generation \ {g} : gen'[h] = gen[h]
      /\ gen'[g].asOf = gen[g].asOf /\ gen'[g].toRetract = gen[g].toRetract \cup found
      /\ UNCHANGED <<instance, lastId>>
  <2>1. gen[g] \in Gen /\ gen \in [Generation -> Gen]
    BY DEF RetractInv, TypeOK, Gen
  <2>2. /\ gen' = [gen EXCEPT ![g] =
              [gen[g] EXCEPT !.pc = "clients", !.client = None, !.applies = {},
                             !.toCreate = gen[g].toCreate \cup Proposed(gen[g].client, gen[g].applies, gen[g].asOf),
                             !.toRetract = gen[g].toRetract \cup found]]
        /\ UNCHANGED <<instance, lastId>>
    BY <2>1 DEF ReadInstances
  <2> HIDE DEF found
  <2> QED BY <2>1, <2>2 DEF Gen
<1>2. ASSUME NEW p \in found
      PROVE  /\ p[1].code \in Catalog /\ p[1].start <= YearEnd(gen[g].asOf)
             /\ p[2] # 0 /\ p[2] <= lastId[p[1]]
             /\ instance[p[1]].end >= gen[g].asOf
  <2>1. PICK k \in Retracted(gen[g].client, gen[g].applies, gen[g].asOf) : p = <<k, instance[k].id>>
    OBVIOUS
  <2>2. k \in Key /\ instance[k].id <= lastId[k] /\ instance[k].id # 0
    BY DEF Retracted, Exists, RetractInv
  <2> QED BY <2>1, <2>2 DEF Retracted
<1> HIDE DEF found
<1>3. Held(g)'
  BY <1>1, <1>2 DEF Held, RetractInv
<1>4. ASSUME NEW h \in Generation \ {g} PROVE Held(h)'
  BY <1>1, HeldUnchanged
<1> QED BY <1>1, <1>3, <1>4 DEF RetractInv

\* The transaction creates rows under new ids, and deletes.
LEMMA HeldWhenApplied ==
  ASSUME RetractInv, TypeOK', NEW g \in Generation, EndGeneration(g)
  PROVE  RetractInv'
<1>1. \A h \in Generation : gen'[h] = gen[h] \/ gen'[h].toRetract = {}
  BY DEF EndGeneration, NoGen, RetractInv, TypeOK
<1>2. ASSUME NEW k \in Key
      PROVE  /\ lastId[k] <= lastId'[k] /\ instance'[k].id <= lastId'[k]
             /\ \/ instance'[k].id = instance[k].id /\ instance'[k].end = instance[k].end
                \/ instance'[k].id > lastId[k]
                \/ instance'[k] = NoRow
  <2>1. lastId[k] \in Nat /\ instance[k].id <= lastId[k]
    BY DEF RetractInv, TypeOK
  <2>2. CASE UNCHANGED <<instance, lastId>>
    BY <2>1, <2>2
  <2>3. CASE /\ instance'[k] = Applied(g, k)
             /\ lastId'[k] = IF k \in gen[g].toCreate /\ ~Exists(k) THEN lastId[k] + 1 ELSE lastId[k]
    <3>1. CASE k \in gen[g].toCreate /\ ~Exists(k)
      <4>1. <<k, instance[k].id>> \notin gen[g].toRetract
        BY <3>1 DEF Exists, Held, RetractInv
      <4> QED BY <2>1, <2>3, <3>1, <4>1 DEF Applied
    <3>2. CASE ~(k \in gen[g].toCreate /\ ~Exists(k)) /\ <<k, instance[k].id>> \in gen[g].toRetract
      BY <2>1, <2>3, <3>2 DEF Applied, NoRow
    <3>3. CASE ~(k \in gen[g].toCreate /\ ~Exists(k)) /\ <<k, instance[k].id>> \notin gen[g].toRetract
      BY <2>1, <2>3, <3>3 DEF Applied
    <3> QED BY <3>1, <3>2, <3>3
  <2> QED BY <2>2, <2>3 DEF EndGeneration
<1>3. ASSUME NEW h \in Generation PROVE Held(h)'
  BY <1>1, <1>2, HeldOfOlderRows
<1> QED BY <1>2, <1>3 DEF RetractInv

\* The accountant's statements touch no row a generation holds but its status, or create one.
LEMMA HeldWhenEdited ==
  ASSUME RetractInv, TypeOK', UNCHANGED gen,
         \/ \E k \in Key, s \in Status : Patch(k, s)
         \/ \E e \in Editor : InsertAdHoc(e)
  PROVE  RetractInv'
<1>1. ASSUME NEW k \in Key
      PROVE  /\ lastId[k] <= lastId'[k] /\ instance'[k].id <= lastId'[k]
             /\ \/ instance'[k].id = instance[k].id /\ instance'[k].end = instance[k].end
                \/ instance'[k].id > lastId[k]
                \/ instance'[k] = NoRow
  <2>1. lastId[k] \in Nat /\ instance[k].id <= lastId[k] /\ k \in DOMAIN instance /\ k \in DOMAIN lastId
    BY DEF RetractInv, TypeOK
  <2>2. ASSUME NEW x \in Key, NEW s \in Status, Patch(x, s)
        PROVE  lastId'[k] = lastId[k] /\ instance'[k].id = instance[k].id /\ instance'[k].end = instance[k].end
    <3>1. instance[k] \in [id: Nat, end: Day, status: Status, adHoc: BOOLEAN, overtaken: BOOLEAN]
      BY DEF RetractInv, TypeOK
    <3> QED BY <2>1, <2>2, <3>1 DEF Patch
  <2>3. ASSUME NEW e \in Editor, InsertAdHoc(e)
        PROVE  \/ UNCHANGED <<instance[k], lastId[k]>>
               \/ lastId'[k] = lastId[k] + 1 /\ instance'[k].id = lastId[k] + 1
    BY <2>1, <2>3 DEF InsertAdHoc
  <2> QED BY <2>1, <2>2, <2>3
<1>2. ASSUME NEW h \in Generation PROVE Held(h)'
  BY <1>1, HeldOfOlderRows
<1> QED BY <1>1, <1>2 DEF RetractInv

LEMMA RetractStep == RetractInv /\ [Next]_vars => RetractInv'
<1> SUFFICES ASSUME RetractInv, [Next]_vars PROVE RetractInv'
  OBVIOUS
<1>0. TypeOK /\ TypeOK'
  BY TypeStep DEF RetractInv
<1>1. ASSUME UNCHANGED <<instance, lastId>>,
             \A h \in Generation : \/ gen'[h].toRetract = {}
                                   \/ gen'[h].toRetract = gen[h].toRetract /\ gen'[h].asOf = gen[h].asOf
      PROVE  RetractInv'
  BY <1>0, <1>1, HeldUnchanged DEF RetractInv
<1>2. CASE UNCHANGED vars
  BY <1>1, <1>2 DEF vars
<1>3. ASSUME NEW g \in Generation, NEW asOf \in Day, NEW scope \in Client \cup {None}, NEW dry \in BOOLEAN,
             StartGeneration(g, asOf, scope, dry)
      PROVE  RetractInv'
  BY <1>0, <1>1, <1>3 DEF StartGeneration, NoGen, TypeOK
<1>4. ASSUME NEW g \in Generation, SyncDefinition(g) PROVE RetractInv'
  BY <1>0, <1>1, <1>4 DEF SyncDefinition, TypeOK
<1>5. ASSUME NEW g \in Generation, ListClients(g) PROVE RetractInv'
  BY <1>0, <1>1, <1>5 DEF ListClients, TypeOK
<1>6. ASSUME NEW g \in Generation, ReadProfile(g) PROVE RetractInv'
  BY <1>0, <1>1, <1>6 DEF ReadProfile, TypeOK
<1>7. ASSUME NEW g \in Generation, LoseGeneration(g) PROVE RetractInv'
  BY <1>0, <1>1, <1>7 DEF LoseGeneration, NoGen, TypeOK
<1>8. ASSUME NEW e \in Editor, CreateAdHoc(e) \/ UpsertDefinition(e) \/ LoseAdHoc(e) PROVE RetractInv'
  BY <1>1, <1>8 DEF CreateAdHoc, UpsertDefinition, LoseAdHoc
<1>9. ASSUME NEW c \in Client, SaveProfile(c) \/ Archive(c) \/ Restore(c) PROVE RetractInv'
  BY <1>1, <1>9 DEF SaveProfile, Archive, Restore
<1>10. CASE Midnight
  BY <1>1, <1>10 DEF Midnight
<1>11. ASSUME NEW k \in Key, NEW s \in Status, Patch(k, s) PROVE RetractInv'
  BY <1>0, <1>11, HeldWhenEdited DEF Patch
<1>12. ASSUME NEW e \in Editor, InsertAdHoc(e) PROVE RetractInv'
  BY <1>0, <1>12, HeldWhenEdited DEF InsertAdHoc
<1>13. today \in Day
  BY <1>0 DEF TypeOK
<1> QED BY <1>0, <1>2, <1>3, <1>4, <1>5, <1>6, <1>7, <1>8, <1>9, <1>10, <1>11, <1>12, <1>13,
           HeldWhenRead, HeldWhenApplied
        DEF Next, Cron, GenerateRequest, Progress

LEMMA RetractInitially ==
  ASSUME Init PROVE RetractInv
<1>1. TypeOK
  BY TypeInit
<1>2. \A g \in Generation : Held(g)
  BY DEF Init, NoGen, Held
<1> QED BY <1>1, <1>2 DEF Init, NoRow, RetractInv

LEMMA RetractsOnlyWhatItHolds ==
  ASSUME RetractInv, [Next]_vars, NEW k \in Key, Removed(k)
  PROVE  \E g \in Generation : /\ gen[g].pc = "clients" /\ ~gen[g].dry
                               /\ k.code \in Catalog
                               /\ instance[k].end >= gen[g].asOf
                               /\ k.start <= YearEnd(gen[g].asOf)
<1>0. instance[k].id # 0 /\ instance'[k].id # instance[k].id
  BY DEF Removed, Exists
<1>1. ASSUME NEW g \in Generation, EndGeneration(g)
      PROVE  /\ gen[g].pc = "clients" /\ ~gen[g].dry
             /\ <<k, instance[k].id>> \in gen[g].toRetract
  <2>1. ~UNCHANGED <<instance, lastId>>
    BY <1>0
  <2>2. gen[g].pc = "clients" /\ ~gen[g].dry /\ instance'[k] = Applied(g, k)
    BY <1>1, <2>1 DEF EndGeneration
  <2>3. ~(k \in gen[g].toCreate /\ ~Exists(k))
    BY <1>0 DEF Exists
  <2>4. CASE <<k, instance[k].id>> \notin gen[g].toRetract
    BY <1>0, <2>2, <2>3, <2>4 DEF Applied
  <2> QED BY <2>2, <2>4
<1>2. ASSUME NEW g \in Generation, <<k, instance[k].id>> \in gen[g].toRetract
      PROVE  /\ k.code \in Catalog /\ instance[k].end >= gen[g].asOf /\ k.start <= YearEnd(gen[g].asOf)
  BY <1>2 DEF RetractInv, Held
<1>3. ASSUME NEW x \in Key, NEW s \in Status, Patch(x, s) PROVE FALSE
  <2>1. instance[k] \in [id: Nat, end: Day, status: Status, adHoc: BOOLEAN, overtaken: BOOLEAN] /\ k \in DOMAIN instance
    BY DEF RetractInv, TypeOK
  <2> QED BY <1>0, <1>3, <2>1 DEF Patch
<1>4. ASSUME NEW e \in Editor, InsertAdHoc(e) PROVE FALSE
  <2>1. k \in DOMAIN instance
    BY DEF RetractInv, TypeOK
  <2> QED BY <1>0, <1>4, <2>1 DEF InsertAdHoc, Exists
<1>5. CASE UNCHANGED instance
  BY <1>0, <1>5
<1>6. \/ UNCHANGED instance
      \/ \E g \in Generation : EndGeneration(g)
      \/ \E x \in Key, s \in Status : Patch(x, s)
      \/ \E e \in Editor : InsertAdHoc(e)
  BY DEF vars, Next, Cron, GenerateRequest, StartGeneration, Progress, SyncDefinition, ListClients, ReadProfile,
         ReadInstances, LoseGeneration, CreateAdHoc, UpsertDefinition, LoseAdHoc, SaveProfile, Archive, Restore,
         Midnight
<1> QED BY <1>1, <1>2, <1>3, <1>4, <1>5, <1>6

\* Retraction is forward only, however generations, edits and days interleave.
THEOREM RetractionIsForward == Spec => RetractsForwardOnly
<1>1. Init => RetractInv
  BY RetractInitially
<1>2. RetractInv /\ [Next]_vars =>
        [\A k \in Key : Removed(k) =>
           \E g \in Generation : /\ gen[g].pc = "clients" /\ ~gen[g].dry
                                 /\ instance[k].end >= gen[g].asOf
                                 /\ k.start <= YearEnd(gen[g].asOf)]_vars
  BY RetractsOnlyWhatItHolds
<1> QED BY <1>1, <1>2, RetractStep, PTL DEF Spec, RetractsForwardOnly

-------------------------------------------------------------------------------
(* A generation retracts what it holds, and it holds rows of the catalogue.   *)
(* createAdHoc refuses a code the table has as the catalogue's; the check is  *)
(* of one statement, the upsert and the INSERT of later ones.  Whose a        *)
(* definition is never changes once it is there, so a row made by hand stands *)
(* under one of the accountant's, or of a generation that came in between.    *)

\* Whose definition a code has, once there is one.
Owned(x) == definition[x] \in {"CATALOG", "CUSTOM"}

OwnOrOvertaken(k) == instance[k].adHoc => definition[k.code] = "CUSTOM" \/ instance[k].overtaken

\* A request that got past its check asks for a key, and its upsert leaves a definition.
Asks(e) ==
  /\ ~edit[e].mirrored
  /\ edit[e].pc # "idle" => edit[e].key \in Key
  /\ edit[e].pc = "insert" => Owned(edit[e].key.code)

AdHocInv ==
  /\ RetractInv
  /\ \A e \in Editor : Asks(e)
  /\ \A k \in Key : OwnOrOvertaken(k)

\* Whatever happens to a definition, whose it is stays.
LEMMA DefinitionsStay ==
  ASSUME TypeOK, [Next]_vars
  PROVE  \A x \in Code : Owned(x) => definition'[x] = definition[x]
<1>0. definition \in [Code -> {"CATALOG", "CUSTOM", None}] /\ None \notin {"CATALOG", "CUSTOM"}
  BY NoneAssumption DEF TypeOK
<1>1. ASSUME NEW y, NEW z, definition' = [definition EXCEPT ![y] = IF @ = None THEN z ELSE @]
      PROVE  \A x \in Code : Owned(x) => definition'[x] = definition[x]
  BY <1>0, <1>1 DEF Owned
<1>2. ASSUME NEW g \in Generation, SyncDefinition(g)
      PROVE  \A x \in Code : Owned(x) => definition'[x] = definition[x]
  BY <1>1, <1>2 DEF SyncDefinition
<1>3. ASSUME NEW e \in Editor, UpsertDefinition(e)
      PROVE  \A x \in Code : Owned(x) => definition'[x] = definition[x]
  BY <1>1, <1>3 DEF UpsertDefinition
<1>4. \/ UNCHANGED definition
      \/ \E g \in Generation : SyncDefinition(g)
      \/ \E e \in Editor : UpsertDefinition(e)
  BY DEF vars, Next, Cron, GenerateRequest, StartGeneration, Progress, ListClients, ReadProfile, ReadInstances,
         EndGeneration, LoseGeneration, Patch, CreateAdHoc, InsertAdHoc, LoseAdHoc, SaveProfile, Archive, Restore,
         Midnight
<1> QED BY <1>2, <1>3, <1>4

\* A key's row: made by hand only by the INSERT, otherwise as it was or gone.
LEMMA RowsComeAndGo ==
  ASSUME AdHocInv, [Next]_vars, NEW k \in Key, instance'[k].adHoc
  PROVE  \/ instance[k].adHoc /\ instance'[k].overtaken = instance[k].overtaken
         \/ \E e \in Editor : /\ edit[e].pc = "insert" /\ edit[e].key = k
                              /\ instance'[k].overtaken <=> definition[k.code] = "CATALOG"
                              /\ UNCHANGED definition
<1>0. TypeOK /\ instance[k] \in Row /\ k \in DOMAIN instance
  BY DEF AdHocInv, RetractInv, TypeOK, Row
<1>1. CASE UNCHANGED instance
  BY <1>1
<1>2. ASSUME NEW g \in Generation, EndGeneration(g), instance'[k] = Applied(g, k)
      PROVE  instance[k].adHoc /\ instance'[k].overtaken = instance[k].overtaken
  <2>1. CASE k \in gen[g].toCreate /\ ~Exists(k)
    <3>1. <<k, instance[k].id>> \notin gen[g].toRetract
      BY <2>1 DEF Exists, Held, RetractInv, AdHocInv
    <3>2. ~Applied(g, k).adHoc
      BY <2>1, <3>1 DEF Applied
    <3> QED BY <1>2, <3>2
  <2>2. CASE ~(k \in gen[g].toCreate /\ ~Exists(k)) /\ <<k, instance[k].id>> \in gen[g].toRetract
    BY <1>2, <2>2 DEF Applied, NoRow
  <2>3. CASE ~(k \in gen[g].toCreate /\ ~Exists(k)) /\ <<k, instance[k].id>> \notin gen[g].toRetract
    BY <1>2, <2>3 DEF Applied
  <2> QED BY <2>1, <2>2, <2>3
<1>3. ASSUME NEW g \in Generation, EndGeneration(g)
      PROVE  instance[k].adHoc /\ instance'[k].overtaken = instance[k].overtaken
  <2>1. UNCHANGED instance \/ instance'[k] = Applied(g, k)
    BY <1>3 DEF EndGeneration
  <2> QED BY <1>2, <1>3, <2>1
<1>4. ASSUME NEW x \in Key, NEW s \in Status, Patch(x, s)
      PROVE  instance[k].adHoc /\ instance'[k].overtaken = instance[k].overtaken
  BY <1>0, <1>4 DEF Patch, Row
<1>5. ASSUME NEW e \in Editor, InsertAdHoc(e)
      PROVE  \/ instance[k].adHoc /\ instance'[k].overtaken = instance[k].overtaken
             \/ /\ edit[e].pc = "insert" /\ edit[e].key = k
                /\ instance'[k].overtaken <=> definition[k.code] = "CATALOG"
                /\ UNCHANGED definition
  <2>1. CASE UNCHANGED instance
    BY <2>1
  <2>2. PICK row : row = [id |-> lastId[edit[e].key] + 1, end |-> edit[e].end, status |-> "PENDING", adHoc |-> TRUE,
                          overtaken |-> ~edit[e].mirrored /\ definition[edit[e].key.code] = "CATALOG"]
    OBVIOUS
  <2>3. CASE instance' = [instance EXCEPT ![edit[e].key] = row]
    <3>1. CASE edit[e].key = k
      <4>1. instance'[k].overtaken <=> definition[k.code] = "CATALOG"
        BY <1>0, <2>2, <2>3, <3>1 DEF AdHocInv, Asks
      <4> QED BY <1>5, <3>1, <4>1 DEF InsertAdHoc
    <3>2. CASE edit[e].key # k
      BY <1>0, <2>3, <3>2
    <3> QED BY <3>1, <3>2
  <2> QED BY <1>5, <2>1, <2>2, <2>3 DEF InsertAdHoc
<1>6. \/ UNCHANGED instance
      \/ \E g \in Generation : EndGeneration(g)
      \/ \E x \in Key, s \in Status : Patch(x, s)
      \/ \E e \in Editor : InsertAdHoc(e)
  BY DEF vars, Next, Cron, GenerateRequest, StartGeneration, Progress, SyncDefinition, ListClients, ReadProfile,
         ReadInstances, LoseGeneration, CreateAdHoc, UpsertDefinition, LoseAdHoc, SaveProfile, Archive, Restore,
         Midnight
<1> QED BY <1>1, <1>3, <1>4, <1>5, <1>6

LEMMA RequestsComeAndGo ==
  ASSUME AdHocInv, [Next]_vars, NEW f \in Editor
  PROVE  Asks(f)'
<1>0. TypeOK /\ DOMAIN edit = Editor /\ Asks(f)
  BY DEF AdHocInv, RetractInv, TypeOK
<1>1. CASE edit'[f] = edit[f]
  <2>1. edit[f].pc = "insert" => edit[f].key.code \in Code
    BY <1>0 DEF Asks, Key
  <2>2. edit[f].pc = "insert" => definition'[edit[f].key.code] = definition[edit[f].key.code]
    BY <1>0, <2>1, DefinitionsStay DEF Asks
  <2> QED BY <1>0, <1>1, <2>2 DEF Asks, Owned
<1>2. CASE edit'[f] = NoEdit
  BY <1>2 DEF NoEdit, Asks
<1>3. ASSUME ~edit'[f].mirrored, edit'[f].key \in Key,
             edit'[f].pc = "upsert" \/ definition'[edit'[f].key.code] \in {"CATALOG", "CUSTOM"}
      PROVE  Asks(f)'
  BY <1>3 DEF Asks, Owned
<1>4. ASSUME NEW e \in Editor, CreateAdHoc(e)
      PROVE  \/ edit'[f] = edit[f]
             \/ ~edit'[f].mirrored /\ edit'[f].key \in Key /\ edit'[f].pc = "upsert"
  <2>1. PICK k \in Key, end \in Day :
          /\ definition[k.code] # "CATALOG"
          /\ edit' = [edit EXCEPT ![e] = [pc |-> "upsert", key |-> k, end |-> end,
                                          mirrored |-> definition[k.code] = "CATALOG"]]
    BY <1>4 DEF CreateAdHoc, NotACatalogCode
  <2> QED BY <1>0, <2>1
<1>5. ASSUME NEW e \in Editor, UpsertDefinition(e)
      PROVE  \/ edit'[f] = edit[f]
             \/ ~edit'[f].mirrored /\ edit'[f].key \in Key /\ definition'[edit'[f].key.code] \in {"CATALOG", "CUSTOM"}
  <2>0. edit \in [Editor -> [pc: {"idle", "upsert", "insert"}, key: Key \cup {None}, end: Day, mirrored: BOOLEAN]]
    BY <1>0 DEF TypeOK
  <2>1. CASE f # e
    BY <2>0, <1>5, <2>1 DEF UpsertDefinition
  <2>2. CASE f = e
    <3>1. edit[f].key \in Key /\ edit'[f].key = edit[f].key /\ edit'[f].mirrored = edit[f].mirrored
      BY <1>0, <2>0, <1>5, <2>2 DEF UpsertDefinition, Asks
    <3>2. edit[f].key.code \in Code
      BY <3>1 DEF Key
    <3>3. definition'[edit[f].key.code] \in {"CATALOG", "CUSTOM"}
      BY <1>0, <1>5, <2>2, <3>2 DEF UpsertDefinition, TypeOK
    <3> QED BY <1>0, <3>1, <3>3 DEF Asks
  <2> QED BY <2>1, <2>2
<1>6. ASSUME NEW e \in Editor, InsertAdHoc(e) \/ LoseAdHoc(e) PROVE edit'[f] = edit[f] \/ edit'[f] = NoEdit
  BY <1>0, <1>6 DEF InsertAdHoc, LoseAdHoc
<1>7. \/ UNCHANGED edit
      \/ \E e \in Editor : CreateAdHoc(e) \/ UpsertDefinition(e) \/ InsertAdHoc(e) \/ LoseAdHoc(e)
  BY DEF vars, Next, Cron, GenerateRequest, StartGeneration, Progress, SyncDefinition, ListClients, ReadProfile,
         ReadInstances, EndGeneration, LoseGeneration, Patch, SaveProfile, Archive, Restore, Midnight
<1> QED BY <1>1, <1>2, <1>3, <1>4, <1>5, <1>6, <1>7

LEMMA AdHocStep == AdHocInv /\ [Next]_vars => AdHocInv'
<1> SUFFICES ASSUME AdHocInv, [Next]_vars PROVE AdHocInv'
  OBVIOUS
<1>0. RetractInv' /\ TypeOK
  BY RetractStep DEF AdHocInv, RetractInv
<1>1. ASSUME NEW k \in Key PROVE OwnOrOvertaken(k)'
  <2> SUFFICES ASSUME instance'[k].adHoc PROVE definition'[k.code] = "CUSTOM" \/ instance'[k].overtaken
    BY DEF OwnOrOvertaken
  <2>0. k.code \in Code
    BY DEF Key
  <2>1. definition[k.code] = "CUSTOM" => definition'[k.code] = "CUSTOM"
    BY <1>0, <2>0, DefinitionsStay DEF Owned
  <2>2. CASE instance[k].adHoc /\ instance'[k].overtaken = instance[k].overtaken
    BY <2>1, <2>2 DEF AdHocInv, OwnOrOvertaken
  <2>3. ASSUME NEW e \in Editor, edit[e].pc = "insert", edit[e].key = k,
               instance'[k].overtaken <=> definition[k.code] = "CATALOG", UNCHANGED definition
        PROVE  definition'[k.code] = "CUSTOM" \/ instance'[k].overtaken
    BY <2>3 DEF AdHocInv, Asks, Owned
  <2> QED BY <2>2, <2>3, RowsComeAndGo
<1> QED BY <1>0, <1>1, RequestsComeAndGo DEF AdHocInv

\* A generation takes away what was added by hand only under a code of the catalogue, and only
\* where the definition is the accountant's own or came between the check and the INSERT; from an
\* empty table of definitions, whatever is in flight.
THEOREM HandmadeStays == Spec => AdHocSurvives
<1>1. Init => AdHocInv
  BY RetractInitially DEF Init, NoEdit, NoRow, AdHocInv, OwnOrOvertaken, Asks
<1>2. AdHocInv /\ [Next]_vars =>
        [\A k \in Key : instance[k].adHoc /\ Removed(k) =>
           /\ k.code \in Catalog
           /\ definition[k.code] = "CUSTOM" \/ instance[k].overtaken]_vars
  BY RetractsOnlyWhatItHolds DEF AdHocInv, OwnOrOvertaken
<1> QED BY <1>1, <1>2, AdHocStep, PTL DEF Spec, AdHocSurvives
===============================================================================
