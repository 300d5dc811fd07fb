----------------------------- MODULE Obligations -----------------------------
(***************************************************************************)
(* Fiscal obligations as the generator, the accountant and the fiscal      *)
(* profile work on them at the same time                                   *)
(* (apps/api/src/obligations/obligations.service.ts).                      *)
(*                                                                         *)
(* A generation is a series of statements outside any transaction (the     *)
(* upserts of the catalogue, the list of clients, then a profile and the   *)
(* instances per client) and one transaction that applies what they found. *)
(* Its two writes read nothing, so the transaction is one action.          *)
(*                                                                         *)
(* Days are counted in the shortest periods of the catalogue: a MONTHLY    *)
(* period is a day of the model, an ANNUAL one a year of YearLength days.  *)
(* (The cron passes an instant, so on the very last date of a period it    *)
(* retracts nothing of it; its runs on the dates before do.)               *)
(* A fiscal profile is what FISCAL_CATALOG makes of it: the codes that     *)
(* apply.  Due dates, notes, references and amounts are data no step reads *)
(* (module FiscalCalendar resolves due dates).                             *)
(***************************************************************************)
EXTENDS Integers, FiniteSets

CONSTANTS
  Client,
  Catalog,     \* codes of FISCAL_CATALOG
  Annual,      \* those with one period a year
  Custom,      \* codes an accountant may invent
  Generation,  \* concurrent calls of generate (slots, reused)
  Editor,      \* concurrent calls of createAdHoc (slots, reused)
  YearLength,  \* days of a year
  Years,       \* years of the model: they bound today
  Status,      \* PENDING, and those of IN_PROGRESS, DONE, WAIVED to be told apart: no step does
  ValidFrom,   \* first day on which the catalogue's rules hold
  MaxChanges,  \* bound on the profile changes
  MaxRows,     \* bound on the rows one ad hoc key gets, one after another
  None         \* SQL NULL

ASSUME CalendarAssumption == YearLength \in Nat \ {0} /\ Years \in Nat \ {0}
\* Every entry of the catalogue holds from a 1 January on.
ASSUME ValidityAssumption == ValidFrom \in Nat \ {0} /\ (ValidFrom - 1) % YearLength = 0
ASSUME CatalogAssumption == Annual \subseteq Catalog /\ Catalog \cap Custom = {}
ASSUME StatusAssumption == "PENDING" \in Status
ASSUME BoundsAssumption == MaxChanges \in Nat /\ MaxRows \in Nat
ASSUME NoneAssumption == None \notin Client \cup {"CATALOG", "CUSTOM"}

VARIABLES
  today,
  archived,    \* the clients whose archivedAt is set
  profile,     \* FiscalProfile: the codes that apply, None without a row
  changes,     \* profile changes so far
  definition,  \* ObligationDefinition: its source, None without a row
  instance,    \* ObligationInstance by its unique key
  lastId,      \* the ids spent on each key
  gen,         \* the generations in flight
  edit         \* the ad hoc creations in flight

vars == <<today, archived, profile, changes, definition, instance, lastId, gen, edit>>

Code   == Catalog \cup Custom
Day    == 1..(Years * YearLength)
\* @@unique([clientId, definitionCode, periodStart])
Key    == [client: Client, code: Code, start: Day]

\* adHoc and overtaken are no columns, they are for the properties: who made the row, and whether
\* a generation entered its code as the catalogue's (mirrored) after the request had looked.
NoRow  == [id |-> 0, end |-> 1, status |-> "PENDING", adHoc |-> FALSE, overtaken |-> FALSE]
Exists(k) == instance[k].id # 0

NoGen  == [pc |-> "idle", asOf |-> 1, scope |-> None, dry |-> TRUE, codes |-> {}, todo |-> {},
           client |-> None, applies |-> {}, toCreate |-> {}, toRetract |-> {}]
NoEdit == [pc |-> "idle", key |-> None, end |-> 1, mirrored |-> FALSE]

TypeOK ==
  /\ today \in Day
  /\ archived \subseteq Client
  /\ profile \in [Client -> [codes: SUBSET Catalog] \cup {None}]
  /\ changes \in 0..MaxChanges
  /\ definition \in [Code -> {"CATALOG", "CUSTOM", None}]
  /\ lastId \in [Key -> Nat]
  /\ instance \in [Key -> [id: Nat, end: Day, status: Status, adHoc: BOOLEAN, overtaken: BOOLEAN]]
  /\ gen \in [Generation ->
       [pc: {"idle", "sync", "clients", "instances"}, asOf: Day, scope: Client \cup {None}, dry: BOOLEAN,
        codes: SUBSET Catalog, todo: SUBSET Client, client: Client \cup {None}, applies: SUBSET Catalog,
        toCreate: SUBSET Key, toRetract: SUBSET (Key \X Nat)]]
  /\ edit \in [Editor -> [pc: {"idle", "upsert", "insert"}, key: Key \cup {None}, end: Day,
                        mirrored: BOOLEAN]]

-------------------------------------------------------------------------------
\* The calendar year asOf falls in, and the periods a code has in it.
YearStart(d) == ((d - 1) \div YearLength) * YearLength + 1
YearEnd(d)   == YearStart(d) + YearLength - 1

PeriodEnd(code, s) == IF code \in Annual THEN YearEnd(s) ELSE s
GeneratePeriods(code, asOf) ==
  IF code \in Annual THEN {YearStart(asOf)} ELSE YearStart(asOf)..YearEnd(asOf)

\* The periods of the rules that apply and are in force on asOf.
Wanted(applies, asOf) ==
  IF asOf < ValidFrom THEN {} ELSE {w \in applies \X Day : w[2] \in GeneratePeriods(w[1], asOf)}

\* Variant: no period that began before asOf is made up for.
ProposedFromToday(c, applies, asOf) ==
  {k \in Key : k.client = c /\ <<k.code, k.start>> \in Wanted(applies, asOf) /\ k.start >= asOf /\ ~Exists(k)}

Proposed(c, applies, asOf) ==
  {k \in Key : k.client = c /\ <<k.code, k.start>> \in Wanted(applies, asOf) /\ ~Exists(k)}

\* Variant: retraction looks back.
RetractedOfAllTime(c, applies, asOf) ==
  {k \in Key : /\ k.client = c /\ k.code \in Catalog /\ Exists(k)
               /\ instance[k].status = "PENDING"
               /\ k.start <= YearEnd(asOf)
               /\ <<k.code, k.start>> \notin Wanted(applies, asOf)}

\* Variant: the period that ends on asOf counts as past.
RetractedAfterToday(c, applies, asOf) ==
  {k \in RetractedOfAllTime(c, applies, asOf) : instance[k].end > asOf}

Retracted(c, applies, asOf) ==
  {k \in Key : /\ k.client = c /\ k.code \in Catalog /\ Exists(k)
               /\ instance[k].status = "PENDING"
               /\ instance[k].end >= asOf
               /\ k.start <= YearEnd(asOf)
               /\ <<k.code, k.start>> \notin Wanted(applies, asOf)}

-------------------------------------------------------------------------------
\* A fresh installation: the migrations seed no definition.
Init ==
  /\ today = 1
  /\ archived = {}
  /\ profile = [c \in Client |-> None]
  /\ changes = 0
  /\ definition = [x \in Code |-> None]
  /\ instance = [k \in Key |-> NoRow]
  /\ lastId = [k \in Key |-> 0]
  /\ gen = [g \in Generation |-> NoGen]
  /\ edit = [e \in Editor |-> NoEdit]

StartGeneration(g, asOf, scope, dry) ==
  /\ gen[g].pc = "idle"
  /\ gen' = [gen EXCEPT ![g] = [NoGen EXCEPT !.pc = "sync", !.asOf = asOf, !.scope = scope,
                                             !.dry = dry, !.codes = Catalog]]
  /\ UNCHANGED <<today, archived, profile, changes, definition, instance, lastId, edit>>

\* ObligationsCron.runDailyGeneration: today, every active client.
Cron(g) == StartGeneration(g, today, None, FALSE)

\* POST /obligations/generate: any date, one client or all, a preview or not.
GenerateRequest(g) ==
  \E asOf \in Day, scope \in Client \cup {None}, dry \in BOOLEAN : StartGeneration(g, asOf, scope, dry)

\* An upsert of syncCatalogDefinitions: it never rewrites the source of a row.
SyncDefinition(g) ==
  /\ gen[g].pc = "sync"
  /\ \E x \in gen[g].codes :
       /\ definition' = [definition EXCEPT ![x] = IF @ = None THEN "CATALOG" ELSE @]
       /\ gen' = [gen EXCEPT ![g].codes = @ \ {x}]
  /\ UNCHANGED <<today, archived, profile, changes, instance, lastId, edit>>

\* Variant: a run without a client is taken for a run of one.
ListScope(g) ==
  /\ gen[g].pc = "sync" /\ gen[g].codes = {}
  /\ gen' = [gen EXCEPT ![g].pc = "clients", ![g].todo = {gen[g].scope}]
  /\ UNCHANGED <<today, archived, profile, changes, definition, instance, lastId, edit>>

ListClients(g) ==
  /\ gen[g].pc = "sync" /\ gen[g].codes = {}
  /\ gen' = [gen EXCEPT ![g].pc = "clients",
                        ![g].todo = IF gen[g].scope = None THEN Client \ archived ELSE {gen[g].scope}]
  /\ UNCHANGED <<today, archived, profile, changes, definition, instance, lastId, edit>>

\* findUnique of the client's fiscal profile; a client without one is skipped.
ReadProfile(g) ==
  /\ gen[g].pc = "clients"
  /\ \E c \in gen[g].todo :
       gen' = IF profile[c] = None
              THEN [gen EXCEPT ![g].todo = @ \ {c}]
              ELSE [gen EXCEPT ![g].pc = "instances", ![g].todo = @ \ {c},
                               ![g].client = c, ![g].applies = profile[c].codes]
  /\ UNCHANGED <<today, archived, profile, changes, definition, instance, lastId, edit>>

\* findMany of the client's instances, and the loop over the catalogue.
ReadInstances(g) ==
  /\ gen[g].pc = "instances"
  /\ LET c == gen[g].client
         applies == gen[g].applies
         asOf == gen[g].asOf
     IN gen' = [gen EXCEPT
          ![g].pc = "clients", ![g].client = None, ![g].applies = {},
          ![g].toCreate = @ \cup Proposed(c, applies, asOf),
          ![g].toRetract = @ \cup {<<k, instance[k].id>> : k \in Retracted(c, applies, asOf)}]
  /\ UNCHANGED <<today, archived, profile, changes, definition, instance, lastId, edit>>

\* What the transaction makes of a key: createMany with skipDuplicates, then deleteMany by id.
Applied(g, k) ==
  CASE k \in gen[g].toCreate /\ ~Exists(k) ->
         [id |-> lastId[k] + 1, end |-> PeriodEnd(k.code, k.start), status |-> "PENDING",
          adHoc |-> FALSE, overtaken |-> FALSE]
    [] <<k, instance[k].id>> \in gen[g].toRetract -> NoRow
    [] OTHER -> instance[k]

EndGeneration(g) ==
  /\ gen[g].pc = "clients" /\ gen[g].todo = {}
  /\ IF gen[g].dry
     THEN UNCHANGED <<instance, lastId>>
     ELSE /\ instance' = [k \in Key |-> Applied(g, k)]
          /\ lastId' = [k \in Key |-> IF k \in gen[g].toCreate /\ ~Exists(k) THEN lastId[k] + 1 ELSE lastId[k]]
  /\ gen' = [gen EXCEPT ![g] = NoGen]
  /\ UNCHANGED <<today, archived, profile, changes, definition, edit>>

\* A crash, a timeout or a failed statement: the definitions written so far stay.
LoseGeneration(g) ==
  /\ gen[g].pc # "idle"
  /\ gen' = [gen EXCEPT ![g] = NoGen]
  /\ UNCHANGED <<today, archived, profile, changes, definition, instance, lastId, edit>>

-------------------------------------------------------------------------------
\* PATCH /obligations/:id, one UPDATE by id; of its fields only the status is read by others.
Patch(k, status) ==
  /\ Exists(k)
  /\ instance' = [instance EXCEPT ![k].status = status]
  /\ UNCHANGED <<today, archived, profile, changes, definition, lastId, gen, edit>>

\* Variant: createAdHoc takes any code.
AnyCode(x) == TRUE

NotACatalogCode(x) == definition[x] # "CATALOG"

\* createAdHoc: the read of the definition; a CATALOG code is refused.
CreateAdHoc(e) ==
  /\ edit[e].pc = "idle"
  /\ \E k \in Key, end \in Day :
       /\ NotACatalogCode(k.code)
       /\ lastId[k] < MaxRows
       /\ edit' = [edit EXCEPT ![e] = [pc |-> "upsert", key |-> k, end |-> end,
                                     mirrored |-> definition[k.code] = "CATALOG"]]
  /\ UNCHANGED <<today, archived, profile, changes, definition, instance, lastId, gen>>

UpsertDefinition(e) ==
  /\ edit[e].pc = "upsert"
  /\ definition' = [definition EXCEPT ![edit[e].key.code] = IF @ = None THEN "CUSTOM" ELSE @]
  /\ edit' = [edit EXCEPT ![e].pc = "insert"]
  /\ UNCHANGED <<today, archived, profile, changes, instance, lastId, gen>>

\* The INSERT; a key that is taken is a 409.
InsertAdHoc(e) ==
  /\ edit[e].pc = "insert"
  /\ LET k == edit[e].key
     IN IF Exists(k)
        THEN UNCHANGED <<instance, lastId>>
        ELSE /\ instance' = [instance EXCEPT ![k] = [id |-> lastId[k] + 1, end |-> edit[e].end,
                                                     status |-> "PENDING", adHoc |-> TRUE,
                                                     overtaken |-> /\ ~edit[e].mirrored
                                                                   /\ definition[k.code] = "CATALOG"]]
             /\ lastId' = [lastId EXCEPT ![k] = @ + 1]
  /\ edit' = [edit EXCEPT ![e] = NoEdit]
  /\ UNCHANGED <<today, archived, profile, changes, definition, gen>>

LoseAdHoc(e) ==
  /\ edit[e].pc # "idle"
  /\ edit' = [edit EXCEPT ![e] = NoEdit]
  /\ UNCHANGED <<today, archived, profile, changes, definition, instance, lastId, gen>>

-------------------------------------------------------------------------------
\* FiscalProfilesService.upsert; a profile is never deleted.
SaveProfile(c) ==
  /\ changes < MaxChanges
  /\ \E codes \in SUBSET Catalog : profile' = [profile EXCEPT ![c] = [codes |-> codes]]
  /\ changes' = changes + 1
  /\ UNCHANGED <<today, archived, definition, instance, lastId, gen, edit>>

\* ClientsService.archive and restore.
Archive(c) ==
  /\ archived' = archived \cup {c}
  /\ UNCHANGED <<today, profile, changes, definition, instance, lastId, gen, edit>>

Restore(c) ==
  /\ archived' = archived \ {c}
  /\ UNCHANGED <<today, profile, changes, definition, instance, lastId, gen, edit>>

Midnight ==
  /\ today + 1 \in Day
  /\ today' = today + 1
  /\ UNCHANGED <<archived, profile, changes, definition, instance, lastId, gen, edit>>

Progress(g) ==
  \/ SyncDefinition(g) \/ ListClients(g) \/ ReadProfile(g) \/ ReadInstances(g) \/ EndGeneration(g)

Next ==
  \/ \E g \in Generation : Cron(g) \/ GenerateRequest(g) \/ Progress(g) \/ LoseGeneration(g)
  \/ \E k \in Key, s \in Status : Patch(k, s)
  \/ \E e \in Editor : CreateAdHoc(e) \/ UpsertDefinition(e) \/ InsertAdHoc(e) \/ LoseAdHoc(e)
  \/ \E c \in Client : SaveProfile(c) \/ Archive(c) \/ Restore(c)
  \/ Midnight

Spec == Init /\ [][Next]_vars

\* A generation goes on; 3 am comes again and again (strong, because the
\* model's slots may be busy whenever it comes); from some time on no
\* generation is lost.  One with nothing to apply ends as it would be lost.
Fairness ==
  /\ \A g \in Generation : WF_vars(Progress(g))
  /\ SF_vars(\E g \in Generation : Cron(g))
  /\ <>[][\A g \in Generation : LoseGeneration(g) => EndGeneration(g)]_vars
FairSpec == Spec /\ Fairness

-------------------------------------------------------------------------------
(* Properties *)

Removed(k) == Exists(k) /\ instance'[k].id # instance[k].id

\* What an accountant created by hand is retracted only under a code of the catalogue, and one
\* whose definition is the accountant's own still (it was there before the first generation that
\* knew the code) or that a generation entered between the request's check of the code and its
\* INSERT: retraction looks at codes and periods only (lines 155, 160), the check is statements
\* before the INSERT (222-225), and no upsert changes whose definition a code has.
AdHocSurvives ==
  [][\A k \in Key : instance[k].adHoc /\ Removed(k) =>
       /\ k.code \in Catalog
       /\ definition[k.code] = "CUSTOM" \/ instance[k].overtaken]_vars

\* Retracting is forward only (line 130): a row goes only if some generation in
\* flight holds it in its year, not ended on that generation's date.
RetractsForwardOnly ==
  [][\A k \in Key : Removed(k) =>
       \E g \in Generation : /\ gen[g].pc = "clients" /\ ~gen[g].dry
                             /\ instance[k].end >= gen[g].asOf
                             /\ k.start <= YearEnd(gen[g].asOf)]_vars

\* The design (section 7.3): a row that is not PENDING is left alone.
NeverTouchesYourWork == [][\A k \in Key : Removed(k) => instance[k].status = "PENDING"]_vars

\* The comment of generate: a dry run writes nothing.
DryRunWritesNothing ==
  [][\A g \in Generation : gen[g].dry /\ Progress(g) => UNCHANGED <<definition, instance>>]_vars

\* The comment of syncCatalogDefinitions: for its codes the table mirrors the catalogue.
CatalogIsMirrored == \A x \in Catalog : definition[x] # "CUSTOM"

\* The design (section 7.4): what was created ad hoc is the accountant's, "The engine proposes;
\* the accountant decides".
HandmadeIsTheAccountants == [][\A k \in Key : instance[k].adHoc => ~Removed(k)]_vars

\* The design (phase 2, section 3.2): a CUSTOM definition and its instance are
\* created in one transaction, so a request that fails leaves neither.
DefinitionComesWithInstance ==
  \A x \in Code : definition[x] = "CUSTOM" =>
    \E k \in Key : k.code = x /\ (Exists(k) \/ \E e \in Editor : edit[e].key = k)

Active(c) == c \notin archived /\ profile[c] # None

Due(k) == Active(k.client) /\ <<k.code, k.start>> \in Wanted(profile[k.client].codes, today)

Leftover(k) ==
  /\ Active(k.client) /\ k.code \in Catalog /\ Exists(k)
  /\ instance[k].status = "PENDING" /\ instance[k].end >= today /\ k.start <= YearEnd(today)
  /\ <<k.code, k.start>> \notin Wanted(profile[k.client].codes, today)

\* Generations heal: whatever stale ones undid, an obligation that stays due for
\* an active client is there in the end, and stays.
DueIsThere == \A k \in Key : <>[]Due(k) => <>[]Exists(k)

\* And a PENDING row that no rule wants does not stay in the current year.
LeftoversGo == \A k \in Key : []<>~Leftover(k)
=============================================================================
