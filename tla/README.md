# Ledger HQ in TLA+

Ledger HQ is the back office of an accounting practice: a NestJS API over Postgres
(through Prisma), a React web client with an offline vault, two shared packages
(`domain`, pure rules; `crypto`) and a backup script. This directory holds TLA+ models
of it, the TLC configurations that check them, and TLAPS proofs.

- [The system](#the-system): parts, state, operations, what is hard, what makes each part correct
- [Modules](#modules): which module models what, and how state and actions correspond to the code
- [Runs](#runs): what each configuration checks, its bounds, its fairness
- [Proofs](#proofs): what is proved, from which assumptions, along which argument
- [Disagreements](#where-code-and-documents-disagree) between the code and what is said of it
- [What is not modelled](#not-modelled), and [what could come next](#what-could-come-next)

## The system

| Part | State | Operations | Interacts with | What makes it correct |
|---|---|---|---|---|
| **Billing ledger** `billing.service.ts` | `Charge`, `Payment`, append-only `PaymentAllocation`; the views `charge_balances` and `payment_credits` | `createAdHocCharge`, `recordPayment`, `applyCredit`, `writeOffCharge` | proposals come from the allocation algorithms; the views feed receivables and reports | money is allocated once, within the charge and the payment, between rows of one client, never onto forgiven debt; a request is all or nothing |
| **Retainer plans and charge generation** `billing.service.ts`, `billing.cron.ts`, `periods.ts` | `RetainerPlan`, RETAINER `Charge` rows, the wall clock | `createRetainerPlan`, `renewRetainerPlan`, `generateCharges` (cron at 3 am, or a request for any date and client) | reads `Client.archivedAt`; its charges enter the ledger; ends with a credit sweep through `applyCredit` | one plan in force each day; each period charged, and once |
| **Allocation algorithms** `allocate.ts`, `settle-on-paper.ts` | none (pure) | `proposeAllocation`, `settleOnPaper` | used by the payment form, the sweep, receivables, at-risk report | first in first out on both sides; the paper figure equals what allocating would leave |
| **Billing screens** `getClientLedger`, `getReceivables`, `RecordPaymentForm.tsx` | none on the server; the payment dialog's form and requests | reads; propose, confirm | the ledger's tables | no debt hidden by a write between two reads; what is confirmed is what was proposed, once |
| **Reports and search** `reporting/` | none (queries, a `tsvector` index) | at-risk report, period summary, search | ledger, obligations | a past period's summary does not change later |
| **Obligations** `obligations.service.ts`, `packages/domain/src/obligations` | `ObligationDefinition`, `ObligationInstance` | `generate` (daily cron or Apply), `patch`, `createAdHoc` | fiscal profile, attachments (cascade) | what is due is there in the end; what was made by hand or done stays; deadlines on working days |
| **Attachments** `attachments.service.ts`, `file-storage.service.ts` | a row in Postgres and a file on disk | `upload`, `download`, `remove` | obligations | no row without the whole of its file |
| **Authentication** `auth.service.ts`, `session.guard.ts` | `User`, `Session`, vault envelopes, the cookie | `bootstrap`, `login`, `setUpVault`, `recoverVault`, sessions | vault | password and code open one vault; recovery ends the other sessions |
| **Vault, server side** `vault/` | `Credential`, append-only `CredentialVersion`, `Platform`, audit events | `create`, `rotate`, `sync` | auth (vault set up) | no version is lost to the next sync |
| **Vault, browser side** `apps/web/src/vault` | IndexedDB cache, cursor, outbox; the key in memory; timers | `syncVault`, `flushOutbox`, unlock and inactivity lock, clipboard, recovery | vault server, auth | the cache catches up; each reveal is logged; a locked screen holds nothing |
| **Registry** clients, employments, fiscal profiles, audit | their rows | create, update, archive, restore, end, upsert | everything | no tab undoes another's edit; spells of a pair do not overlap; a profile's obligations agree |
| **System health, backup** `docker/backup.sh`, `system/` | `SystemHealth`, archives | nightly script, report | attachments and database | OK is said of archives that were copied |
| **Cryptography** `packages/crypto`; **web UI** | none | pure functions; forms | | |

What is hard here is concurrency at statement level. Node runs one handler at a time
between two `await`s, every `await` lets another request in, and Postgres runs READ
COMMITTED: each statement of a transaction sees what is committed when *it* starts. So a
check is only worth what row locks (`FOR UPDATE`), unique indexes and exclusion
constraints keep true until the write. On top of it come lost requests and answers,
crashes between a file and its row, deadlocks, a cron that may miss days, several tabs
with pages of any age, two browsers with one vault, and timers that race decryptions.
`PROJECT.json` lists these hazards at their lines with the properties that would catch
each one, or why none does.

## Modules

| Component | Modules | Composed in |
|---|---|---|
| billing ledger | `Billing` (one action per SQL statement), `AtomicLedger` (what it promises), made of `LedgerTables` (the tables and what a commit does to them) and `LedgerBodies` (what a request asks for), `BillingViews` (the figures of the screens), `BillingInv` (its inductive invariant), `BillingProofs`; `Sums` (lemmas about sums over ids) | `MCBilling` |
| retainers | `Retainers`, `RetainersInv`, `RetainersProofs` | `MCRetainers` |
| allocation | `Allocation`, `RulesProofs` | `MCRules` |
| billing screens, reports | `LedgerReads` (EXTENDS `LedgerTables`), `PeriodSummary`, `PaymentForm`, `RulesProofs` | `MCRules` |
| obligations | `Obligations`, `ObligationsProofs` | `MCObligations`, `MCOffice` |
| fiscal catalogue | `Calendar`, `FiscalCatalogue`, `FiscalCalendar`, `RulesProofs` | `MCRules` |
| attachments | `AttachmentStore` (what they promise), `Attachments` (EXTENDS `Obligations`), `DocumentsProofs` | `MCDocuments` |
| backup | `Backup` (EXTENDS `AttachmentStore`), `DocumentsProofs` | `MCDocuments` |
| account and vault | `VaultKeys`, `VaultSync`, `Outbox`, `VaultScreen`, `Sessions`, `VaultProofs` | `MCVault` |
| registry | `Clients`, `Employments`, `FiscalProfiles` (EXTENDS `FiscalCatalogue`), `OfficeProofs` | `MCOffice` |

Operators introduced by a comment "Variant" are plausible bugs of the definition they
precede. No specification uses them; they are what the mutants of `PROJECT.json` put in
that definition's place to see the property break.

**Composition.** Components that share state are composed: `Attachments` extends
`Obligations`, because a retraction deletes the rows of the documents under it;
`LedgerReads` and `BillingViews` read the ledger's own variables; `Backup` runs against
`AttachmentStore`, which `Attachments` is shown to implement. Components that share none
are checked in one run as a disjoint sum: the variable `part`, chosen in the initial
state and never changed, says which one plays, and the others keep one initial state. The states
explored are the union of those of the parts, not their product, and a property of one part is
trivially true of the initial state the others keep it in, so the run shows of each part
exactly what a run of its own would.

### Billing

A `Request` is a slot for one HTTP request or cron call in flight; slots are reused.
`pc` is the statement it runs next, `call` what it was called with.

| Code | Action |
|---|---|
| `createAdHocCharge` | `CreateAdHocCharge` (one INSERT) |
| `recordPayment` | `RecordPayment` (arithmetic check of the body, BEGIN and INSERT of the payment), then per allocation `NextOfPayment`, `LockCharge`, `CheckBalance`, `InsertAllocation`; `CommitPayment` |
| `applyCredit` (confirmed) | `ApplyCredit`, then per allocation `NextOfCredit`, `LockPayment`, `LockCharge`, `CheckCredit`, `CheckBalance`, `InsertAllocation`; `CommitCredit` |
| `writeOffCharge` | `ReadWriteOff` (its own read), `StampWriteOff` (UPDATE by id, waits for the row) |
| a failed check, a throw | the `ELSE` of the checks: `Rollback` |
| Postgres 40P01 | `DeadlockVictim`, for a member of a wait cycle |
| crash, timeout, lost connection | `Abort`, at any point |

- `allocated` and `drawn` are the sums the two views compute. Allocation rows are never
  changed or deleted (a trigger forbids it), so the sums and the set `links` say all that
  any statement reads. A transaction's own rows are `txAllocated`, `txDrawn`, `txLinks`,
  visible to itself only, until COMMIT adds them.
- A request carries its whole body from the start: `call.body` is the cents it puts from each payment on
  each charge, `rest` what its loop has still to walk. Lines come in any order, and one pair may be on several.
- `AtomicLedger` knows no statements: a request in flight is what it asks for (`asked`), and one step enters its
  payment and exactly its body, from the payments as onto the charges (`Commit`), or it is refused or lost without a
  trace (`Refuse`). In `Billing` the statement that begins a request is `Ask`, COMMIT is `Commit`, every other way
  out is `Refuse`, and all statements in between are stutters.
- Ids in bodies are of committed rows: the server makes them and a caller only knows
  what a response listed. They may belong to another client: the code says a proposal may
  be stale after a navigation.
- `FOR UPDATE` in a transaction that already has the lock passes at once. A single-row
  UPDATE takes the lock and gives it back in the same step. Dry runs write nothing.

### Retainers

| Code | Action |
|---|---|
| `generateCharges`, the list of clients | `StartRun` (as `Cron`, or `GenerateRequest` for a date of its choice and one client or all) |
| its plan query, its charge query with the loop over periods, its creation transaction | `ReadPlans`, `ReadCharges`, `CreateCharges` |
| a throw or a crash before the commit | `LoseRun` |
| `createRetainerPlan`, `renewRetainerPlan` | `ReadForCreation`, `ReadForRenewal`, then `WritePlan` or `DropEdit` |
| `retainer_plan_no_overlap` | `Overlaps`, the guard of `WritePlan` |
| `archive`, `restore` | `Archive`, `Restore` |

The writes of a transaction are one action: nothing of them is visible before the
commit, they read nothing, and of two with a conflicting key the later waits for the
earlier and then fails, as when it runs after it. Days are numbers, a month has
`MonthDays` days, periods of 3 and 12 months are aligned as `alignedStart` aligns them.
The label carries a period's length and start, which is what `2026-05`, `2026-Q2` and
`2026` tell apart. `validTo` is a date and the run's `asOf` an instant: on a plan's own last day the plan query
finds it or not, as the hour and the zone have it, so `ReadPlans` picks either (`PlansFound`).

### Allocation, screens and reports

`Allocation`'s state is the local variables of `proposeAllocation`: `NextCharge` is a turn of
the outer loop, `Allocate` one of the inner. `SettleOnPaper` is what the loop of
`settleOnPaper` returns: it stops at the first charge that the credit less the charges before it does not
cover. `OldestFirst` is the stable sort both begin with: the list that has every place once, oldest first. `LedgerReads`: `Ask` starts a page, each `Read` is one
of its statements, and between two of them `IssueCharge`, `RecordPayment`, `ApplyCredit` and
`WriteOff` commit, which are the steps of `LedgerTables`, the module `AtomicLedger` is made of (so `Billing`,
which implements it, does nothing else to the tables). `PeriodSummary` keeps the dates rows carry and, as history,
what was owed when each day ended; the summary's two closing queries are operators. A charge may be dated back or
ahead (`generateCharges` takes any `asOf`), and a write-off is its read (`CheckWriteOff`) and its UPDATE by id
(`StampWriteOff`), so that a second one may move the stamp past a close.

`PaymentForm`: `OpenDialog`, `Cancel`, `Edit` (an input and `resetProposal`), `SubmitProposal`,
`SubmitConfirm` and the guard's `Tick` are the operator and the timer; a request is `Serve`d,
then answered (`Proposed`, `Recorded`) or `Fails`, in any order, after any edit, and after
the dialog it came from was closed, because a TanStack mutation that was `reset()` still runs its
`onSuccess`.

### Obligations and the fiscal catalogue

`Obligations`: a generation is `Cron` or `GenerateRequest`, then `SyncDefinition` per
entry, `ListClients`, per client `ReadProfile` and `ReadInstances`, and the transaction at the end
(`EndGeneration`); `Patch`, `CreateAdHoc` with its two writes, `SaveProfile`, `Archive`,
`Restore` and `Midnight` come in between, and `LoseGeneration`, `LoseAdHoc` are crashes.
The table of definitions starts empty, as the migrations leave it: until a generation has entered a code of the
catalogue (a fresh installation, or a release that adds one) `createAdHoc` finds nothing to refuse it by.
A row's `id` is what `deleteMany` goes by, so a key that was deleted and created again is another row.
A profile is what the catalogue makes of it: the codes that apply.

`FiscalCatalogue` has the entries themselves (`tax.ts`, `social-security.ts`,
`individual.ts`), `Calendar` the proleptic Gregorian calendar `Date.UTC` computes, and
`FiscalCalendar` the resolver: `NextPeriod` is a turn of `generatePeriods`, `ShiftDeadline`
one of `nextBusinessDay`, then `PassDay` lets days pass over `groupByUrgency`. Holidays
follow Easter by the code's algorithm, checked against the ecclesiastical definition.

### Attachments and backup

An upload is `open`, `fill`, `rename` of a temporary file, then the INSERT; a removal the
DELETE, then the `unlink`; a download two reads of the disk. A stop may come between any
two, and `ObligationsStep` is the whole of `Obligations` with the cascade of a
retraction added. `Backup` is `backup.sh` command by command, each with its outcome and with what
`set -e` does about it (`Die`); `Application` uploads and removes documents meanwhile.

### The account and the vault

- `VaultKeys`: `BootstrapCheck`/`BootstrapCreate`; `SetUpSalt`, `SetUpLogin`, `SetUpCheck`,
  `SetUpWrite`, `SetUpAnswer`; `RecoverRead`, `RecoverVerify`, `RecoverWrite`, `RecoverAnswer`; unlocks
  (`UnlockStart`, `FetchSalt`, `FetchEnvelope`, `Unwrap`, `CacheEnvelope`, `UnlockOffline`); the
  write-back of the cached envelope by a sync; `Seal` encrypts a credential; `Lose` loses a request
  or an answer. Keys are symbolic: a wrapped key opens under what wrapped it.
- `Sessions`: the statements of `login`, `recoverVault` and `revokeSession`, the cookie of
  each browser (which the client keeps until it is cleared, replaced or old), `Resolves` for
  `resolveSession`, and the gate's screen.
- `VaultSync`: `Create`/`Rotate` stamp a row by the server's clock, `Store` commits it later; `StartSync` to `Finish`
  are the requests of `syncVault` and its IndexedDB transactions; a run may `GiveUp` anywhere. `Finish` puts the cursor
  on what the browser's clock shows, which may be any instant, before or after the server's.
- `Outbox`: `Show`, `Queue`, `List`, `Post`, `Delete` of concurrent flushes; `PostFails` and
  `AnswerLost` are the two ways a POST fails; `CloseTab` drops every flush in flight.
- `VaultScreen`: gestures, timers and answers of decryptions. While the tab is visible a due
  timer fires before time passes; while it is hidden timers run late. The tab stays open.

### The registry

`Clients`, `Employments` and `FiscalProfiles` model the service and the form that calls it,
because what goes wrong is between them: a page of any age, a form that sends only the
fields it changed, a check made by one statement and the write by another, a unique index or an
exclusion constraint that has the last word, a fetch that failed. An employment is ended on any date, today's or
not, so that the end may run into a later spell.

## Runs

Every run ends within five minutes on two workers. `billing_*`, `retainers_*` and
`obligations_*` check deadlock; the other four are sums with parts that end (a walk that is
done, a bound on calls that is used up).

| Run | Checks | Bounds |
|---|---|---|
| `billing_safety` | `IInv` (with `TypeOK`), `NoOverAllocation`, `NoOverdraw`, `LedgerAgreesWithReceivables`, `ForgivenDebtTakesNoMoney` | 1 client; 2 charges, payments, requests; amounts 1, 2; bodies of at most 2 cents |
| `billing_refinement` | `ImplementsLedger`: every request is carried out in one step of `AtomicLedger`, or not at all; `SameClient` | 2 clients, charges, requests, reasons; 1 payment; amounts 1, 2; bodies of at most 2 cents |
| `billing_liveness` | `EveryRequestEnds` | open books of one client, 2 requests, bodies that name a pair for 1 cent at most |
| `retainers_one_run` | `IInv`, `OnePlanEachDay`, `BilledOnce` | 1 client, 3 plans, 2 editors, 1 run, 3 days in 2 months, ONE_OFF, monthly, quarterly |
| `retainers_liveness` | `BegunIsBilled` | 2 clients, 2 plans, 2 days |
| `retainers_two_runs` | `BilledOnce`, **violated** | 2 runs at once |
| `obligations_liveness` | `RetractsForwardOnly`, `DueIsThere`, `LeftoversGo` | 2 years of 2 periods, 1 code, 2 changes of profile, patches, crashes |
| `obligations_your_work` | `NeverTouchesYourWork`, **violated** | 1 year |
| `documents` | requests: `RowsAreBacked`, `ImplementsStore`; nights: `OkBackupRestores`, `AnArchiveIsKept` | 2 attachments, 2 requests, retractions; 3 nights, archives kept 1 |
| `office` | clients: `FieldsHold`, `SavesOfClientsAreSound`; employments: `OneSpellADay`, `CheckAgreesWithConstraint`; profiles: `ProfilesAreCoherent`, `DefaultsReplaceNothingKnown`; by hand: `AdHocSurvives` | 2 tabs; 2 clients, 2 tax ids, 3 forms with 2 edits; 2 spells in 3 days, 3 calls; every profile, 2 or 3 saves |
| `rules` | `FirstInFirstOut`, `AllAgreeOnAllocation`; `DeadlinesHold`, `UrgencyOnlyGrows`; `NoDebtIsHidden`, `LedgerPageIsExact`; `ClosingIsAsItStood`; `DialogPaysOnce` | every list of at most 3 charges and 3 payments, two dates, amounts 0, 1, 3; the whole catalogue over 2023 to 2030 and 100 days of urgency; 2 charges and 1 payment under a page; 3 days, 2 write-offs in flight; 3 requests and 2 openings of the dialog |
| `vault` | keys: `OneVault`; sync: `CacheCatchesUp`; outbox: `RevealsAreKept`; screen: `ScreenForgets`, `SecretsAreTimed`; sessions: `SessionsEnd` | 2 browsers, 2 passwords, 3 random draws; 2 credentials of 1 platform each, 2 syncs, 3 instants of each clock; 2 events, 2 flushes, 2 days; 2 rows, windows of 3 and 2 ticks; 2 sessions, 2 recoveries, 2 days |

**Why the bounds are enough to be of interest.** Two requests, tabs, browsers or flushes
are what every race here takes. Amounts 1 and 2 let a charge be overpaid, paid in part and
in two parts; two charges allow lock cycles; two clients (in `billing_refinement`) a
stale proposal. Three days in two months put a renewal inside a period, at its start and across the
boundary, and three plan ids fit two renewals that race. Two years let a generation of the old year end in the new one. In `documents` a second
attachment under the same obligation races the first, and with archives kept one night the third
night prunes. Three instants fit two stamped writes and a cursor before,
between or past them. In `office` three days and three calls fit two spells and an end that runs into the later one. Three requests
fit a proposal, its stale twin and a confirmation. 2023 to 2030 has two leap years, most weekdays for each
fixed date, and Easters from 28 March to 21 April. What the bounds leave out the theorems cover, where there is one.

**Fairness.** In `Billing` a request's next statement is strongly fair, since Postgres
queues the waiters of a row lock; the deadlock detector is weakly fair. Nothing is assumed
about requests arriving, nor about `Abort`: a liveness that needed failures would be
worthless. In `Retainers` and `Obligations`: a run goes on; the cron fires again and again (strong,
since the model's slot may be busy whenever it would fire); from some time on no
run is lost, which is the least the code needs, since a crash loses the run and only a later cron makes
up for it (a run with nothing to do ends just as it is lost, hence the implication in the
formula). `Retainers` also lets time pass. `Outbox` has a fair specification too
(`FairOutboxSpec`, `QueuedIsLogged`: a queued event reaches the log if a request tried again
and again gets through and not every flush is cut off by a closing tab); it is checked with
`Outbox` alone, the constants of `MCVault.cfg` and two flushes, and not kept as a run.

## Proofs

`tlapm` checks every leaf. Assumptions are the named `ASSUME`s of the modules, which TLC evaluates on
every run: amounts are positive, a calendar has days, `None` is no value, bounds are numbers, tables are
finite. A theorem that needs a hypothesis of its own states it. A proof module extends the module whose
names its theorems state; where that is an `MC` module (documents, office, rules, vault) its constants are
declared there and valued in the cfg only, so the theorem is about all of them.

**`Sums`.** What a client owes is a sum over rows, which the models write with the `SumFunction` of the
community module `Functions`, a fold in an order it does not say. The module proves what the theorems
about money need of it: it is an integer, it can be taken apart at any element or subset, it adds,
it is monotone, and it moves by `d` when one value does. The induction over finite sets goes without the library's induction rules,
by a smallest counterexample: strict inclusion is well founded on the finite subsets of a set.

**`BillingProofs`**, for any clients, rows, requests and amounts: `Invariance`, `TypeCorrect`,
`ChargesNeverOverAllocated`, `PaymentsNeverOverdrawn`, `MoneyStaysWithItsClient`,
`ForgivenDebtIsLeftAlone`, `BillingImplementsLedger`, `PageAgreesWithReceivables`. `NoOverAllocation` is far
from inductive: the INSERT of one transaction and its COMMIT are steps apart, and so is the check from
either. `IInv` is `RowsInv`, about the rows, with `MoneyBalances`, about sums, and `BodiesKept`, about bodies. `RowsInv`
says what a request may rely on between two statements. `ItemLocked`: after a lock statement the
row is the request's. `CheckedStaysTrue`: what a check found still holds at the INSERT, because any
other step that could change the row needs its lock (`StampWriteOff` included: this is why forgiven
debt takes no money). `PendingOnCharges`: a pending allocation implies the charge's lock, and
committed plus pending stays within the charge. `PendingOnPayments`: the same for credit; a payment
being recorded needs no lock, since no other request knows its id (`OwnPayment`). The refinement is
proved from `RowsInv` and `BodiesKept`: of every request in flight, what it has inserted, the line in hand and `rest` are together
its body. So what COMMIT makes visible is the whole of it, and COMMIT is `Commit`; every other way out leaves the tables alone. `MoneyBalances`: what a
client's charges were allocated is what its payments were drawn, and so in every open transaction;
the page's running balance is then the open debt less the unspent credit.

**`RetainersProofs`**, for any clients, plans, calendar, periodicities, runs and editors:
`PlansInvariance`, `PlansTileTheCalendar`, `RetainerTypeCorrect`, `BilledOnceWithOneRun`, `OneRunInvariance`. A renewal
closes the plan *it read*, by id, which may have been closed since. With `OneOpenPlan` the new,
open-ended row then overlaps the plan that is open now, so the exclusion constraint rolls the
renewal back: `WriteTakesOver` proves that a write that passes closed the one open plan. For the last two
theorems two runs must not overlap (`\A r, s \in Run : r = s`, their hypothesis): `retainers_two_runs` is the
counterexample without it. `NothingToBillTwice` is the strengthening.

**`ObligationsProofs`**, for any clients, catalogue, years, generations and editors:
`ObligationsTypeCorrect`, `RetractionIsForward`, `HandmadeStays`. What a generation holds for retraction was
read statements before it is deleted. `RetractInv` says what stays true of it: ids are
never given twice, so a row still there under the id it had ends when it did. `AdHocInv`: a request past its check
asks for a code the table did not have as the catalogue's, its upsert leaves a definition, and whose a definition is
never changes (`DefinitionsStay`); so a row made by hand stands under the accountant's own definition, or under one that
came between the check and the INSERT (`OwnOrOvertaken`), and a generation, which goes by codes of the catalogue, takes no other.

**`DocumentsProofs`**, on top of the former, for any attachments and requests: `DocumentsAreBacked`,
`DocumentsImplementTheStore`. An attachment's id is
made for one upload. `BackedInv`: while an upload writes, no one else has its id and no row has it; a
row's id, and that of a removal, is given up by every upload (`GivenUp`), so nothing writes under it again;
an unlink comes after its row is gone. The refinement maps an id that is still being
written to a fresh one, so `rename` is the store's `Store` and everything before it a stutter. For any
documents, nights and term of keeping: `BackupsRestore`, `LastArchiveStays` (`B` is the backup as
`MCDocuments` instantiates it). `BackupInv` says of each line of the script what the lines before it made
that night, what `OK` so far vouches for, and (`ReadInv`) that a document the dump lists and whose file
is still there has been read by tar or will be: the dump comes first, so an upload during the night is in neither.

**`OfficeProofs`**, for any tabs, clients, texts and days. Employments: `PairsHaveOneSpellADay`,
`CheckAndConstraintAgree`. `SharedDay` relates ranges to days; `ClashIsSharing` shows that the inclusive
comparison of the check, with its open ends, is the constraint's. `RequestInv`: between check and write
the check found nothing *in the table it saw*; if the table is still that one, the constraint passes. Clients:
`FieldsStayTrue`, `SavesAreSound`. `RegisterInv` says what a request past its form may rely on: it sends only
what its kind shows and its user changed, the kind of a row never changes, and a tax id that is looked up is not the
row's own. Profiles: `ProfilesStayCoherent`, `DefaultsReplaceNothing`, for both instances of `FiscalProfiles` in `MCOffice` at
once: `ProfilesInv` takes their tabs and clients as parameters. What a form took for missing was missing when its
page last heard of it (`Unknown`), and what is sent has no violations; that such a profile makes coherent obligations is a
computation on the catalogue itself (`CodesAre` says which entry applies to whom). By hand: `AdHocStays` is `HandmadeStays` for the instance of
`Obligations` in `MCOffice`; it has a proof of its own (`HandmadeInv`), since tlapm does not let a theorem of an instanced module be cited.

**`VaultProofs`**: `LockedScreensForget` and `SecretsLeaveInTime`, for any rows and lengths of the
timers (a decryption a row waits for belongs to an unlocked vault and was asked since the unlock; while the
tab is visible the timer has at most the rest of the window; a secret in the clipboard has a clear armed
that comes in time); `QueuedRevealsAreKept`, for any events and flushes (an event is deleted only by a flush whose
POST was logged, whatever other flush sent it too); `SessionsEndProperly`, for any browsers, recoveries and days (a session
of an older credential was either made late by a login that verified before, or a recovery has still to delete it).
`VaultStaysOne`, for any browsers and draws, from an account with its vault: `KeysInv` says that every key that is about - held,
cached, on paper, in an answer, used to encrypt - is the one the account's row wraps, and that what a call in flight found out still
holds (a set-up that reads the row set up is refused and writes nothing; a recovery keeps the key). `OneSetUpMakesOneVault` starts from nothing, under the
hypothesis that there is one address and one browser sets up: without it the claims `SingleUser` and
`ShownCodeOpensVault` below are the counterexamples. `CopyCatchesUp`, for any credentials, tabs and writers, with the stamps of rows on
the server's clock and the cursor on the browser's: two things leave a credential behind the cursor for good, a write while a sync runs
(`disturbed`) and a stamp the browser's clock had passed when the last sync ended (`overtaken`). `SyncInv` is about the others: no write of
one is in flight while a run is, and every one is newest in the cache or changed since the cursor.

**`RulesProofs`**. `DialogPaysAsProposedOnce`, for any amounts, dates, guard, requests and openings:
a dialog that is open and was not told to expect a repetition has sent no confirmation but the one it waits for
(`WaitsForItsOnly`), and one opened anew has sent none; so a later confirmation of the same opening says `again`.
`PagesHideNoDebt` and `PagesAreExact`, for any clients, charges, payments and commits between the statements of a page: since the
page read the open charges their sum has grown by what was issued at most (`PageInv`), the credit it read
was money received, and a charge it read bills its client what it did. `ClosedDaysAreAsTheyStood`, for any charges, payments and
days, and any number of write-offs in flight: no allocation and no stamp of a write-off carries a date to come (`DatesInOrder`; a charge's date of issue and a
payment's of receipt may be any), so what happens after a day changes what its summary adds up of a charge only as `AsItStood` says: by charges dated to another
side of the close than they were made, or forgiven before it and stamped again after it (`ClosedDaysStand`). `MoneyMeetsChargesInOrder` and `PaperIsTheWalk`, for lists of any length, any
amounts and dates. First, the sort: a list in order exists for any finite set of dated places, by a smallest set without
one, so the `CHOOSE` of `OldestFirst` returns it. Then `WalkInv`: lay debts and money end to end; what was given so far is a stretch from
the beginning (`Laid`, `Even`), of which each pair has what it has in common with both (`GivenInOrder`, `LeftInOrder`), and the fund
and charge in hand have not met (`WalkedOver`, from which no pair is proposed twice). `settleOnPaper` sorts the settled charges
too; they add nothing to a prefix (`DebtUpTo`), so it passes a charge exactly when the walk settles it.

The calendar is division and remainder, which no prover here does at once, so it goes by lemmas about days: how long
a year is and when it begins (`YearFollows`, `YearsApart`), that every day is one date of one month (`DateExists`, `DateIs`), and which
date is the next (`DayAfterIs`). `EasterIsOfTheTables`: from the year 1 on (`Date.UTC` itself reads 0 to 99 as years of the
20th century; the runs and `FiscalYearsAssumption` begin later) the arithmetic of `easterSunday` is the Sunday after
the full moon of the church's tables. The quotients are named and bounded (`EasterParts`), the correction by 451 is taken apart
into the two cases in which it is one (`OrbitIs`), and golden number and century give the same epact (`EpactIs`). So Easter is a Sunday, the movable holidays are Fridays
and Thursdays, and no two fixed holidays are a day apart: the Monday or the Tuesday of any week is a working day (`BusinessSoon`).
`nextBusinessDay`, whose loop has no bound, hence ends within a week (`DeadlinesMoveAWeekAtMost`), and statutory
deadlines of one entry, 28 days apart at least (`RawsApart`), never meet once shifted. `CalendarInv` says of the loops what they have done so
far: cursor, periods and raw deadlines are those of as many turns (`PeriodsAre`), and no working day was passed over
(`ShiftedSoFar`). `DeadlinesAlwaysHold` follows for every entry and year; `UrgencyNeverFallsBack` because the last day of
the month one is in never moves back (`LastGrows`).

**The runs as they are.** `documents`, `office`, `rules` and `vault` compose parts that share no state; a part that is not
played stays in a state it could start from. `DocumentsAllHold`, `OfficeAllHolds`, `RulesAllHold` and `VaultAllHolds` prove
that the specification of the run therefore has every property the run checks, `VaultAllHolds` under the hypothesis of `OneSetUpMakesOneVault`.

**Only model-checked.** Liveness (`EveryRequestEnds`, `BegunIsBilled`, `DueIsThere`, `LeftoversGo`), which needs
fairness and `ENABLED`. What a recursive or folded
definition computes is proved only where a smallest counterexample over finite sets or indices replaces the induction (`Sums`, the sort).

## Where code and documents disagree

Each row is a finding of `PROJECT.json`, which quotes both sides. Two are runs. The others are
operators of the model: named in the configuration in place of its properties, with the change
given, TLC finds them violated.

| Claim | Reproduce with | What happens |
|---|---|---|
| `BilledOnce` | run `retainers_two_runs` | two runs that straddle a renewal charge one period twice |
| `NeverTouchesYourWork` | run `obligations_your_work` | a row marked done after a generation read it is deleted |
| `WriteOffReasonIsFinal` | `MCBilling_safety.cfg`, `Reason = {w1, w2}` | a second write-off overwrites the first one's reason |
| `PaymentCannotDeadlockCredit` | `MCBilling_safety.cfg` | two charges locked in opposite orders (Postgres resolves it, and `EveryRequestEnds` holds) |
| `NoMonthBilledTwice`, `ArchivedIsNotCharged` | `MCRetainers_one_run.cfg` | a quarter's label is not a month's; archived clients are charged |
| `BegunBeforeClosingIsBilled` | `MCRetainers_liveness.cfg` | a period of a plan closed before the next run is never charged |
| `DryRunWritesNothing` | `MCObligations_your_work.cfg` | a preview upserts the definitions |
| `CatalogIsMirrored` | the same, `Custom = {x}`, `Editor = {e1}` | a CUSTOM definition under a code of the catalogue stays one |
| `HandmadeIsTheAccountants` | `MCOffice.cfg` | under a code no generation has entered yet a row made by hand is taken for one of the catalogue's, and retracted |
| `DefinitionComesWithInstance` | `MCOffice.cfg` | a definition whose instance was refused stays |
| `RaceIsNamed` | `MCOffice.cfg` | the race on the tax id is answered with an internal error |
| `AuditSaysWhatMoved` | `MCOffice.cfg`, `EditsTogether = 1` | an audit event says it moved from what its write did not replace |
| `DownloadAnswersInCode` | `MCDocuments.cfg` | a removal between the two reads makes an internal error |
| `PairDescribesOneMoment`, `FailureIsShown` | `MCDocuments.cfg` | a row in the dump without its file in the tar; a script that dies records nothing |
| `CoveredClientIsNotListed` | `MCRules.cfg` | credit applied between two reads lists a client that was covered all along |
| `OnlyChargesOfThen`, `UnappliedCreditStands` | `MCRules.cfg` | rows dated back or ahead change the figures of a closed period |
| `ForgivenByThen` | `MCRules.cfg` | a second write-off moves `writtenOffAt` past a close the first one was before |
| `GuardIsKept` | `MCRules.cfg` | a stale answer starts the guard the shown proposal should have had whole |
| `ShownCodeOpensVault` | `MCVault.cfg`, `SetUpOn = {d1, d2}` | of two set-ups the later replaces the envelopes of a code already shown |
| `SingleUser` | `MCVault.cfg`, `Email = {m1, m2}` | two bootstraps both find no user |
| `CodeShownBeforeFirstCredential` | `MCVault.cfg` | the answer of the set-up is lost, and with it the code |
| `SyncKeepsEnvelope`, `SyncMissesNothing` | `MCVault.cfg` | a sync writes back the meta row it read; a rotation committed during a sync is behind its cursor |
| `QuietWritesAreFetched` | `MCVault.cfg` | the browser's clock is ahead: a rotation while no sync runs is stamped before the cursor and never fetched |
| `LogSaysWhen` | `MCVault.cfg` | the log's date is that of the upload |
| `LockedOnReappearing`, `CopyLastsItsTime` | `MCVault.cfg` | reappearing arms a new window; an earlier copy's timer clears a later one |
| `OnlyTheFreshRemains` | `MCVault.cfg` | a login that verified before a recovery creates its session after it |

One finding is of a comment the model contradicts by a property that holds: `end` is said to lose to the exclusion constraint
"even without a race" (`employments.service.ts:139-143`), but its own check has the constraint's condition, and
`ConstraintOnlyOnRace`, part of `CheckAgreesWithConstraint`, passes for ends on any date.

What the properties claim takes these into account: `AtomicLedger` lets a reason be replaced (`Forgive`),
`CacheCatchesUp` excepts credentials written during a sync and those stamped behind the cursor, `SessionsEnd` excepts
the late login, `OneVault` is checked with one browser that sets up, `ClosingIsAsItStood` counts the charges of a closed
day by the dates they carry, and `AdHocSurvives` excepts rows under a code no generation had entered when the request checked it.

## Not modelled

- The credit sweep's loop at the end of a charge run, dry-run previews of billing, `getCurrentMonth` and the ageing
  buckets: each is a query or a loop over what `Billing` and `LedgerReads` model, without state of its own.
- Full-text search (a Postgres query over a generated column), and the summary's other figures, each a sum of one column.
- The calls of `packages/crypto` into WebCrypto and argon2: `VaultKeys` models what opens what.
- The other forms and lists of the web client (one request each, no protocol), styling, translations, routing.
- Closing or reloading the tab with a secret in the clipboard, which drops the pending clear (`VaultScreen`).
- More than one generation at a time in the runs: the theorems about obligations hold for any number, liveness is checked with one.
  Two charge runs at a time are `retainers_two_runs`.
- Prices and due days within a period: data no step reads. Overflow of the views' 32-bit sums: nothing states a
  bound on totals, and amounts in the model are unbounded.
- Prisma's connection pool, migrations, configuration, the HTTP layer and validation pipes, except where a
  validation decides what reaches a service (in `Clients`, `Employments`, `FiscalProfiles`).

## What could come next

1. The sweep composed with `Billing` and `Allocation`: eventually credit meets due charges.
2. `VaultKeys` and `VaultSync` in one composition, so that a recovery runs during a sync of credentials.
3. The generator on the real catalogue and calendar: `Obligations` with `FiscalCalendar` in place of its abstract periods.
