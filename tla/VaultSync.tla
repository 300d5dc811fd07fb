------------------------------- MODULE VaultSync -------------------------------
(***************************************************************************)
(* Credentials on the server (apps/api/src/vault/credentials.service.ts,   *)
(* platforms.service.ts) and the copy a browser keeps for working offline  *)
(* (apps/web/src/vault/sync.ts, vault-db.ts).                              *)
(*                                                                         *)
(* A credential is one client, platform and label.  Its ciphertexts are    *)
(* only ever added to; a version is known by the instant it was stamped    *)
(* with.  The API stamps a write when the write starts and PostgreSQL      *)
(* shows it when it commits, so a stamp may appear after a later one.      *)
(* No two of those stamps coincide.  The cursor of a browser is read off   *)
(* its own clock, which may show any instant, before or after the server's.*)
(* The content of a credential is opaque.                                  *)
(***************************************************************************)
EXTENDS Naturals, FiniteSets

CONSTANTS
  Credential,   \* the (client, platform, label) triples of credentials
  Platform,
  OnPlatform,   \* Credential -> its platform
  Writer,       \* requests that write credentials
  Syncer,       \* runs of syncVault: effects of one tab, and other tabs
  MaxClock,     \* bound: instants, of either clock
  MaxRevision   \* bound: changes of one platform

ASSUME OnPlatformAssumption == OnPlatform \in [Credential -> Platform]
ASSUME SyncBounds == MaxClock \in Nat \ {0} /\ MaxRevision \in Nat

VARIABLES
  clock,            \* the server's, at its last stamp
  platforms,        \* Platform -> its revision, 0 while it does not exist
  rows,             \* Credential -> [versions, updatedAt]; no version, no row
  write,            \* Writer -> the write in flight
  cachedPlatforms,  \* Platform -> the revision in IndexedDB, 0 when not there
  cache,            \* Credential -> [version, updatedAt] in IndexedDB
  meta,             \* lastSyncedAt of vaultMeta, NoMeta without a record
  sync,             \* Syncer -> the run of syncVault in flight
  disturbed,        \* history: credentials written while a sync was running
  overtaken         \* history: credentials last stored under a stamp the cursor was past already

syncVars == <<clock, platforms, rows, write, cachedPlatforms, cache, meta, sync, disturbed, overtaken>>

Instant  == 1..MaxClock
Never    == 0                \* lastSyncedAt: null
NoMeta   == MaxClock + 1     \* stands for the missing record
NoRow    == [versions |-> {}, updatedAt |-> 0]
NotKept  == [version |-> 0, updatedAt |-> 0]
NoWrite  == [op |-> "none"]
NoSync   == [step |-> "idle"]

Exists(c) == rows[c].versions # {}
Running == {s \in Syncer : sync[s] # NoSync}
Written == {write[w].credential : w \in {v \in Writer : write[v] # NoWrite}}

\* Variant: the oldest version first.
Earliest(versions) == CHOOSE v \in versions : \A u \in versions : v <= u

\* LATEST_VERSION: versions ordered by createdAt, newest first, one taken.
Latest(versions) == CHOOSE v \in versions : \A u \in versions : u <= v

\* toResponse: the row with its latest version.
Response(c) == [version |-> Latest(rows[c].versions), updatedAt |-> rows[c].updatedAt]

SyncInit ==
  /\ clock = 1
  /\ platforms = [p \in Platform |-> 0]
  /\ rows = [c \in Credential |-> NoRow]
  /\ write = [w \in Writer |-> NoWrite]
  /\ cachedPlatforms = [p \in Platform |-> 0]
  /\ cache = [c \in Credential |-> NotKept]
  /\ meta = NoMeta
  /\ sync = [s \in Syncer |-> NoSync]
  /\ disturbed = {}
  /\ overtaken = {}

(***************************************************************************)
(* The server.                                                             *)
(***************************************************************************)

\* POST and PATCH /platforms: a platform appears, or its name or URL changes.
WritePlatform(p) ==
  /\ platforms[p] < MaxRevision
  /\ platforms' = [platforms EXCEPT ![p] = @ + 1]
  /\ UNCHANGED <<clock, rows, write, cachedPlatforms, cache, meta, sync, disturbed, overtaken>>

Begin(w, c, op) ==
  /\ write[w] = NoWrite
  /\ clock < MaxClock
  /\ clock' = clock + 1
  /\ write' = [write EXCEPT ![w] = [op |-> op, credential |-> c, stamp |-> clock + 1]]
  /\ disturbed' = IF Running # {} THEN disturbed \union {c} ELSE disturbed
  /\ UNCHANGED <<platforms, rows, cachedPlatforms, cache, meta, sync, overtaken>>

\* create, up to its INSERT: the platform was found.  That the client exists
\* and the vault is set up is not about what is cached.
Create(w, c) == platforms[OnPlatform[c]] > 0 /\ Begin(w, c, "create")

\* rotate, up to its transaction: findOne found the credential.
Rotate(w, c) == Exists(c) /\ Begin(w, c, "rotate")

\* A browser with this cursor asks for the row: GET /vault/sync wants a later updatedAt, or has no
\* cursor to go by.
Asks(cursor, updatedAt) == cursor \in {NoMeta, Never} \/ updatedAt > cursor

\* Variant: the row's updatedAt is left to whoever touches its own columns.
StoreUntouched(w) ==
  LET c == write[w].credential IN
  /\ write[w] # NoWrite
  /\ write[w].op = "create" => ~Exists(c)
  /\ rows' = [rows EXCEPT ![c].versions = @ \union {write[w].stamp}]
  /\ write' = [write EXCEPT ![w] = NoWrite]
  /\ UNCHANGED <<clock, platforms, cachedPlatforms, cache, meta, sync, disturbed, overtaken>>

\* The INSERT of a row and its first version, or of one more version with the
\* row's updatedAt; a second row of one triple fails (credentials.label_taken).
Store(w) ==
  LET c == write[w].credential IN
  /\ write[w] # NoWrite
  /\ write[w].op = "create" => ~Exists(c)
  /\ rows' = [rows EXCEPT ![c] = [versions |-> @.versions \union {write[w].stamp},
                                  updatedAt |-> write[w].stamp]]
  /\ write' = [write EXCEPT ![w] = NoWrite]
  /\ overtaken' = IF Asks(meta, write[w].stamp) THEN overtaken \ {c} ELSE overtaken \union {c}
  /\ UNCHANGED <<clock, platforms, cachedPlatforms, cache, meta, sync, disturbed>>

\* The write fails: its label is taken, or the database is away.
WriteFails(w) ==
  /\ write[w] # NoWrite
  /\ write' = [write EXCEPT ![w] = NoWrite]
  /\ UNCHANGED <<clock, platforms, rows, cachedPlatforms, cache, meta, sync, disturbed, overtaken>>

(***************************************************************************)
(* The browser.                                                            *)
(***************************************************************************)

\* putVaultMeta of an unlock, which keeps lastSyncedAt, and of a set-up or a
\* recovery, which starts over.
KeepEnvelope ==
  /\ meta # Never
  /\ meta' = Never
  /\ UNCHANGED <<clock, platforms, rows, write, cachedPlatforms, cache, sync, disturbed, overtaken>>

\* getVaultMeta, and the platforms asked for.
StartSync(s) ==
  /\ sync[s] = NoSync
  /\ sync' = [sync EXCEPT ![s] = [step |-> "platforms", meta |-> meta]]
  /\ disturbed' = disturbed \union Written
  /\ UNCHANGED <<clock, platforms, rows, write, cachedPlatforms, cache, meta, overtaken>>

AnswerPlatforms(s) ==
  /\ sync[s].step = "platforms"
  /\ sync' = [sync EXCEPT ![s] = [step |-> "put platforms", meta |-> @.meta, answer |-> platforms]]
  /\ UNCHANGED <<clock, platforms, rows, write, cachedPlatforms, cache, meta, disturbed, overtaken>>

\* Variant: platforms are kept only the first time.
KeepFirstPlatforms(s) ==
  /\ sync[s].step = "put platforms"
  /\ cachedPlatforms' = IF \A p \in Platform : cachedPlatforms[p] = 0 THEN sync[s].answer ELSE cachedPlatforms
  /\ sync' = [sync EXCEPT ![s] = [step |-> "credentials", meta |-> @.meta]]
  /\ UNCHANGED <<clock, platforms, rows, write, cache, meta, disturbed, overtaken>>

\* putCachedPlatforms; a platform is never removed, on either side.
PutPlatforms(s) ==
  /\ sync[s].step = "put platforms"
  /\ cachedPlatforms' = [p \in Platform |-> IF sync[s].answer[p] > 0 THEN sync[s].answer[p]
                                            ELSE cachedPlatforms[p]]
  /\ sync' = [sync EXCEPT ![s] = [step |-> "credentials", meta |-> @.meta]]
  /\ UNCHANGED <<clock, platforms, rows, write, cache, meta, disturbed, overtaken>>

\* Variant: the cursor is taken for the first instant still wanted, one too late.
AskedAfter(cursor) ==
  {c \in Credential : Exists(c) /\ (cursor \in {NoMeta, Never} \/ rows[c].updatedAt > cursor + 1)}

\* GET /vault/sync: the credentials updated after the cursor, all without one.
ChangedSince(cursor) ==
  {c \in Credential : Exists(c) /\ Asks(cursor, rows[c].updatedAt)}

AnswerCredentials(s) ==
  /\ sync[s].step = "credentials"
  /\ sync' = [sync EXCEPT ![s] =
       [step |-> "put credentials", meta |-> @.meta,
        answer |-> [c \in ChangedSince(sync[s].meta) |-> Response(c)]]]
  /\ UNCHANGED <<clock, platforms, rows, write, cachedPlatforms, cache, meta, disturbed, overtaken>>

\* putCachedCredentials: one transaction.
PutCredentials(s) ==
  /\ sync[s].step = "put credentials"
  /\ cache' = [c \in Credential |-> IF c \in DOMAIN sync[s].answer THEN sync[s].answer[c] ELSE cache[c]]
  /\ sync' = [sync EXCEPT ![s] = [step |-> "finish", meta |-> @.meta]]
  /\ UNCHANGED <<clock, platforms, rows, write, cachedPlatforms, meta, disturbed, overtaken>>

\* The cursor becomes what the browser's own clock shows, after the answer was
\* kept; a browser that had no vaultMeta when the sync began keeps none.
Finish(s, now) ==
  /\ sync[s].step = "finish"
  /\ meta' = IF sync[s].meta = NoMeta THEN meta ELSE now
  /\ sync' = [sync EXCEPT ![s] = NoSync]
  /\ UNCHANGED <<clock, platforms, rows, write, cachedPlatforms, cache, disturbed, overtaken>>

\* Variant: the cursor moves even when the answer never came.
GiveUpButFinish(s) ==
  /\ sync[s].step \in {"platforms", "credentials"}
  /\ sync[s].meta # NoMeta /\ meta' \in Instant
  /\ sync' = [sync EXCEPT ![s] = NoSync]
  /\ UNCHANGED <<clock, platforms, rows, write, cachedPlatforms, cache, disturbed, overtaken>>

\* A request fails, or the tab closes: the next sync starts from the old cursor.
GiveUp(s) ==
  /\ sync[s] # NoSync
  /\ sync' = [sync EXCEPT ![s] = NoSync]
  /\ UNCHANGED <<clock, platforms, rows, write, cachedPlatforms, cache, meta, disturbed, overtaken>>

SyncNext ==
  \/ \E p \in Platform : WritePlatform(p)
  \/ \E w \in Writer : \/ \E c \in Credential : Create(w, c) \/ Rotate(w, c)
                       \/ Store(w) \/ WriteFails(w)
  \/ KeepEnvelope
  \/ \E s \in Syncer :
       \/ StartSync(s) \/ AnswerPlatforms(s) \/ PutPlatforms(s)
       \/ AnswerCredentials(s) \/ PutCredentials(s) \/ GiveUp(s)
       \/ \E now \in Instant : Finish(s, now)

SyncSpec == SyncInit /\ [][SyncNext]_syncVars

(***************************************************************************)
(* Properties.                                                             *)
(***************************************************************************)

Kept == [version : 0..MaxClock, updatedAt : 0..MaxClock]

\* Types; every row has a version, and its updatedAt is the stamp of one.
SyncTypeOK ==
  /\ clock \in Instant
  /\ platforms \in [Platform -> 0..MaxRevision]
  /\ cachedPlatforms \in [Platform -> 0..MaxRevision]
  /\ \A c \in Credential :
       /\ rows[c].versions \subseteq 1..clock
       /\ rows[c].updatedAt \in (IF Exists(c) THEN rows[c].versions ELSE {0})
  /\ write \in [Writer -> {NoWrite} \union
                 [op : {"create", "rotate"}, credential : Credential, stamp : Instant]]
  /\ cache \in [Credential -> Kept]
  /\ meta \in 0..MaxClock + 1
  /\ \A s \in Syncer :
       \/ sync[s].step \in {"idle", "platforms", "credentials", "finish"}
       \/ sync[s].step = "put platforms" /\ sync[s].answer \in [Platform -> 0..MaxRevision]
       \/ sync[s].step = "put credentials" /\ DOMAIN sync[s].answer \subseteq Credential
  /\ disturbed \subseteq Credential /\ overtaken \subseteq Credential

\* What the next sync will not ask for is what the cache already holds.
InReach(c) == Asks(meta, rows[c].updatedAt)
HoldsNewest(c) == \A v \in rows[c].versions : v <= cache[c].version
Fresh(c) == Exists(c) => HoldsNewest(c) \/ InReach(c)

\* A credential is left stale for good in two ways only: written while a sync was running, or
\* stored under a stamp the browser's clock had passed when the last sync ended.  Of every other
\* one the cache has the latest version, or the next sync still asks for it, though syncs overlap
\* one another, fail at any request and are started over by a new envelope.
NothingIsLeftStale == \A c \in Credential \ (disturbed \union overtaken) : Fresh(c)

\* sync.ts:7: a sync fetches "every credential changed since the last successful sync".
QuietWritesAreFetched == \A c \in Credential \ disturbed : Fresh(c)

\* The design, for credentials written at any moment and two clocks that agree: it asks for the
\* credentials changed since the last known updatedAt, the code for those changed since the
\* browser finished its last sync, which misses what committed in between.
SyncMissesNothing == \A c \in Credential \ overtaken : Fresh(c)

\* A credential kept for offline use shows under its platform's name: the
\* catalogue is fetched before the credentials that refer to it.
PlatformIsKnown ==
  \A c \in Credential \ disturbed :
    cache[c] # NotKept => cachedPlatforms[OnPlatform[c]] > 0

\* What the cache lacks, the next sync asks for, and every name it shows is known.
CacheCatchesUp == SyncTypeOK /\ NothingIsLeftStale /\ PlatformIsKnown
===============================================================================
