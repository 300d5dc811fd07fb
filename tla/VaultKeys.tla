------------------------------- MODULE VaultKeys -------------------------------
(***************************************************************************)
(* The account and the keys of its vault: the server's side                *)
(* (apps/api/src/auth/auth.service.ts) and what the browsers do with it    *)
(* (apps/web/src/auth/credentials.ts, apps/web/src/vault/setup.ts,         *)
(* recover.ts, unlock.ts and the envelope kept in IndexedDB).              *)
(*                                                                         *)
(* packages/crypto is symbolic.  What a master password and a salt derive  *)
(* is the pair of them: it is the digest a login is compared with and the  *)
(* key that wraps the vault key.  A wrapped key opens under what wrapped   *)
(* it and nothing else (AES-KW checks its integrity).  Salts, vault keys   *)
(* and recovery codes are numbers drawn once; a set-up draws its vault key *)
(* and its code together.                                                  *)
(*                                                                         *)
(* A request may be lost, and its answer, at any moment.  Sessions are     *)
(* left out: a browser is taken to have one whenever a request needs it.   *)
(***************************************************************************)
EXTENDS Naturals, Sequences

CONSTANTS
  Device,    \* browsers
  SetUpOn,   \* those on which the set-up page is opened
  Email,
  Password,
  MaxDrawn   \* bound: random values drawn

ASSUME SetUpAssumption == SetUpOn \subseteq Device

VARIABLES
  user,    \* Email -> its row in User, NoUser without one
  task,    \* Device -> the set-up, recovery, unlock or bootstrap in flight
  key,     \* Device -> the unlocked vault key, 0 while locked
  cached,  \* Device -> vaultMeta: the salt and envelope last cached, NoEnvelope before
  syncing,    \* Device -> the vaultMeta a running syncVault read, NoEnvelope when none runs
  shown,   \* the recovery codes that were shown
  sealed,  \* the keys credentials were encrypted under
  drawn    \* random values drawn so far

keyVars == <<user, task, key, cached, syncing, shown, sealed, drawn>>

NoUser == [salt |-> 0]
NoWrap == [key |-> 0, under |-> <<>>]
NoEnvelope == [salt |-> 0, protected |-> NoWrap]
Free   == [op |-> "none", step |-> "idle"]

HasUser(e) == user[e] # NoUser
SomeUser == {e \in Email : HasUser(e)}

Derived(password, salt) == <<password, salt>>
Wrap(k, wrapping) == [key |-> k, under |-> wrapping]
Opens(wrapped, wrapping) == wrapped.under = wrapping

KeysInit ==
  /\ user = [e \in Email |-> NoUser]
  /\ task = [d \in Device |-> Free]
  /\ key = [d \in Device |-> 0]
  /\ cached = [d \in Device |-> NoEnvelope]
  /\ syncing = [d \in Device |-> NoEnvelope]
  /\ shown = {} /\ sealed = {} /\ drawn = 0

StartTask(d, t) == task[d] = Free /\ task' = [task EXCEPT ![d] = t]
End(d) == task' = [task EXCEPT ![d] = Free]
At(d, op, step) == task[d].op = op /\ task[d].step = step
Step(d, step) == task' = [task EXCEPT ![d].step = step]
Draw == drawn < MaxDrawn /\ drawn' = drawn + 1

-------------------------------------------------------------------------------
(* The account: createAccount and AuthService.bootstrap *)

\* The salt is drawn in the browser; the server counts the users before it hashes.
BootstrapCheck(d, e, p) ==
  /\ SomeUser = {}
  /\ Draw
  /\ StartTask(d, [op |-> "bootstrap", step |-> "create", email |-> e, password |-> p, salt |-> drawn'])
  /\ UNCHANGED <<user, key, cached, syncing, shown, sealed>>

\* user.create; the unique index on the address refuses the same one twice.
BootstrapCreate(d) ==
  /\ At(d, "bootstrap", "create")
  /\ LET t == task[d]
     IN user' = IF HasUser(t.email) THEN user
                ELSE [user EXCEPT ![t.email] =
                        [salt |-> t.salt, digest |-> Derived(t.password, t.salt), protected |-> NoWrap,
                         recovery |-> NoWrap, proof |-> <<>>, setUp |-> FALSE]]
  /\ End(d)
  /\ UNCHANGED <<key, cached, syncing, shown, sealed, drawn>>

-------------------------------------------------------------------------------
(* Setting the vault up *)

\* GET /auth/kdf, for the password typed again.
SetUpSalt(d, e, p) ==
  /\ d \in SetUpOn /\ HasUser(e)
  /\ StartTask(d, [op |-> "setup", step |-> "login", email |-> e, password |-> p, salt |-> user[e].salt, key |-> 0])
  /\ UNCHANGED <<user, key, cached, syncing, shown, sealed, drawn>>

\* Variant: the vault key is wiped before it is wrapped.
SetUpLoginKeyless(d) ==
  /\ At(d, "setup", "login")
  /\ IF user[task[d].email].digest = Derived(task[d].password, task[d].salt) THEN Step(d, "check") ELSE End(d)
  /\ UNCHANGED <<user, key, cached, syncing, shown, sealed, drawn>>

\* POST /auth/login verifies it before anything is generated.
SetUpLogin(d) ==
  /\ At(d, "setup", "login")
  /\ IF user[task[d].email].digest = Derived(task[d].password, task[d].salt)
     THEN Draw /\ task' = [task EXCEPT ![d].step = "check", ![d].key = drawn']
     ELSE End(d) /\ UNCHANGED drawn
  /\ UNCHANGED <<user, key, cached, syncing, shown, sealed>>

\* Variant: setUpVault does not look at vaultSetUpAt.
SetUpUnchecked(d) ==
  /\ At(d, "setup", "check")
  /\ Step(d, "write")
  /\ UNCHANGED <<user, key, cached, syncing, shown, sealed, drawn>>

\* AuthService.setUpVault: the check, the hashing of the proof, the UPDATE.
SetUpCheck(d) ==
  /\ At(d, "setup", "check")
  /\ IF user[task[d].email].setUp THEN End(d) ELSE Step(d, "write")
  /\ UNCHANGED <<user, key, cached, syncing, shown, sealed, drawn>>

SetUpWrite(d) ==
  /\ At(d, "setup", "write")
  /\ LET t == task[d]
     IN user' = [user EXCEPT
          ![t.email].protected = Wrap(t.key, Derived(t.password, t.salt)),
          ![t.email].recovery = Wrap(t.key, <<"code", t.key>>),
          ![t.email].proof = <<t.key, "code", t.key>>,
          ![t.email].setUp = TRUE]
  /\ Step(d, "answer")
  /\ UNCHANGED <<key, cached, syncing, shown, sealed, drawn>>

\* The browser unlocks, caches the envelope, then shows the code: if IndexedDB
\* fails the promise rejects and the page shows an error instead of the code.
SetUpAnswer(d) ==
  /\ At(d, "setup", "answer")
  /\ LET t == task[d]
     IN /\ key' = [key EXCEPT ![d] = t.key]
        /\ \/ /\ cached' = [cached EXCEPT ![d] = [salt |-> t.salt,
                                                  protected |-> Wrap(t.key, Derived(t.password, t.salt))]]
              /\ shown' = shown \cup {t.key}
           \/ UNCHANGED <<cached, shown>>
  /\ End(d)
  /\ UNCHANGED <<user, syncing, sealed, drawn>>

-------------------------------------------------------------------------------
(* Recovering it with a code that was shown, under a new password *)

\* The recovery envelope; a code that does not unwrap it goes no further.
RecoverRead(d, p, c) ==
  /\ Draw
  /\ \E e \in SomeUser :
       /\ Opens(user[e].recovery, <<"code", c>>)
       /\ StartTask(d, [op |-> "recover", step |-> "verify", email |-> e, password |-> p, salt |-> drawn',
                    key |-> user[e].recovery.key, code |-> c])
  /\ UNCHANGED <<user, key, cached, syncing, shown, sealed>>

\* AuthService.recoverVault: findFirst and the proof, then the UPDATE by id.
RecoverVerify(d) ==
  /\ At(d, "recover", "verify")
  /\ \E e \in SomeUser :
       IF user[e].proof = <<task[d].key, "code", task[d].code>>
       THEN task' = [task EXCEPT ![d].step = "write", ![d].email = e]
       ELSE End(d)
  /\ UNCHANGED <<user, key, cached, syncing, shown, sealed, drawn>>

\* Variant: the UPDATE of recoverVault forgets kdfSalt.
RecoverWriteKeepingSalt(d) ==
  /\ At(d, "recover", "write")
  /\ LET t == task[d]
     IN user' = [user EXCEPT
          ![t.email].digest = Derived(t.password, t.salt),
          ![t.email].protected = Wrap(t.key, Derived(t.password, t.salt))]
  /\ Step(d, "answer")
  /\ UNCHANGED <<key, cached, syncing, shown, sealed, drawn>>

RecoverWrite(d) ==
  /\ At(d, "recover", "write")
  /\ LET t == task[d]
     IN user' = [user EXCEPT
          ![t.email].salt = t.salt,
          ![t.email].digest = Derived(t.password, t.salt),
          ![t.email].protected = Wrap(t.key, Derived(t.password, t.salt))]
  /\ Step(d, "answer")
  /\ UNCHANGED <<key, cached, syncing, shown, sealed, drawn>>

RecoverAnswer(d) ==
  /\ At(d, "recover", "answer")
  /\ LET t == task[d]
     IN /\ key' = [key EXCEPT ![d] = t.key]
        /\ cached' = [cached EXCEPT ![d] = [salt |-> t.salt, protected |-> Wrap(t.key, Derived(t.password, t.salt))]]
  /\ End(d)
  /\ UNCHANGED <<user, syncing, shown, sealed, drawn>>

-------------------------------------------------------------------------------
(* Unlocking *)

\* resolveEnvelope asks for the envelope and for the salt at once.
UnlockStart(d, e, p) ==
  /\ HasUser(e)
  /\ StartTask(d, [op |-> "unlock", step |-> "fetch", email |-> e, password |-> p, got |-> {},
               salt |-> 0, protected |-> NoWrap])
  /\ UNCHANGED <<user, key, cached, syncing, shown, sealed, drawn>>

FetchSalt(d) ==
  /\ At(d, "unlock", "fetch") /\ "salt" \notin task[d].got
  /\ task' = [task EXCEPT ![d].got = @ \cup {"salt"}, ![d].salt = user[task[d].email].salt]
  /\ UNCHANGED <<user, key, cached, syncing, shown, sealed, drawn>>

FetchEnvelope(d) ==
  /\ At(d, "unlock", "fetch") /\ "envelope" \notin task[d].got
  /\ task' = [task EXCEPT ![d].got = @ \cup {"envelope"}, ![d].protected = user[task[d].email].protected]
  /\ UNCHANGED <<user, key, cached, syncing, shown, sealed, drawn>>

\* Variant: the answers are cached before the password is tried on them.
UnwrapLater(d) ==
  /\ At(d, "unlock", "fetch") /\ task[d].got = {"salt", "envelope"}
  /\ Step(d, "cache")
  /\ UNCHANGED <<user, key, cached, syncing, shown, sealed, drawn>>

\* A vault that is not set up or a wrong password ends it.
Unwrap(d) ==
  /\ At(d, "unlock", "fetch") /\ task[d].got = {"salt", "envelope"}
  /\ IF Opens(task[d].protected, Derived(task[d].password, task[d].salt))
     THEN key' = [key EXCEPT ![d] = task[d].protected.key] /\ Step(d, "cache")
     ELSE End(d) /\ UNCHANGED key
  /\ UNCHANGED <<user, cached, syncing, shown, sealed, drawn>>

CacheEnvelope(d) ==
  /\ At(d, "unlock", "cache")
  /\ cached' = [cached EXCEPT ![d] = [salt |-> task[d].salt, protected |-> task[d].protected]]
  /\ End(d)
  /\ UNCHANGED <<user, key, syncing, shown, sealed, drawn>>

\* No answer from the server: the cached envelope.
UnlockOffline(d, p) ==
  /\ task[d] = Free /\ cached[d] # NoEnvelope
  /\ Opens(cached[d].protected, Derived(p, cached[d].salt))
  /\ key' = [key EXCEPT ![d] = cached[d].protected.key]
  /\ UNCHANGED <<user, task, cached, syncing, shown, sealed, drawn>>

\* The inactivity timer, the button, the menu.
DropKey(d) ==
  /\ key[d] # 0
  /\ key' = [key EXCEPT ![d] = 0]
  /\ UNCHANGED <<user, task, cached, syncing, shown, sealed, drawn>>

-------------------------------------------------------------------------------

\* syncVault begins with vaultMeta and ends by putting it back with a new cursor.
SyncReadsMeta(d) ==
  /\ syncing[d] = NoEnvelope /\ cached[d] # NoEnvelope
  /\ syncing' = [syncing EXCEPT ![d] = cached[d]]
  /\ UNCHANGED <<user, task, key, cached, shown, sealed, drawn>>

SyncPutsMeta(d) ==
  /\ syncing[d] # NoEnvelope
  /\ cached' = [cached EXCEPT ![d] = syncing[d]]
  /\ syncing' = [syncing EXCEPT ![d] = NoEnvelope]
  /\ UNCHANGED <<user, task, key, shown, sealed, drawn>>

\* create or rotate: encrypted under the unlocked key, refused before a set-up (assertVaultSetUp).
Seal(d) ==
  /\ key[d] # 0
  /\ \E e \in SomeUser : user[e].setUp
  /\ sealed' = sealed \cup {key[d]}
  /\ UNCHANGED <<user, task, key, cached, syncing, shown, drawn>>

\* A request or its answer is lost, a tab is closed in the middle.
Lose(d) ==
  /\ task[d] # Free
  /\ End(d)
  /\ UNCHANGED <<user, key, cached, syncing, shown, sealed, drawn>>

LoseSync(d) ==
  /\ syncing[d] # NoEnvelope
  /\ syncing' = [syncing EXCEPT ![d] = NoEnvelope]
  /\ UNCHANGED <<user, task, key, cached, shown, sealed, drawn>>

KeysNext ==
  \E d \in Device :
    \/ \E e \in Email, p \in Password : BootstrapCheck(d, e, p) \/ SetUpSalt(d, e, p) \/ UnlockStart(d, e, p)
    \/ BootstrapCreate(d)
    \/ SetUpLogin(d) \/ SetUpCheck(d) \/ SetUpWrite(d) \/ SetUpAnswer(d)
    \/ \E p \in Password, c \in shown : RecoverRead(d, p, c)
    \/ RecoverVerify(d) \/ RecoverWrite(d) \/ RecoverAnswer(d)
    \/ FetchSalt(d) \/ FetchEnvelope(d) \/ Unwrap(d) \/ CacheEnvelope(d)
    \/ \E p \in Password : UnlockOffline(d, p)
    \/ DropKey(d) \/ SyncReadsMeta(d) \/ SyncPutsMeta(d) \/ Seal(d) \/ Lose(d) \/ LoseSync(d)

KeysSpec == KeysInit /\ [][KeysNext]_keyVars

\* Some time after a set-up whose code was noted.
SetUpInit ==
  \E e \in Email, p \in Password :
    /\ user = [x \in Email |-> IF x # e THEN NoUser ELSE
                 [salt |-> 1, digest |-> Derived(p, 1), protected |-> Wrap(2, Derived(p, 1)),
                  recovery |-> Wrap(2, <<"code", 2>>), proof |-> <<2, "code", 2>>, setUp |-> TRUE]]
    /\ task = [d \in Device |-> Free]
    /\ key = [d \in Device |-> 0]
    /\ cached = [d \in Device |-> NoEnvelope]
    /\ syncing = [d \in Device |-> NoEnvelope]
    /\ shown = {2} /\ sealed = {2} /\ drawn = 2

SetUpKeysSpec == SetUpInit /\ [][KeysNext]_keyVars

-------------------------------------------------------------------------------
(* Properties *)

Drawn == 1..drawn
Wraps == {NoWrap} \cup {Wrap(k, Derived(p, s)) : k \in Drawn, p \in Password, s \in Drawn}

KeysTypeOK ==
  /\ \A e \in SomeUser : user[e].salt \in Drawn /\ user[e].protected \in Wraps /\ user[e].setUp \in BOOLEAN
  /\ \A d \in Device : key[d] \in 0..drawn /\ cached[d].protected \in Wraps /\ syncing[d].protected \in Wraps
  /\ shown \subseteq Drawn /\ sealed \subseteq Drawn

\* The password that logs in opens the vault: salt, digest and envelope belong together, however
\* set-ups, recoveries and lost requests interleave.
PasswordOpensVault ==
  \A e \in SomeUser :
    /\ user[e].digest[2] = user[e].salt
    /\ user[e].setUp => Opens(user[e].protected, user[e].digest)

\* Password and code open the same vault, and a code that was shown is the one that opens it.
CodeOpensSameVault ==
  \A e \in SomeUser :
    /\ user[e].protected.key = user[e].recovery.key
    /\ user[e].setUp => user[e].proof = <<user[e].recovery.key>> \o user[e].recovery.under
    /\ \A c \in shown : Opens(user[e].recovery, <<"code", c>>)

\* Whatever was encrypted, on whatever browser, before or after a recovery, online or from the
\* cache, is under the key of the vault.
OneKeySealsAll ==
  \A e \in SomeUser : sealed \cup {key[d] : d \in {x \in Device : key[x] # 0}} \subseteq {user[e].protected.key}

\* A cached envelope was opened once with the salt cached beside it: the two requests of an
\* unlock that straddle a recovery never leave a pair no password opens.
CachedPairOpens ==
  \A d \in Device : cached[d] # NoEnvelope => \E p \in Password : Opens(cached[d].protected, Derived(p, cached[d].salt))

\* The password, the code, the cached envelopes and what was encrypted belong to one vault.
OneVault ==
  KeysTypeOK /\ PasswordOpensVault /\ CodeOpensSameVault /\ OneKeySealsAll /\ CachedPairOpens

\* unlock.ts:12: offline, unlocking "falls back to the last cached copy"; a synchronisation does
\* not bring an earlier one back.
SyncKeepsEnvelope ==
  [][\A d \in Device : SyncPutsMeta(d) => cached'[d] = cached[d]]_keyVars

\* The design (section 9.2): storing the code has to be confirmed "before the first credential
\* can be created".
CodeShownBeforeFirstCredential == sealed # {} => shown # {}

\* auth.service.ts:84: a second account is refused (auth.already_bootstrapped).
SingleUser == \A e, f \in SomeUser : e = f

\* auth.service.ts:132: a second set-up is refused (vault.already_set_up), so the code on paper
\* stays the other way to the vault.
ShownCodeOpensVault == \A e \in SomeUser, c \in shown : Opens(user[e].recovery, <<"code", c>>)
===============================================================================
