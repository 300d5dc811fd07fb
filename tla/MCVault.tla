-------------------------------- MODULE MCVault --------------------------------
(***************************************************************************)
(* The account and its vault: who is signed in, the keys, the offline      *)
(* copy, the log of reveals and the unlocked screen.  The five models      *)
(* share no state, so one run checks them one after another: the first     *)
(* state says which part is played, and the others keep their initial      *)
(* state.                                                                  *)
(***************************************************************************)
EXTENDS VaultKeys, VaultSync, Outbox, VaultScreen, Sessions, TLC

CONSTANTS c1, c2, p1, p2   \* credentials and platforms: OnPlatform is given for them

VARIABLE part

OnePlatformEach == (c1 :> p1) @@ (c2 :> p2)
OnePlatform     == c1 :> p1

VaultInit ==
  /\ part \in {"keys", "sync", "outbox", "screen", "sessions"}
  /\ KeysInit /\ SyncInit /\ OutboxInit /\ ScreenInit /\ SessionsInit

VaultNext ==
  \/ part = "keys" /\ KeysNext /\ UNCHANGED <<part, syncVars, outboxVars, screenVars, sessionVars>>
  \/ part = "sync" /\ SyncNext /\ UNCHANGED <<part, keyVars, outboxVars, screenVars, sessionVars>>
  \/ part = "outbox" /\ OutboxNext /\ UNCHANGED <<part, keyVars, syncVars, screenVars, sessionVars>>
  \/ part = "screen" /\ ScreenNext /\ UNCHANGED <<part, keyVars, syncVars, outboxVars, sessionVars>>
  \/ part = "sessions" /\ SessionsNext /\ UNCHANGED <<part, keyVars, syncVars, outboxVars, screenVars>>

VaultSpec == VaultInit /\ [][VaultNext]_<<part, keyVars, syncVars, outboxVars, screenVars, sessionVars>>

PasswordSymmetry == Permutations(Password)

===============================================================================
