------------------------------ MODULE VaultScreen ------------------------------
(***************************************************************************)
(* An unlocked vault in one tab: the inactivity lock                       *)
(* (apps/web/src/vault/vault-session.ts), the credentials of a client      *)
(* (CredentialsSection.tsx behind VaultUnlockGate.tsx, CredentialRow.tsx,  *)
(* AddCredentialForm.tsx) and the clipboard (clipboard.ts).                *)
(*                                                                         *)
(* Time passes in ticks.  While the tab is visible a timer that is due     *)
(* runs before time goes on; while it is hidden, throttled or the machine  *)
(* asleep, timers run late.  Every gesture of the user is a pointerdown or *)
(* a keydown, which reaches noteActivity before anything else.             *)
(***************************************************************************)
EXTENDS Naturals

CONSTANTS
  Entry,
  InactivityLock,   \* INACTIVITY_LOCK_MS, in ticks
  ClipboardClear    \* CLIPBOARD_CLEAR_MS, in ticks

ASSUME TicksAssumption == InactivityLock \in Nat \ {0} /\ ClipboardClear \in Nat \ {0}

VARIABLES
  unlocked,
  lockIn,       \* ticks left of the inactivity timer; Off when there is none
  hidden,       \* the tab is hidden
  items,        \* credentials whose decrypted item is in a row's state
  decrypting,   \* credentials -> where a reveal in flight belongs
  rotating,     \* credentials whose rotation dialog is open
  creating,     \* the new credential dialog is open
  clipboard,    \* what it holds
  clearIn,      \* ticks left of each pending clear
  noted,        \* history: ticks since noteActivity or the unlock
  touched,      \* history: ticks since the user's last gesture
  copied,       \* history: ticks since the last copy of a secret
  excused,      \* history: a clear was refused, or ran late in a hidden tab
  asked         \* history: what the user opened since the unlock

screenVars == <<unlocked, lockIn, hidden, items, decrypting, rotating, creating,
                clipboard, clearIn, noted, touched, copied, excused, asked>>

Off == InactivityLock + 1

ScreenInit ==
  /\ unlocked = FALSE /\ lockIn = Off /\ hidden = FALSE
  /\ items = {} /\ rotating = {} /\ creating = FALSE
  /\ decrypting = [c \in Entry |-> "none"]
  /\ clipboard = "empty" /\ clearIn = {}
  /\ noted = 0 /\ touched = 0 /\ copied = 0 /\ excused = FALSE /\ asked = {}

(***************************************************************************)
(* vault-session.ts                                                        *)
(***************************************************************************)

\* resetInactivityTimer, if unlocked.
NoteActivity ==
  /\ lockIn' = IF unlocked THEN InactivityLock ELSE lockIn
  /\ noted' = 0

\* A gesture of the user.
Touch == ~hidden /\ NoteActivity /\ touched' = 0

\* Variant: the timer starts with the first gesture.
UnlockUntimed ==
  /\ ~unlocked /\ ~hidden
  /\ unlocked' = TRUE /\ lockIn' = Off
  /\ noted' = 0 /\ touched' = 0 /\ asked' = {}
  /\ UNCHANGED <<hidden, items, decrypting, rotating, creating, clipboard, clearIn, copied, excused>>

\* unlockVault: after a password, a set-up or a recovery.
Unlock ==
  /\ ~unlocked /\ ~hidden
  /\ unlocked' = TRUE /\ lockIn' = InactivityLock
  /\ noted' = 0 /\ touched' = 0 /\ asked' = {}
  /\ UNCHANGED <<hidden, items, decrypting, rotating, creating, clipboard, clearIn, copied, excused>>

\* The rows go: what they held is dropped, and a decryption still running will
\* find nobody to give its result to.
Unmount ==
  /\ items' = {} /\ rotating' = {}
  /\ decrypting' = [c \in Entry |-> IF decrypting[c] = "none" THEN "none" ELSE "orphan"]

\* Variant: the dialog above the gate is left as it is.
LockBelowGate ==
  /\ unlocked' = FALSE /\ lockIn' = Off
  /\ Unmount /\ creating' = creating

\* Variant: the key is dropped and the rows are kept.
LockKeyOnly ==
  /\ unlocked' = FALSE /\ lockIn' = Off /\ creating' = FALSE
  /\ UNCHANGED <<items, rotating, decrypting>>

\* lockVault, and what its subscribers do: the gate takes the list away, the
\* section above it closes its dialog.
LockVault ==
  /\ unlocked' = FALSE /\ lockIn' = Off
  /\ Unmount /\ creating' = FALSE

LockNow ==
  /\ unlocked /\ ~hidden /\ touched' = 0 /\ noted' = 0
  /\ LockVault
  /\ UNCHANGED <<hidden, clipboard, clearIn, copied, excused, asked>>

InactivityFires ==
  /\ lockIn = 0
  /\ LockVault
  /\ UNCHANGED <<hidden, clipboard, clearIn, noted, touched, copied, excused, asked>>

Move ==
  /\ Touch
  /\ UNCHANGED <<unlocked, hidden, items, decrypting, rotating, creating, clipboard, clearIn, copied, excused, asked>>

Hide ==
  /\ ~hidden /\ hidden' = TRUE
  /\ UNCHANGED <<unlocked, lockIn, items, decrypting, rotating, creating, clipboard, clearIn, noted, touched, copied, excused, asked>>

\* visibilitychange: the tab is back, which counts as activity; a timer that
\* fell due meanwhile may not have run yet.
Reappear ==
  /\ hidden /\ hidden' = FALSE
  /\ NoteActivity
  /\ UNCHANGED <<unlocked, items, decrypting, rotating, creating, clipboard, clearIn, touched, copied, excused, asked>>

(***************************************************************************)
(* CredentialsSection and CredentialRow.                                   *)
(***************************************************************************)

\* reveal: the decryption is awaited.
Reveal(c) ==
  /\ unlocked /\ c \notin items /\ decrypting[c] = "none"
  /\ Touch
  /\ decrypting' = [decrypting EXCEPT ![c] = "row"]
  /\ asked' = asked \union {c}
  /\ UNCHANGED <<unlocked, hidden, items, rotating, creating, clipboard, clearIn, copied, excused>>

\* Variant: the result is kept by whoever shows that credential now.
DecryptedAnywhere(c) ==
  /\ decrypting[c] # "none"
  /\ items' = items \union {c}
  /\ decrypting' = [decrypting EXCEPT ![c] = "none"]
  /\ UNCHANGED <<unlocked, lockIn, hidden, rotating, creating, clipboard, clearIn, noted, touched, copied, excused, asked>>

\* setItem: only the row that asked can show it.  recordReveal follows.
Decrypted(c) ==
  /\ decrypting[c] # "none"
  /\ items' = IF decrypting[c] = "row" THEN items \union {c} ELSE items
  /\ decrypting' = [decrypting EXCEPT ![c] = "none"]
  /\ UNCHANGED <<unlocked, lockIn, hidden, rotating, creating, clipboard, clearIn, noted, touched, copied, excused, asked>>

Conceal(c) ==
  /\ c \in items /\ Touch
  /\ items' = items \ {c}
  /\ UNCHANGED <<unlocked, hidden, decrypting, rotating, creating, clipboard, clearIn, copied, excused, asked>>

OpenRotation(c) ==
  /\ c \in items \ rotating /\ Touch
  /\ rotating' = rotating \union {c}
  /\ UNCHANGED <<unlocked, hidden, items, decrypting, creating, clipboard, clearIn, copied, excused, asked>>

\* The rotation was stored, or its dialog cancelled; a stored one hides the item.
CloseRotation(c) ==
  /\ c \in rotating
  /\ rotating' = rotating \ {c}
  /\ \/ /\ items' = items \ {c}
        /\ UNCHANGED <<lockIn, noted, touched>>
     \/ Touch /\ items' = items
  /\ UNCHANGED <<unlocked, hidden, decrypting, creating, clipboard, clearIn, copied, excused, asked>>

OpenCreate ==
  /\ unlocked /\ ~creating /\ Touch
  /\ creating' = TRUE /\ asked' = asked \union {"create"}
  /\ UNCHANGED <<unlocked, hidden, items, decrypting, rotating, clipboard, clearIn, copied, excused>>

\* The credential was created, or the dialog cancelled.
CloseCreate ==
  /\ creating /\ creating' = FALSE
  /\ \/ UNCHANGED <<lockIn, noted, touched>>
     \/ Touch
  /\ UNCHANGED <<unlocked, hidden, items, decrypting, rotating, clipboard, clearIn, copied, excused, asked>>

\* Another page: the section is gone with all it held.
LeavePage ==
  /\ unlocked /\ Touch
  /\ Unmount /\ creating' = FALSE
  /\ UNCHANGED <<unlocked, hidden, clipboard, clearIn, copied, excused, asked>>

(***************************************************************************)
(* clipboard.ts                                                            *)
(***************************************************************************)

\* Variant: a password is copied as a username is.
CopyPlainly(c) ==
  /\ c \in items /\ Touch
  /\ clipboard' = "secret" /\ copied' = 0 /\ excused' = FALSE
  /\ UNCHANGED <<unlocked, hidden, items, decrypting, rotating, creating, clearIn, asked>>

\* copyAndClear: the clear is scheduled once the copy is made.
CopyPassword(c) ==
  /\ c \in items /\ Touch
  /\ clipboard' = "secret" /\ copied' = 0 /\ excused' = FALSE
  /\ clearIn' = clearIn \union {ClipboardClear}
  /\ UNCHANGED <<unlocked, hidden, items, decrypting, rotating, creating, asked>>

\* A username, or anything copied elsewhere.
CopyOther ==
  /\ clipboard' = "other"
  /\ UNCHANGED <<unlocked, lockIn, hidden, items, decrypting, rotating, creating, clearIn, noted, touched, copied, excused, asked>>

\* A clear is due: the clipboard is emptied whatever it holds, or the browser refuses.
ClipboardClears ==
  /\ 0 \in clearIn /\ clearIn' = clearIn \ {0}
  /\ \/ clipboard' = "empty" /\ UNCHANGED excused
     \/ UNCHANGED clipboard /\ excused' = TRUE
  /\ UNCHANGED <<unlocked, lockIn, hidden, items, decrypting, rotating, creating, noted, touched, copied, asked>>

(***************************************************************************)
(* Time.  Counters of history stop one past the longest wait.              *)
(***************************************************************************)

Longest == IF InactivityLock > ClipboardClear THEN InactivityLock ELSE ClipboardClear
Later(n) == IF n > Longest THEN n ELSE n + 1
Sooner(n) == IF n = 0 THEN 0 ELSE n - 1
TimerDue == lockIn = 0 \/ 0 \in clearIn

Tick ==
  /\ hidden \/ ~TimerDue
  /\ lockIn' = IF lockIn = Off THEN Off ELSE Sooner(lockIn)
  /\ clearIn' = {Sooner(n) : n \in clearIn}
  /\ noted' = Later(noted) /\ touched' = Later(touched) /\ copied' = Later(copied)
  /\ excused' = (excused \/ 0 \in clearIn)
  /\ UNCHANGED <<unlocked, hidden, items, decrypting, rotating, creating, clipboard, asked>>

ScreenNext ==
  \/ Unlock \/ LockNow \/ InactivityFires \/ Move \/ Hide \/ Reappear
  \/ \E c \in Entry : \/ Reveal(c) \/ Decrypted(c) \/ Conceal(c)
                           \/ OpenRotation(c) \/ CloseRotation(c) \/ CopyPassword(c)
  \/ OpenCreate \/ CloseCreate \/ LeavePage
  \/ CopyOther \/ ClipboardClears \/ Tick

ScreenSpec == ScreenInit /\ [][ScreenNext]_screenVars

(***************************************************************************)
(* Properties.                                                             *)
(***************************************************************************)

\* Types; the timer runs exactly while the vault is unlocked.
ScreenTypeOK ==
  /\ unlocked \in BOOLEAN /\ hidden \in BOOLEAN /\ creating \in BOOLEAN /\ excused \in BOOLEAN
  /\ lockIn \in 0..Off /\ (lockIn = Off <=> ~unlocked)
  /\ items \subseteq Entry /\ rotating \subseteq Entry
  /\ decrypting \in [Entry -> {"none", "row", "orphan"}]
  /\ clipboard \in {"empty", "secret", "other"}
  /\ clearIn \subseteq 0..ClipboardClear
  /\ noted \in 0..(Longest + 1) /\ touched \in 0..(Longest + 1) /\ copied \in 0..(Longest + 1)
  /\ asked \subseteq Entry \union {"create"}

\* Nothing decrypted and no dialog is on screen while the vault is locked, not
\* even by a decryption that was running when it locked.
LockedShowsNothing == ~unlocked => items = {} /\ rotating = {} /\ ~creating

\* After an unlock only what was opened since is open: neither a dialog nor an
\* item left from before an automatic lock comes back by itself.
NothingComesBack == items \subseteq asked /\ (creating => "create" \in asked)

\* A visible tab is locked once InactivityLock ticks passed without activity,
\* counting as activity what the code counts.
LocksInTime == unlocked /\ ~hidden => noted <= InactivityLock

\* A copied password is out of the clipboard ClipboardClear ticks later, unless
\* the browser refused the clear or held the timer back in a hidden tab.  The tab
\* stays open: closing or reloading it would drop the pending clear with its timer.
SecretLeavesClipboard == clipboard = "secret" /\ ~excused => copied <= ClipboardClear

\* Nothing of the vault is shown once it is locked, and nothing comes back.
ScreenForgets == LockedShowsNothing /\ NothingComesBack

\* In a tab that stays open an unlocked vault locks in time, and a copied password
\* leaves the clipboard in time.
SecretsAreTimed == ScreenTypeOK /\ LocksInTime /\ SecretLeavesClipboard

\* The security model drops the key when a hidden tab reappears past the window;
\* the reappearance counts as activity and arms a whole window more instead.
LockedOnReappearing ==
  [][hidden /\ ~hidden' /\ touched > InactivityLock => ~unlocked']_screenVars

\* The screen says a copy clears after its 30 seconds; the clear of an earlier
\* copy takes a later one with it.
CopyLastsItsTime ==
  [][clipboard = "secret" /\ clipboard' = "empty" => copied >= ClipboardClear]_screenVars
===============================================================================
