------------------------------ MODULE VaultProofs ------------------------------
(***************************************************************************)
(* The web vault for any number of credentials, calls, browsers and days:  *)
(* a locked screen forgets, secrets are timed, a queued reveal is kept, a  *)
(* recovery ends the sessions of before, one set-up makes one vault, and   *)
(* the offline copy catches up.                                            *)
(***************************************************************************)
EXTENDS MCVault, Sums, SequenceTheorems, TLAPS

(***************************************************************************)
(* The screen.  A decryption that a row waits for belongs to an unlocked   *)
(* vault and to something asked since the unlock; while the tab is         *)
(* visible, the timer has at most the rest of the window; and a secret in  *)
(* the clipboard has a clear that comes in time.                           *)
(***************************************************************************)
WaitingInv ==
  /\ ~unlocked => \A c \in Entry : decrypting[c] # "row"
  /\ \A c \in Entry : decrypting[c] = "row" => c \in asked

ClockInv == unlocked /\ ~hidden => noted + lockIn <= InactivityLock

ClearInv == clipboard = "secret" /\ ~excused => \E n \in clearIn : copied + n <= ClipboardClear

ScreenInv == ScreenTypeOK /\ ScreenForgets /\ WaitingInv /\ ClockInv /\ ClearInv

LEMMA LongestIsLonger ==
  /\ InactivityLock \in Nat \ {0} /\ ClipboardClear \in Nat \ {0}
  /\ Longest \in Nat /\ InactivityLock <= Longest /\ ClipboardClear <= Longest
BY TicksAssumption DEF Longest

\* The three kinds of conjuncts of the type invariant.
Flags ==
  /\ unlocked \in BOOLEAN /\ hidden \in BOOLEAN /\ creating \in BOOLEAN /\ excused \in BOOLEAN
  /\ items \subseteq Entry /\ rotating \subseteq Entry
  /\ decrypting \in [Entry -> {"none", "row", "orphan"}]
  /\ clipboard \in {"empty", "secret", "other"}
  /\ asked \subseteq Entry \union {"create"}
Counters ==
  /\ clearIn \subseteq 0..ClipboardClear
  /\ noted \in 0..(Longest + 1) /\ touched \in 0..(Longest + 1) /\ copied \in 0..(Longest + 1)
Timer == lockIn \in 0..Off /\ (lockIn = Off <=> ~unlocked)

LEMMA TypeParts == ScreenTypeOK <=> Flags /\ Counters /\ Timer
BY DEF ScreenTypeOK, Flags, Counters, Timer

LEMMA FlagsStep ==
  ASSUME Flags, [ScreenNext]_screenVars PROVE Flags'
<1> USE DEF Flags
<1>1. CASE Unlock \/ LockNow \/ InactivityFires
  BY <1>1 DEF Unlock, LockNow, InactivityFires, LockVault, Unmount
<1>2. CASE Move \/ Hide \/ Reappear
  BY <1>2 DEF Move, Hide, Reappear
<1>3. ASSUME NEW c \in Entry, Reveal(c) \/ Decrypted(c) \/ Conceal(c) PROVE Flags'
  BY <1>3 DEF Reveal, Decrypted, Conceal
<1>4. ASSUME NEW c \in Entry, OpenRotation(c) \/ CloseRotation(c) \/ CopyPassword(c) PROVE Flags'
  BY <1>4 DEF OpenRotation, CloseRotation, CopyPassword
<1>5. CASE OpenCreate \/ CloseCreate \/ LeavePage
  BY <1>5 DEF OpenCreate, CloseCreate, LeavePage, Unmount
<1>6. CASE CopyOther \/ ClipboardClears \/ Tick
  BY <1>6 DEF CopyOther, ClipboardClears, Tick
<1>7. CASE UNCHANGED screenVars
  BY <1>7 DEF screenVars
<1> QED BY <1>1, <1>2, <1>3, <1>4, <1>5, <1>6, <1>7 DEF ScreenNext

LEMMA CountersStep ==
  ASSUME Counters, [ScreenNext]_screenVars PROVE Counters'
<1> DEFINE Restarted == /\ noted' \in {0, noted} /\ touched' \in {0, touched} /\ copied' \in {0, copied}
                        /\ clearIn' \subseteq clearIn \union {ClipboardClear}
<1>0. ASSUME Restarted PROVE Counters'
  BY <1>0, LongestIsLonger DEF Counters
<1>1. CASE Unlock \/ LockNow \/ InactivityFires
  <2>1. Restarted
    BY <1>1 DEF Unlock, LockNow, InactivityFires
  <2> QED BY <2>1, <1>0
<1>2. CASE Move \/ Hide \/ Reappear
  <2>1. Restarted
    BY <1>2 DEF Move, Hide, Reappear, Touch, NoteActivity
  <2> QED BY <2>1, <1>0
<1>3. ASSUME NEW c \in Entry, Reveal(c) \/ Decrypted(c) \/ Conceal(c) PROVE Counters'
  <2>1. Restarted
    BY <1>3 DEF Reveal, Decrypted, Conceal, Touch, NoteActivity
  <2> QED BY <2>1, <1>0
<1>4. ASSUME NEW c \in Entry, OpenRotation(c) \/ CloseRotation(c) \/ CopyPassword(c) PROVE Counters'
  <2>1. Restarted
    BY <1>4 DEF OpenRotation, CloseRotation, CopyPassword, Touch, NoteActivity
  <2> QED BY <2>1, <1>0
<1>5. CASE OpenCreate \/ CloseCreate \/ LeavePage
  <2>1. Restarted
    BY <1>5 DEF OpenCreate, CloseCreate, LeavePage, Touch, NoteActivity
  <2> QED BY <2>1, <1>0
<1>6. CASE CopyOther \/ ClipboardClears \/ UNCHANGED screenVars
  <2>1. Restarted
    BY <1>6 DEF CopyOther, ClipboardClears, screenVars
  <2> QED BY <2>1, <1>0
<1>7. CASE Tick
  <2>1. \A n \in 0..(Longest + 1) : Later(n) \in 0..(Longest + 1)
    BY LongestIsLonger DEF Later
  <2>2. \A n \in 0..ClipboardClear : Sooner(n) \in 0..ClipboardClear
    BY LongestIsLonger DEF Sooner
  <2>3. /\ noted' = Later(noted) /\ touched' = Later(touched) /\ copied' = Later(copied)
        /\ clearIn' = {Sooner(n) : n \in clearIn}
    BY <1>7 DEF Tick
  <2> QED BY <2>1, <2>2, <2>3 DEF Counters
<1> QED BY <1>1, <1>2, <1>3, <1>4, <1>5, <1>6, <1>7 DEF ScreenNext

LEMMA TimerStep ==
  ASSUME Timer, [ScreenNext]_screenVars PROVE Timer'
<1> USE LongestIsLonger DEF Timer, Off
<1>1. CASE Unlock
  BY <1>1 DEF Unlock
<1>2. CASE LockNow \/ InactivityFires
  BY <1>2 DEF LockNow, InactivityFires, LockVault
\* Activity rearms a timer that runs, and starts none.
<1>3. ASSUME UNCHANGED unlocked, NoteActivity PROVE Timer'
  BY <1>3 DEF NoteActivity
<1>4. ASSUME UNCHANGED <<unlocked, lockIn>> PROVE Timer'
  BY <1>4
<1>5. CASE Move \/ Hide \/ Reappear
  BY <1>3, <1>4, <1>5 DEF Move, Hide, Reappear, Touch
<1>6. ASSUME NEW c \in Entry, Reveal(c) \/ Decrypted(c) \/ Conceal(c) PROVE Timer'
  BY <1>3, <1>4, <1>6 DEF Reveal, Decrypted, Conceal, Touch
<1>7. ASSUME NEW c \in Entry, OpenRotation(c) \/ CloseRotation(c) \/ CopyPassword(c) PROVE Timer'
  BY <1>3, <1>4, <1>7 DEF OpenRotation, CloseRotation, CopyPassword, Touch
<1>8. CASE OpenCreate \/ CloseCreate \/ LeavePage
  BY <1>3, <1>4, <1>8 DEF OpenCreate, CloseCreate, LeavePage, Touch
<1>9. CASE CopyOther \/ ClipboardClears \/ UNCHANGED screenVars
  BY <1>4, <1>9 DEF CopyOther, ClipboardClears, screenVars
<1>10. CASE Tick
  BY <1>10 DEF Tick, Sooner
<1> QED BY <1>1, <1>2, <1>5, <1>6, <1>7, <1>8, <1>9, <1>10 DEF ScreenNext

LEMMA ScreenTypeStep == ScreenTypeOK /\ [ScreenNext]_screenVars => ScreenTypeOK'
BY TypeParts, FlagsStep, CountersStep, TimerStep, PTL

LEMMA ScreenInitially == ScreenInit => ScreenInv
<1> SUFFICES ASSUME ScreenInit PROVE ScreenInv
  OBVIOUS
<1>1. Flags
  BY DEF ScreenInit, Flags
<1>2. Timer /\ Counters
  BY LongestIsLonger DEF ScreenInit, Counters, Timer, Off
<1>3. ScreenForgets /\ WaitingInv /\ ClockInv /\ ClearInv
  BY DEF ScreenInit, ScreenForgets, LockedShowsNothing, NothingComesBack, WaitingInv, ClockInv, ClearInv
<1> QED BY <1>1, <1>2, <1>3, TypeParts DEF ScreenInv

LEMMA ForgetsStep ==
  ASSUME ScreenTypeOK, ScreenForgets, WaitingInv, [ScreenNext]_screenVars
  PROVE  ScreenForgets' /\ WaitingInv'
<1> USE DEF ScreenTypeOK, ScreenForgets, LockedShowsNothing, NothingComesBack, WaitingInv
<1>1. CASE Unlock
  BY <1>1 DEF Unlock
<1>2. CASE LockNow \/ InactivityFires
  BY <1>2 DEF LockNow, InactivityFires, LockVault, Unmount
<1>3. CASE Move \/ Hide \/ Reappear
  BY <1>3 DEF Move, Hide, Reappear
<1>4. ASSUME NEW c \in Entry, Reveal(c) \/ Decrypted(c) \/ Conceal(c) PROVE ScreenForgets' /\ WaitingInv'
  BY <1>4 DEF Reveal, Decrypted, Conceal
<1>5. ASSUME NEW c \in Entry, OpenRotation(c) \/ CloseRotation(c) \/ CopyPassword(c)
      PROVE  ScreenForgets' /\ WaitingInv'
  BY <1>5 DEF OpenRotation, CloseRotation, CopyPassword
<1>6. CASE OpenCreate \/ CloseCreate
  BY <1>6 DEF OpenCreate, CloseCreate
<1>7. CASE LeavePage
  BY <1>7 DEF LeavePage, Unmount
<1>8. CASE CopyOther \/ ClipboardClears \/ Tick
  BY <1>8 DEF CopyOther, ClipboardClears, Tick
<1>9. CASE UNCHANGED screenVars
  BY <1>9 DEF screenVars
<1> QED BY <1>1, <1>2, <1>3, <1>4, <1>5, <1>6, <1>7, <1>8, <1>9 DEF ScreenNext

LEMMA ClockStep ==
  ASSUME Timer, Counters, ClockInv, [ScreenNext]_screenVars PROVE ClockInv'
<1>1. ASSUME unlocked', lockIn' = InactivityLock, noted' = 0 PROVE ClockInv'
  BY <1>1, LongestIsLonger DEF ClockInv
<1>2. ASSUME ~unlocked' PROVE ClockInv'
  BY <1>2 DEF ClockInv
<1>3. ASSUME UNCHANGED unlocked, NoteActivity PROVE ClockInv'
  BY <1>1, <1>2, <1>3 DEF NoteActivity
<1>4. ASSUME UNCHANGED <<unlocked, hidden, lockIn, noted>> PROVE ClockInv'
  BY <1>4 DEF ClockInv
<1>5. CASE Unlock \/ LockNow \/ InactivityFires
  BY <1>1, <1>2, <1>5 DEF Unlock, LockNow, InactivityFires, LockVault
<1>6. CASE Hide
  BY <1>6 DEF Hide, ClockInv
<1>7. CASE Move \/ Reappear
  BY <1>3, <1>7 DEF Move, Reappear, Touch
<1>8. ASSUME NEW c \in Entry, Reveal(c) \/ Decrypted(c) \/ Conceal(c) PROVE ClockInv'
  BY <1>3, <1>4, <1>8 DEF Reveal, Decrypted, Conceal, Touch
<1>9. ASSUME NEW c \in Entry, OpenRotation(c) \/ CloseRotation(c) \/ CopyPassword(c) PROVE ClockInv'
  BY <1>3, <1>4, <1>9 DEF OpenRotation, CloseRotation, CopyPassword, Touch
<1>10. CASE OpenCreate \/ CloseCreate \/ LeavePage
  BY <1>3, <1>4, <1>10 DEF OpenCreate, CloseCreate, LeavePage, Touch
<1>11. CASE CopyOther \/ ClipboardClears \/ UNCHANGED screenVars
  BY <1>4, <1>11 DEF CopyOther, ClipboardClears, screenVars
<1>12. CASE Tick
  \* A visible tab's time passes only while its timer is not due.
  <2> SUFFICES ASSUME unlocked', ~hidden' PROVE noted' + lockIn' <= InactivityLock
    BY DEF ClockInv
  <2>1. unlocked /\ ~hidden /\ lockIn # 0 /\ lockIn # Off
    BY <1>12 DEF Tick, TimerDue, Timer
  <2>2. lockIn' = Sooner(lockIn) /\ noted' = Later(noted)
    BY <1>12, <2>1 DEF Tick
  <2>3. noted + lockIn <= InactivityLock
    BY <2>1 DEF ClockInv
  <2>4. lockIn \in Nat /\ noted \in Nat /\ noted <= Longest /\ Later(noted) = noted + 1
    BY <2>1, <2>3, LongestIsLonger DEF Timer, Counters, Later, Off
  <2> QED BY <2>1, <2>2, <2>3, <2>4, LongestIsLonger DEF Sooner
<1> QED BY <1>5, <1>6, <1>7, <1>8, <1>9, <1>10, <1>11, <1>12 DEF ScreenNext

LEMMA ClearStep ==
  ASSUME ScreenTypeOK, ClearInv, [ScreenNext]_screenVars PROVE ClearInv'
<1> USE LongestIsLonger DEF ScreenTypeOK, ClearInv
<1>1. CASE Unlock \/ LockNow \/ InactivityFires
  BY <1>1 DEF Unlock, LockNow, InactivityFires
<1>2. CASE Move \/ Hide \/ Reappear
  BY <1>2 DEF Move, Hide, Reappear
<1>3. ASSUME NEW c \in Entry, Reveal(c) \/ Decrypted(c) \/ Conceal(c) \/ OpenRotation(c) \/ CloseRotation(c)
      PROVE  ClearInv'
  BY <1>3 DEF Reveal, Decrypted, Conceal, OpenRotation, CloseRotation
<1>4. ASSUME NEW c \in Entry, CopyPassword(c) PROVE ClearInv'
  BY <1>4 DEF CopyPassword
<1>5. CASE OpenCreate \/ CloseCreate \/ LeavePage
  BY <1>5 DEF OpenCreate, CloseCreate, LeavePage
<1>6. CASE CopyOther \/ ClipboardClears
  BY <1>6 DEF CopyOther, ClipboardClears
<1>7. CASE Tick
  \* A clear that was due when time passed anyway is excused.
  <2> SUFFICES ASSUME clipboard' = "secret", ~excused' PROVE \E n \in clearIn' : copied' + n <= ClipboardClear
    OBVIOUS
  <2>1. clipboard = "secret" /\ ~excused /\ 0 \notin clearIn
    BY <1>7 DEF Tick
  <2>2. PICK n \in clearIn : copied + n <= ClipboardClear
    BY <2>1
  <2>3. n \in Nat /\ n # 0 /\ Sooner(n) = n - 1
    BY <2>1 DEF Sooner
  <2>4. copied' <= copied + 1 /\ copied' \in Nat
    BY <1>7 DEF Tick, Later
  <2>5. n - 1 \in clearIn'
    BY <1>7, <2>3 DEF Tick
  <2> QED BY <2>2, <2>3, <2>4, <2>5
<1>8. CASE UNCHANGED screenVars
  BY <1>8 DEF screenVars
<1> QED BY <1>1, <1>2, <1>3, <1>4, <1>5, <1>6, <1>7, <1>8 DEF ScreenNext

LEMMA ScreenStep == ScreenInv /\ [ScreenNext]_screenVars => ScreenInv'
BY ScreenTypeStep, TypeParts, ForgetsStep, ClockStep, ClearStep DEF ScreenInv

\* However gestures, answers and locks interleave, a locked vault shows nothing and what was
\* open before a lock does not come back after it.
THEOREM LockedScreensForget == ScreenSpec => []ScreenForgets
<1>1. ScreenInv => ScreenForgets
  BY DEF ScreenInv
<1> QED BY <1>1, ScreenInitially, ScreenStep, PTL DEF ScreenSpec

\* For any window and any delay, an unlocked visible tab locks within the window, and a copied
\* password leaves the clipboard within the delay unless the browser prevented it.
THEOREM SecretsLeaveInTime == ScreenSpec => []SecretsAreTimed
<1>1. ScreenInv => SecretsAreTimed
  BY LongestIsLonger DEF ScreenInv, SecretsAreTimed, LocksInTime, SecretLeavesClipboard, ClockInv, ClearInv, ScreenTypeOK, Off
<1> QED BY <1>1, ScreenInitially, ScreenStep, PTL DEF ScreenSpec

-------------------------------------------------------------------------------
(***************************************************************************)
(* The sessions.  A row expires at most SessionTtl days from today, and    *)
(* its token was drawn before every one that is drawn later, so a cookie   *)
(* that is set for it is set no earlier than the row was made.             *)
(***************************************************************************)
Words == {"none", "idle", "login", "recover", "answer", "logout", "create", "update", "delete"}

CookieInv ==
  /\ drawnTokens \in Nat /\ date \in Nat /\ credential \in Nat
  /\ handling \in [Browser -> [op: Words, step: Words, proved: Nat]]
  /\ cookie \in [Browser -> [token: Nat, until: Nat]]
  /\ \A s \in sessions : s.token \in 1..drawnTokens /\ s.expiresAt \in Nat /\ s.expiresAt <= date + SessionTtl
  /\ \A b \in Browser : cookie[b].token <= drawnTokens
  /\ \A b \in Browser : handling[b].op = "answer" => handling[b].proved <= drawnTokens
  /\ CookieOutlivesSession

LEMMA SessionsInitially == SessionsInit => CookieInv /\ RecoveryEndsSessions
<1> SUFFICES ASSUME SessionsInit PROVE CookieInv /\ RecoveryEndsSessions
  OBVIOUS
<1>1. NoRequest \in [op: Words, step: Words, proved: Nat] /\ NoCookie \in [token: Nat, until: Nat]
  BY DEF NoRequest, NoCookie, Words
<1>2. CookieInv
  BY <1>1 DEF SessionsInit, CookieInv, CookieOutlivesSession, NoRequest, NoCookie
<1>3. RecoveryEndsSessions
  BY DEF SessionsInit, RecoveryEndsSessions
<1> QED BY <1>2, <1>3

LEMMA CookieStep ==
  ASSUME CookieInv, [SessionsNext]_sessionVars PROVE CookieInv'
<1> USE TtlAssumption DEF CookieInv, CookieOutlivesSession, Words
<1>1. ASSUME NEW b \in Browser, LoginVerify(b) \/ RecoveryVerify(b) PROVE CookieInv'
  <2>1. UNCHANGED <<credential, sessions, cookie, drawnTokens, date>>
    BY <1>1 DEF LoginVerify, RecoveryVerify
  <2>2. PICK h \in [op: {"login", "recover"}, step: Words, proved: Nat] : handling' = [handling EXCEPT ![b] = h]
    BY <1>1 DEF LoginVerify, RecoveryVerify, Goes
  <2> QED BY <2>1, <2>2
<1>2. ASSUME NEW b \in Browser, RecoverUpdate(b) PROVE CookieInv'
  BY <1>2 DEF RecoverUpdate, Goes, Handles
<1>3. ASSUME NEW b \in Browser, RecoverDelete(b) PROVE CookieInv'
  BY <1>3 DEF RecoverDelete, Goes, Handles
<1>4. ASSUME NEW b \in Browser, CreateSession(b) PROVE CookieInv'
  <2>1. /\ drawnTokens' = drawnTokens + 1 /\ UNCHANGED <<credential, cookie, date>>
        /\ handling' = [handling EXCEPT ![b] = [op |-> "answer", step |-> handling[b].op, proved |-> drawnTokens']]
    BY <1>4 DEF CreateSession, Goes
  <2>2. \A s \in sessions' : s \in sessions \/ (s.token = drawnTokens + 1 /\ s.expiresAt = date + SessionTtl)
    BY <1>4, <2>1 DEF CreateSession
  <2>3. [op |-> "answer", step |-> handling[b].op, proved |-> drawnTokens'] \in [op: Words, step: Words, proved: Nat]
    BY <2>1
  <2>4. handling' \in [Browser -> [op: Words, step: Words, proved: Nat]]
    BY <2>1, <2>3
  <2>5. \A x \in Browser : handling'[x].op = "answer" => handling'[x].proved <= drawnTokens'
    BY <2>1
  <2> QED BY <2>1, <2>2, <2>4, <2>5
<1>5. ASSUME NEW b \in Browser, SetSessionCookie(b) PROVE CookieInv'
  BY <1>5 DEF SetSessionCookie, Goes, Finishes, NoRequest
<1>6. ASSUME NEW b \in Browser, Logout(b) PROVE CookieInv'
  BY <1>6 DEF Logout, Goes
<1>7. ASSUME NEW b \in Browser, ClearCookie(b) PROVE CookieInv'
  BY <1>7 DEF ClearCookie, Goes, Finishes, NoRequest, NoCookie, Handles
<1>8. ASSUME NEW b \in Browser, Interrupted(b) PROVE CookieInv'
  BY <1>8 DEF Interrupted, Goes, Finishes, NoRequest
<1>9. ASSUME NEW b \in Browser, AskSession(b) PROVE CookieInv'
  BY <1>9 DEF AskSession
<1>10. CASE NextDate
  BY <1>10 DEF NextDate
<1>11. CASE UNCHANGED sessionVars
  BY <1>11 DEF sessionVars
<1> QED BY <1>1, <1>2, <1>3, <1>4, <1>5, <1>6, <1>7, <1>8, <1>9, <1>10, <1>11 DEF SessionsNext

\* A session is new and as late as its credential is, or older; the credential changes only
\* with a recovery left to sweep.
LEMMA RecoveryStep ==
  ASSUME RecoveryEndsSessions, [SessionsNext]_sessionVars PROVE RecoveryEndsSessions'
<1>1. ASSUME sessions' \subseteq sessions, UNCHANGED <<credential, unswept>> PROVE RecoveryEndsSessions'
  BY <1>1 DEF RecoveryEndsSessions
<1>2. ASSUME NEW b \in Browser,
             \/ LoginVerify(b) \/ RecoveryVerify(b) \/ SetSessionCookie(b) \/ Logout(b)
             \/ ClearCookie(b) \/ Interrupted(b) \/ AskSession(b)
      PROVE  RecoveryEndsSessions'
  BY <1>1, <1>2 DEF LoginVerify, RecoveryVerify, SetSessionCookie, Logout, ClearCookie, Interrupted, AskSession
<1>3. ASSUME NEW b \in Browser, RecoverUpdate(b) PROVE RecoveryEndsSessions'
  BY <1>3 DEF RecoverUpdate, RecoveryEndsSessions
<1>4. ASSUME NEW b \in Browser, RecoverDelete(b) PROVE RecoveryEndsSessions'
  BY <1>4 DEF RecoverDelete, RecoveryEndsSessions
<1>5. ASSUME NEW b \in Browser, CreateSession(b) PROVE RecoveryEndsSessions'
  <2>1. UNCHANGED <<credential, unswept>>
    BY <1>5 DEF CreateSession
  <2> PICK d : d = (handling[b].proved # credential)
    OBVIOUS
  <2> PICK new : new = [token |-> drawnTokens', expiresAt |-> date + SessionTtl,
                        proved |-> handling[b].proved, late |-> d]
    OBVIOUS
  <2>2. sessions' = sessions \union {new}
    BY <1>5 DEF CreateSession
  <2>3. new.proved = handling[b].proved /\ new.late = d
    OBVIOUS
  <2>4. new.proved = credential \/ new.late
    BY <2>3
  <2> QED BY <2>1, <2>2, <2>4 DEF RecoveryEndsSessions
<1>6. CASE NextDate \/ UNCHANGED sessionVars
  BY <1>1, <1>6 DEF NextDate, sessionVars
<1> QED BY <1>2, <1>3, <1>4, <1>5, <1>6 DEF SessionsNext

\* A recovery ends the sessions of before, but for a login that raced it, and no cookie ages
\* before its session, for any number of browsers, recoveries and days.
THEOREM SessionsEndProperly == SessionsSpec => []SessionsEnd
<1>1. CookieInv /\ RecoveryEndsSessions => SessionsEnd
  BY DEF CookieInv, SessionsEnd
<1> QED BY <1>1, SessionsInitially, CookieStep, RecoveryStep, PTL DEF SessionsSpec

-------------------------------------------------------------------------------
(***************************************************************************)
(* The log of reveals.  A call that waits to delete an event has had it    *)
(* logged.                                                                 *)
(***************************************************************************)
Calls ==
  [step: {"idle", "list"}] \union [step: {"queue"}, event: RevealEvent]
  \union [step: {"send"}, left: SUBSET RevealEvent]
  \union [step: {"sent"}, event: RevealEvent, left: SUBSET RevealEvent]

OutboxInv ==
  /\ day \in 1..MaxDay
  /\ revealed \in [RevealEvent -> 0..MaxDay]
  /\ outbox \subseteq {e \in RevealEvent : revealed[e] > 0}
  /\ ready \in BOOLEAN
  /\ log \in [RevealEvent -> Seq(1..MaxDay)]
  /\ \A e \in RevealEvent : Len(log[e]) <= MaxSent
  /\ unqueued \subseteq RevealEvent
  /\ flush \in [Flush -> Calls]
  /\ \A f \in Flush : flush[f].step = "queue" => revealed[flush[f].event] > 0
  /\ \A f \in Flush : flush[f].step = "sent" => Logged(flush[f].event)
  /\ QueuedIsNeverLost

LEMMA OutboxInvImplies == OutboxInv => RevealsAreKept
<1> SUFFICES ASSUME OutboxInv PROVE OutboxTypeOK /\ QueuedIsNeverLost
  BY DEF RevealsAreKept
<1>1. ASSUME NEW e \in RevealEvent PROVE log[e] \in UNION {[1..n -> 1..MaxDay] : n \in 0..MaxSent}
  <2>1. log[e] \in [1..Len(log[e]) -> 1..MaxDay] /\ Len(log[e]) \in 0..MaxSent
    BY LenProperties, OutboxBounds DEF OutboxInv
  <2> QED BY <2>1
<1>2. log \in [RevealEvent -> UNION {[1..n -> 1..MaxDay] : n \in 0..MaxSent}]
  BY <1>1 DEF OutboxInv
<1>3. \A f \in Flush :
        \/ flush[f].step \in {"idle", "list"}
        \/ flush[f].step = "queue" /\ flush[f].event \in RevealEvent
        \/ flush[f].step = "send" /\ flush[f].left \subseteq RevealEvent
        \/ flush[f].step = "sent" /\ flush[f].left \subseteq RevealEvent /\ flush[f].event \in RevealEvent
  BY DEF OutboxInv, Calls
<1> QED BY <1>2, <1>3 DEF OutboxInv, OutboxTypeOK

LEMMA OutboxInitially == OutboxInit => OutboxInv
<1> SUFFICES ASSUME OutboxInit PROVE OutboxInv
  OBVIOUS
<1>1. Idle \in Calls
  BY DEF Idle, Calls
<1>2. <<>> \in Seq(1..MaxDay) /\ Len(<<>>) = 0
  OBVIOUS
<1>3. flush \in [Flush -> Calls] /\ \A f \in Flush : flush[f].step = "idle"
  BY <1>1 DEF OutboxInit, Idle
<1>4. log \in [RevealEvent -> Seq(1..MaxDay)] /\ \A e \in RevealEvent : Len(log[e]) <= MaxSent
  BY <1>2, OutboxBounds DEF OutboxInit
<1>5. /\ revealed \in [RevealEvent -> 0..MaxDay] /\ \A e \in RevealEvent : ~(revealed[e] > 0)
      /\ day \in 1..MaxDay /\ outbox = {} /\ unqueued = {}
  BY OutboxBounds DEF OutboxInit
<1>6. ready \in BOOLEAN
  BY DEF OutboxInit
<1> QED BY <1>3, <1>4, <1>5, <1>6 DEF OutboxInv, QueuedIsNeverLost

LEMMA OutboxStep == OutboxInv /\ [OutboxNext]_outboxVars => OutboxInv'
<1> SUFFICES ASSUME OutboxInv, [OutboxNext]_outboxVars PROVE OutboxInv'
  OBVIOUS
<1> USE OutboxBounds DEF OutboxInv, QueuedIsNeverLost, BeingQueued, Logged, Idle, Calls
<1>1. CASE DayPasses
  BY <1>1 DEF DayPasses
<1>2. ASSUME NEW f \in Flush, NEW e \in RevealEvent, Show(f, e) PROVE OutboxInv'
  BY <1>2 DEF Show
<1>3. ASSUME NEW f \in Flush, NEW e \in RevealEvent, Post(f, e) PROVE OutboxInv'
  <2> PICK l : l = flush[f].left
    OBVIOUS
  <2>1. /\ UNCHANGED <<day, revealed, outbox, ready, unqueued>>
        /\ log' = [log EXCEPT ![e] = Append(log[e], day)]
        /\ flush' = [flush EXCEPT ![f] = [step |-> "sent", event |-> e, left |-> l \ {e}]]
        /\ flush[f].step = "send" /\ Len(log[e]) < MaxSent
    BY <1>3 DEF Post
  <2>2. l \subseteq RevealEvent
    BY <2>1
  <2>3. flush' \in [Flush -> Calls]
    BY <2>1, <2>2
  <2>4. /\ Append(log[e], day) \in Seq(1..MaxDay) /\ Len(Append(log[e], day)) = Len(log[e]) + 1
        /\ Len(log[e]) \in Nat /\ Append(log[e], day) # <<>>
    BY AppendProperties, LenProperties
  <2>5. /\ log' \in [RevealEvent -> Seq(1..MaxDay)]
        /\ \A x \in RevealEvent : Len(log'[x]) <= MaxSent /\ (log[x] # <<>> \/ x = e => log'[x] # <<>>)
    BY <2>1, <2>4
  <2> HIDE DEF Calls
  <2>6. \A g \in Flush : flush'[g].step = "queue" <=> flush[g].step = "queue"
    BY <2>1
  <2>7. \A g \in Flush :
          /\ flush'[g].step = "queue" => flush'[g].event = flush[g].event
          /\ flush'[g].step = "sent" => (g = f /\ flush'[g].event = e) \/ flush'[g] = flush[g]
    BY <2>1
  <2>8. \A g \in Flush : flush'[g].step = "sent" => flush'[g].event \in RevealEvent
    BY <2>3 DEF Calls
  <2> QED BY <2>1, <2>3, <2>5, <2>6, <2>7, <2>8
<1>4. ASSUME NEW f \in Flush, NEW e \in RevealEvent, PostFails(f, e) PROVE OutboxInv'
  BY <1>4 DEF PostFails
<1>5. ASSUME NEW f \in Flush, Queue(f) PROVE OutboxInv'
  BY <1>5 DEF Queue
<1>6. ASSUME NEW f \in Flush, QueueFails(f) PROVE OutboxInv'
  BY <1>6 DEF QueueFails
<1>7. ASSUME NEW f \in Flush, List(f) PROVE OutboxInv'
  BY <1>7 DEF List
<1>8. ASSUME NEW f \in Flush, Delete(f) PROVE OutboxInv'
  BY <1>8 DEF Delete
<1>9. ASSUME NEW f \in Flush, AnswerLost(f) PROVE OutboxInv'
  BY <1>9 DEF AnswerLost
<1>10. ASSUME NEW f \in Flush, EndFlush(f) \/ GetReady(f) PROVE OutboxInv'
  <2>1. UNCHANGED <<day, revealed, outbox, log, unqueued>> /\ ready' \in BOOLEAN
    BY <1>10 DEF EndFlush, GetReady
  <2>2. PICK h \in [step: {"idle", "list"}] : flush' = [flush EXCEPT ![f] = h]
    BY <1>10 DEF EndFlush, GetReady
  <2>3. flush[f].step # "queue"
    BY <1>10 DEF EndFlush, GetReady
  <2> QED BY <2>1, <2>2, <2>3
<1>11. CASE GoOffline
  BY <1>11 DEF GoOffline
<1>12. CASE CloseTab
  BY <1>12 DEF CloseTab
<1>13. CASE UNCHANGED outboxVars
  BY <1>13 DEF outboxVars
<1> QED BY <1>1, <1>2, <1>3, <1>4, <1>5, <1>6, <1>7, <1>8, <1>9, <1>10, <1>11, <1>12, <1>13 DEF OutboxNext

\* A reveal whose event was queued is in the outbox or in the log, whatever requests, answers
\* and tabs are lost in between, for any number of flushes at once.
THEOREM QueuedRevealsAreKept == OutboxSpec => []RevealsAreKept
BY OutboxInvImplies, OutboxInitially, OutboxStep, PTL DEF OutboxSpec

(***************************************************************************)
(* The keys.  A key is in use when it is the key of the account's vault:   *)
(* every key a browser holds, caches, waits to use or has encrypted under  *)
(* is one, and from the first set-up on there is only one.                 *)
(***************************************************************************)
Rows == [salt : Drawn, digest : Password \X Drawn, protected : Wraps,
         recovery : {NoWrap} \union {Wrap(k, <<"code", k>>) : k \in Drawn},
         proof : {<<>>} \union {<<k, "code", k>> : k \in Drawn}, setUp : BOOLEAN]
Envelopes == [salt : 0..drawn, protected : Wraps]

BootstrapTask == [op : {"bootstrap"}, step : {"create"}, email : Email, password : Password, salt : Drawn]
SetUpTask == [op : {"setup"}, step : {"login", "check", "write", "answer"}, email : SomeUser,
              password : Password, salt : Drawn, key : 0..drawn]
RecoverTask == [op : {"recover"}, step : {"verify", "write", "answer"}, email : SomeUser,
                password : Password, salt : Drawn, key : Drawn, code : Drawn]
UnlockTask == [op : {"unlock"}, step : {"fetch", "cache"}, email : SomeUser, password : Password,
               got : SUBSET {"salt", "envelope"}, salt : 0..drawn, protected : Wraps]

KeysTyped ==
  /\ drawn \in Nat
  /\ user \in [Email -> {NoUser} \union Rows]
  /\ task \in [Device -> {Free} \union BootstrapTask \union SetUpTask \union RecoverTask \union UnlockTask]
  /\ key \in [Device -> 0..drawn]
  /\ cached \in [Device -> Envelopes] /\ syncing \in [Device -> Envelopes]
  /\ shown \subseteq Drawn /\ sealed \subseteq Drawn

IsSetUp(e) == HasUser(e) /\ user[e].setUp
InUse(k) == \E e \in Email : IsSetUp(e) /\ user[e].protected.key = k

\* One account, and the requests that would create one agree on its address.
OneAccount ==
  /\ \A e, f \in SomeUser : e = f
  /\ \A d \in Device, e \in SomeUser : task[d].op = "bootstrap" => task[d].email = e

\* Its password and its code open its vault, if it has one.
AccountSound ==
  \A e \in SomeUser :
    /\ user[e].digest[2] = user[e].salt
    /\ IF user[e].setUp
       THEN \E k \in Drawn : /\ user[e].protected = Wrap(k, user[e].digest)
                             /\ user[e].recovery = Wrap(k, <<"code", k>>)
                             /\ user[e].proof = <<k, "code", k>>
       ELSE user[e].protected = NoWrap /\ user[e].recovery = NoWrap

\* Every key that is about is the key of the vault.
KeysInUse ==
  /\ \A k \in shown \union sealed : InUse(k)
  /\ \A d \in Device : /\ key[d] # 0 => InUse(key[d])
                       /\ cached[d] # NoEnvelope => InUse(cached[d].protected.key)
                       /\ syncing[d] # NoEnvelope => InUse(syncing[d].protected.key)

PairOpens(envelope) == \E p \in Password : Opens(envelope.protected, Derived(p, envelope.salt))
PairsOpen ==
  \A d \in Device : /\ cached[d] # NoEnvelope => PairOpens(cached[d])
                    /\ syncing[d] # NoEnvelope => PairOpens(syncing[d])

\* What a set-up, a recovery or an unlock in flight has found out still holds.
SetUpSound(d) ==
  task[d].op = "setup" =>
    /\ d \in SetUpOn
    /\ task[d].step # "login" => task[d].key \in Drawn
    /\ task[d].step \in {"check", "write"} /\ ~IsSetUp(task[d].email)
         => user[task[d].email].digest = Derived(task[d].password, task[d].salt)
    /\ task[d].step = "write" => ~IsSetUp(task[d].email)
    /\ task[d].step = "answer" => InUse(task[d].key)
UnlockSound(d) ==
  task[d].op = "unlock" =>
    /\ task[d].protected = NoWrap \/ InUse(task[d].protected.key)
    /\ task[d].step = "cache" => /\ Opens(task[d].protected, Derived(task[d].password, task[d].salt))
                                 /\ InUse(task[d].protected.key)
TasksSound ==
  \A d \in Device : SetUpSound(d) /\ UnlockSound(d) /\ (task[d].op = "recover" => InUse(task[d].key))

KeysInv == KeysTyped /\ OneAccount /\ AccountSound /\ KeysInUse /\ PairsOpen /\ TasksSound

\* One browser sets up, one address: or the account and its vault are there already.
OneSetUp ==
  /\ (\A e, f \in Email : e = f) \/ SomeUser # {}
  /\ (\A d, f \in SetUpOn : d = f) \/ \E e \in Email : IsSetUp(e)

LEMMA Growth ==
  ASSUME drawn \in Nat, drawn' \in {drawn, drawn + 1}, SomeUser \subseteq SomeUser'
  PROVE  /\ Drawn \subseteq Drawn' /\ 0..drawn \subseteq 0..drawn' /\ Wraps \subseteq Wraps'
         /\ Rows \subseteq Rows' /\ Envelopes \subseteq Envelopes' /\ BootstrapTask \subseteq BootstrapTask'
         /\ SetUpTask \subseteq SetUpTask' /\ RecoverTask \subseteq RecoverTask'
         /\ UnlockTask \subseteq UnlockTask'
<1>1. Drawn \subseteq Drawn' /\ 0..drawn \subseteq 0..drawn'
  BY DEF Drawn
<1>2. Wraps \subseteq Wraps'
  BY <1>1 DEF Wraps
<1>3. Rows \subseteq Rows'
  <2>1. {Wrap(k, <<"code", k>>) : k \in Drawn} \subseteq {Wrap(k, <<"code", k>>) : k \in Drawn'}
    BY <1>1
  <2>2. {<<k, "code", k>> : k \in Drawn} \subseteq {<<k, "code", k>> : k \in Drawn'}
    BY <1>1
  <2>3. Password \X Drawn \subseteq Password \X Drawn'
    BY <1>1
  <2> QED BY <1>1, <1>2, <2>1, <2>2, <2>3 DEF Rows
<1>4. Envelopes \subseteq Envelopes' /\ BootstrapTask \subseteq BootstrapTask'
  BY <1>1, <1>2 DEF Envelopes, BootstrapTask
<1>5. SetUpTask \subseteq SetUpTask'
  BY <1>1 DEF SetUpTask
<1>6. RecoverTask \subseteq RecoverTask'
  BY <1>1 DEF RecoverTask
<1>7. UnlockTask \subseteq UnlockTask'
  BY <1>1, <1>2 DEF UnlockTask
<1> QED BY <1>1, <1>2, <1>3, <1>4, <1>5, <1>6, <1>7

\* What a task is, from its name.
LEMMA TaskOf ==
  ASSUME KeysTyped, NEW d \in Device
  PROVE  /\ task[d].op = "bootstrap" => task[d] \in BootstrapTask
         /\ task[d].op = "setup" => task[d] \in SetUpTask
         /\ task[d].op = "recover" => task[d] \in RecoverTask
         /\ task[d].op = "unlock" => task[d] \in UnlockTask
         /\ task[d].op \in {"none", "bootstrap", "setup", "recover", "unlock"}
         /\ task[d].op = "none" => task[d] = Free
<1>1. task[d] \in {Free} \union BootstrapTask \union SetUpTask \union RecoverTask \union UnlockTask
  BY DEF KeysTyped
<1>2. Free.op = "none"
  BY DEF Free
<1> QED BY <1>1, <1>2 DEF BootstrapTask, SetUpTask, RecoverTask, UnlockTask

LEMMA UserOf ==
  ASSUME KeysTyped, NEW e \in SomeUser PROVE e \in Email /\ user[e] \in Rows
BY DEF KeysTyped, SomeUser, HasUser

LEMMA WrapsHoldKeys ==
  ASSUME drawn \in Nat, NEW w \in Wraps
  PROVE  w.key \in 0..drawn /\ (w # NoWrap => w.key \in Drawn)
<1>1. CASE w = NoWrap
  BY <1>1 DEF NoWrap
<1>2. ASSUME NEW k \in Drawn, NEW p \in Password, NEW s \in Drawn, w = Wrap(k, Derived(p, s))
      PROVE  w.key \in 0..drawn /\ w.key \in Drawn
  BY <1>2 DEF Wrap, Drawn
<1> QED BY <1>1, <1>2 DEF Wraps

LEMMA RowsAreNoBlank == ASSUME NEW row \in Rows PROVE row # NoUser
BY DEF Rows, NoUser

\* Accounts stay, and so do set-ups; a row once written is a row.
LEMMA UserStep ==
  ASSUME KeysTyped, TasksSound, [KeysNext]_keyVars
  PROVE  /\ drawn' \in {drawn, drawn + 1}
         /\ SomeUser \subseteq SomeUser'
         /\ user' \in [Email -> ({NoUser} \union Rows)']
<1>1. drawn' \in {drawn, drawn + 1}
  BY DEF KeysNext, keyVars, Draw, BootstrapCheck, SetUpSalt, UnlockStart, BootstrapCreate, SetUpLogin, SetUpCheck,
     SetUpWrite, SetUpAnswer, RecoverRead, RecoverVerify, RecoverWrite, RecoverAnswer, FetchSalt, FetchEnvelope,
     Unwrap, CacheEnvelope, UnlockOffline, DropKey, SyncReadsMeta, SyncPutsMeta, Seal, Lose, LoseSync
<1>2. CASE user' = user
  <2>1. SomeUser' = SomeUser
    BY <1>2 DEF SomeUser, HasUser
  <2>2. Rows \subseteq Rows'
    BY <1>1, <2>1, Growth DEF KeysTyped
  <2> QED BY <1>1, <1>2, <2>1, <2>2 DEF KeysTyped
<1> DEFINE Puts(e, row) == user' = [user EXCEPT ![e] = row] /\ row \in Rows /\ drawn' = drawn
<1>3. ASSUME NEW e \in Email, NEW row, Puts(e, row)
      PROVE  SomeUser \subseteq SomeUser' /\ user' \in [Email -> ({NoUser} \union Rows)']
  <2>1. Rows' = Rows
    BY <1>3 DEF Rows, Wraps, Drawn
  <2>2. SomeUser \subseteq SomeUser'
    BY <1>3, RowsAreNoBlank DEF SomeUser, HasUser, KeysTyped
  <2> QED BY <1>3, <2>1, <2>2 DEF KeysTyped
<1>4. ASSUME NEW d \in Device, BootstrapCreate(d), user' # user
      PROVE  \E e \in Email, row \in Rows : Puts(e, row)
  <2> DEFINE t == task[d]
             row == [salt |-> t.salt, digest |-> Derived(t.password, t.salt), protected |-> NoWrap,
                     recovery |-> NoWrap, proof |-> <<>>, setUp |-> FALSE]
  <2>1. t \in BootstrapTask
    BY <1>4, TaskOf DEF BootstrapCreate, At
  <2>2. row \in Rows
    BY <2>1 DEF BootstrapTask, Rows, Wraps, Derived
  <2>3. user' = [user EXCEPT ![t.email] = row] /\ drawn' = drawn
    BY <1>4 DEF BootstrapCreate
  <2> HIDE DEF row
  <2> QED BY <2>1, <2>2, <2>3 DEF BootstrapTask
<1>5. ASSUME NEW d \in Device, SetUpWrite(d)
      PROVE  \E e \in Email, row \in Rows : Puts(e, row)
  <2> DEFINE t == task[d]
             row == [user[t.email] EXCEPT
                       !.protected = Wrap(t.key, Derived(t.password, t.salt)),
                       !.recovery = Wrap(t.key, <<"code", t.key>>),
                       !.proof = <<t.key, "code", t.key>>, !.setUp = TRUE]
  <2>1. t \in SetUpTask /\ t.key \in Drawn
    BY <1>5, TaskOf DEF SetUpWrite, At, TasksSound, SetUpSound
  <2>2. user[t.email] \in Rows /\ t.email \in Email
    BY <2>1, UserOf DEF SetUpTask
  <2>3. Wrap(t.key, Derived(t.password, t.salt)) \in Wraps
    BY <1>5, <2>1 DEF SetUpTask, Wraps
  <2>4. row \in Rows
    BY <2>1, <2>2, <2>3 DEF Rows
  <2>5. user' = [user EXCEPT ![t.email] = row] /\ drawn' = drawn
    BY <1>5, <2>2 DEF SetUpWrite, KeysTyped
  <2> HIDE DEF row
  <2> QED BY <2>2, <2>4, <2>5
<1>6. ASSUME NEW d \in Device, RecoverWrite(d)
      PROVE  \E e \in Email, row \in Rows : Puts(e, row)
  <2> DEFINE t == task[d]
             row == [user[t.email] EXCEPT
                       !.salt = t.salt, !.digest = Derived(t.password, t.salt),
                       !.protected = Wrap(t.key, Derived(t.password, t.salt))]
  <2>1. t \in RecoverTask
    BY <1>6, TaskOf DEF RecoverWrite, At
  <2>2. user[t.email] \in Rows /\ t.email \in Email
    BY <2>1, UserOf DEF RecoverTask
  <2>3. Wrap(t.key, Derived(t.password, t.salt)) \in Wraps /\ Derived(t.password, t.salt) \in Password \X Drawn
    BY <2>1 DEF RecoverTask, Wraps, Derived
  <2>4. row \in Rows
    BY <2>1, <2>2, <2>3 DEF Rows, RecoverTask
  <2>5. user' = [user EXCEPT ![t.email] = row] /\ drawn' = drawn
    BY <1>6, <2>2 DEF RecoverWrite, KeysTyped
  <2> HIDE DEF row
  <2> QED BY <2>2, <2>4, <2>5
<1>7. \/ user' = user
      \/ \E d \in Device : BootstrapCreate(d) \/ SetUpWrite(d) \/ RecoverWrite(d)
  BY DEF KeysNext, keyVars, BootstrapCheck, SetUpSalt, UnlockStart, SetUpLogin, SetUpCheck,
     SetUpAnswer, RecoverRead, RecoverVerify, RecoverAnswer, FetchSalt, FetchEnvelope,
     Unwrap, CacheEnvelope, UnlockOffline, DropKey, SyncReadsMeta, SyncPutsMeta, Seal, Lose, LoseSync
<1>8. SomeUser \subseteq SomeUser' /\ user' \in [Email -> ({NoUser} \union Rows)']
  <2> HIDE DEF Puts
  <2> QED BY <1>2, <1>3, <1>4, <1>5, <1>6, <1>7
<1> QED BY <1>1, <1>8

LEMMA KeysTypedStep ==
  ASSUME KeysTyped, TasksSound, [KeysNext]_keyVars PROVE KeysTyped'
<1> DEFINE Task == {Free} \union BootstrapTask \union SetUpTask \union RecoverTask \union UnlockTask
<1>1. /\ drawn' \in {drawn, drawn + 1} /\ drawn' \in Nat /\ SomeUser \subseteq SomeUser'
      /\ user' \in [Email -> ({NoUser} \union Rows)']
  BY UserStep DEF KeysTyped
<1>2. /\ Drawn \subseteq Drawn' /\ 0..drawn \subseteq 0..drawn' /\ Wraps \subseteq Wraps'
      /\ Envelopes \subseteq Envelopes' /\ Task \subseteq Task'
  BY <1>1, Growth DEF KeysTyped
<1>3. /\ task \in [Device -> Task] /\ key \in [Device -> 0..drawn]
      /\ cached \in [Device -> Envelopes] /\ syncing \in [Device -> Envelopes]
      /\ shown \subseteq Drawn /\ sealed \subseteq Drawn /\ drawn \in Nat
  BY DEF KeysTyped
<1>4. NoEnvelope \in Envelopes' /\ NoWrap \in Wraps /\ Free \in Task' /\ 0 \in 0..drawn' /\ Drawn \subseteq 0..drawn
  BY <1>1 DEF NoEnvelope, Envelopes, Wraps, Drawn
<1> DEFINE KeptKeys == key' \in [Device -> 0..drawn']
           KeptCopies == cached' \in [Device -> Envelopes'] /\ syncing' \in [Device -> Envelopes']
           KeptSets == shown' \subseteq Drawn' /\ sealed' \subseteq Drawn'
           KeptTasks == task' \in [Device -> Task']
<1>5. /\ UNCHANGED key => KeptKeys
      /\ UNCHANGED <<cached, syncing>> => KeptCopies
      /\ UNCHANGED <<shown, sealed>> => KeptSets
      /\ UNCHANGED task => KeptTasks
      /\ \A d \in Device : End(d) => KeptTasks
      /\ \A d \in Device, t \in Task' : task' = [task EXCEPT ![d] = t] => KeptTasks
  <2> HIDE DEF Task
  <2> QED BY <1>2, <1>3, <1>4 DEF End
<1> DEFINE AllKept == KeptKeys /\ KeptCopies /\ KeptSets /\ KeptTasks
<1> HIDE DEF KeptKeys, KeptCopies, KeptSets, KeptTasks, Task
<1> SUFFICES AllKept
  BY <1>1 DEF KeysTyped, KeptKeys, KeptCopies, KeptSets, KeptTasks, Task
<1>6. ASSUME NEW d \in Device, NEW e \in Email, NEW p \in Password,
             BootstrapCheck(d, e, p) \/ SetUpSalt(d, e, p) \/ UnlockStart(d, e, p)
      PROVE  AllKept
  <2>1. CASE BootstrapCheck(d, e, p)
    <3>1. [op |-> "bootstrap", step |-> "create", email |-> e, password |-> p, salt |-> drawn'] \in Task'
      BY <1>3, <2>1 DEF Task, BootstrapTask, BootstrapCheck, Draw, Drawn
    <3> QED BY <1>5, <2>1, <3>1 DEF BootstrapCheck, StartTask
  <2>2. CASE SetUpSalt(d, e, p)
    <3>1. e \in SomeUser' /\ user[e].salt \in Drawn'
      BY <1>1, <1>2, <2>2, UserOf DEF SetUpSalt, SomeUser, Rows
    <3>2. [op |-> "setup", step |-> "login", email |-> e, password |-> p, salt |-> user[e].salt, key |-> 0] \in Task'
      BY <1>4, <3>1 DEF Task, SetUpTask
    <3> QED BY <1>5, <2>2, <3>2 DEF SetUpSalt, StartTask
  <2>3. CASE UnlockStart(d, e, p)
    <3>1. e \in SomeUser'
      BY <1>1, <2>3 DEF UnlockStart, SomeUser
    <3>2. [op |-> "unlock", step |-> "fetch", email |-> e, password |-> p, got |-> {}, salt |-> 0, protected |-> NoWrap]
            \in Task'
      BY <1>2, <1>4, <3>1 DEF Task, UnlockTask
    <3> QED BY <1>5, <2>3, <3>2 DEF UnlockStart, StartTask
  <2> QED BY <1>6, <2>1, <2>2, <2>3
<1>7. ASSUME NEW d \in Device, task[d].op = "setup",
             SetUpLogin(d) \/ SetUpCheck(d) \/ SetUpWrite(d) \/ SetUpAnswer(d)
      PROVE  AllKept
  <2> DEFINE t == task[d]
  <2>1. t \in SetUpTask'
    BY <1>1, <1>7, TaskOf, Growth DEF KeysTyped
  <2>2. \A step \in {"check", "write", "answer"}, k \in 0..drawn' :
          [t EXCEPT !.step = step] \in Task' /\ [t EXCEPT !.step = step, !.key = k] \in Task'
    BY <2>1 DEF Task, SetUpTask
  <2>3. CASE SetUpLogin(d)
    <3>1. drawn' \in 0..drawn'
      BY <1>1
    <3>2. Step(d, "check") => task' = [task EXCEPT ![d] = [t EXCEPT !.step = "check"]]
      BY <1>3 DEF Step
    <3>3. CASE task' = [task EXCEPT ![d].step = "check", ![d].key = drawn']
      <4>1. task' = [task EXCEPT ![d] = [t EXCEPT !.step = "check", !.key = drawn']]
        BY <1>3, <3>3
      <4> QED BY <1>5, <2>2, <2>3, <3>1, <4>1 DEF SetUpLogin
    <3> QED BY <1>5, <2>3, <3>3 DEF SetUpLogin
  <2>4. CASE SetUpCheck(d) \/ SetUpWrite(d)
    <3>1. \A step \in {"check", "write", "answer"} :
            Step(d, step) => task' = [task EXCEPT ![d] = [t EXCEPT !.step = step]]
      BY <1>3 DEF Step
    <3>2. \A step \in {"check", "write", "answer"} : Step(d, step) => KeptTasks
      BY <1>4, <1>5, <2>2, <3>1
    <3> QED BY <1>5, <2>4, <3>2 DEF SetUpCheck, SetUpWrite
  <2>5. CASE SetUpAnswer(d)
    <3>1. t.key \in Drawn /\ t \in SetUpTask
      BY <1>7, <2>5, TaskOf DEF TasksSound, SetUpSound, SetUpAnswer, At
    <3>2. [salt |-> t.salt, protected |-> Wrap(t.key, Derived(t.password, t.salt))] \in Envelopes'
      <4>1. Wrap(t.key, Derived(t.password, t.salt)) \in Wraps /\ t.salt \in 0..drawn
        BY <1>4, <3>1 DEF SetUpTask, Wraps
      <4> QED BY <1>2, <4>1 DEF Envelopes
    <3>3. KeptKeys /\ KeptSets
      BY <1>2, <1>3, <1>4, <2>5, <3>1 DEF SetUpAnswer, KeptKeys, KeptSets
    <3>4. KeptCopies
      BY <1>2, <1>3, <2>5, <3>2 DEF SetUpAnswer, KeptCopies
    <3> QED BY <1>5, <2>5, <3>3, <3>4 DEF SetUpAnswer
  <2> QED BY <1>7, <2>3, <2>4, <2>5
<1>8. ASSUME NEW d \in Device, task[d].op = "recover", RecoverVerify(d) \/ RecoverWrite(d) \/ RecoverAnswer(d)
      PROVE  AllKept
  <2> DEFINE t == task[d]
  <2>1. t \in RecoverTask' /\ t \in RecoverTask
    BY <1>1, <1>8, TaskOf, Growth DEF KeysTyped
  <2>2. CASE RecoverVerify(d)
    <3>1. ASSUME NEW e \in SomeUser, task' = [task EXCEPT ![d].step = "write", ![d].email = e]
          PROVE  KeptTasks
      <4>1. task' = [task EXCEPT ![d] = [t EXCEPT !.step = "write", !.email = e]]
        BY <1>3, <3>1
      <4>2. [t EXCEPT !.step = "write", !.email = e] \in Task'
        BY <1>1, <2>1 DEF Task, RecoverTask
      <4> QED BY <1>5, <4>1, <4>2
    <3> QED BY <1>5, <2>2, <3>1 DEF RecoverVerify
  <2>3. CASE RecoverWrite(d)
    <3>1. [t EXCEPT !.step = "answer"] \in Task'
      BY <2>1 DEF Task, RecoverTask
    <3>2. task' = [task EXCEPT ![d] = [t EXCEPT !.step = "answer"]]
      BY <1>3, <2>3 DEF RecoverWrite, Step
    <3> QED BY <1>5, <2>3, <3>1, <3>2 DEF RecoverWrite
  <2>4. CASE RecoverAnswer(d)
    <3>1. [salt |-> t.salt, protected |-> Wrap(t.key, Derived(t.password, t.salt))] \in Envelopes'
      <4>1. Wrap(t.key, Derived(t.password, t.salt)) \in Wraps /\ t.salt \in 0..drawn
        BY <1>4, <2>1 DEF RecoverTask, Wraps
      <4> QED BY <1>2, <4>1 DEF Envelopes
    <3>2. KeptKeys
      BY <1>2, <1>3, <1>4, <2>1, <2>4 DEF RecoverAnswer, RecoverTask, KeptKeys
    <3>3. KeptCopies
      BY <1>2, <1>3, <2>4, <3>1 DEF RecoverAnswer, KeptCopies
    <3> QED BY <1>5, <2>4, <3>2, <3>3 DEF RecoverAnswer
  <2> QED BY <1>8, <2>2, <2>3, <2>4
<1>9. ASSUME NEW d \in Device, NEW p \in Password, NEW c \in shown, RecoverRead(d, p, c)
      PROVE  AllKept
  <2>1. PICK e \in SomeUser :
          /\ Opens(user[e].recovery, <<"code", c>>)
          /\ StartTask(d, [op |-> "recover", step |-> "verify", email |-> e, password |-> p, salt |-> drawn',
                           key |-> user[e].recovery.key, code |-> c])
    BY <1>9 DEF RecoverRead
  <2>2. user[e].recovery.key \in Drawn /\ c \in Drawn /\ drawn' \in Drawn'
    <3>1. user[e].recovery # NoWrap
      BY <2>1 DEF Opens, NoWrap
    <3>2. user[e].recovery \in {NoWrap} \union {Wrap(k, <<"code", k>>) : k \in Drawn}
      BY UserOf DEF Rows
    <3> QED BY <1>1, <1>3, <1>9, <3>1, <3>2 DEF Wrap, RecoverRead, Draw, Drawn
  <2>3. [op |-> "recover", step |-> "verify", email |-> e, password |-> p, salt |-> drawn',
         key |-> user[e].recovery.key, code |-> c] \in Task'
    BY <1>1, <1>2, <2>2 DEF Task, RecoverTask
  <2> QED BY <1>5, <1>9, <2>1, <2>3 DEF RecoverRead, StartTask
<1>10. ASSUME NEW d \in Device, task[d].op = "unlock",
              FetchSalt(d) \/ FetchEnvelope(d) \/ Unwrap(d) \/ CacheEnvelope(d)
       PROVE  AllKept
  <2> DEFINE t == task[d]
  <2>1. t \in UnlockTask' /\ t \in UnlockTask /\ user[t.email] \in Rows /\ t.email \in SomeUser
    BY <1>1, <1>10, TaskOf, UserOf, Growth DEF KeysTyped, UnlockTask
  <2>2. CASE FetchSalt(d)
    <3>1. [t EXCEPT !.got = @ \union {"salt"}, !.salt = user[t.email].salt] \in Task'
      BY <1>2, <1>4, <2>1 DEF Task, UnlockTask, Rows
    <3>2. task' = [task EXCEPT ![d] = [t EXCEPT !.got = @ \union {"salt"}, !.salt = user[t.email].salt]]
      BY <1>3, <2>2 DEF FetchSalt
    <3> QED BY <1>5, <2>2, <3>1, <3>2 DEF FetchSalt
  <2>3. CASE FetchEnvelope(d)
    <3>1. [t EXCEPT !.got = @ \union {"envelope"}, !.protected = user[t.email].protected] \in Task'
      BY <1>2, <2>1 DEF Task, UnlockTask, Rows
    <3>2. task' = [task EXCEPT ![d] = [t EXCEPT !.got = @ \union {"envelope"}, !.protected = user[t.email].protected]]
      BY <1>3, <2>3 DEF FetchEnvelope
    <3> QED BY <1>5, <2>3, <3>1, <3>2 DEF FetchEnvelope
  <2>4. CASE Unwrap(d)
    <3>1. Step(d, "cache") => KeptTasks
      <4>1. [t EXCEPT !.step = "cache"] \in Task'
        BY <2>1 DEF Task, UnlockTask
      <4> QED BY <1>3, <1>5, <4>1 DEF Step
    <3>2. KeptKeys
      <4>1. t.protected.key \in 0..drawn
        BY <1>3, <2>1, WrapsHoldKeys DEF UnlockTask
      <4> QED BY <1>2, <1>3, <1>5, <2>4, <4>1 DEF Unwrap, KeptKeys
    <3> QED BY <1>5, <2>4, <3>1, <3>2 DEF Unwrap
  <2>5. CASE CacheEnvelope(d)
    <3>1. [salt |-> t.salt, protected |-> t.protected] \in Envelopes'
      BY <1>2, <2>1 DEF UnlockTask, Envelopes
    <3>2. KeptCopies
      BY <1>2, <1>3, <2>5, <3>1 DEF CacheEnvelope, KeptCopies
    <3> QED BY <1>5, <2>5, <3>2 DEF CacheEnvelope
  <2> QED BY <1>10, <2>2, <2>3, <2>4, <2>5
<1>11. ASSUME NEW d \in Device, BootstrapCreate(d) \/ Lose(d)
       PROVE  AllKept
  BY <1>5, <1>11 DEF BootstrapCreate, Lose
<1>12. ASSUME NEW d \in Device, (\E p \in Password : UnlockOffline(d, p)) \/ DropKey(d)
       PROVE  AllKept
  <2>1. cached[d].protected.key \in 0..drawn
    BY <1>3, WrapsHoldKeys DEF Envelopes
  <2>2. KeptKeys
    BY <1>2, <1>3, <1>4, <1>12, <2>1 DEF UnlockOffline, DropKey, KeptKeys
  <2> QED BY <1>5, <1>12, <2>2 DEF UnlockOffline, DropKey
<1>13. ASSUME NEW d \in Device, SyncReadsMeta(d) \/ SyncPutsMeta(d) \/ LoseSync(d)
       PROVE  AllKept
  <2>1. KeptCopies
    BY <1>2, <1>3, <1>4, <1>13 DEF SyncReadsMeta, SyncPutsMeta, LoseSync, KeptCopies
  <2> QED BY <1>5, <1>13, <2>1 DEF SyncReadsMeta, SyncPutsMeta, LoseSync
<1>14. ASSUME NEW d \in Device, Seal(d)
       PROVE  AllKept
  <2>1. key[d] \in Drawn
    BY <1>3, <1>14 DEF Seal, Drawn
  <2>2. KeptSets
    BY <1>2, <1>3, <1>14, <2>1 DEF Seal, KeptSets
  <2> QED BY <1>5, <1>14, <2>2 DEF Seal
<1>15. CASE UNCHANGED keyVars
  BY <1>5, <1>15 DEF keyVars, AllKept
<1>16. \A d \in Device :
         /\ SetUpLogin(d) \/ SetUpCheck(d) \/ SetUpWrite(d) \/ SetUpAnswer(d) => task[d].op = "setup"
         /\ RecoverVerify(d) \/ RecoverWrite(d) \/ RecoverAnswer(d) => task[d].op = "recover"
         /\ FetchSalt(d) \/ FetchEnvelope(d) \/ Unwrap(d) \/ CacheEnvelope(d) => task[d].op = "unlock"
  BY DEF At, SetUpLogin, SetUpCheck, SetUpWrite, SetUpAnswer, RecoverVerify, RecoverWrite, RecoverAnswer,
     FetchSalt, FetchEnvelope, Unwrap, CacheEnvelope
<1> HIDE DEF AllKept
<1> QED BY <1>6, <1>7, <1>8, <1>9, <1>10, <1>11, <1>12, <1>13, <1>14, <1>15, <1>16 DEF KeysNext

\* What a write changes of the account, and when.
LEMMA UserWrites ==
  ASSUME KeysInv, OneSetUp, [KeysNext]_keyVars, user' # user
  PROVE  \E d \in Device : LET t == task[d] IN
    \/ /\ BootstrapCreate(d) /\ t \in BootstrapTask /\ SomeUser = {} /\ \A e, f \in Email : e = f
       /\ user' = [user EXCEPT ![t.email] =
                      [salt |-> t.salt, digest |-> Derived(t.password, t.salt), protected |-> NoWrap,
                       recovery |-> NoWrap, proof |-> <<>>, setUp |-> FALSE]]
    \/ /\ SetUpWrite(d) /\ t \in SetUpTask /\ SomeUser = {t.email} /\ ~IsSetUp(t.email) /\ t.key \in Drawn
       /\ user[t.email].digest = Derived(t.password, t.salt) /\ \A e, f \in SetUpOn : e = f
    \/ /\ RecoverWrite(d) /\ t \in RecoverTask /\ SomeUser = {t.email} /\ IsSetUp(t.email)
       /\ user[t.email].protected.key = t.key
<1>1. \E d \in Device : BootstrapCreate(d) \/ SetUpWrite(d) \/ RecoverWrite(d)
  BY DEF KeysNext, keyVars, BootstrapCheck, SetUpSalt, UnlockStart, SetUpLogin, SetUpCheck,
     SetUpAnswer, RecoverRead, RecoverVerify, RecoverAnswer, FetchSalt, FetchEnvelope,
     Unwrap, CacheEnvelope, UnlockOffline, DropKey, SyncReadsMeta, SyncPutsMeta, Seal, Lose, LoseSync
<1>2. ASSUME NEW e \in SomeUser PROVE SomeUser = {e}
  BY DEF KeysInv, OneAccount
<1>3. ASSUME NEW e \in Email, IsSetUp(e) PROVE SomeUser = {e}
  BY <1>2, <1>3 DEF IsSetUp, SomeUser
<1>4. ASSUME NEW d \in Device, BootstrapCreate(d)
      PROVE  /\ task[d] \in BootstrapTask /\ SomeUser = {} /\ \A e, f \in Email : e = f
             /\ user' = [user EXCEPT ![task[d].email] =
                            [salt |-> task[d].salt, digest |-> Derived(task[d].password, task[d].salt),
                             protected |-> NoWrap, recovery |-> NoWrap, proof |-> <<>>, setUp |-> FALSE]]
  <2>1. task[d] \in BootstrapTask /\ task[d].op = "bootstrap"
    BY <1>4, TaskOf DEF BootstrapCreate, At, KeysInv
  <2>2. ~HasUser(task[d].email)
    BY <1>4 DEF BootstrapCreate
  <2>3. SomeUser = {}
    BY <2>1, <2>2 DEF KeysInv, OneAccount, SomeUser
  <2> QED BY <1>4, <2>1, <2>2, <2>3 DEF BootstrapCreate, OneSetUp
<1>5. ASSUME NEW d \in Device, SetUpWrite(d)
      PROVE  /\ task[d] \in SetUpTask /\ SomeUser = {task[d].email} /\ ~IsSetUp(task[d].email)
             /\ task[d].key \in Drawn
             /\ user[task[d].email].digest = Derived(task[d].password, task[d].salt)
             /\ \A e, f \in SetUpOn : e = f
  <2>1. task[d] \in SetUpTask /\ task[d].op = "setup" /\ task[d].step = "write"
    BY <1>5, TaskOf DEF SetUpWrite, At, KeysInv
  <2>2. SetUpSound(d)
    BY DEF KeysInv, TasksSound
  <2>3. SomeUser = {task[d].email}
    BY <1>2, <2>1 DEF SetUpTask
  <2>4. \A e \in Email : ~IsSetUp(e)
    BY <1>3, <2>1, <2>2, <2>3 DEF SetUpSound
  <2> QED BY <2>1, <2>2, <2>3, <2>4 DEF SetUpSound, OneSetUp
<1>6. ASSUME NEW d \in Device, RecoverWrite(d)
      PROVE  /\ task[d] \in RecoverTask /\ SomeUser = {task[d].email} /\ IsSetUp(task[d].email)
             /\ user[task[d].email].protected.key = task[d].key
  <2>1. task[d] \in RecoverTask /\ task[d].op = "recover"
    BY <1>6, TaskOf DEF RecoverWrite, At, KeysInv
  <2>2. PICK e \in Email : IsSetUp(e) /\ user[e].protected.key = task[d].key
    BY <2>1 DEF KeysInv, TasksSound, InUse
  <2>3. task[d].email \in SomeUser /\ SomeUser = {e}
    BY <1>3, <2>1, <2>2 DEF RecoverTask
  <2> QED BY <2>1, <2>2, <2>3
<1> QED BY <1>1, <1>4, <1>5, <1>6

\* A key in use stays in use: a recovery wraps the same one again.
LEMMA InUseStays ==
  ASSUME KeysInv, OneSetUp, [KeysNext]_keyVars, NEW k, InUse(k) PROVE InUse(k)'
<1>1. PICK e \in Email : IsSetUp(e) /\ user[e].protected.key = k
  BY DEF InUse
<1>2. e \in SomeUser /\ user \in [Email -> {NoUser} \union Rows]
  BY <1>1 DEF SomeUser, IsSetUp, KeysInv, KeysTyped
<1>3. CASE user' = user
  BY <1>1, <1>3 DEF InUse, IsSetUp, HasUser
<1>4. CASE user' # user
  <2>1. PICK d \in Device :
          /\ RecoverWrite(d) /\ task[d] \in RecoverTask /\ SomeUser = {task[d].email}
          /\ user[task[d].email].protected.key = task[d].key
    BY <1>1, <1>2, <1>4, UserWrites
  <2>2. user'[e] = [user[e] EXCEPT !.salt = task[d].salt, !.digest = Derived(task[d].password, task[d].salt),
                                   !.protected = Wrap(task[d].key, Derived(task[d].password, task[d].salt))]
    BY <1>2, <2>1 DEF RecoverWrite
  <2>3. user[e] \in Rows
    BY <1>2 DEF SomeUser, HasUser
  <2>4. /\ user'[e].setUp = user[e].setUp
        /\ user'[e].protected = Wrap(task[d].key, Derived(task[d].password, task[d].salt))
    BY <2>2, <2>3 DEF Rows
  <2>5. e \in SomeUser'
    BY <1>2, UserStep DEF KeysInv
  <2>6. Wrap(task[d].key, Derived(task[d].password, task[d].salt)).key = task[d].key
    BY DEF Wrap
  <2> QED BY <1>1, <1>2, <2>1, <2>4, <2>5, <2>6 DEF InUse, IsSetUp, SomeUser
<1> QED BY <1>3, <1>4

\* A bootstrap begins before there is an account.
LEMMA BootstrapsWait ==
  ASSUME KeysTyped, [KeysNext]_keyVars, NEW x \in Device, task'[x].op = "bootstrap"
  PROVE  SomeUser = {} \/ task'[x] = task[x]
<1>0. task \in [Device -> {Free} \union BootstrapTask \union SetUpTask \union RecoverTask \union UnlockTask]
  BY DEF KeysTyped
<1> DEFINE Others(d) == \A y \in Device : y # d => task'[y] = task[y]
<1>1. ASSUME NEW d \in Device, task'[d].op # "bootstrap", Others(d) PROVE task'[x] = task[x]
  BY <1>1
<1>2. ASSUME NEW d \in Device, End(d) PROVE task'[x] = task[x]
  BY <1>0, <1>2, <1>1 DEF End, Free
<1>3. ASSUME NEW d \in Device, NEW e \in Email, NEW p \in Password,
             BootstrapCheck(d, e, p) \/ SetUpSalt(d, e, p) \/ UnlockStart(d, e, p)
      PROVE  SomeUser = {} \/ task'[x] = task[x]
  BY <1>0, <1>1, <1>3 DEF BootstrapCheck, SetUpSalt, UnlockStart, StartTask
<1>4. ASSUME NEW d \in Device, task[d].op = "setup", task[d] \in SetUpTask,
             SetUpLogin(d) \/ SetUpCheck(d) \/ SetUpWrite(d) \/ SetUpAnswer(d)
      PROVE  task'[x] = task[x]
  <2>1. CASE SetUpLogin(d)
    BY <1>0, <1>1, <1>2, <1>4, <2>1 DEF SetUpLogin, SetUpTask
  <2>2. CASE SetUpCheck(d) \/ SetUpWrite(d) \/ SetUpAnswer(d)
    BY <1>0, <1>1, <1>2, <1>4, <2>2 DEF SetUpCheck, SetUpWrite, SetUpAnswer, Step, SetUpTask
  <2> QED BY <1>4, <2>1, <2>2
<1>5. ASSUME NEW d \in Device, task[d].op = "recover", task[d] \in RecoverTask,
             RecoverVerify(d) \/ RecoverWrite(d) \/ RecoverAnswer(d)
      PROVE  task'[x] = task[x]
  BY <1>0, <1>1, <1>2, <1>5 DEF RecoverVerify, RecoverWrite, RecoverAnswer, Step, RecoverTask
<1>6. ASSUME NEW d \in Device, task[d].op = "unlock", task[d] \in UnlockTask,
             FetchSalt(d) \/ FetchEnvelope(d) \/ Unwrap(d) \/ CacheEnvelope(d)
      PROVE  task'[x] = task[x]
  BY <1>0, <1>1, <1>2, <1>6 DEF FetchSalt, FetchEnvelope, Unwrap, CacheEnvelope, Step, UnlockTask
<1>7. ASSUME NEW d \in Device, NEW p \in Password, NEW c \in shown, RecoverRead(d, p, c)
      PROVE  task'[x] = task[x]
  BY <1>0, <1>1, <1>7 DEF RecoverRead, StartTask
<1>8. ASSUME NEW d \in Device, BootstrapCreate(d) \/ Lose(d)
      PROVE  task'[x] = task[x]
  BY <1>2, <1>8 DEF BootstrapCreate, Lose
<1>9. CASE \E d \in Device : (\E p \in Password : UnlockOffline(d, p)) \/ DropKey(d)
                             \/ SyncReadsMeta(d) \/ SyncPutsMeta(d) \/ LoseSync(d) \/ Seal(d)
  BY <1>9 DEF UnlockOffline, DropKey, SyncReadsMeta, SyncPutsMeta, LoseSync, Seal
<1>10. CASE UNCHANGED keyVars
  BY <1>10 DEF keyVars
<1>11. \A d \in Device :
         /\ SetUpLogin(d) \/ SetUpCheck(d) \/ SetUpWrite(d) \/ SetUpAnswer(d) => task[d].op = "setup"
         /\ RecoverVerify(d) \/ RecoverWrite(d) \/ RecoverAnswer(d) => task[d].op = "recover"
         /\ FetchSalt(d) \/ FetchEnvelope(d) \/ Unwrap(d) \/ CacheEnvelope(d) => task[d].op = "unlock"
  BY DEF At, SetUpLogin, SetUpCheck, SetUpWrite, SetUpAnswer, RecoverVerify, RecoverWrite, RecoverAnswer,
     FetchSalt, FetchEnvelope, Unwrap, CacheEnvelope
<1> QED BY <1>3, <1>4, <1>5, <1>6, <1>7, <1>8, <1>9, <1>10, <1>11, TaskOf DEF KeysNext

LEMMA AccountStep ==
  ASSUME KeysInv, OneSetUp, [KeysNext]_keyVars PROVE OneAccount' /\ AccountSound' /\ OneSetUp'
<1>0. user \in [Email -> {NoUser} \union Rows] /\ SomeUser \subseteq SomeUser' /\ Drawn \subseteq Drawn'
  <2>1. SomeUser \subseteq SomeUser' /\ drawn' \in {drawn, drawn + 1} /\ drawn \in Nat
    BY UserStep DEF KeysInv, KeysTyped
  <2> QED BY <2>1, Growth DEF KeysInv, KeysTyped
<1>1. OneSetUp'
  <2>1. ASSUME NEW e \in Email, IsSetUp(e) PROVE \E f \in Email : IsSetUp(f)'
    <3>1. InUse(user[e].protected.key)
      BY <2>1 DEF InUse
    <3> QED BY <3>1, InUseStays DEF InUse
  <2> QED BY <1>0, <2>1 DEF OneSetUp
<1>2. CASE user' = user
  <2>1. SomeUser' = SomeUser
    BY <1>2 DEF SomeUser, HasUser
  <2>2. AccountSound'
    BY <1>0, <1>2, <2>1 DEF AccountSound, KeysInv
  <2>3. \A d \in Device, e \in SomeUser : task'[d].op = "bootstrap" => task'[d].email = e
    <3>1. \A x \in Device : task'[x].op = "bootstrap" => SomeUser = {} \/ task'[x] = task[x]
      BY BootstrapsWait DEF KeysInv
    <3> QED BY <3>1 DEF KeysInv, OneAccount
  <2> QED BY <1>1, <2>1, <2>2, <2>3 DEF OneAccount, KeysInv
<1>3. CASE user' # user
  <2>1. PICK d \in Device : LET t == task[d] IN
          \/ /\ BootstrapCreate(d) /\ t \in BootstrapTask /\ SomeUser = {} /\ \A e, f \in Email : e = f
             /\ user' = [user EXCEPT ![t.email] =
                            [salt |-> t.salt, digest |-> Derived(t.password, t.salt), protected |-> NoWrap,
                             recovery |-> NoWrap, proof |-> <<>>, setUp |-> FALSE]]
          \/ /\ SetUpWrite(d) /\ t \in SetUpTask /\ SomeUser = {t.email} /\ t.key \in Drawn
             /\ user[t.email].digest = Derived(t.password, t.salt)
          \/ /\ RecoverWrite(d) /\ t \in RecoverTask /\ SomeUser = {t.email} /\ IsSetUp(t.email)
             /\ user[t.email].protected.key = t.key
    BY <1>3, UserWrites
  <2> DEFINE t == task[d]
  <2>2. \A x \in Device : task'[x].op = "bootstrap" => SomeUser = {} \/ task'[x] = task[x]
    BY BootstrapsWait DEF KeysInv
  <2>3. CASE BootstrapCreate(d) /\ t \in BootstrapTask /\ SomeUser = {} /\ (\A e, f \in Email : e = f)
             /\ user' = [user EXCEPT ![t.email] =
                            [salt |-> t.salt, digest |-> Derived(t.password, t.salt), protected |-> NoWrap,
                             recovery |-> NoWrap, proof |-> <<>>, setUp |-> FALSE]]
    <3>1. t.email \in Email /\ SomeUser' \subseteq Email
      BY <2>3 DEF BootstrapTask, SomeUser
    <3>2. \A x \in Device : task'[x].op = "bootstrap" => task'[x].email \in Email
      <4>1. KeysTyped'
        BY KeysTypedStep DEF KeysInv
      <4> QED BY <4>1 DEF KeysTyped, Free, BootstrapTask, SetUpTask, RecoverTask, UnlockTask
    <3>3. OneAccount'
      BY <2>3, <3>1, <3>2 DEF OneAccount
    <3>4. AccountSound'
      <4> SUFFICES ASSUME NEW e \in SomeUser'
                   PROVE  /\ user'[e].digest[2] = user'[e].salt /\ ~user'[e].setUp
                          /\ user'[e].protected = NoWrap /\ user'[e].recovery = NoWrap
        BY DEF AccountSound
      <4>1. e = t.email
        BY <2>3, <3>1
      <4>2. user'[e] = [salt |-> t.salt, digest |-> Derived(t.password, t.salt), protected |-> NoWrap,
                        recovery |-> NoWrap, proof |-> <<>>, setUp |-> FALSE]
        BY <1>0, <2>3, <3>1, <4>1
      <4> QED BY <4>2 DEF Derived
    <3> QED BY <1>1, <3>3, <3>4
  <2>4. CASE (SetUpWrite(d) \/ RecoverWrite(d)) /\ SomeUser = {t.email}
    <3>1. SomeUser' = SomeUser
      BY <1>0, <2>4 DEF SetUpWrite, RecoverWrite, SomeUser, HasUser
    <3>2. OneAccount'
      BY <2>2, <3>1 DEF OneAccount, KeysInv
    <3>3. user[t.email] \in Rows /\ t.email \in Email
      BY <1>0, <2>4 DEF SomeUser, HasUser
    <3>4. AccountSound'
      <4> SUFFICES user'[t.email].digest[2] = user'[t.email].salt /\ user'[t.email].setUp
                   /\ \E k \in Drawn' : /\ user'[t.email].protected = Wrap(k, user'[t.email].digest)
                                         /\ user'[t.email].recovery = Wrap(k, <<"code", k>>)
                                         /\ user'[t.email].proof = <<k, "code", k>>
        BY <2>4, <3>1 DEF AccountSound
      <4>1. CASE SetUpWrite(d) /\ t.key \in Drawn /\ user[t.email].digest = Derived(t.password, t.salt)
        <5>1. user'[t.email] = [user[t.email] EXCEPT
                  !.protected = Wrap(t.key, Derived(t.password, t.salt)),
                  !.recovery = Wrap(t.key, <<"code", t.key>>),
                  !.proof = <<t.key, "code", t.key>>, !.setUp = TRUE]
          BY <1>0, <3>3, <4>1 DEF SetUpWrite
        <5>2. /\ user'[t.email].salt = user[t.email].salt /\ user'[t.email].digest = user[t.email].digest
              /\ user'[t.email].protected = Wrap(t.key, Derived(t.password, t.salt))
              /\ user'[t.email].recovery = Wrap(t.key, <<"code", t.key>>)
              /\ user'[t.email].proof = <<t.key, "code", t.key>> /\ user'[t.email].setUp
          BY <3>3, <5>1 DEF Rows
        <5>3. user[t.email].digest[2] = user[t.email].salt
          BY <2>4 DEF KeysInv, AccountSound
        <5> QED BY <1>0, <4>1, <5>2, <5>3
      <4>2. CASE RecoverWrite(d) /\ t \in RecoverTask /\ IsSetUp(t.email) /\ user[t.email].protected.key = t.key
        <5>1. user'[t.email] = [user[t.email] EXCEPT
                  !.salt = t.salt, !.digest = Derived(t.password, t.salt),
                  !.protected = Wrap(t.key, Derived(t.password, t.salt))]
          BY <1>0, <3>3, <4>2 DEF RecoverWrite
        <5>2. /\ user'[t.email].salt = t.salt /\ user'[t.email].digest = Derived(t.password, t.salt)
              /\ user'[t.email].protected = Wrap(t.key, Derived(t.password, t.salt))
              /\ user'[t.email].recovery = user[t.email].recovery
              /\ user'[t.email].proof = user[t.email].proof /\ user'[t.email].setUp = user[t.email].setUp
          BY <3>3, <5>1 DEF Rows
        <5>3. PICK k \in Drawn : /\ user[t.email].protected = Wrap(k, user[t.email].digest)
                                 /\ user[t.email].recovery = Wrap(k, <<"code", k>>)
                                 /\ user[t.email].proof = <<k, "code", k>>
          BY <2>4, <4>2 DEF KeysInv, AccountSound, IsSetUp
        <5>4. k = t.key
          BY <4>2, <5>3 DEF Wrap
        <5>5. Derived(t.password, t.salt)[2] = t.salt
          BY DEF Derived
        <5>6. user'[t.email].setUp
          BY <4>2, <5>2 DEF IsSetUp
        <5> QED BY <1>0, <5>2, <5>3, <5>4, <5>5, <5>6
      <4> QED BY <2>1, <2>4, <4>1, <4>2, UserOf DEF BootstrapCreate, At, SetUpWrite, RecoverWrite
    <3> QED BY <1>1, <3>2, <3>4
  <2> QED BY <2>1, <2>3, <2>4
<1> QED BY <1>2, <1>3

LEMMA OpenedIsNoBlank ==
  ASSUME NEW w, NEW p, NEW s, Opens(w, Derived(p, s)) PROVE w # NoWrap
BY DEF Opens, Derived, NoWrap

\* Keys and cached copies come from a set-up, a recovery or an unlock that knows the vault's key.
LEMMA KeysInUseStep ==
  ASSUME KeysInv, OneSetUp, [KeysNext]_keyVars PROVE KeysInUse' /\ PairsOpen'
<1>0. /\ key \in [Device -> 0..drawn] /\ cached \in [Device -> Envelopes] /\ syncing \in [Device -> Envelopes]
      /\ KeysTyped /\ KeysInUse /\ PairsOpen /\ TasksSound
  BY DEF KeysInv, KeysTyped
<1>1. \A k : InUse(k) => InUse(k)'
  BY InUseStays
<1> DEFINE Good(envelope) == envelope # NoEnvelope => InUse(envelope.protected.key) /\ PairOpens(envelope)
           GoodKey(k) == k # 0 => InUse(k)
           AllKept == /\ \A k \in shown' \union sealed' : InUse(k)
                   /\ \A d \in Device : GoodKey(key'[d]) /\ Good(cached'[d]) /\ Good(syncing'[d])
<1>2. AllKept => KeysInUse' /\ PairsOpen'
  BY <1>1 DEF KeysInUse, PairsOpen, PairOpens
<1>3. /\ \A k \in shown \union sealed : InUse(k)
      /\ \A d \in Device : GoodKey(key[d]) /\ Good(cached[d]) /\ Good(syncing[d])
  BY <1>0 DEF KeysInUse, PairsOpen
<1>4. Good(NoEnvelope) /\ GoodKey(0)
  OBVIOUS
<1>5. ASSUME NEW t, t.password \in Password, InUse(t.key)
      PROVE  Good([salt |-> t.salt, protected |-> Wrap(t.key, Derived(t.password, t.salt))])
  BY <1>5 DEF PairOpens, Wrap, Opens
<1> HIDE DEF Good, GoodKey
<1>6. ASSUME NEW d \in Device, SetUpAnswer(d) PROVE AllKept
  <2>1. InUse(task[d].key) /\ task[d].password \in Password
    BY <1>0, <1>6, TaskOf DEF SetUpAnswer, At, TasksSound, SetUpSound, SetUpTask
  <2>2. Good([salt |-> task[d].salt, protected |-> Wrap(task[d].key, Derived(task[d].password, task[d].salt))])
        /\ GoodKey(task[d].key)
    BY <1>5, <2>1 DEF GoodKey
  <2> QED BY <1>0, <1>3, <1>6, <2>1, <2>2 DEF SetUpAnswer
<1>7. ASSUME NEW d \in Device, RecoverAnswer(d) PROVE AllKept
  <2>1. InUse(task[d].key) /\ task[d].password \in Password
    BY <1>0, <1>7, TaskOf DEF RecoverAnswer, At, TasksSound, RecoverTask
  <2>2. Good([salt |-> task[d].salt, protected |-> Wrap(task[d].key, Derived(task[d].password, task[d].salt))])
        /\ GoodKey(task[d].key)
    BY <1>5, <2>1 DEF GoodKey
  <2> QED BY <1>0, <1>3, <1>7, <2>2 DEF RecoverAnswer
<1>8. ASSUME NEW d \in Device, Unwrap(d) \/ CacheEnvelope(d) PROVE AllKept
  <2>1. UnlockSound(d) /\ task[d].op = "unlock" /\ task[d].password \in Password
    BY <1>0, <1>8, TaskOf DEF Unwrap, CacheEnvelope, At, TasksSound, UnlockTask
  <2>2. CASE Unwrap(d)
    <3>1. Opens(task[d].protected, Derived(task[d].password, task[d].salt)) => InUse(task[d].protected.key)
      BY <2>1, OpenedIsNoBlank DEF UnlockSound
    <3> QED BY <1>0, <1>3, <2>2, <3>1 DEF Unwrap, GoodKey
  <2>3. CASE CacheEnvelope(d)
    <3>1. Good([salt |-> task[d].salt, protected |-> task[d].protected])
      BY <2>1, <2>3 DEF CacheEnvelope, At, UnlockSound, Good, PairOpens
    <3> QED BY <1>0, <1>3, <2>3, <3>1 DEF CacheEnvelope
  <2> QED BY <1>8, <2>2, <2>3
<1>9. ASSUME NEW d \in Device, (\E p \in Password : UnlockOffline(d, p)) \/ DropKey(d) PROVE AllKept
  <2>1. cached[d] # NoEnvelope => GoodKey(cached[d].protected.key)
    BY <1>3 DEF Good, GoodKey
  <2> QED BY <1>0, <1>3, <1>4, <1>9, <2>1 DEF UnlockOffline, DropKey
<1>10. ASSUME NEW d \in Device, SyncReadsMeta(d) \/ SyncPutsMeta(d) \/ LoseSync(d) PROVE AllKept
  BY <1>0, <1>3, <1>4, <1>10 DEF SyncReadsMeta, SyncPutsMeta, LoseSync
<1>11. ASSUME NEW d \in Device, Seal(d) PROVE AllKept
  BY <1>3, <1>11 DEF Seal, GoodKey
<1>12. ASSUME UNCHANGED <<key, cached, syncing, shown, sealed>> PROVE AllKept
  BY <1>3, <1>12
<1> HIDE DEF AllKept
<1> QED
  BY <1>2, <1>6, <1>7, <1>8, <1>9, <1>10, <1>11, <1>12
  DEF KeysNext, keyVars, BootstrapCheck, SetUpSalt, UnlockStart, BootstrapCreate, SetUpLogin, SetUpCheck,
      SetUpWrite, RecoverRead, RecoverVerify, RecoverWrite, FetchSalt, FetchEnvelope, Lose

\* The account has its vault when a set-up or a recovery has written it.
LEMMA WrittenIsSetUp ==
  ASSUME KeysInv, OneSetUp, [KeysNext]_keyVars, NEW d \in Device, NEW e \in SomeUser, e = task[d].email,
         \/ SetUpWrite(d)
         \/ RecoverWrite(d) /\ IsSetUp(e)
  PROVE  IsSetUp(e)' /\ user'[e].protected.key = task[d].key
<1>1. e \in Email /\ user[e] \in Rows /\ user \in [Email -> {NoUser} \union Rows]
  BY UserOf DEF KeysInv, KeysTyped
<1>2. e \in SomeUser'
  BY UserStep DEF KeysInv
<1>3. CASE SetUpWrite(d)
  <2>1. user'[e] = [user[e] EXCEPT
            !.protected = Wrap(task[d].key, Derived(task[d].password, task[d].salt)),
            !.recovery = Wrap(task[d].key, <<"code", task[d].key>>),
            !.proof = <<task[d].key, "code", task[d].key>>, !.setUp = TRUE]
    BY <1>1, <1>3 DEF SetUpWrite
  <2>2. /\ user'[e].setUp
        /\ user'[e].protected = Wrap(task[d].key, Derived(task[d].password, task[d].salt))
    BY <1>1, <2>1 DEF Rows
  <2> QED BY <1>1, <1>2, <2>2 DEF IsSetUp, InUse, SomeUser, Wrap
<1>4. CASE RecoverWrite(d) /\ IsSetUp(e)
  <2>1. user'[e] = [user[e] EXCEPT
            !.salt = task[d].salt, !.digest = Derived(task[d].password, task[d].salt),
            !.protected = Wrap(task[d].key, Derived(task[d].password, task[d].salt))]
    BY <1>1, <1>4 DEF RecoverWrite
  <2>2. /\ user'[e].setUp = user[e].setUp
        /\ user'[e].protected = Wrap(task[d].key, Derived(task[d].password, task[d].salt))
    BY <1>1, <2>1 DEF Rows
  <2> QED BY <1>1, <1>2, <1>4, <2>2 DEF IsSetUp, InUse, SomeUser, Wrap
<1> QED BY <1>3, <1>4

TaskSound(d) == SetUpSound(d) /\ UnlockSound(d) /\ (task[d].op = "recover" => InUse(task[d].key))

\* What others write leaves a task in flight sound.
LEMMA OtherTasks ==
  ASSUME KeysInv, OneSetUp, [KeysNext]_keyVars, NEW x \in Device, task'[x] = task[x]
  PROVE  TaskSound(x)'
<1>1. TaskSound(x) /\ \A k : InUse(k) => InUse(k)'
  BY InUseStays DEF KeysInv, TasksSound, TaskSound
<1>2. UnlockSound(x)' /\ (task[x].op = "recover" => InUse(task[x].key))'
  BY <1>1 DEF TaskSound, UnlockSound, InUse
<1>3. SetUpSound(x)'
  <2> SUFFICES ASSUME task[x].op = "setup" PROVE SetUpSound(x)'
    BY DEF SetUpSound
  <2>1. task[x].email \in SomeUser /\ task[x].key \in 0..drawn
    BY TaskOf DEF KeysInv, SetUpTask
  <2>2. task[x].key \in Drawn => task'[x].key \in Drawn'
    BY UserStep DEF KeysInv, KeysTyped, Drawn
  <2>3. CASE user' = user
    BY <1>1, <2>2, <2>3 DEF TaskSound, SetUpSound, InUse, IsSetUp, HasUser
  <2>4. CASE user' # user
    <3>1. PICK d \in Device :
            /\ SomeUser = {task[d].email}
            /\ \/ SetUpWrite(d) /\ (\A a, b \in SetUpOn : a = b)
               \/ RecoverWrite(d) /\ IsSetUp(task[d].email)
      BY <2>1, <2>4, UserWrites
    <3>2. task[x].email = task[d].email
      BY <2>1, <3>1
    <3>3. PICK e \in SomeUser : e = task[x].email /\ IsSetUp(e)'
      BY <2>1, <3>1, <3>2, WrittenIsSetUp
    <3>4. task[x].step # "write"
      <4>1. CASE RecoverWrite(d) /\ IsSetUp(task[d].email)
        BY <1>1, <3>2, <4>1 DEF TaskSound, SetUpSound
      <4>2. CASE SetUpWrite(d) /\ (\A a, b \in SetUpOn : a = b)
        <5>1. d \in SetUpOn /\ x \in SetUpOn
          BY <1>1, <4>2 DEF TaskSound, SetUpSound, KeysInv, TasksSound, SetUpWrite, At
        <5>2. task'[d].step = "answer"
          BY <4>2, TaskOf DEF SetUpWrite, Step, At, KeysInv, KeysTyped, SetUpTask
        <5> QED BY <4>2, <5>1, <5>2
      <4> QED BY <3>1, <4>1, <4>2
    <3> QED BY <1>1, <2>2, <3>3, <3>4 DEF TaskSound, SetUpSound, InUse, IsSetUp
  <2> QED BY <2>3, <2>4
<1> QED BY <1>2, <1>3 DEF TaskSound, InUse

\* A task that takes a step itself.
LEMMA OwnTask ==
  ASSUME KeysInv, OneSetUp, [KeysNext]_keyVars, NEW x \in Device, task'[x] # task[x]
  PROVE  TaskSound(x)'
<1>0. /\ task \in [Device -> {Free} \union BootstrapTask \union SetUpTask \union RecoverTask \union UnlockTask]
      /\ KeysTyped /\ TaskSound(x)
  BY DEF KeysInv, KeysTyped, TasksSound, TaskSound
<1>1. \A k : InUse(k) => InUse(k)'
  BY InUseStays
<1>2. ASSUME task'[x].op \in {"none", "bootstrap"} PROVE TaskSound(x)'
  BY <1>2 DEF TaskSound, SetUpSound, UnlockSound
<1>3. ASSUME NEW d \in Device, task' = [task EXCEPT ![d] = Free] PROVE TaskSound(x)'
  BY <1>0, <1>2, <1>3 DEF Free
<1>4. ASSUME NEW e \in Email, NEW p \in Password,
             BootstrapCheck(x, e, p) \/ SetUpSalt(x, e, p) \/ UnlockStart(x, e, p)
      PROVE  TaskSound(x)'
  <2>1. CASE BootstrapCheck(x, e, p)
    BY <1>0, <1>2, <2>1 DEF BootstrapCheck, StartTask
  <2>2. CASE SetUpSalt(x, e, p)
    BY <1>0, <2>2 DEF SetUpSalt, StartTask, TaskSound, SetUpSound, UnlockSound
  <2>3. CASE UnlockStart(x, e, p)
    BY <1>0, <2>3 DEF UnlockStart, StartTask, TaskSound, SetUpSound, UnlockSound
  <2> QED BY <1>4, <2>1, <2>2, <2>3
<1>5. ASSUME SetUpLogin(x) \/ SetUpCheck(x) \/ SetUpWrite(x) \/ SetUpAnswer(x)
      PROVE  TaskSound(x)'
  <2>1. task[x] \in SetUpTask /\ task[x].op = "setup" /\ SetUpSound(x)
    BY <1>0, <1>5, TaskOf DEF SetUpLogin, SetUpCheck, SetUpWrite, SetUpAnswer, At, TaskSound
  <2>2. task[x].email \in SomeUser /\ user[task[x].email].digest[2] = user[task[x].email].salt
    BY <2>1 DEF SetUpTask, KeysInv, AccountSound
  <2>3. CASE SetUpLogin(x)
    <3>1. CASE /\ task' = [task EXCEPT ![x].step = "check", ![x].key = drawn'] /\ drawn' = drawn + 1
               /\ user[task[x].email].digest = Derived(task[x].password, task[x].salt)
      <4>1. task'[x] = [task[x] EXCEPT !.step = "check", !.key = drawn']
        BY <1>0, <3>1
      <4>2. /\ task'[x].op = "setup" /\ task'[x].step = "check" /\ task'[x].key = drawn'
            /\ task'[x].email = task[x].email /\ task'[x].password = task[x].password
            /\ task'[x].salt = task[x].salt
        BY <2>1, <4>1 DEF SetUpTask
      <4>3. drawn' \in Drawn' /\ user' = user
        BY <1>0, <2>3, <3>1 DEF Drawn, KeysTyped, SetUpLogin
      <4> QED BY <2>1, <3>1, <4>2, <4>3 DEF TaskSound, SetUpSound, UnlockSound
    <3> QED BY <1>3, <2>3, <3>1 DEF SetUpLogin, End, Draw
  <2>4. CASE SetUpCheck(x)
    <3>1. CASE ~user[task[x].email].setUp /\ Step(x, "write")
      <4>1. task'[x] = [task[x] EXCEPT !.step = "write"]
        BY <1>0, <3>1 DEF Step
      <4>2. /\ task'[x].op = "setup" /\ task'[x].step = "write" /\ task'[x].key = task[x].key
            /\ task'[x].email = task[x].email /\ task'[x].password = task[x].password
            /\ task'[x].salt = task[x].salt
        BY <2>1, <4>1 DEF SetUpTask
      <4>3. Drawn' = Drawn /\ user' = user /\ task[x].step = "check"
        BY <2>4 DEF Drawn, SetUpCheck, At
      <4> QED BY <2>1, <3>1, <4>2, <4>3 DEF TaskSound, SetUpSound, UnlockSound, IsSetUp, HasUser
    <3> QED BY <1>3, <2>4, <3>1 DEF SetUpCheck, End
  <2>5. CASE SetUpWrite(x)
    <3>1. PICK e \in SomeUser : IsSetUp(e)' /\ user'[e].protected.key = task[x].key /\ e = task[x].email
      BY <2>2, <2>5, WrittenIsSetUp
    <3>2. task'[x] = [task[x] EXCEPT !.step = "answer"]
      BY <1>0, <2>5 DEF SetUpWrite, Step
    <3>3. task'[x].op = "setup" /\ task'[x].step = "answer" /\ task'[x].key = task[x].key
      BY <2>1, <3>2 DEF SetUpTask
    <3>4. task[x].key \in Drawn' /\ e \in Email
      BY <2>1, <2>5 DEF SetUpSound, Drawn, SetUpWrite, At, SomeUser
    <3> QED BY <2>1, <3>1, <3>3, <3>4 DEF TaskSound, SetUpSound, UnlockSound, InUse
  <2>6. CASE SetUpAnswer(x)
    BY <1>3, <2>6 DEF SetUpAnswer, End
  <2> QED BY <1>5, <2>3, <2>4, <2>5, <2>6
<1>6. ASSUME RecoverVerify(x) \/ RecoverWrite(x) \/ RecoverAnswer(x)
      PROVE  TaskSound(x)'
  <2>1. task[x] \in RecoverTask /\ task[x].op = "recover" /\ InUse(task[x].key)
    BY <1>0, <1>6, TaskOf DEF RecoverVerify, RecoverWrite, RecoverAnswer, At, TaskSound
  <2>2. \/ task'[x].op = "none"
        \/ task'[x].op = "recover" /\ task'[x].key = task[x].key
    <3>1. CASE RecoverVerify(x)
      <4>1. ASSUME NEW e, task' = [task EXCEPT ![x].step = "write", ![x].email = e]
            PROVE  task'[x].op = "recover" /\ task'[x].key = task[x].key
        BY <1>0, <2>1, <4>1 DEF RecoverTask
      <4>2. End(x) => task'[x].op = "none"
        BY <1>0 DEF End, Free
      <4> QED BY <3>1, <4>1, <4>2 DEF RecoverVerify
    <3>2. CASE RecoverWrite(x)
      BY <1>0, <2>1, <3>2 DEF RecoverWrite, Step, RecoverTask
    <3>3. CASE RecoverAnswer(x)
      BY <1>0, <3>3 DEF RecoverAnswer, End, Free
    <3> QED BY <1>6, <3>1, <3>2, <3>3
  <2> QED BY <1>1, <1>2, <2>1, <2>2 DEF TaskSound, SetUpSound, UnlockSound, InUse
<1>7. ASSUME NEW p \in Password, NEW c \in shown, RecoverRead(x, p, c)
      PROVE  TaskSound(x)'
  <2>1. PICK e \in SomeUser :
          Opens(user[e].recovery, <<"code", c>>) /\ task'[x].op = "recover" /\ task'[x].key = user[e].recovery.key
    BY <1>0, <1>7 DEF RecoverRead, StartTask
  <2>2. user[e].recovery # NoWrap
    <3>1. user[e].recovery.under = <<"code", c>>
      BY <2>1 DEF Opens
    <3>2. NoWrap.under = <<>> /\ <<"code", c>> # <<>>
      BY DEF NoWrap
    <3> QED BY <3>1, <3>2
  <2>3. PICK k \in Drawn : user[e].setUp /\ user[e].protected = Wrap(k, user[e].digest)
                          /\ user[e].recovery = Wrap(k, <<"code", k>>)
    BY <2>2 DEF KeysInv, AccountSound
  <2>4. InUse(task'[x].key)
    BY <2>1, <2>3 DEF InUse, IsSetUp, SomeUser, Wrap
  <2> QED BY <1>1, <2>1, <2>4 DEF TaskSound, SetUpSound, UnlockSound, InUse
<1>8. ASSUME FetchSalt(x) \/ FetchEnvelope(x) \/ Unwrap(x) \/ CacheEnvelope(x)
      PROVE  TaskSound(x)'
  <2>1. task[x] \in UnlockTask /\ task[x].op = "unlock" /\ UnlockSound(x)
    BY <1>0, <1>8, TaskOf DEF FetchSalt, FetchEnvelope, Unwrap, CacheEnvelope, At, TaskSound
  <2>2. CASE CacheEnvelope(x)
    BY <1>3, <2>2 DEF CacheEnvelope, End
  <2>3. CASE Unwrap(x)
    <3>1. CASE Opens(task[x].protected, Derived(task[x].password, task[x].salt)) /\ Step(x, "cache")
      <4>1. InUse(task[x].protected.key) /\ user' = user
        BY <2>1, <2>3, <3>1, OpenedIsNoBlank DEF UnlockSound, Unwrap
      <4>2. task'[x] = [task[x] EXCEPT !.step = "cache"]
        BY <1>0, <3>1 DEF Step
      <4>3. /\ task'[x].op = "unlock" /\ task'[x].protected = task[x].protected
            /\ task'[x].password = task[x].password /\ task'[x].salt = task[x].salt
        BY <2>1, <4>2 DEF UnlockTask
      <4> QED BY <3>1, <4>1, <4>3 DEF TaskSound, SetUpSound, UnlockSound, InUse, IsSetUp, HasUser
    <3> QED BY <1>3, <2>3, <3>1 DEF Unwrap, End
  <2>4. CASE FetchSalt(x) \/ FetchEnvelope(x)
    <3>1. /\ task'[x].op = "unlock" /\ task'[x].step = "fetch"
          /\ task'[x].protected \in {task[x].protected, user[task[x].email].protected} /\ user' = user
      <4>1. task[x].step = "fetch"
        BY <2>4 DEF FetchSalt, FetchEnvelope, At
      <4>2. CASE FetchSalt(x)
        BY <1>0, <2>1, <4>1, <4>2 DEF FetchSalt, UnlockTask
      <4>3. CASE FetchEnvelope(x)
        BY <1>0, <2>1, <4>1, <4>3 DEF FetchEnvelope, UnlockTask
      <4> QED BY <2>4, <4>2, <4>3
    <3>2. task[x].email \in SomeUser
      BY <2>1 DEF UnlockTask
    <3>3. user[task[x].email].protected = NoWrap \/ InUse(user[task[x].email].protected.key)
      BY <3>2 DEF KeysInv, AccountSound, InUse, IsSetUp, SomeUser
    <3> QED BY <2>1, <3>1, <3>3 DEF TaskSound, SetUpSound, UnlockSound, InUse, IsSetUp, HasUser
  <2> QED BY <1>8, <2>2, <2>3, <2>4
<1>9. ASSUME BootstrapCreate(x) \/ Lose(x) PROVE TaskSound(x)'
  BY <1>3, <1>9 DEF BootstrapCreate, Lose, End
<1>10. \/ \E e \in Email, p \in Password : BootstrapCheck(x, e, p) \/ SetUpSalt(x, e, p) \/ UnlockStart(x, e, p)
       \/ SetUpLogin(x) \/ SetUpCheck(x) \/ SetUpWrite(x) \/ SetUpAnswer(x)
       \/ RecoverVerify(x) \/ RecoverWrite(x) \/ RecoverAnswer(x)
       \/ \E p \in Password, c \in shown : RecoverRead(x, p, c)
       \/ FetchSalt(x) \/ FetchEnvelope(x) \/ Unwrap(x) \/ CacheEnvelope(x)
       \/ BootstrapCreate(x) \/ Lose(x)
  <2> DEFINE Other(d) == d # x => task'[x] = task[x]
  <2>1. ASSUME NEW d \in Device, NEW e \in Email, NEW p \in Password,
               BootstrapCheck(d, e, p) \/ SetUpSalt(d, e, p) \/ UnlockStart(d, e, p)
        PROVE  Other(d)
    BY <1>0, <2>1 DEF BootstrapCheck, SetUpSalt, UnlockStart, StartTask
  <2>2. ASSUME NEW d \in Device, \/ SetUpLogin(d) \/ SetUpCheck(d) \/ SetUpWrite(d) \/ SetUpAnswer(d)
        PROVE  Other(d)
    BY <1>0, <2>2 DEF SetUpLogin, SetUpCheck, SetUpWrite, SetUpAnswer, Step, End
  <2>3. ASSUME NEW d \in Device, \/ RecoverVerify(d) \/ RecoverWrite(d) \/ RecoverAnswer(d)
        PROVE  Other(d)
    BY <1>0, <2>3 DEF RecoverVerify, RecoverWrite, RecoverAnswer, Step, End
  <2>4. ASSUME NEW d \in Device, NEW p \in Password, NEW c \in shown, RecoverRead(d, p, c)
        PROVE  Other(d)
    BY <1>0, <2>4 DEF RecoverRead, StartTask
  <2>5. ASSUME NEW d \in Device, FetchSalt(d) \/ FetchEnvelope(d) \/ Unwrap(d) \/ CacheEnvelope(d)
        PROVE  Other(d)
    BY <1>0, <2>5 DEF FetchSalt, FetchEnvelope, Unwrap, CacheEnvelope, Step, End
  <2>6. ASSUME NEW d \in Device, BootstrapCreate(d) \/ Lose(d) PROVE Other(d)
    BY <1>0, <2>6 DEF BootstrapCreate, Lose, End
  <2>7. CASE \E d \in Device : (\E p \in Password : UnlockOffline(d, p)) \/ DropKey(d)
                               \/ SyncReadsMeta(d) \/ SyncPutsMeta(d) \/ LoseSync(d) \/ Seal(d)
    BY <2>7 DEF UnlockOffline, DropKey, SyncReadsMeta, SyncPutsMeta, LoseSync, Seal
  <2>8. ~UNCHANGED keyVars
    BY DEF keyVars
  <2> QED BY <2>1, <2>2, <2>3, <2>4, <2>5, <2>6, <2>7, <2>8 DEF KeysNext
<1> QED BY <1>4, <1>5, <1>6, <1>7, <1>8, <1>9, <1>10

LEMMA KeysStep == KeysInv /\ OneSetUp /\ [KeysNext]_keyVars => KeysInv' /\ OneSetUp'
<1> SUFFICES ASSUME KeysInv, OneSetUp, [KeysNext]_keyVars PROVE KeysInv' /\ OneSetUp'
  OBVIOUS
<1>1. KeysTyped'
  BY KeysTypedStep DEF KeysInv
<1>2. ASSUME NEW x \in Device PROVE TaskSound(x)'
  BY OtherTasks, OwnTask
<1>3. TasksSound'
  BY <1>2 DEF TasksSound, TaskSound
<1> QED BY <1>1, <1>3, AccountStep, KeysInUseStep DEF KeysInv

LEMMA KeysInitially ==
  /\ KeysInit => KeysInv
  /\ SetUpInit => KeysInv /\ OneSetUp
<1>1. ASSUME KeysInit PROVE KeysInv
  <2>1. SomeUser = {}
    BY <1>1 DEF KeysInit, SomeUser, HasUser
  <2> QED BY <1>1, <2>1
    DEF KeysInit, KeysInv, KeysTyped, OneAccount, AccountSound, KeysInUse, PairsOpen, TasksSound, SetUpSound,
        UnlockSound, Free, NoEnvelope, Envelopes, Wraps
<1>2. ASSUME SetUpInit PROVE KeysInv /\ OneSetUp
  <2>1. PICK e \in Email, p \in Password :
          user = [x \in Email |-> IF x # e THEN NoUser ELSE
                 [salt |-> 1, digest |-> Derived(p, 1), protected |-> Wrap(2, Derived(p, 1)),
                  recovery |-> Wrap(2, <<"code", 2>>), proof |-> <<2, "code", 2>>, setUp |-> TRUE]]
    BY <1>2 DEF SetUpInit
  <2>2. 1 \in Drawn /\ 2 \in Drawn /\ drawn \in Nat
    BY <1>2 DEF SetUpInit, Drawn
  <2>3. Wrap(2, Derived(p, 1)) \in Wraps
    BY <2>2 DEF Wraps
  <2>4. user[e] \in Rows
    BY <2>1, <2>2, <2>3 DEF Rows, Derived
  <2>5. SomeUser = {e}
    BY <2>1, <2>4, RowsAreNoBlank DEF SomeUser, HasUser
  <2>6. IsSetUp(e) /\ InUse(2)
    BY <2>1, <2>5 DEF IsSetUp, InUse, SomeUser, Wrap
  <2>7. KeysTyped
    BY <1>2, <2>1, <2>2, <2>4 DEF SetUpInit, KeysTyped, NoEnvelope, Envelopes, Wraps
  <2>8. OneAccount /\ TasksSound
    BY <1>2, <2>5 DEF SetUpInit, OneAccount, TasksSound, SetUpSound, UnlockSound, Free
  <2>9. AccountSound
    BY <2>1, <2>2, <2>5 DEF AccountSound, Derived
  <2>10. KeysInUse /\ PairsOpen
    BY <1>2, <2>6 DEF SetUpInit, KeysInUse, PairsOpen
  <2> QED BY <2>5, <2>6, <2>7, <2>8, <2>9, <2>10 DEF KeysInv, OneSetUp
<1> QED BY <1>1, <1>2

LEMMA KeysInvImplies == KeysInv => OneVault
<1> SUFFICES ASSUME KeysInv PROVE OneVault
  OBVIOUS
<1>1. \A e \in SomeUser : user[e] \in Rows /\ e \in Email
  BY UserOf DEF KeysInv
<1>2. KeysTypeOK
  BY <1>1 DEF KeysInv, KeysTyped, KeysTypeOK, Rows, Envelopes
<1>3. PasswordOpensVault
  <2>1. ASSUME NEW e \in SomeUser, user[e].setUp PROVE Opens(user[e].protected, user[e].digest)
    <3>1. PICK k \in Drawn : user[e].protected = Wrap(k, user[e].digest)
      BY <2>1 DEF KeysInv, AccountSound
    <3> QED BY <3>1 DEF Wrap, Opens
  <2> QED BY <2>1 DEF KeysInv, AccountSound, PasswordOpensVault
<1>4. CodeOpensSameVault
  <2> SUFFICES ASSUME NEW e \in SomeUser
               PROVE  /\ user[e].protected.key = user[e].recovery.key
                      /\ user[e].setUp => user[e].proof = <<user[e].recovery.key>> \o user[e].recovery.under
                      /\ \A c \in shown : Opens(user[e].recovery, <<"code", c>>)
    BY DEF CodeOpensSameVault
  <2>1. CASE user[e].setUp
    <3>1. PICK k \in Drawn : /\ user[e].protected = Wrap(k, user[e].digest)
                             /\ user[e].recovery = Wrap(k, <<"code", k>>)
                             /\ user[e].proof = <<k, "code", k>>
      BY <2>1 DEF KeysInv, AccountSound
    <3>2. /\ user[e].protected.key = k /\ user[e].recovery.key = k /\ user[e].recovery.under = <<"code", k>>
      BY <3>1 DEF Wrap
    <3>3. <<k>> \o <<"code", k>> = <<k, "code", k>>
      <4> DEFINE S == {k, "code"}
      <4>1. <<k>> \in Seq(S) /\ <<"code", k>> \in Seq(S) /\ <<k, "code", k>> \in Seq(S)
        OBVIOUS
      <4>2. /\ <<k>> \o <<"code", k>> \in Seq(S) /\ Len(<<k>> \o <<"code", k>>) = 3
            /\ \A i \in 1..3 : (<<k>> \o <<"code", k>>)[i] = <<k, "code", k>>[i]
        BY <4>1
      <4> QED BY <4>1, <4>2, SeqEqual
    <3>4. \A c \in shown : c = k
      BY <3>2 DEF KeysInv, KeysInUse, InUse, IsSetUp, SomeUser, OneAccount
    <3> QED BY <3>1, <3>2, <3>3, <3>4 DEF Opens
  <2>2. CASE ~user[e].setUp
    <3>1. shown = {}
      BY <2>2 DEF KeysInv, KeysInUse, InUse, IsSetUp, SomeUser, OneAccount
    <3> QED BY <2>2, <3>1 DEF KeysInv, AccountSound
  <2> QED BY <2>1, <2>2
<1>5. OneKeySealsAll
  BY <1>1 DEF KeysInv, KeysInUse, OneKeySealsAll, InUse, IsSetUp, SomeUser, OneAccount
<1>6. CachedPairOpens
  BY DEF KeysInv, PairsOpen, PairOpens, CachedPairOpens
<1> QED BY <1>2, <1>3, <1>4, <1>5, <1>6 DEF OneVault

\* However set-ups that are refused, recoveries, unlocks, synchronisations and lost requests
\* interleave on any number of browsers, the password that logs in, the code on paper, the cached
\* envelopes and what was encrypted belong to one vault.
THEOREM VaultStaysOne == SetUpKeysSpec => []OneVault
BY KeysInitially, KeysStep, KeysInvImplies, PTL DEF SetUpKeysSpec

\* The same from the very beginning, when one address and one browser do the set-up.
THEOREM OneSetUpMakesOneVault ==
  ASSUME \A e, f \in Email : e = f, \A d, f \in SetUpOn : d = f
  PROVE  KeysSpec => []OneVault
<1>1. OneSetUp
  BY DEF OneSetUp
<1> QED BY <1>1, KeysInitially, KeysStep, KeysInvImplies, PTL DEF KeysSpec

(***************************************************************************)
(* The offline copy.  A credential that no sync has been disturbed about   *)
(* has no write in flight while one runs: what the run is told of it stays *)
(* true until the run ends, and what no run asked for is in the cache, but *)
(* for what was stored under a stamp the cursor was past.                  *)
(***************************************************************************)
Cursor == 0..(MaxClock + 1)

Asking == [step : {"platforms", "credentials", "finish"}, meta : Cursor]
PuttingPlatforms == [step : {"put platforms"}, meta : Cursor, answer : [Platform -> 0..MaxRevision]]
Answers == UNION {[D -> Kept] : D \in SUBSET Credential}
PuttingCredentials == [step : {"put credentials"}, meta : Cursor, answer : Answers]
Syncs == {NoSync} \union Asking \union PuttingPlatforms \union PuttingCredentials

SyncTyped ==
  /\ clock \in 1..MaxClock /\ meta \in Cursor
  /\ platforms \in [Platform -> 0..MaxRevision] /\ cachedPlatforms \in [Platform -> 0..MaxRevision]
  /\ rows \in [Credential -> [versions : SUBSET (1..clock), updatedAt : 0..clock]]
  /\ \A c \in Credential : rows[c].updatedAt \in (IF Exists(c) THEN rows[c].versions ELSE {0})
  /\ write \in [Writer -> {NoWrite} \union [op : {"create", "rotate"}, credential : Credential, stamp : 1..clock]]
  /\ cache \in [Credential -> Kept]
  /\ sync \in [Syncer -> Syncs]
  /\ disturbed \subseteq Credential /\ overtaken \subseteq Credential

\* No write of it is in flight while a sync runs.
Undisturbed(c) == Running # {} => c \notin Written

\* A sync that begins from this cursor ends with its latest version in the cache.
CaughtFrom(c, cursor) == HoldsNewest(c) \/ c \in ChangedSince(cursor)

CatchesUp(c) ==
  Exists(c) => /\ CaughtFrom(c, meta)
               /\ \A s \in Running : CaughtFrom(c, sync[s].meta) /\ (sync[s].step = "finish" => HoldsNewest(c))

Answered(c) ==
  \A s \in Syncer : sync[s].step = "put credentials" =>
    /\ c \in DOMAIN sync[s].answer <=> c \in ChangedSince(sync[s].meta)
    /\ c \in DOMAIN sync[s].answer => sync[s].answer[c] = Response(c)

\* Its platform exists before it does, and is told and kept before it is.
Named(c) ==
  /\ Exists(c) \/ c \in Written => platforms[OnPlatform[c]] > 0
  /\ c \notin disturbed /\ Exists(c) =>
       \A s \in Running :
         /\ sync[s].step = "put platforms" => sync[s].answer[OnPlatform[c]] > 0
         /\ sync[s].step \in {"credentials", "put credentials", "finish"} => cachedPlatforms[OnPlatform[c]] > 0
  /\ c \notin disturbed /\ cache[c] # NotKept => cachedPlatforms[OnPlatform[c]] > 0

SyncInv ==
  /\ SyncTyped
  /\ \A c \in Credential \ disturbed : Undisturbed(c) /\ Answered(c) /\ (c \notin overtaken => CatchesUp(c))
  /\ \A c \in Credential : Named(c)

Instants(S) == S \subseteq Nat

LEMMA LatestIsNewest ==
  ASSUME NEW S, IsFiniteSet(S), S # {}, Instants(S)
  PROVE  Latest(S) \in S /\ \A u \in S : u <= Latest(S)
<1> DEFINE Above(v) == {u \in S : u > v}
           T == {Above(v) : v \in S}
<1>1. PICK s \in T : \A t \in T : t \subseteq s => t = s
  <2>1. T \subseteq SUBSET S
    OBVIOUS
  <2>2. T # {}
    OBVIOUS
  <2> HIDE DEF T
  <2> QED BY <2>1, <2>2, SmallestSubset
<1>2. PICK v \in S : s = Above(v)
  OBVIOUS
<1>3. \A u \in S : u <= v
  <2> SUFFICES ASSUME NEW u \in S, ~(u <= v) PROVE FALSE
    OBVIOUS
  <2>1. \A x \in S : x \in Nat
    BY DEF Instants
  <2>2. u \in Above(v) /\ u \notin Above(u)
    BY <2>1
  <2>3. \A x \in Above(u) : x \in Above(v)
    BY <2>1
  <2>4. Above(u) \in T
    OBVIOUS
  <2> QED BY <1>1, <1>2, <2>2, <2>3, <2>4
<1> QED BY <1>3 DEF Latest

\* What a sync is, from its step.
LEMMA SyncOf ==
  ASSUME SyncTyped, NEW s \in Syncer
  PROVE  /\ sync[s].step \in {"platforms", "credentials", "finish"} => sync[s] \in Asking
         /\ sync[s].step = "put platforms" => sync[s] \in PuttingPlatforms /\ sync[s].answer \in [Platform -> 0..MaxRevision]
         /\ sync[s].step = "put credentials" =>
              /\ sync[s] \in PuttingCredentials /\ DOMAIN sync[s].answer \subseteq Credential
              /\ \A c \in DOMAIN sync[s].answer : sync[s].answer[c] \in Kept
         /\ sync[s].step \in {"idle", "platforms", "put platforms", "credentials", "put credentials", "finish"}
         /\ sync[s].step = "idle" => sync[s] = NoSync
<1>1. sync[s] \in Syncs
  BY DEF SyncTyped
<1>2. \A a \in Answers : DOMAIN a \subseteq Credential /\ \A c \in DOMAIN a : a[c] \in Kept
  BY DEF Answers
<1>3. NoSync.step = "idle"
  BY DEF NoSync
<1> QED BY <1>1, <1>2, <1>3 DEF Syncs, Asking, PuttingPlatforms, PuttingCredentials

\* What a step of a run leaves of the other runs, and makes of its own.
OthersStay(s) == \A x \in Syncer : x # s => sync'[x] = sync[x]

LEMMA RunSteps ==
  ASSUME SyncTyped, NEW s \in Syncer
  PROVE  /\ StartSync(s) => OthersStay(s) /\ sync'[s].step = "platforms" /\ sync'[s].meta = meta
         /\ AnswerPlatforms(s) =>
              /\ OthersStay(s) /\ s \in Running /\ sync'[s].step = "put platforms"
              /\ sync'[s].meta = sync[s].meta /\ sync'[s].answer = platforms
         /\ PutPlatforms(s) =>
              /\ OthersStay(s) /\ s \in Running /\ sync'[s].step = "credentials" /\ sync'[s].meta = sync[s].meta
         /\ AnswerCredentials(s) =>
              /\ OthersStay(s) /\ s \in Running /\ sync'[s].step = "put credentials" /\ sync'[s].meta = sync[s].meta
              /\ sync'[s].answer = [d \in ChangedSince(sync[s].meta) |-> Response(d)]
         /\ PutCredentials(s) =>
              /\ OthersStay(s) /\ s \in Running /\ sync'[s].step = "finish" /\ sync'[s].meta = sync[s].meta
         /\ (\E now \in Instant : Finish(s, now)) \/ GiveUp(s) => OthersStay(s) /\ s \in Running /\ sync'[s] = NoSync
<1>1. NoSync.step = "idle"
  BY DEF NoSync
<1>2. sync[s].step # "idle" => s \in Running
  BY <1>1 DEF Running
<1>3. ASSUME NEW v, sync' = [sync EXCEPT ![s] = v] PROVE OthersStay(s) /\ sync'[s] = v
  BY <1>3 DEF SyncTyped, OthersStay
<1>4. StartSync(s) => sync' = [sync EXCEPT ![s] = [step |-> "platforms", meta |-> meta]]
  BY DEF StartSync
<1>5. AnswerPlatforms(s) =>
        /\ s \in Running
        /\ sync' = [sync EXCEPT ![s] = [step |-> "put platforms", meta |-> sync[s].meta, answer |-> platforms]]
  BY <1>2 DEF AnswerPlatforms, SyncTyped
<1>6. PutPlatforms(s) =>
        s \in Running /\ sync' = [sync EXCEPT ![s] = [step |-> "credentials", meta |-> sync[s].meta]]
  BY <1>2 DEF PutPlatforms, SyncTyped
<1>7. AnswerCredentials(s) =>
        /\ s \in Running
        /\ sync' = [sync EXCEPT ![s] = [step |-> "put credentials", meta |-> sync[s].meta,
                                       answer |-> [d \in ChangedSince(sync[s].meta) |-> Response(d)]]]
  BY <1>2 DEF AnswerCredentials, SyncTyped
<1>8. PutCredentials(s) =>
        s \in Running /\ sync' = [sync EXCEPT ![s] = [step |-> "finish", meta |-> sync[s].meta]]
  BY <1>2 DEF PutCredentials, SyncTyped
<1>9. (\E now \in Instant : Finish(s, now)) \/ GiveUp(s) => s \in Running /\ sync' = [sync EXCEPT ![s] = NoSync]
  <2>1. (\E now \in Instant : Finish(s, now)) => s \in Running
    BY <1>2 DEF Finish
  <2>2. GiveUp(s) => s \in Running
    BY DEF GiveUp, Running
  <2> QED BY <2>1, <2>2 DEF Finish, GiveUp
<1>10. ASSUME NEW a PROVE [step |-> "put credentials", meta |-> sync[s].meta, answer |-> a].answer = a
  OBVIOUS
<1>11. AnswerCredentials(s) =>
        /\ OthersStay(s) /\ s \in Running /\ sync'[s].step = "put credentials" /\ sync'[s].meta = sync[s].meta
        /\ sync'[s].answer = [d \in ChangedSince(sync[s].meta) |-> Response(d)]
  <2> DEFINE told == [d \in ChangedSince(sync[s].meta) |-> Response(d)]
  <2> SUFFICES ASSUME AnswerCredentials(s)
               PROVE  /\ OthersStay(s) /\ s \in Running /\ sync'[s].step = "put credentials"
                      /\ sync'[s].meta = sync[s].meta /\ sync'[s].answer = told
    OBVIOUS
  <2>1. s \in Running /\ sync' = [sync EXCEPT ![s] = [step |-> "put credentials", meta |-> sync[s].meta, answer |-> told]]
    BY <1>7
  <2> HIDE DEF told
  <2> QED BY <1>3, <2>1
<1>12. AnswerPlatforms(s) =>
         /\ OthersStay(s) /\ s \in Running /\ sync'[s].step = "put platforms"
         /\ sync'[s].meta = sync[s].meta /\ sync'[s].answer = platforms
  <2> DEFINE told == [step |-> "put platforms", meta |-> sync[s].meta, answer |-> platforms]
  <2>1. told.step = "put platforms" /\ told.meta = sync[s].meta /\ told.answer = platforms
    OBVIOUS
  <2>2. AnswerPlatforms(s) => s \in Running /\ sync' = [sync EXCEPT ![s] = told]
    BY <1>5
  <2> HIDE DEF told
  <2>3. AnswerPlatforms(s) => OthersStay(s) /\ s \in Running /\ sync'[s] = told
    BY <1>3, <2>2
  <2> QED BY <2>1, <2>3
<1>13. StartSync(s) => OthersStay(s) /\ sync'[s].step = "platforms" /\ sync'[s].meta = meta
  BY <1>3, <1>4
<1>14. PutPlatforms(s) =>
         OthersStay(s) /\ s \in Running /\ sync'[s].step = "credentials" /\ sync'[s].meta = sync[s].meta
  BY <1>3, <1>6
<1>15. PutCredentials(s) =>
         OthersStay(s) /\ s \in Running /\ sync'[s].step = "finish" /\ sync'[s].meta = sync[s].meta
  BY <1>3, <1>8
<1>16. (\E now \in Instant : Finish(s, now)) \/ GiveUp(s) => OthersStay(s) /\ s \in Running /\ sync'[s] = NoSync
  BY <1>3, <1>9
<1> HIDE DEF OthersStay
<1> QED BY <1>11, <1>12, <1>13, <1>14, <1>15, <1>16

LEMMA RowsAnswer ==
  ASSUME SyncTyped, NEW c \in Credential, Exists(c)
  PROVE  /\ Response(c) \in Kept /\ Response(c).version > 0
         /\ \A v \in rows[c].versions : v <= Response(c).version
<1>1. rows[c].versions \in SUBSET (1..clock) /\ rows[c].versions # {} /\ clock \in Nat /\ rows[c].updatedAt \in 0..clock
      /\ clock <= MaxClock /\ MaxClock \in Nat
  BY SyncBounds DEF SyncTyped, Exists
<1> DEFINE latest == Latest(rows[c].versions)
<1>2. latest \in rows[c].versions /\ \A u \in rows[c].versions : u <= latest
  <2>1. IsFiniteSet(1..clock)
    BY <1>1, FS_Interval, 1 \in Int, clock \in Int
  <2>2. IsFiniteSet(rows[c].versions) /\ Instants(rows[c].versions)
    BY <1>1, <2>1, FS_Subset DEF Instants
  <2> QED BY <1>1, <2>2, LatestIsNewest
<1>3. Response(c) = [version |-> latest, updatedAt |-> rows[c].updatedAt]
  BY DEF Response
<1> HIDE DEF latest
<1> QED BY <1>1, <1>2, <1>3 DEF Kept

LEMMA SyncInitially == SyncInit => SyncInv
<1> SUFFICES ASSUME SyncInit PROVE SyncInv
  OBVIOUS
<1>1. SyncTyped
  BY SyncBounds DEF SyncInit, SyncTyped, Cursor, NoRow, Exists, Kept, NotKept, Syncs, NoMeta
<1>2. Running = {} /\ Written = {} /\ \A c \in Credential : ~Exists(c) /\ cache[c] = NotKept
  BY DEF SyncInit, Running, Written, Exists, NoRow
<1>3. \A c \in Credential : Undisturbed(c) /\ CatchesUp(c) /\ Named(c)
  BY <1>2 DEF Undisturbed, CatchesUp, Named, SyncInit
<1>4. \A c \in Credential : Answered(c)
  BY DEF SyncInit, Answered, NoSync
<1> QED BY <1>1, <1>3, <1>4 DEF SyncInv

LEMMA SyncImplies == SyncInv => CacheCatchesUp
<1> SUFFICES ASSUME SyncInv PROVE CacheCatchesUp
  OBVIOUS
<1>1. SyncTypeOK
  <2>1. \A s \in Syncer :
          \/ sync[s].step \in {"idle", "platforms", "credentials", "finish"}
          \/ sync[s].step = "put platforms" /\ sync[s].answer \in [Platform -> 0..MaxRevision]
          \/ sync[s].step = "put credentials" /\ DOMAIN sync[s].answer \subseteq Credential
    <3> SUFFICES ASSUME NEW s \in Syncer
                 PROVE  \/ sync[s].step \in {"idle", "platforms", "credentials", "finish"}
                        \/ sync[s].step = "put platforms" /\ sync[s].answer \in [Platform -> 0..MaxRevision]
                        \/ sync[s].step = "put credentials" /\ DOMAIN sync[s].answer \subseteq Credential
      OBVIOUS
    <3> QED BY SyncOf DEF SyncInv
  <2>2. /\ write \in [Writer -> {NoWrite} \union
                       [op : {"create", "rotate"}, credential : Credential, stamp : Instant]]
        /\ \A c \in Credential : rows[c].versions \subseteq 1..clock
    BY SyncBounds DEF SyncInv, SyncTyped, Instant
  <2> QED BY <2>1, <2>2 DEF SyncTypeOK, SyncInv, SyncTyped, Cursor, Instant
<1>2. NothingIsLeftStale
  BY DEF SyncInv, CatchesUp, CaughtFrom, ChangedSince, NothingIsLeftStale, Fresh, InReach
<1>3. PlatformIsKnown
  BY DEF SyncInv, Named, PlatformIsKnown
<1> QED BY <1>1, <1>2, <1>3 DEF CacheCatchesUp

LEMMA SyncTypedStep ==
  ASSUME SyncTyped, [SyncNext]_syncVars PROVE SyncTyped'
<1>0. /\ MaxClock \in Nat /\ clock \in 1..MaxClock /\ \A s \in Syncer : sync[s] \in Syncs
      /\ NoSync \in Syncs /\ NotKept \in Kept /\ clock \in Nat
  BY SyncBounds DEF SyncTyped, Syncs, NotKept, Kept
<1>1. ASSUME NEW s \in Syncer, NEW v \in Syncs, sync' = [sync EXCEPT ![s] = v],
             UNCHANGED <<clock, platforms, rows, write, cachedPlatforms, cache, meta>>, disturbed' \subseteq Credential,
             UNCHANGED overtaken
      PROVE  SyncTyped'
  BY <1>1 DEF SyncTyped, Exists
<1>2. ASSUME NEW p \in Platform, WritePlatform(p) PROVE SyncTyped'
  <2>1. platforms' \in [Platform -> 0..MaxRevision]
    BY <1>2, SyncBounds DEF WritePlatform, SyncTyped
  <2> QED BY <1>2, <2>1 DEF WritePlatform, SyncTyped, Exists
<1>3. ASSUME NEW w \in Writer, NEW c \in Credential, Create(w, c) \/ Rotate(w, c) PROVE SyncTyped'
  <2> PICK op \in {"create", "rotate"} : Begin(w, c, op)
    BY <1>3 DEF Create, Rotate
  <2>1. clock' = clock + 1 /\ clock' \in 1..MaxClock /\ 1..clock \subseteq 1..clock' /\ 0..clock \subseteq 0..clock'
    BY <1>0 DEF Begin
  <2>2. write' \in [Writer -> {NoWrite} \union [op : {"create", "rotate"}, credential : Credential, stamp : 1..clock']]
    <3>1. [op |-> op, credential |-> c, stamp |-> clock + 1]
            \in [op : {"create", "rotate"}, credential : Credential, stamp : 1..clock']
      BY <2>1
    <3>2. [op : {"create", "rotate"}, credential : Credential, stamp : 1..clock]
            \subseteq [op : {"create", "rotate"}, credential : Credential, stamp : 1..clock']
      BY <2>1
    <3> QED BY <3>1, <3>2 DEF Begin, SyncTyped
  <2>3. rows' \in [Credential -> [versions : SUBSET (1..clock'), updatedAt : 0..clock']]
    <3>1. SUBSET (1..clock) \subseteq SUBSET (1..clock')
      BY <2>1
    <3>2. [versions : SUBSET (1..clock), updatedAt : 0..clock] \subseteq [versions : SUBSET (1..clock'), updatedAt : 0..clock']
      BY <2>1, <3>1
    <3> QED BY <3>2 DEF Begin, SyncTyped
  <2>4. disturbed' \subseteq Credential
    BY DEF Begin, SyncTyped
  <2> QED BY <2>1, <2>2, <2>3, <2>4 DEF Begin, SyncTyped, Exists
<1>4. ASSUME NEW w \in Writer, Store(w) PROVE SyncTyped'
  <2> DEFINE c == write[w].credential
             row == [versions |-> rows[c].versions \union {write[w].stamp}, updatedAt |-> write[w].stamp]
  <2>1. c \in Credential /\ write[w].stamp \in 1..clock
    BY <1>4 DEF Store, SyncTyped
  <2>2. rows' = [rows EXCEPT ![c] = row] /\ row \in [versions : SUBSET (1..clock), updatedAt : 0..clock]
    BY <1>4, <2>1 DEF Store, SyncTyped
  <2>3. write' = [write EXCEPT ![w] = NoWrite]
    BY <1>4 DEF Store
  <2>4. row.updatedAt \in row.versions /\ row.versions # {}
    OBVIOUS
  <2> HIDE DEF row, c
  <2>5. \A d \in Credential : rows'[d].updatedAt \in (IF Exists(d)' THEN rows'[d].versions ELSE {0})
    BY <2>1, <2>2, <2>4 DEF SyncTyped, Exists
  <2>6. overtaken' \subseteq Credential
    BY <1>4, <2>1 DEF Store, SyncTyped, c
  <2> QED BY <1>4, <2>1, <2>2, <2>3, <2>5, <2>6 DEF Store, SyncTyped
<1>5. ASSUME NEW w \in Writer, WriteFails(w) PROVE SyncTyped'
  BY <1>5 DEF WriteFails, SyncTyped, Exists
<1>6. CASE KeepEnvelope
  BY <1>0, <1>6 DEF KeepEnvelope, SyncTyped, Exists, Never, Cursor, NoMeta
<1>7. ASSUME NEW s \in Syncer, StartSync(s) PROVE SyncTyped'
  <2>1. [step |-> "platforms", meta |-> meta] \in Syncs
    BY DEF Syncs, Asking, SyncTyped
  <2>2. Written \subseteq Credential
    BY DEF Written, SyncTyped
  <2> QED BY <1>1, <1>7, <2>1, <2>2 DEF StartSync, SyncTyped
<1>8. ASSUME NEW s \in Syncer, AnswerPlatforms(s) \/ AnswerCredentials(s) PROVE SyncTyped'
  <2>1. sync[s].meta \in Cursor
    BY <1>8, SyncOf DEF AnswerPlatforms, AnswerCredentials, Asking
  <2>2. [step |-> "put platforms", meta |-> sync[s].meta, answer |-> platforms] \in Syncs
    BY <2>1 DEF Syncs, PuttingPlatforms, SyncTyped
  <2>3. [c \in ChangedSince(sync[s].meta) |-> Response(c)] \in Answers
    <3>1. ChangedSince(sync[s].meta) \in SUBSET Credential /\ \A c \in ChangedSince(sync[s].meta) : Response(c) \in Kept
      BY RowsAnswer DEF ChangedSince
    <3> QED BY <3>1 DEF Answers
  <2>4. [step |-> "put credentials", meta |-> sync[s].meta,
         answer |-> [c \in ChangedSince(sync[s].meta) |-> Response(c)]] \in Syncs
    BY <2>1, <2>3 DEF Syncs, PuttingCredentials
  <2>5. CASE AnswerPlatforms(s)
    <3>1. sync' = [sync EXCEPT ![s] = [step |-> "put platforms", meta |-> sync[s].meta, answer |-> platforms]]
      BY <2>5 DEF AnswerPlatforms, SyncTyped
    <3> QED BY <1>1, <2>2, <2>5, <3>1 DEF AnswerPlatforms, SyncTyped
  <2>6. CASE AnswerCredentials(s)
    <3>1. sync' = [sync EXCEPT ![s] = [step |-> "put credentials", meta |-> sync[s].meta,
                                       answer |-> [c \in ChangedSince(sync[s].meta) |-> Response(c)]]]
      BY <2>6 DEF AnswerCredentials, SyncTyped
    <3> QED BY <1>1, <2>4, <2>6, <3>1 DEF AnswerCredentials, SyncTyped
  <2> QED BY <1>8, <2>5, <2>6
<1>9. ASSUME NEW s \in Syncer, PutPlatforms(s) PROVE SyncTyped'
  <2>1. sync[s].meta \in Cursor /\ sync[s].answer \in [Platform -> 0..MaxRevision]
    BY <1>9, SyncOf DEF PutPlatforms, PuttingPlatforms
  <2>2. sync' = [sync EXCEPT ![s] = [step |-> "credentials", meta |-> sync[s].meta]]
    BY <1>9 DEF PutPlatforms, SyncTyped
  <2>3. [step |-> "credentials", meta |-> sync[s].meta] \in Syncs
    BY <2>1 DEF Syncs, Asking
  <2>4. cachedPlatforms' \in [Platform -> 0..MaxRevision]
    BY <1>9, <2>1 DEF PutPlatforms, SyncTyped
  <2> QED BY <1>9, <2>2, <2>3, <2>4 DEF PutPlatforms, SyncTyped, Exists
<1>10. ASSUME NEW s \in Syncer, PutCredentials(s) PROVE SyncTyped'
  <2>1. sync[s].meta \in Cursor /\ \A c \in DOMAIN sync[s].answer : sync[s].answer[c] \in Kept
    BY <1>10, SyncOf DEF PutCredentials, PuttingCredentials
  <2>2. sync' = [sync EXCEPT ![s] = [step |-> "finish", meta |-> sync[s].meta]]
    BY <1>10 DEF PutCredentials, SyncTyped
  <2>3. [step |-> "finish", meta |-> sync[s].meta] \in Syncs
    BY <2>1 DEF Syncs, Asking
  <2>4. cache' \in [Credential -> Kept]
    BY <1>10, <2>1 DEF PutCredentials, SyncTyped
  <2> QED BY <1>10, <2>2, <2>3, <2>4 DEF PutCredentials, SyncTyped, Exists
<1>11. ASSUME NEW s \in Syncer, NEW now \in Instant, Finish(s, now) PROVE SyncTyped'
  <2>1. meta' \in Cursor
    BY <1>0, <1>11 DEF Finish, SyncTyped, Cursor, Instant
  <2> QED BY <1>0, <1>11, <2>1 DEF Finish, SyncTyped, Exists
<1>12. ASSUME NEW s \in Syncer, GiveUp(s) PROVE SyncTyped'
  BY <1>0, <1>1, <1>12 DEF GiveUp, SyncTyped
<1>13. CASE UNCHANGED syncVars
  BY <1>13 DEF syncVars, SyncTyped, Exists
<1> QED BY <1>2, <1>3, <1>4, <1>5, <1>6, <1>7, <1>8, <1>9, <1>10, <1>11, <1>12, <1>13 DEF SyncNext

\* What a step may do to writes, rows and runs, for one credential.
LEMMA UndisturbedStep ==
  ASSUME SyncInv, [SyncNext]_syncVars, NEW c \in Credential \ disturbed'
  PROVE  c \notin disturbed /\ Undisturbed(c)'
<1>0. SyncTyped
  BY DEF SyncInv
<1>1. disturbed \subseteq disturbed'
  BY DEF SyncNext, syncVars, WritePlatform, Create, Rotate, Begin, Store, WriteFails, KeepEnvelope, StartSync,
     AnswerPlatforms, PutPlatforms, AnswerCredentials, PutCredentials, Finish, GiveUp
<1>2. c \in Credential /\ c \notin disturbed /\ Undisturbed(c)
  BY <1>1 DEF SyncInv
<1>3. ASSUME UNCHANGED write, Running' \subseteq Running PROVE Undisturbed(c)'
  BY <1>2, <1>3 DEF Undisturbed, Written
<1>4. ASSUME NEW w \in Writer, NEW d \in Credential, Create(w, d) \/ Rotate(w, d) PROVE Undisturbed(c)'
  <2> PICK op \in {"create", "rotate"} : Begin(w, d, op)
    BY <1>4 DEF Create, Rotate
  <2>1. /\ write' = [write EXCEPT ![w] = [op |-> op, credential |-> d, stamp |-> clock + 1]]
        /\ Running' = Running
        /\ Running # {} => c # d
    BY DEF Begin, Running
  <2>2. write \in [Writer -> {NoWrite} \union [op : {"create", "rotate"}, credential : Credential, stamp : 1..clock]]
    BY <1>0 DEF SyncTyped
  <2>3. Written' \subseteq Written \union {d}
    BY <2>1, <2>2 DEF Written
  <2>4. Running' # {} => c \notin Written'
    BY <1>2, <2>1, <2>3 DEF Undisturbed
  <2> QED BY <2>4 DEF Undisturbed
<1>5. ASSUME NEW w \in Writer, Store(w) \/ WriteFails(w) PROVE Undisturbed(c)'
  <2>1. write' = [write EXCEPT ![w] = NoWrite] /\ Running' = Running
    BY <1>5 DEF Store, WriteFails, Running
  <2>2. \A v \in Writer : write'[v] # NoWrite => write'[v] = write[v]
    BY <1>0, <2>1 DEF SyncTyped
  <2>3. Written' \subseteq Written
    BY <2>2 DEF Written
  <2> QED BY <1>2, <2>1, <2>2, <2>3 DEF Undisturbed
<1>6. CASE KeepEnvelope
  <2>1. Running' = Running /\ write' = write
    BY <1>6 DEF KeepEnvelope, Running
  <2> QED BY <1>2, <1>3, <2>1
<1>7. ASSUME NEW s \in Syncer, StartSync(s) PROVE Undisturbed(c)'
  <2>1. c \notin Written /\ write' = write
    BY <1>7 DEF StartSync
  <2> QED BY <1>2, <2>1 DEF Undisturbed, Written
<1>8. ASSUME NEW s \in Syncer, NEW now \in Instant, Finish(s, now) PROVE Undisturbed(c)'
  <2>1. s \in Running /\ write' = write
    BY <1>8 DEF Finish, Running, NoSync
  <2>2. c \notin Written
    BY <1>2, <2>1 DEF Undisturbed
  <2> QED BY <2>1, <2>2 DEF Undisturbed, Written
<1>9. ASSUME NEW s \in Syncer,
             \/ AnswerPlatforms(s) \/ PutPlatforms(s) \/ AnswerCredentials(s) \/ PutCredentials(s) \/ GiveUp(s)
      PROVE  Undisturbed(c)'
  <2>1. s \in Running /\ \A x \in Syncer : x # s => sync'[x] = sync[x]
    BY <1>0, <1>9, RunSteps DEF OthersStay
  <2>2. Running' \subseteq Running
    BY <2>1 DEF Running
  <2> QED BY <1>3, <1>9, <2>2 DEF AnswerPlatforms, PutPlatforms, AnswerCredentials, PutCredentials, GiveUp
<1>10. ASSUME NEW p \in Platform, WritePlatform(p) PROVE Undisturbed(c)'
  BY <1>3, <1>10 DEF WritePlatform, Running
<1>11. CASE UNCHANGED syncVars
  BY <1>3, <1>11 DEF syncVars, Running
<1> QED BY <1>2, <1>4, <1>5, <1>6, <1>7, <1>8, <1>9, <1>10, <1>11 DEF SyncNext

\* While a sync runs, the rows it is about to answer for stay as they are.
LEMMA RowStays ==
  ASSUME SyncInv, [SyncNext]_syncVars, NEW c \in Credential \ disturbed'
  PROVE  \/ rows'[c] = rows[c] /\ (c \in overtaken' <=> c \in overtaken)
         \/ /\ Running = {} /\ Running' = {} /\ meta' = meta
            /\ Exists(c)' /\ (c \notin overtaken' => c \in ChangedSince(meta)')
<1>0. SyncTyped /\ c \in Credential /\ c \notin disturbed /\ Undisturbed(c)
  BY UndisturbedStep DEF SyncInv
<1>1. ASSUME NEW w \in Writer, Store(w), write[w].credential = c
      PROVE  /\ Running = {} /\ Running' = {} /\ meta' = meta /\ Exists(c)'
             /\ c \notin overtaken' => c \in ChangedSince(meta)'
  <2>1. c \in Written
    BY <1>1 DEF Store, Written
  <2>2. Running = {}
    BY <1>0, <2>1 DEF Undisturbed
  <2>3. Running' = Running /\ meta' = meta
    BY <1>1 DEF Store, Running
  <2>4. rows'[c].updatedAt = write[w].stamp /\ rows'[c].versions # {}
    BY <1>0, <1>1 DEF Store, SyncTyped
  <2>5. c \notin overtaken' => Asks(meta, write[w].stamp)
    BY <1>0, <1>1 DEF Store
  <2> QED BY <1>0, <2>2, <2>3, <2>4, <2>5 DEF Exists, ChangedSince
<1>2. ASSUME NEW w \in Writer, Store(w), write[w].credential # c
      PROVE  rows'[c] = rows[c] /\ (c \in overtaken' <=> c \in overtaken)
  BY <1>0, <1>2 DEF Store, SyncTyped
<1>3. CASE rows' = rows /\ overtaken' = overtaken
  BY <1>3
<1> QED
  BY <1>1, <1>2, <1>3
  DEF SyncNext, syncVars, WritePlatform, Create, Rotate, Begin, WriteFails, KeepEnvelope, StartSync,
      AnswerPlatforms, PutPlatforms, AnswerCredentials, PutCredentials, Finish, GiveUp

LEMMA AnsweredStep ==
  ASSUME SyncInv, [SyncNext]_syncVars, NEW c \in Credential \ disturbed' PROVE Answered(c)'
<1>0. SyncTyped /\ c \in Credential /\ Answered(c)
  BY UndisturbedStep DEF SyncInv
<1>1. rows'[c] = rows[c] \/ Running' = {}
  BY RowStays
<1>2. CASE Running' = {}
  <2>1. NoSync.step # "put credentials"
    BY DEF NoSync
  <2>2. \A s \in Syncer : sync'[s] = NoSync
    BY <1>2 DEF Running
  <2> QED BY <2>1, <2>2 DEF Answered
<1> SUFFICES ASSUME rows'[c] = rows[c], NEW s \in Syncer, sync'[s].step = "put credentials"
             PROVE  /\ c \in DOMAIN sync'[s].answer <=> c \in ChangedSince(sync[s].meta)'
                    /\ c \in DOMAIN sync'[s].answer => sync'[s].answer[c] = Response(c)'
  BY <1>1, <1>2 DEF Answered
<1>3. CASE sync'[s] = sync[s]
  BY <1>0, <1>3 DEF Answered, ChangedSince, Exists, Response
<1>4. CASE AnswerCredentials(s)
  <2>2. sync'[s].meta = sync[s].meta /\ sync'[s].answer = [d \in ChangedSince(sync[s].meta) |-> Response(d)]
    BY <1>0, <1>4, RunSteps
  <2>3. c \in ChangedSince(sync[s].meta) <=> c \in ChangedSince(sync[s].meta)'
    BY <1>0, <2>2 DEF ChangedSince, Exists
  <2>4. Response(c)' = Response(c)
    BY DEF Response
  <2> HIDE DEF ChangedSince
  <2> QED BY <2>2, <2>3, <2>4
<1>5. sync'[s] = sync[s] \/ AnswerCredentials(s)
  <2>1. ASSUME NEW x \in Syncer, sync'[x].step # "put credentials", \A y \in Syncer : y # x => sync'[y] = sync[y]
        PROVE  sync'[s] = sync[s]
    BY <2>1
  <2>2. ASSUME NEW x \in Syncer,
               \/ StartSync(x) \/ AnswerPlatforms(x) \/ PutPlatforms(x) \/ PutCredentials(x) \/ GiveUp(x)
               \/ \E now \in Instant : Finish(x, now)
        PROVE  sync'[s] = sync[s]
    <3>1. NoSync.step # "put credentials"
      BY DEF NoSync
    <3>2. OthersStay(x) /\ sync'[x].step # "put credentials"
      BY <1>0, <2>2, <3>1, RunSteps
    <3> QED BY <2>1, <3>2 DEF OthersStay
  <2>3. ASSUME NEW x \in Syncer, AnswerCredentials(x) PROVE sync'[s] = sync[s] \/ AnswerCredentials(s)
    BY <1>0, <2>3, RunSteps DEF OthersStay
  <2>4. CASE sync' = sync
    BY <2>4
  <2> QED BY <2>2, <2>3, <2>4
    DEF SyncNext, syncVars, WritePlatform, Create, Rotate, Begin, Store, WriteFails, KeepEnvelope
<1> QED BY <1>3, <1>4, <1>5

\* What the cache holds of a credential nobody writes, it keeps: every answer is as new.
LEMMA CacheStays ==
  ASSUME SyncInv, [SyncNext]_syncVars, NEW c \in Credential \ disturbed', rows'[c] = rows[c]
  PROVE  HoldsNewest(c) => HoldsNewest(c)'
<1>0. SyncTyped /\ c \in Credential /\ Answered(c)
  BY UndisturbedStep DEF SyncInv
<1>1. CASE cache' = cache
  BY <1>1 DEF HoldsNewest
<1>2. ASSUME NEW s \in Syncer, PutCredentials(s) PROVE HoldsNewest(c) => HoldsNewest(c)'
  <2>1. cache'[c] = IF c \in DOMAIN sync[s].answer THEN Response(c) ELSE cache[c]
    BY <1>0, <1>2 DEF PutCredentials, Answered
  <2>2. c \in DOMAIN sync[s].answer => Exists(c)
    BY <1>0, <1>2 DEF PutCredentials, Answered, ChangedSince
  <2> QED BY <1>0, <2>1, <2>2, RowsAnswer DEF HoldsNewest
<1> QED BY <1>1, <1>2
  DEF SyncNext, syncVars, WritePlatform, Create, Rotate, Begin, Store, WriteFails, KeepEnvelope, StartSync,
      AnswerPlatforms, PutPlatforms, AnswerCredentials, Finish, GiveUp

LEMMA CatchesUpStep ==
  ASSUME SyncInv, [SyncNext]_syncVars, NEW c \in Credential \ disturbed', c \notin overtaken' PROVE CatchesUp(c)'
<1>0. SyncTyped /\ c \in Credential /\ c \notin disturbed /\ Answered(c)
  BY UndisturbedStep DEF SyncInv
<1>1. ASSUME ~(rows'[c] = rows[c] /\ (c \in overtaken' <=> c \in overtaken)) PROVE CatchesUp(c)'
  BY <1>1, RowStays DEF CatchesUp, CaughtFrom
<1>2. SUFFICES ASSUME rows'[c] = rows[c], c \notin overtaken, Exists(c) PROVE CatchesUp(c)'
  BY <1>1 DEF CatchesUp, Exists
<1>a. CatchesUp(c)
  BY <1>0, <1>2 DEF SyncInv
<1> DEFINE Old(m) == Asks(m, rows[c].updatedAt)
<1>3. \A m : (CaughtFrom(c, m) <=> HoldsNewest(c) \/ Old(m))
  BY <1>2 DEF CaughtFrom, ChangedSince
<1>4. CatchesUp(c)' <=>
        /\ HoldsNewest(c)' \/ Old(meta')
        /\ \A s \in Running' : /\ HoldsNewest(c)' \/ Old(sync'[s].meta)
                               /\ sync'[s].step = "finish" => HoldsNewest(c)'
  BY <1>2 DEF CatchesUp, CaughtFrom, ChangedSince, Exists
<1>5. /\ HoldsNewest(c) \/ Old(meta)
      /\ \A s \in Running : /\ HoldsNewest(c) \/ Old(sync[s].meta)
                            /\ sync[s].step = "finish" => HoldsNewest(c)
  BY <1>a, <1>2, <1>3 DEF CatchesUp
<1>6. HoldsNewest(c) => HoldsNewest(c)'
  BY <1>2, CacheStays
<1>7. \A s \in Syncer : s \in Running <=> sync[s] # NoSync
  BY DEF Running
<1>8. \A s \in Syncer : s \in Running' <=> sync'[s] # NoSync
  BY DEF Running
<1> HIDE DEF Old
<1>9. ASSUME NEW s \in Syncer, \A x \in Syncer : x # s => sync'[x] = sync[x],
             HoldsNewest(c)' \/ Old(meta'),
             sync'[s] # NoSync => /\ HoldsNewest(c)' \/ Old(sync'[s].meta)
                                  /\ sync'[s].step = "finish" => HoldsNewest(c)'
      PROVE  CatchesUp(c)'
  BY <1>4, <1>5, <1>6, <1>7, <1>8, <1>9 DEF Running
<1>10. ASSUME NEW s \in Syncer, StartSync(s) PROVE CatchesUp(c)'
  <2>1. sync'[s] = [step |-> "platforms", meta |-> meta] /\ meta' = meta /\ \A x \in Syncer : x # s => sync'[x] = sync[x]
    BY <1>0, <1>10 DEF StartSync, SyncTyped
  <2> QED BY <1>5, <1>6, <1>9, <2>1
<1>11. ASSUME NEW s \in Syncer, AnswerPlatforms(s) \/ PutPlatforms(s) \/ AnswerCredentials(s) PROVE CatchesUp(c)'
  <2>1. /\ sync'[s].meta = sync[s].meta /\ sync'[s].step # "finish" /\ meta' = meta /\ s \in Running
        /\ \A x \in Syncer : x # s => sync'[x] = sync[x]
    <3>1. OthersStay(s) /\ sync'[s].meta = sync[s].meta /\ sync'[s].step # "finish" /\ s \in Running
      BY <1>0, <1>11, RunSteps
    <3> QED BY <1>11, <3>1 DEF OthersStay, AnswerPlatforms, PutPlatforms, AnswerCredentials
  <2> QED BY <1>5, <1>6, <1>9, <2>1
<1>12. ASSUME NEW s \in Syncer, PutCredentials(s) PROVE CatchesUp(c)'
  <2>1. /\ sync'[s].meta = sync[s].meta /\ meta' = meta /\ s \in Running
        /\ \A x \in Syncer : x # s => sync'[x] = sync[x]
    BY <1>0, <1>12, RunSteps DEF PutCredentials, OthersStay
  <2>2. HoldsNewest(c)'
    <3>1. CASE c \in DOMAIN sync[s].answer
      <4>1. cache'[c] = Response(c)
        BY <1>0, <1>12, <3>1 DEF PutCredentials, Answered
      <4> QED BY <1>0, <1>2, <4>1, RowsAnswer DEF HoldsNewest
    <3>2. CASE c \notin DOMAIN sync[s].answer
      <4>1. c \notin ChangedSince(sync[s].meta)
        BY <1>0, <1>12, <3>2 DEF PutCredentials, Answered
      <4> QED BY <1>a, <1>2, <1>6, <2>1, <4>1 DEF CatchesUp, CaughtFrom
    <3> QED BY <3>1, <3>2
  <2> QED BY <1>9, <2>1, <2>2
<1>13. ASSUME NEW s \in Syncer, (\E now \in Instant : Finish(s, now)) \/ GiveUp(s) PROVE CatchesUp(c)'
  <2>1. sync'[s] = NoSync /\ s \in Running /\ \A x \in Syncer : x # s => sync'[x] = sync[x]
    BY <1>0, <1>7, <1>13 DEF Finish, GiveUp, SyncTyped, NoSync
  <2>2. HoldsNewest(c)' \/ Old(meta')
    BY <1>5, <1>6, <1>13, <2>1 DEF Finish, GiveUp
  <2> QED BY <1>9, <2>1, <2>2
<1>14. CASE KeepEnvelope
  <2>1. Old(meta') /\ Running' = Running /\ sync' = sync
    BY <1>14 DEF KeepEnvelope, Old, Asks, Running
  <2> QED BY <1>4, <1>5, <1>6, <2>1
<1>15. CASE UNCHANGED <<meta, sync>>
  <2>1. Running' = Running
    BY <1>15 DEF Running
  <2> QED BY <1>4, <1>5, <1>6, <1>15, <2>1
<1> QED BY <1>10, <1>11, <1>12, <1>13, <1>14, <1>15
  DEF SyncNext, syncVars, WritePlatform, Create, Rotate, Begin, Store, WriteFails

\* The platforms a browser keeps, and the server's, are never taken back.
LEMMA PlatformsStay ==
  ASSUME SyncTyped, [SyncNext]_syncVars, NEW p \in Platform
  PROVE  /\ platforms[p] > 0 => platforms'[p] > 0
         /\ cachedPlatforms[p] > 0 => cachedPlatforms'[p] > 0
<1>0. platforms[p] \in Nat /\ cachedPlatforms[p] \in Nat
  BY SyncBounds DEF SyncTyped
<1>1. ASSUME NEW q \in Platform, WritePlatform(q)
      PROVE  platforms[p] > 0 => platforms'[p] > 0
  BY <1>0, <1>1 DEF WritePlatform, SyncTyped
<1>2. ASSUME NEW s \in Syncer, PutPlatforms(s)
      PROVE  cachedPlatforms[p] > 0 => cachedPlatforms'[p] > 0
  BY <1>2 DEF PutPlatforms
<1>3. platforms' = platforms \/ \E q \in Platform : WritePlatform(q)
  BY DEF SyncNext, syncVars, Create, Rotate, Begin, Store, WriteFails, KeepEnvelope, StartSync,
     AnswerPlatforms, PutPlatforms, AnswerCredentials, PutCredentials, Finish, GiveUp
<1>4. cachedPlatforms' = cachedPlatforms \/ \E s \in Syncer : PutPlatforms(s)
  BY DEF SyncNext, syncVars, WritePlatform, Create, Rotate, Begin, Store, WriteFails, KeepEnvelope, StartSync,
     AnswerPlatforms, AnswerCredentials, PutCredentials, Finish, GiveUp
<1> QED BY <1>1, <1>2, <1>3, <1>4

LEMMA NamedStep ==
  ASSUME SyncInv, [SyncNext]_syncVars, NEW c \in Credential PROVE Named(c)'
<1> DEFINE p == OnPlatform[c]
<1>0. /\ SyncTyped /\ Named(c) /\ p \in Platform
      /\ disturbed \subseteq disturbed'
  <2>1. disturbed \subseteq disturbed'
    BY DEF SyncNext, syncVars, WritePlatform, Create, Rotate, Begin, Store, WriteFails, KeepEnvelope, StartSync,
       AnswerPlatforms, PutPlatforms, AnswerCredentials, PutCredentials, Finish, GiveUp
  <2> QED BY <2>1, OnPlatformAssumption DEF SyncInv
<1> HIDE DEF p
<1>1. /\ platforms[p] > 0 => platforms'[p] > 0
      /\ cachedPlatforms[p] > 0 => cachedPlatforms'[p] > 0
  BY <1>0, PlatformsStay
<1>2. Exists(c)' \/ c \in Written' => Exists(c) \/ c \in Written \/ platforms[p] > 0
  <2>1. ASSUME NEW w \in Writer, NEW d \in Credential, Create(w, d) \/ Rotate(w, d), Exists(c)' \/ c \in Written'
        PROVE  Exists(c) \/ c \in Written \/ platforms[p] > 0
    <3>1. Exists(d) \/ platforms[OnPlatform[d]] > 0
      BY <2>1 DEF Create, Rotate
    <3>2. Exists(c)' <=> Exists(c)
      BY <2>1 DEF Create, Rotate, Begin, Exists
    <3>3. PICK op : write' = [write EXCEPT ![w] = [op |-> op, credential |-> d, stamp |-> clock + 1]]
      BY <2>1 DEF Create, Rotate, Begin
    <3>4. Written' \subseteq Written \union {d}
      BY <1>0, <3>3 DEF Written, SyncTyped
    <3> QED BY <2>1, <3>1, <3>2, <3>4 DEF p
  <2>2. ASSUME NEW w \in Writer, Store(w) \/ WriteFails(w), Exists(c)' \/ c \in Written'
        PROVE  Exists(c) \/ c \in Written
    <3>1. \A v \in Writer : write'[v] # NoWrite => write'[v] = write[v]
      BY <1>0, <2>2 DEF SyncTyped, Store, WriteFails
    <3>2. Written' \subseteq Written
      BY <3>1 DEF Written
    <3>3. Exists(c)' => Exists(c) \/ c \in Written
      <4>1. CASE WriteFails(w)
        BY <4>1 DEF WriteFails, Exists
      <4>2. CASE Store(w) /\ c = write[w].credential
        BY <4>2 DEF Store, Written
      <4>3. CASE Store(w) /\ c # write[w].credential
        BY <1>0, <4>3 DEF Store, SyncTyped, Exists
      <4> QED BY <2>2, <4>1, <4>2, <4>3
    <3> QED BY <2>2, <3>2, <3>3
  <2>3. CASE UNCHANGED <<write, rows>>
    BY <2>3 DEF Exists, Written
  <2> QED BY <2>1, <2>2, <2>3
    DEF SyncNext, syncVars, WritePlatform, KeepEnvelope, StartSync,
        AnswerPlatforms, PutPlatforms, AnswerCredentials, PutCredentials, Finish, GiveUp
<1>3. Exists(c)' \/ c \in Written' => platforms'[p] > 0
  BY <1>0, <1>1, <1>2 DEF Named, p
<1>4. ASSUME c \notin disturbed', Exists(c)', NEW s \in Running'
      PROVE  /\ sync'[s].step = "put platforms" => sync'[s].answer[p] > 0
             /\ sync'[s].step \in {"credentials", "put credentials", "finish"} => cachedPlatforms'[p] > 0
  <2>0. NoSync.step = "idle" /\ s \in Syncer /\ sync'[s] # NoSync
    BY DEF NoSync, Running
  <2>1. CASE ~Exists(c)
    <3>1. rows'[c] # rows[c]
      BY <1>4, <2>1 DEF Exists
    <3> QED BY <1>4, <3>1, RowStays
  <2>2. CASE Exists(c) /\ sync'[s] = sync[s]
    <3>1. s \in Running
      BY <2>0, <2>2 DEF Running
    <3> QED BY <1>0, <1>1, <1>4, <2>2, <3>1 DEF Named, p
  <2>3. CASE Exists(c) /\ sync'[s] # sync[s]
    <3>1. /\ platforms[p] > 0
          /\ s \in Running =>
               /\ sync[s].step = "put platforms" => sync[s].answer[p] > 0
               /\ sync[s].step \in {"credentials", "put credentials", "finish"} => cachedPlatforms[p] > 0
      BY <1>0, <1>4, <2>3 DEF Named, p
    <3>2. ASSUME NEW x \in Syncer, OthersStay(x) PROVE x = s
      BY <2>0, <2>3, <3>2 DEF OthersStay
    <3>3. ASSUME NEW x \in Syncer, (\E now \in Instant : Finish(x, now)) \/ GiveUp(x) PROVE FALSE
      <4>1. OthersStay(x) /\ sync'[x] = NoSync
        BY <1>0, <3>3, RunSteps
      <4> QED BY <2>0, <3>2, <4>1
    <3>4. ASSUME NEW x \in Syncer, StartSync(x)
          PROVE  sync'[s].step = "platforms"
      BY <1>0, <3>2, <3>4, RunSteps
    <3>5. ASSUME NEW x \in Syncer, AnswerPlatforms(x)
          PROVE  sync'[s].step = "put platforms" /\ sync'[s].answer = platforms
      BY <1>0, <3>2, <3>5, RunSteps
    <3>6. ASSUME NEW x \in Syncer, PutPlatforms(x)
          PROVE  sync'[s].step = "credentials" /\ cachedPlatforms'[p] > 0
      <4>1. x = s /\ sync'[s].step = "credentials" /\ s \in Running /\ sync[s].step = "put platforms"
        BY <1>0, <3>2, <3>6, RunSteps DEF PutPlatforms
      <4>2. sync[s].answer[p] > 0
        BY <3>1, <4>1
      <4> QED BY <1>0, <3>6, <4>1, <4>2 DEF PutPlatforms
    <3>7. ASSUME NEW x \in Syncer, AnswerCredentials(x) \/ PutCredentials(x)
          PROVE  sync'[s].step \in {"put credentials", "finish"} /\ cachedPlatforms'[p] > 0
      <4>1. x = s /\ sync'[s].step \in {"put credentials", "finish"} /\ s \in Running
        BY <1>0, <3>2, <3>7, RunSteps
      <4>2. sync[s].step \in {"credentials", "put credentials"}
        BY <3>7, <4>1 DEF AnswerCredentials, PutCredentials
      <4> QED BY <1>1, <3>1, <4>1, <4>2
    <3>8. sync' # sync
      BY <2>3
    <3> QED BY <3>1, <3>3, <3>4, <3>5, <3>6, <3>7, <3>8
      DEF SyncNext, syncVars, WritePlatform, Create, Rotate, Begin, Store, WriteFails, KeepEnvelope
  <2> QED BY <2>1, <2>2, <2>3
<1>5. c \notin disturbed' /\ cache'[c] # NotKept => cachedPlatforms'[p] > 0
  <2> SUFFICES ASSUME c \notin disturbed', cache'[c] # NotKept PROVE cachedPlatforms'[p] > 0
    OBVIOUS
  <2>1. CASE cache' = cache
    BY <1>0, <1>1, <2>1 DEF Named, p
  <2>2. ASSUME NEW s \in Syncer, PutCredentials(s) PROVE cachedPlatforms[p] > 0
    <3>1. Answered(c)
      BY <1>0 DEF SyncInv
    <3>2. CASE c \in DOMAIN sync[s].answer
      <4>1. Exists(c) /\ s \in Running /\ sync[s].step = "put credentials"
        BY <1>0, <2>2, <3>1, <3>2, RunSteps DEF Answered, PutCredentials, ChangedSince
      <4> QED BY <1>0, <4>1 DEF Named, p
    <3>3. CASE c \notin DOMAIN sync[s].answer
      <4>1. cache'[c] = cache[c]
        BY <2>2, <3>3 DEF PutCredentials
      <4> QED BY <1>0, <4>1 DEF Named, p
    <3> QED BY <3>2, <3>3
  <2> QED BY <1>1, <2>1, <2>2
    DEF SyncNext, syncVars, WritePlatform, Create, Rotate, Begin, Store, WriteFails, KeepEnvelope, StartSync,
        AnswerPlatforms, PutPlatforms, AnswerCredentials, Finish, GiveUp
<1> QED BY <1>3, <1>4, <1>5 DEF Named, p

\* CacheCatchesUp: what the offline copy lacks of a credential, the next sync asks for, unless a sync was
\* disturbed about it or the browser's clock was past its last stamp, and every platform the copy shows is
\* known, for any tabs, writers and credentials and whatever the two clocks show.
THEOREM CopyCatchesUp == SyncSpec => []CacheCatchesUp
<1>1. SyncInv /\ [SyncNext]_syncVars => SyncInv'
  <2> SUFFICES ASSUME SyncInv, [SyncNext]_syncVars PROVE SyncInv'
    OBVIOUS
  <2>1. SyncTyped'
    BY SyncTypedStep DEF SyncInv
  <2>2. \A c \in Credential \ disturbed' :
          Undisturbed(c)' /\ Answered(c)' /\ (c \notin overtaken' => CatchesUp(c)')
    BY UndisturbedStep, CatchesUpStep, AnsweredStep
  <2>3. \A c \in Credential : Named(c)'
    BY NamedStep
  <2> QED BY <2>1, <2>2, <2>3 DEF SyncInv
<1> QED BY <1>1, SyncInitially, SyncImplies, PTL DEF SyncSpec

\* Everything the run "vault" checks, under the one hypothesis it makes of the set-up: a part that
\* is not played stays where it started, so the run's behaviours are behaviours of each part.
THEOREM VaultAllHolds ==
  ASSUME \A e, f \in Email : e = f, \A d, f \in SetUpOn : d = f
  PROVE  VaultSpec => /\ []OneVault /\ []CacheCatchesUp /\ []RevealsAreKept
                      /\ []ScreenForgets /\ []SecretsAreTimed /\ []SessionsEnd
<1>1. VaultInit => KeysInit /\ SyncInit /\ OutboxInit /\ ScreenInit /\ SessionsInit
  BY DEF VaultInit
<1>2. [VaultNext]_<<part, keyVars, syncVars, outboxVars, screenVars, sessionVars>>
        => /\ [KeysNext]_keyVars /\ [SyncNext]_syncVars /\ [OutboxNext]_outboxVars
           /\ [ScreenNext]_screenVars /\ [SessionsNext]_sessionVars
  BY DEF VaultNext
<1>3. VaultSpec => KeysSpec /\ SyncSpec /\ OutboxSpec /\ ScreenSpec /\ SessionsSpec
  BY <1>1, <1>2, PTL DEF VaultSpec, KeysSpec, SyncSpec, OutboxSpec, ScreenSpec, SessionsSpec
<1>4. KeysSpec => []OneVault
  BY OneSetUpMakesOneVault
<1> QED BY <1>3, <1>4, CopyCatchesUp, QueuedRevealsAreKept, LockedScreensForget, SecretsLeaveInTime,
            SessionsEndProperly, PTL

===============================================================================
