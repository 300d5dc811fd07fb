-------------------------------- MODULE Sessions --------------------------------
(***************************************************************************)
(* Who is signed in: the sessions the server keeps (AuthService.login,     *)
(* recoverVault, resolveSession, revokeSession and createSession behind    *)
(* AuthController and SessionGuard), the cookie of each browser, and the   *)
(* screen its gate shows (RequireSession).                                 *)
(*                                                                         *)
(* The account exists.  Its credential is told apart by the number of      *)
(* recoveries that replaced it; a login that presents another one leaves   *)
(* no trace.  Each statement of a request is a step, and the process may   *)
(* stop between two, or the answer be lost.                                *)
(***************************************************************************)
EXTENDS Naturals

CONSTANTS
  Browser,
  SessionTtl,      \* SESSION_TTL_DAYS
  MaxSessions,     \* bound: tokens drawn
  MaxRecoveries,   \* bound: recoveries begun
  LastDay          \* bound: days

ASSUME TtlAssumption == SessionTtl \in Nat

VARIABLES
  credential,   \* recoveries that replaced authHashDigest so far
  sessions,     \* the rows of Session
  handling,     \* Browser -> its request being handled
  cookie,       \* Browser -> [token, until], NoCookie
  gate,         \* Browser -> what RequireSession shows
  drawnTokens, begun, date,
  unswept       \* history: a recovery stopped before it deleted the sessions, or has yet to

sessionVars == <<credential, sessions, handling, cookie, gate, drawnTokens, begun, date, unswept>>

NoCookie == [token |-> 0, until |-> 0]
NoRequest     == [op |-> "none", step |-> "idle", proved |-> 0]

SessionsInit ==
  /\ credential = 0 /\ sessions = {}
  /\ handling = [b \in Browser |-> NoRequest]
  /\ cookie = [b \in Browser |-> NoCookie]
  /\ gate = [b \in Browser |-> "splash"]
  /\ drawnTokens = 0 /\ begun = 0 /\ date = 1 /\ unswept = {}

Handles(b, op, step) == handling[b].op = op /\ handling[b].step = step
Goes(b, h)  == handling' = [handling EXCEPT ![b] = h]
Finishes(b)    == Goes(b, NoRequest)
Bearer(b)   == IF cookie[b].until >= date THEN cookie[b].token ELSE 0

-------------------------------------------------------------------------------
(* The server *)

\* login: the credential verified against the row as it was read.
LoginVerify(b) ==
  /\ handling[b] = NoRequest
  /\ Goes(b, [op |-> "login", step |-> "create", proved |-> credential])
  /\ UNCHANGED <<credential, sessions, cookie, gate, drawnTokens, begun, date, unswept>>

\* recoverVault: the code is verified, and a new digest computed.
RecoveryVerify(b) ==
  /\ handling[b] = NoRequest /\ begun < MaxRecoveries
  /\ begun' = begun + 1
  /\ Goes(b, [op |-> "recover", step |-> "update", proved |-> 0])
  /\ UNCHANGED <<credential, sessions, cookie, gate, drawnTokens, date, unswept>>

RecoverUpdate(b) ==
  /\ Handles(b, "recover", "update")
  /\ credential' = credential + 1
  /\ unswept' = unswept \cup {credential'}
  /\ Goes(b, [op |-> "recover", step |-> "delete", proved |-> credential'])
  /\ UNCHANGED <<sessions, cookie, gate, drawnTokens, begun, date>>

\* Variant: a recovery leaves the sessions of other browsers.
RecoverDeleteOwn(b) ==
  /\ Handles(b, "recover", "delete")
  /\ sessions' = {s \in sessions : s.token # cookie[b].token}
  /\ unswept' = unswept \ 1..handling[b].proved
  /\ Goes(b, [handling[b] EXCEPT !.step = "create"])
  /\ UNCHANGED <<credential, cookie, gate, drawnTokens, begun, date>>

\* session.deleteMany
RecoverDelete(b) ==
  /\ Handles(b, "recover", "delete")
  /\ sessions' = {}
  /\ unswept' = unswept \ 1..handling[b].proved
  /\ Goes(b, [handling[b] EXCEPT !.step = "create"])
  /\ UNCHANGED <<credential, cookie, gate, drawnTokens, begun, date>>

\* createSession, of login or of recoverVault; late is history.
CreateSession(b) ==
  /\ handling[b].step = "create" /\ drawnTokens < MaxSessions
  /\ drawnTokens' = drawnTokens + 1
  /\ sessions' = sessions \cup {[token |-> drawnTokens', expiresAt |-> date + SessionTtl,
                                 proved |-> handling[b].proved, late |-> handling[b].proved # credential]}
  /\ Goes(b, [op |-> "answer", step |-> handling[b].op, proved |-> drawnTokens'])
  /\ UNCHANGED <<credential, cookie, gate, begun, date, unswept>>

\* setSessionCookie
SetSessionCookie(b) ==
  /\ handling[b].op = "answer"
  /\ cookie' = [cookie EXCEPT ![b] = [token |-> handling[b].proved, until |-> date + SessionTtl]]
  /\ gate' = [gate EXCEPT ![b] = "splash"]
  /\ Finishes(b)
  /\ UNCHANGED <<credential, sessions, drawnTokens, begun, date, unswept>>

\* logout: revokeSession, and the clearing of the cookie by the answer.
Logout(b) ==
  /\ handling[b] = NoRequest
  /\ sessions' = {s \in sessions : s.token # Bearer(b)}
  /\ Goes(b, [op |-> "logout", step |-> "answer", proved |-> 0])
  /\ UNCHANGED <<credential, cookie, gate, drawnTokens, begun, date, unswept>>

ClearCookie(b) ==
  /\ Handles(b, "logout", "answer")
  /\ cookie' = [cookie EXCEPT ![b] = NoCookie]
  /\ gate' = [gate EXCEPT ![b] = "splash"]
  /\ Finishes(b)
  /\ UNCHANGED <<credential, sessions, drawnTokens, begun, date, unswept>>

\* The request stops where it is, or its answer is lost.
Interrupted(b) ==
  /\ handling[b] # NoRequest
  /\ Finishes(b)
  /\ UNCHANGED <<credential, sessions, cookie, gate, drawnTokens, begun, date, unswept>>

\* SessionGuard and resolveSession.
Resolves(token) == \E s \in sessions : s.token = token /\ s.expiresAt > date

\* useSession asks when it is mounted, and whenever it is invalidated; any error shows LoginPage.
AskSession(b) ==
  /\ gate' = [gate EXCEPT ![b] = IF Resolves(Bearer(b)) THEN "shell" ELSE "login"]
  /\ UNCHANGED <<credential, sessions, handling, cookie, drawnTokens, begun, date, unswept>>

NextDate ==
  /\ date < LastDay
  /\ date' = date + 1
  /\ UNCHANGED <<credential, sessions, handling, cookie, gate, drawnTokens, begun, unswept>>

SessionsNext ==
  \/ \E b \in Browser :
       \/ LoginVerify(b)
       \/ RecoveryVerify(b) \/ RecoverUpdate(b) \/ RecoverDelete(b)
       \/ CreateSession(b) \/ SetSessionCookie(b)
       \/ Logout(b) \/ ClearCookie(b)
       \/ Interrupted(b)
       \/ AskSession(b)
  \/ NextDate

SessionsSpec == SessionsInit /\ [][SessionsNext]_sessionVars

-------------------------------------------------------------------------------
(* Properties *)

\* A session whose owner proved an older credential outlives the recovery that replaced it only
\* if its login was verified before and its row made after, or while no recovery that got as far
\* as replacing the credential has deleted the sessions yet.
RecoveryEndsSessions ==
  \A s \in sessions : s.proved = credential \/ s.late \/ unswept # {}

\* A browser is not asked to sign in while its session would be accepted, only because its cookie
\* aged: the cookie outlives the row.
CookieOutlivesSession ==
  \A b \in Browser, s \in sessions : cookie[b].token = s.token => cookie[b].until >= s.expiresAt

\* A recovery ends the sessions of before, and no cookie ages before its session.
SessionsEnd == RecoveryEndsSessions /\ CookieOutlivesSession

\* auth.service.ts:190: after a recovery "Every prior session (up to SESSION_TTL_DAYS old) is
\* revoked; only the fresh one below remains."
OnlyTheFreshRemains ==
  \A b \in Browser : Handles(b, "answer", "recover") => \A s \in sessions : s.proved = credential
===============================================================================
