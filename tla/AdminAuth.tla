------------------------------ MODULE AdminAuth ------------------------------
(***************************************************************************)
(* The administrator's logins, sessions and API key (AuthService): the     *)
(* limiter of login attempts, whose test, password check and record of a   *)
(* failure take the lock one by one, the sessions in memory, and the       *)
(* requests that pass requireAdmin and act later.                          *)
(*                                                                         *)
(* Time is relative: a bucket, a lock and a session hold the ticks still   *)
(* to pass.  The rows of the audit log, which nothing here reads, and the  *)
(* origins and headers a browser must send are left out.                   *)
(***************************************************************************)
EXTENDS Integers, FiniteSets, Functions

CONSTANTS
  Logins,       \* login requests that run concurrently
  Names,        \* username and address: the key of a bucket
  Visits,       \* requests to the protected routes that run concurrently
  SessionTokens,  \* the random session tokens, each used once
  Nobody,       \* no name, no session, no credential
  MaxAttempts,  \* loginMaxAttempts; negative: no limit
  MaxWindows,   \* loginMaxWindows
  LoginWindow, Lockout, SessionTTL,  \* in ticks
  MaxRotations  \* bound: how often the API key is rotated

ASSUME AdminAssumption ==
  /\ MaxAttempts \in Int \ {0}
  /\ {MaxWindows, LoginWindow, Lockout, SessionTTL} \subseteq Nat \ {0}
  /\ MaxRotations \in Nat
  /\ Nobody \notin Names \cup SessionTokens
  /\ IsFiniteSet(Logins) /\ IsFiniteSet(Names)

VARIABLES
  windows,   \* loginWindows: the buckets, [left, count, lock]
  sessions,  \* the ticks left of each session
  minted,    \* the tokens already used
  rotations, \* how often the API key was rotated: its version
  login,     \* the name each login under way is checking
  visit,     \* the credential each request was admitted with
  guesses    \* history: the wrong passwords of a name since its bucket exists

adminVars == <<windows, sessions, minted, rotations, login, visit, guesses>>

-----------------------------------------------------------------------------
(* The buckets of the limiter. *)

NotLocked == 0 - 1
Limited == MaxAttempts > 0
NewBucket == [left |-> LoginWindow, count |-> 0, lock |-> NotLocked]

\* A bucket in w is over when its lock is, or, unless locked, when its window is.
Over(b) == IF b.lock = NotLocked THEN b.left = 0 ELSE b.lock = 0

\* pruneLoginWindows.
Pruned(w) == Restrict(w, {n \in DOMAIN w : ~Over(w[n])})

LockActive(w, n) == n \in DOMAIN w /\ w[n].lock > 0

\* A faulty variant: only a full table keeps a login out.
RefusedWhenFull(w, n) == n \notin DOMAIN w /\ Cardinality(DOMAIN w) >= MaxWindows

\* loginLocked, once pruned: a lock, or no room for a new bucket.
Refused(w, n) ==
  \/ LockActive(w, n)
  \/ n \notin DOMAIN w /\ Cardinality(DOMAIN w) >= MaxWindows

With(w, n, b) == [m \in DOMAIN w \cup {n} |-> IF m = n THEN b ELSE w[m]]

Counted(b) ==
  [b EXCEPT !.count = @ + 1,
            !.lock = IF b.count + 1 >= MaxAttempts THEN Lockout ELSE @]

\* recordLoginFailure, once pruned.
AfterFailure(w, n) ==
  IF Refused(w, n) THEN w
  ELSE With(w, n, Counted(IF n \in DOMAIN w THEN w[n] ELSE NewBucket))

GuessesIn(w, g) == [n \in Names |-> IF n \in DOMAIN w THEN g[n] ELSE 0]

-----------------------------------------------------------------------------
NoTokens == [t \in {} |-> 0]

AdminInit ==
  /\ windows = [n \in {} |-> NewBucket]
  /\ sessions = NoTokens
  /\ minted = {}
  /\ rotations = 0
  /\ login = [a \in Logins |-> Nobody]
  /\ visit = [v \in Visits |-> Nobody]
  /\ guesses = [n \in Names |-> 0]

\* A login passes the limiter, which reserves a bucket before the password is
\* looked at, or is refused.
StartLogin(a, n) ==
  /\ login[a] = Nobody
  /\ IF Limited
       THEN LET w == Pruned(windows) IN
            /\ windows' = IF n \in DOMAIN w \/ Refused(w, n) THEN w
                          ELSE With(w, n, NewBucket)
            /\ login' = IF Refused(w, n) THEN login ELSE [login EXCEPT ![a] = n]
            /\ guesses' = GuessesIn(w, guesses)
       ELSE login' = [login EXCEPT ![a] = n] /\ UNCHANGED <<windows, guesses>>
  /\ UNCHANGED <<sessions, minted, rotations, visit>>

\* There is no such account, or the password is wrong.
LoginFails(a) ==
  /\ login[a] # Nobody
  /\ IF Limited
       THEN /\ windows' = AfterFailure(Pruned(windows), login[a])
            /\ guesses' = LET g == GuessesIn(Pruned(windows), guesses) IN
                          GuessesIn(windows', [g EXCEPT ![login[a]] = @ + 1])
       ELSE UNCHANGED <<windows, guesses>>
  /\ login' = [login EXCEPT ![a] = Nobody]
  /\ UNCHANGED <<sessions, minted, rotations, visit>>

\* The password is right: the bucket goes, locked or not, and a session begins.
LoginSucceeds(a) ==
  /\ login[a] # Nobody
  /\ windows' = Restrict(windows, DOMAIN windows \ {login[a]})
  /\ guesses' = GuessesIn(windows', guesses)
  /\ \E t \in SessionTokens \ minted :
       /\ minted' = minted \cup {t}
       /\ sessions' = With(sessions, t, SessionTTL)
  /\ login' = [login EXCEPT ![a] = Nobody]
  /\ UNCHANGED <<rotations, visit>>

\* The password is right, but there is no random token to be had.
LoginWithoutToken(a) ==
  /\ login[a] # Nobody
  /\ login' = [login EXCEPT ![a] = Nobody]
  /\ UNCHANGED <<windows, sessions, minted, rotations, visit, guesses>>

-----------------------------------------------------------------------------
(* requireAdmin, and what the protected routes do. *)

Cookie(t) == [kind |-> "cookie", of |-> t]
ApiKey(k) == [kind |-> "key", of |-> k]

\* A cookie is looked up only if no header brings a credential; a session that
\* is over is deleted.
EnterWithCookie(v, t) ==
  /\ visit[v] = Nobody
  /\ t \in DOMAIN sessions
  /\ IF sessions[t] = 0
       THEN sessions' = Restrict(sessions, DOMAIN sessions \ {t}) /\ visit' = visit
       ELSE sessions' = sessions /\ visit' = [visit EXCEPT ![v] = Cookie(t)]
  /\ UNCHANGED <<windows, minted, rotations, login, guesses>>

\* There is a key once it was generated, and only the latest is known; the visitor
\* may well hold a cookie, too.
EnterWithKey(v) ==
  /\ visit[v] = Nobody
  /\ rotations > 0
  /\ visit' = [visit EXCEPT ![v] = ApiKey(rotations)]
  /\ UNCHANGED <<windows, sessions, minted, rotations, login, guesses>>

\* A faulty variant: a logout ends every session.
EndedByAll(credential) == DOMAIN sessions

\* The sessions a logout ends: that of the cookie it was admitted with.
EndedBy(credential) == {t \in DOMAIN sessions : credential = Cookie(t)}

Logout(v) ==
  /\ visit[v] # Nobody
  /\ sessions' = Restrict(sessions, DOMAIN sessions \ EndedBy(visit[v]))
  /\ visit' = [visit EXCEPT ![v] = Nobody]
  /\ UNCHANGED <<windows, minted, rotations, login, guesses>>

\* RotateAdminAPIKey replaces the only row.
RotateKey(v) ==
  /\ visit[v] # Nobody
  /\ rotations < MaxRotations
  /\ rotations' = rotations + 1
  /\ visit' = [visit EXCEPT ![v] = Nobody]
  /\ UNCHANGED <<windows, sessions, minted, login, guesses>>

\* Any other route: it does not touch what is modelled here.
Act(v) ==
  /\ visit[v] # Nobody
  /\ visit' = [visit EXCEPT ![v] = Nobody]
  /\ UNCHANGED <<windows, sessions, minted, rotations, login, guesses>>

Less(n) == IF n > 0 THEN n - 1 ELSE n

AdminTick ==
  /\ windows' = [n \in DOMAIN windows |->
                   [windows[n] EXCEPT !.left = Less(@), !.lock = Less(@)]]
  /\ sessions' = [t \in DOMAIN sessions |-> Less(sessions[t])]
  /\ UNCHANGED <<minted, rotations, login, visit, guesses>>

\* Sessions, locks and requests are lost; the database keeps the key.
AdminRestart ==
  /\ windows' = [n \in {} |-> NewBucket]
  /\ sessions' = NoTokens
  /\ login' = [a \in Logins |-> Nobody]
  /\ visit' = [v \in Visits |-> Nobody]
  /\ guesses' = [n \in Names |-> 0]
  /\ UNCHANGED <<minted, rotations>>

AdminNext ==
  \/ \E a \in Logins, n \in Names : StartLogin(a, n)
  \/ \E a \in Logins : LoginFails(a) \/ LoginSucceeds(a) \/ LoginWithoutToken(a)
  \/ \E v \in Visits, t \in SessionTokens : EnterWithCookie(v, t)
  \/ \E v \in Visits : EnterWithKey(v) \/ Logout(v) \/ RotateKey(v) \/ Act(v)
  \/ AdminTick
  \/ AdminRestart

AdminSpec == AdminInit /\ [][AdminNext]_adminVars

-----------------------------------------------------------------------------
(* Properties. *)

Bucket ==
  [left : 0..LoginWindow, count : 0..MaxAttempts, lock : NotLocked..Lockout]
Credentials == {Cookie(t) : t \in SessionTokens} \cup {ApiKey(k) : k \in 1..MaxRotations}

\* Every variable has its type.
AdminTypeOK ==
  /\ DOMAIN windows \subseteq Names /\ windows \in [DOMAIN windows -> Bucket]
  /\ DOMAIN sessions \subseteq minted /\ sessions \in [DOMAIN sessions -> 0..SessionTTL]
  /\ minted \subseteq SessionTokens
  /\ rotations \in 0..MaxRotations
  /\ login \in [Logins -> Names \cup {Nobody}]
  /\ visit \in [Visits -> Credentials \cup {Nobody}]
  /\ guesses \in [Names -> Nat]

\* However many logins run at once, a bucket lets only those pass the lock that
\* were under way when the last permitted attempt failed.
GuessesBounded ==
  \A n \in Names : guesses[n] <= MaxAttempts - 1 + Cardinality(Logins)

\* The memory of the limiter is bounded, although a bucket that was reserved may
\* be gone when its login fails.
BucketsBounded == Cardinality(DOMAIN windows) <= MaxWindows

\* The limiter keeps its bounds under concurrent logins (auth.go, Login).
LimiterHolds == Limited => GuessesBounded /\ BucketsBounded

\* A session ends by its own logout, when its time is over, or with the process: no
\* other logout, late or with the API key, ends it.
OnlyOwnSession ==
  [][\A t \in DOMAIN sessions :
       t \notin DOMAIN sessions' =>
         \/ sessions[t] = 0 \/ AdminRestart
         \/ \E v \in Visits : visit[v] = Cookie(t) /\ visit'[v] = Nobody]_adminVars
=============================================================================
