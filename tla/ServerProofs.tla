---------------------------- MODULE ServerProofs ----------------------------
(***************************************************************************)
(* Proofs about the parts of the server around the orchestrator that share *)
(* no state: AdminAuth, Mcp, Retention and Gateway, each for every value   *)
(* of its constants.                                                       *)
(***************************************************************************)
EXTENDS AdminAuth, Gateway, Mcp, Retention, FiniteSetTheorems, WellFoundedInduction, TLAPS

-----------------------------------------------------------------------------
(***************************************************************************)
(* AdminAuth.  The limiter of logins tests, checks and records in separate *)
(* critical sections: LimiterInv says how many guesses a bucket may still  *)
(* have to count.                                                          *)
(***************************************************************************)

\* The logins that have passed the limiter with n and not ended yet.
Pending(n, l) == {a \in Logins : l[a] = n}

\* What the guesses g of n and the logins pending have to do with its bucket: an
\* open bucket has counted each guess; of those a locked one will ever see, all but
\* MaxAttempts are by logins that were under way when it was locked.
BucketSound(n, w, g, pending) ==
  IF n \notin DOMAIN w THEN g = 0
  ELSE IF w[n].lock = NotLocked THEN g = w[n].count /\ g < MaxAttempts
  ELSE g + Cardinality(pending) <= MaxAttempts - 1 + Cardinality(Logins)

BucketsSound(w, g, l) == \A n \in Names : BucketSound(n, w, g[n], Pending(n, l))

WindowsTypeOK(w) == DOMAIN w \subseteq Names /\ w \in [DOMAIN w -> Bucket]

LimiterInv ==
  /\ WindowsTypeOK(windows)
  /\ guesses \in [Names -> Nat]
  /\ login \in [Logins -> Names \cup {Nobody}]
  /\ Limited => BucketsSound(windows, guesses, login) /\ BucketsBounded

SessionsTypeOK ==
  /\ DOMAIN sessions \subseteq minted /\ sessions \in [DOMAIN sessions -> 0..SessionTTL]
  /\ minted \subseteq SessionTokens
  /\ rotations \in 0..MaxRotations
  /\ visit \in [Visits -> Credentials \cup {Nobody}]

AdminInv == LimiterInv /\ SessionsTypeOK

-----------------------------------------------------------------------------
(* The operators of the limiter. *)

\* The constants, one by one.
LEMMA ConstantFacts ==
  /\ MaxAttempts \in Int
  /\ MaxWindows \in Nat \ {0}
  /\ LoginWindow \in Nat \ {0}
  /\ Lockout \in Nat \ {0}
  /\ SessionTTL \in Nat \ {0}
BY AdminAssumption

\* Pruning keeps each bucket as it is or drops it; what it keeps is not over.
LEMMA PrunedFacts ==
  ASSUME NEW w, WindowsTypeOK(w)
  PROVE  /\ DOMAIN Pruned(w) = {n \in DOMAIN w : ~Over(w[n])}
         /\ \A n \in DOMAIN Pruned(w) : Pruned(w)[n] = w[n]
         /\ WindowsTypeOK(Pruned(w))
         /\ \A n \in DOMAIN Pruned(w) :
              Pruned(w)[n].lock = NotLocked \/ Pruned(w)[n].lock > 0
<1>1. /\ DOMAIN Pruned(w) = {n \in DOMAIN w : ~Over(w[n])}
      /\ \A n \in DOMAIN Pruned(w) : Pruned(w)[n] = w[n] /\ n \in DOMAIN w
      /\ Pruned(w) = [n \in DOMAIN Pruned(w) |-> w[n]]
  BY DEF Pruned, Restrict
<1>2. \A n \in DOMAIN w : w[n] \in Bucket
  BY DEF WindowsTypeOK
<1>3. WindowsTypeOK(Pruned(w))
  BY <1>1, <1>2 DEF WindowsTypeOK
<1>4. ASSUME NEW n \in DOMAIN Pruned(w)
      PROVE  Pruned(w)[n].lock = NotLocked \/ Pruned(w)[n].lock > 0
  <2>1. w[n].lock \in NotLocked..Lockout /\ ~Over(w[n]) /\ Pruned(w)[n] = w[n]
    BY <1>1, <1>2, <1>4 DEF Bucket
  <2>2. QED
    BY <2>1, ConstantFacts DEF Over, NotLocked
<1>5. QED
  BY <1>1, <1>3, <1>4

\* A bucket put into the table is there, and the others are as they were.
LEMMA WithFacts ==
  ASSUME NEW w, NEW n, NEW b
  PROVE  /\ DOMAIN With(w, n, b) = DOMAIN w \cup {n}
         /\ With(w, n, b)[n] = b
         /\ \A m \in DOMAIN w \ {n} : With(w, n, b)[m] = w[m]
BY DEF With

\* So the table stays typed.
LEMMA WithType ==
  ASSUME NEW w, WindowsTypeOK(w), NEW n \in Names, NEW b \in Bucket
  PROVE  WindowsTypeOK(With(w, n, b))
BY DEF With, WindowsTypeOK

\* A table is finite.
LEMMA TableFinite ==
  ASSUME NEW w, WindowsTypeOK(w)
  PROVE  IsFiniteSet(DOMAIN w) /\ Cardinality(DOMAIN w) \in Nat
BY AdminAssumption, FS_Subset, FS_CardinalityType DEF WindowsTypeOK

\* A new bucket is put only where there is room for it, so the table stays bounded.
LEMMA RoomForOne ==
  ASSUME NEW w, WindowsTypeOK(w), Cardinality(DOMAIN w) <= MaxWindows,
         NEW n \in Names, ~Refused(w, n), NEW b
  PROVE  Cardinality(DOMAIN With(w, n, b)) <= MaxWindows
<1>1. Cardinality(DOMAIN w \cup {n}) =
        IF n \in DOMAIN w THEN Cardinality(DOMAIN w) ELSE Cardinality(DOMAIN w) + 1
  BY TableFinite, FS_AddElement
<1>2. n \in DOMAIN w \/ Cardinality(DOMAIN w) < MaxWindows
  BY TableFinite, ConstantFacts DEF Refused
<1>3. DOMAIN With(w, n, b) = DOMAIN w \cup {n}
  BY WithFacts
<1>4. Cardinality(DOMAIN w) \in Nat
  BY TableFinite
<1>5. QED
  BY <1>1, <1>2, <1>3, <1>4, ConstantFacts

\* Nor does a table grow that loses buckets.
LEMMA LessIsBounded ==
  ASSUME NEW w, WindowsTypeOK(w), Cardinality(DOMAIN w) <= MaxWindows,
         NEW v, DOMAIN v \subseteq DOMAIN w
  PROVE  Cardinality(DOMAIN v) <= MaxWindows
<1>1. /\ IsFiniteSet(DOMAIN v)
      /\ Cardinality(DOMAIN v) <= Cardinality(DOMAIN w)
  BY TableFinite, FS_Subset
<1>2. Cardinality(DOMAIN v) \in Nat
  BY <1>1, FS_CardinalityType
<1>3. QED
  BY <1>1, <1>2, TableFinite, AdminAssumption

\* There are no more logins pending than there are logins.
LEMMA PendingFacts ==
  ASSUME NEW l, NEW n
  PROVE  /\ IsFiniteSet(Pending(n, l))
         /\ Cardinality(Pending(n, l)) \in Nat
         /\ Cardinality(Pending(n, l)) <= Cardinality(Logins)
         /\ Cardinality(Logins) \in Nat
BY AdminAssumption, FS_Subset, FS_CardinalityType DEF Pending

\* A login that ends is pending no more; for other names nothing changes.
LEMMA EndedLogin ==
  ASSUME NEW l \in [Logins -> Names \cup {Nobody}], NEW a \in Logins, l[a] # Nobody,
         NEW n \in Names
  PROVE  Cardinality(Pending(n, [l EXCEPT ![a] = Nobody])) =
           IF n = l[a] THEN Cardinality(Pending(n, l)) - 1 ELSE Cardinality(Pending(n, l))
<1>1. Pending(n, [l EXCEPT ![a] = Nobody]) = Pending(n, l) \ {a}
  BY AdminAssumption DEF Pending
<1>2. a \in Pending(n, l) <=> n = l[a]
  BY DEF Pending
<1>3. IsFiniteSet(Pending(n, l))
  BY PendingFacts
<1>4. Cardinality(Pending(n, l) \ {a}) =
        IF a \in Pending(n, l) THEN Cardinality(Pending(n, l)) - 1
        ELSE Cardinality(Pending(n, l))
  BY <1>3, FS_RemoveElement
<1>5. QED
  BY <1>1, <1>2, <1>4

\* A login that begins is pending for its own name only.
LEMMA BegunLogin ==
  ASSUME NEW l \in [Logins -> Names \cup {Nobody}], NEW a \in Logins, l[a] = Nobody,
         NEW m \in Names, NEW n \in Names, m # n
  PROVE  Pending(n, [l EXCEPT ![a] = m]) = Pending(n, l)
BY AdminAssumption DEF Pending

\* Pruning keeps the buckets sound: with a bucket its guesses are forgotten.
LEMMA PruningIsSound ==
  ASSUME NEW w, NEW g \in [Names -> Nat], NEW l, WindowsTypeOK(w), BucketsSound(w, g, l)
  PROVE  BucketsSound(Pruned(w), GuessesIn(Pruned(w), g), l)
BY PrunedFacts DEF BucketsSound, BucketSound, GuessesIn

\* A new bucket has its type, and one that counts a failure below the limit keeps it.
LEMMA BucketTypes ==
  /\ Limited => NewBucket \in Bucket
  /\ \A b \in Bucket : b.lock = NotLocked /\ b.count < MaxAttempts => Counted(b) \in Bucket
<1>1. Limited => NewBucket \in Bucket
  BY ConstantFacts DEF Limited, NewBucket, Bucket, NotLocked
<1>2. ASSUME NEW b \in Bucket, b.lock = NotLocked, b.count < MaxAttempts
      PROVE  Counted(b) \in Bucket
  <2> DEFINE k == IF b.count + 1 >= MaxAttempts THEN Lockout ELSE b.lock
  <2>1. b.left \in 0..LoginWindow /\ b.count + 1 \in 0..MaxAttempts
    BY <1>2, ConstantFacts DEF Bucket
  <2>2. k \in NotLocked..Lockout
    BY <1>2, ConstantFacts DEF Bucket, NotLocked
  <2>3. Counted(b) = [b EXCEPT !.count = b.count + 1, !.lock = k]
    BY <1>2 DEF Counted, Bucket
  <2> HIDE DEF k
  <2>4. QED
    BY <1>2, <2>1, <2>2, <2>3 DEF Bucket
<1>3. QED
  BY <1>1, <1>2

\* What remains of the guesses when buckets are dropped.
LEMMA GuessesFacts ==
  ASSUME NEW w, NEW g \in [Names -> Nat]
  PROVE  /\ GuessesIn(w, g) \in [Names -> Nat]
         /\ \A n \in Names : GuessesIn(w, g)[n] = IF n \in DOMAIN w THEN g[n] ELSE 0
BY DEF GuessesIn

-----------------------------------------------------------------------------
(* The limiter, action by action. *)

\* A login that passes the limiter has a bucket that is open; no login passes a
\* lock, so none is added to those a locked bucket accounts for.
LEMMA StartKeepsLimiter ==
  ASSUME LimiterInv, NEW a \in Logins, NEW n \in Names, StartLogin(a, n)
  PROVE  LimiterInv'
<1>1. login' \in [Logins -> Names \cup {Nobody}]
  BY DEF LimiterInv, StartLogin
<1>2. CASE ~Limited
  BY <1>1, <1>2 DEF LimiterInv, StartLogin, Limited
<1>3. CASE Limited
  <2> DEFINE w == Pruned(windows)
             g == GuessesIn(w, guesses)
  <2>1. /\ WindowsTypeOK(w)
        /\ g \in [Names -> Nat]
        /\ BucketsSound(w, g, login)
        /\ Cardinality(DOMAIN w) <= MaxWindows
        /\ \A m \in DOMAIN w : w[m].lock = NotLocked \/ w[m].lock > 0
    BY <1>3, PrunedFacts, PruningIsSound, GuessesFacts, LessIsBounded
    DEF LimiterInv, BucketsBounded
  <2>2. /\ windows' = IF n \in DOMAIN w \/ Refused(w, n) THEN w ELSE With(w, n, NewBucket)
        /\ login' = IF Refused(w, n) THEN login ELSE [login EXCEPT ![a] = n]
        /\ guesses' = g
        /\ login[a] = Nobody
    BY <1>3 DEF StartLogin
  <2>3. WindowsTypeOK(windows')
    BY <1>3, <2>1, <2>2, BucketTypes, WithType
  <2>4. Cardinality(DOMAIN windows') <= MaxWindows
    BY <2>1, <2>2, RoomForOne
  <2>5. ASSUME NEW m \in Names
        PROVE  BucketSound(m, windows', g[m], Pending(m, login'))
    <3>1. BucketSound(m, w, g[m], Pending(m, login))
      BY <2>1 DEF BucketsSound
    <3>2. CASE Refused(w, n)
      BY <2>2, <3>1, <3>2
    <3>3. CASE ~Refused(w, n) /\ m # n
      <4>1. Pending(m, login') = Pending(m, login)
        BY <2>2, <3>3, BegunLogin DEF LimiterInv
      <4>2. /\ m \in DOMAIN windows' <=> m \in DOMAIN w
            /\ m \in DOMAIN w => windows'[m] = w[m]
        BY <2>2, <3>3 DEF With
      <4>3. QED
        BY <3>1, <4>1, <4>2 DEF BucketSound
    <3>4. CASE ~Refused(w, n) /\ m = n /\ n \in DOMAIN w
      <4>1. w[n].lock = NotLocked
        BY <2>1, <3>4 DEF Refused, LockActive
      <4>2. QED
        BY <2>2, <3>1, <3>4, <4>1 DEF BucketSound
    <3>5. CASE ~Refused(w, n) /\ m = n /\ n \notin DOMAIN w
      <4>1. n \in DOMAIN windows' /\ windows'[n] = NewBucket
        BY <2>2, <3>5 DEF With
      <4>2. g[n] = 0
        BY <3>1, <3>5 DEF BucketSound
      <4>3. QED
        BY <1>3, <3>5, <4>1, <4>2, ConstantFacts DEF BucketSound, NewBucket, Limited
    <3>6. QED
      BY <3>2, <3>3, <3>4, <3>5
  <2>6. QED
    BY <1>1, <2>1, <2>2, <2>3, <2>4, <2>5 DEF LimiterInv, BucketsSound, BucketsBounded
<1>4. QED
  BY <1>2, <1>3

\* A failure is counted in the open bucket, which it may lock: then all other logins
\* may be pending, and are accounted for.  In a locked bucket one pending login
\* becomes one guess.
LEMMA FailureKeepsLimiter ==
  ASSUME LimiterInv, NEW a \in Logins, LoginFails(a)
  PROVE  LimiterInv'
<1> DEFINE n == login[a]
<1>1. /\ login' = [login EXCEPT ![a] = Nobody]
      /\ login \in [Logins -> Names \cup {Nobody}]
      /\ n \in Names /\ n # Nobody
  BY DEF LimiterInv, LoginFails
<1>2. login' \in [Logins -> Names \cup {Nobody}]
  BY <1>1
<1>3. CASE ~Limited
  BY <1>2, <1>3 DEF LimiterInv, LoginFails, Limited
<1>4. CASE Limited
  <2> DEFINE w == Pruned(windows)
             g == GuessesIn(w, guesses)
             b == IF n \in DOMAIN w THEN w[n] ELSE NewBucket
  <2>1. /\ WindowsTypeOK(w)
        /\ g \in [Names -> Nat]
        /\ BucketsSound(w, g, login)
        /\ Cardinality(DOMAIN w) <= MaxWindows
        /\ \A m \in DOMAIN w : w[m].lock = NotLocked \/ w[m].lock > 0
    BY <1>4, PrunedFacts, PruningIsSound, GuessesFacts, LessIsBounded
    DEF LimiterInv, BucketsBounded
  <2>2. windows' = IF Refused(w, n) THEN w ELSE With(w, n, Counted(b))
    BY <1>4 DEF LoginFails, AfterFailure
  <2>3. guesses' = GuessesIn(windows', [g EXCEPT ![n] = @ + 1])
    BY <1>4 DEF LoginFails
  <2>4. /\ guesses' \in [Names -> Nat]
        /\ \A m \in Names : guesses'[m] =
             IF m \notin DOMAIN windows' THEN 0 ELSE IF m = n THEN g[m] + 1 ELSE g[m]
    <3> DEFINE h == [g EXCEPT ![n] = @ + 1]
    <3>1. /\ h \in [Names -> Nat]
          /\ \A m \in Names : h[m] = IF m = n THEN g[m] + 1 ELSE g[m]
      BY <1>1, <2>1
    <3>2. guesses' = GuessesIn(windows', h)
      BY <2>3
    <3> HIDE DEF h
    <3>3. QED
      BY <3>1, <3>2, GuessesFacts
  <2>5. BucketSound(n, w, g[n], Pending(n, login))
    BY <1>1, <2>1 DEF BucketsSound
  <2>6. ~Refused(w, n) => /\ b \in Bucket
                          /\ b.lock = NotLocked
                          /\ b.count = g[n]
                          /\ b.count < MaxAttempts
    <3>1. CASE n \in DOMAIN w
      BY <2>1, <2>5, <3>1 DEF Refused, LockActive, BucketSound, WindowsTypeOK
    <3>2. CASE n \notin DOMAIN w
      BY <1>4, <2>5, <3>2, BucketTypes, ConstantFacts DEF BucketSound, NewBucket, Limited
    <3>3. QED
      BY <3>1, <3>2
  <2>7. WindowsTypeOK(windows')
    BY <1>1, <2>1, <2>2, <2>6, BucketTypes, WithType
  <2>8. Cardinality(DOMAIN windows') <= MaxWindows
    BY <1>1, <2>1, <2>2, RoomForOne
  <2>9. ASSUME NEW m \in Names
        PROVE  BucketSound(m, windows', guesses'[m], Pending(m, login'))
    <3>1. BucketSound(m, w, g[m], Pending(m, login))
      BY <2>1 DEF BucketsSound
    <3>2. /\ Cardinality(Pending(m, login')) =
               IF m = n THEN Cardinality(Pending(m, login)) - 1
               ELSE Cardinality(Pending(m, login))
          /\ Cardinality(Pending(m, login)) \in Nat
          /\ Cardinality(Pending(m, login)) <= Cardinality(Logins)
          /\ Cardinality(Logins) \in Nat
      BY <1>1, EndedLogin, PendingFacts
    <3>3. CASE m # n
      <4>1. /\ m \in DOMAIN windows' <=> m \in DOMAIN w
            /\ m \in DOMAIN w => windows'[m] = w[m]
        BY <2>2, <3>3 DEF With
      <4>2. QED
        BY <2>4, <3>1, <3>2, <3>3, <4>1 DEF BucketSound
    <3>4. CASE m = n /\ Refused(w, n)
      <4>1. CASE n \in DOMAIN w
        <5>1. w[n].lock > 0
          BY <3>4, <4>1 DEF Refused, LockActive
        <5>2. g[n] + Cardinality(Pending(n, login)) <= MaxAttempts - 1 + Cardinality(Logins)
          BY <3>1, <3>4, <4>1, <5>1 DEF BucketSound, NotLocked
        <5>3. g[n] \in Nat /\ guesses'[n] = g[n] + 1
          BY <1>1, <2>1, <2>2, <2>4, <3>4, <4>1
        <5>4. guesses'[n] + Cardinality(Pending(n, login')) <=
                MaxAttempts - 1 + Cardinality(Logins)
          BY <3>2, <3>4, <5>2, <5>3, ConstantFacts
        <5>5. QED
          BY <2>2, <3>4, <4>1, <5>1, <5>4 DEF BucketSound, NotLocked
      <4>2. CASE n \notin DOMAIN w
        BY <2>2, <2>4, <3>4, <4>2 DEF BucketSound
      <4>3. QED
        BY <4>1, <4>2
    <3>5. CASE m = n /\ ~Refused(w, n)
      <4>1. n \in DOMAIN windows' /\ windows'[n] = Counted(b)
        BY <2>2, <3>5 DEF With
      <4>2. /\ b \in Bucket /\ b.lock = NotLocked
            /\ b.count = g[n] /\ b.count < MaxAttempts
        BY <2>6, <3>5
      <4>3. g[n] \in Nat /\ guesses'[n] = g[n] + 1
        BY <1>1, <2>1, <2>4, <3>5, <4>1
      <4>4. /\ Counted(b).count = b.count + 1
            /\ Counted(b).lock = IF b.count + 1 >= MaxAttempts THEN Lockout ELSE NotLocked
        BY <4>2 DEF Counted, Bucket
      <4>5. CASE b.count + 1 >= MaxAttempts
        <5>1. guesses'[n] = MaxAttempts
          BY <4>2, <4>3, <4>5, ConstantFacts
        <5>2. guesses'[n] + Cardinality(Pending(n, login')) <=
                MaxAttempts - 1 + Cardinality(Logins)
          BY <3>2, <3>5, <5>1, ConstantFacts
        <5>3. windows'[n].lock # NotLocked
          BY <4>1, <4>4, <4>5, ConstantFacts DEF NotLocked
        <5>4. QED
          BY <3>5, <4>1, <5>2, <5>3 DEF BucketSound
      <4>6. CASE b.count + 1 < MaxAttempts
        <5>1. windows'[n].lock = NotLocked
          BY <4>1, <4>2, <4>3, <4>4, <4>6, ConstantFacts
        <5>2. guesses'[n] = windows'[n].count /\ guesses'[n] < MaxAttempts
          BY <4>1, <4>2, <4>3, <4>4, <4>6
        <5>3. QED
          BY <3>5, <4>1, <5>1, <5>2 DEF BucketSound
      <4>7. QED
        BY <4>2, <4>3, <4>5, <4>6, ConstantFacts
    <3>6. QED
      BY <3>3, <3>4, <3>5
  <2>10. QED
    BY <1>2, <2>4, <2>7, <2>8, <2>9 DEF LimiterInv, BucketsSound, BucketsBounded
<1>5. QED
  BY <1>3, <1>4

\* The right password drops the bucket with its guesses.
LEMMA SuccessKeepsLimiter ==
  ASSUME LimiterInv, NEW a \in Logins, LoginSucceeds(a)
  PROVE  LimiterInv'
<1> DEFINE n == login[a]
<1>1. /\ login' = [login EXCEPT ![a] = Nobody]
      /\ login \in [Logins -> Names \cup {Nobody}]
      /\ n \in Names /\ n # Nobody
      /\ windows' = Restrict(windows, DOMAIN windows \ {n})
      /\ guesses' = GuessesIn(windows', guesses)
  BY DEF LimiterInv, LoginSucceeds
<1>2. /\ DOMAIN windows' = DOMAIN windows \ {n}
      /\ \A m \in DOMAIN windows' : windows'[m] = windows[m]
      /\ WindowsTypeOK(windows')
  BY <1>1 DEF Restrict, LimiterInv, WindowsTypeOK
<1>3. /\ guesses' \in [Names -> Nat]
      /\ \A m \in Names : guesses'[m] = IF m \in DOMAIN windows' THEN guesses[m] ELSE 0
  BY <1>1, GuessesFacts DEF LimiterInv
<1>4. ASSUME Limited, NEW m \in Names
      PROVE  BucketSound(m, windows', guesses'[m], Pending(m, login'))
  <2>1. BucketSound(m, windows, guesses[m], Pending(m, login))
    BY <1>4 DEF LimiterInv, BucketsSound
  <2>2. m # n => Cardinality(Pending(m, login')) = Cardinality(Pending(m, login))
    BY <1>1, EndedLogin
  <2>3. QED
    BY <1>2, <1>3, <2>1, <2>2 DEF BucketSound
<1>5. Limited => Cardinality(DOMAIN windows') <= MaxWindows
  BY <1>2, LessIsBounded DEF LimiterInv, BucketsBounded
<1>6. QED
  BY <1>1, <1>2, <1>3, <1>4, <1>5 DEF LimiterInv, BucketsSound, BucketsBounded

\* A login that fails for another reason leaves its bucket as it is.
LEMMA NoTokenKeepsLimiter ==
  ASSUME LimiterInv, NEW a \in Logins, LoginWithoutToken(a)
  PROVE  LimiterInv'
<1>1. /\ login' = [login EXCEPT ![a] = Nobody]
      /\ login[a] # Nobody
      /\ login \in [Logins -> Names \cup {Nobody}]
      /\ UNCHANGED <<windows, guesses>>
  BY DEF LimiterInv, LoginWithoutToken
<1>2. ASSUME Limited, NEW m \in Names
      PROVE  BucketSound(m, windows', guesses'[m], Pending(m, login'))
  <2>1. BucketSound(m, windows, guesses[m], Pending(m, login))
    BY <1>2 DEF LimiterInv, BucketsSound
  <2>2. /\ Cardinality(Pending(m, login')) \in Nat
        /\ Cardinality(Pending(m, login)) \in Nat
        /\ Cardinality(Pending(m, login')) <= Cardinality(Pending(m, login))
    <3>1. /\ Cardinality(Pending(m, login)) \in Nat
          /\ Cardinality(Pending(m, login')) \in Nat
      BY PendingFacts
    <3>2. Cardinality(Pending(m, login')) =
            IF m = login[a] THEN Cardinality(Pending(m, login)) - 1
            ELSE Cardinality(Pending(m, login))
      BY <1>1, EndedLogin
    <3>3. QED
      BY <3>1, <3>2
  <2>3. /\ guesses[m] \in Nat
        /\ Cardinality(Logins) \in Nat
    BY PendingFacts DEF LimiterInv
  <2>4. QED
    BY <1>1, <2>1, <2>2, <2>3, ConstantFacts DEF BucketSound
<1>3. QED
  BY <1>1, <1>2 DEF LimiterInv, BucketsSound, BucketsBounded

\* Time opens no locked bucket and locks no open one.
LEMMA TickKeepsLimiter ==
  ASSUME LimiterInv, AdminTick
  PROVE  LimiterInv'
<1>1. /\ DOMAIN windows' = DOMAIN windows
      /\ \A m \in DOMAIN windows :
           windows'[m] = [windows[m] EXCEPT !.left = Less(@), !.lock = Less(@)]
      /\ windows' = [m \in DOMAIN windows |-> windows'[m]]
      /\ UNCHANGED <<login, guesses>>
  BY DEF AdminTick
<1>2. ASSUME NEW m \in DOMAIN windows
      PROVE  /\ windows'[m] \in Bucket
             /\ windows'[m].count = windows[m].count
             /\ windows'[m].lock = NotLocked <=> windows[m].lock = NotLocked
  <2>1. /\ windows[m] \in Bucket
        /\ windows'[m] = [windows[m] EXCEPT !.left = Less(@), !.lock = Less(@)]
    BY <1>1, <1>2 DEF LimiterInv, WindowsTypeOK
  <2>2. /\ Less(windows[m].left) \in 0..LoginWindow
        /\ Less(windows[m].lock) \in NotLocked..Lockout
        /\ Less(windows[m].lock) = NotLocked <=> windows[m].lock = NotLocked
    BY <2>1, ConstantFacts DEF Less, Bucket, NotLocked
  <2>3. QED
    BY <2>1, <2>2 DEF Bucket
<1>3. WindowsTypeOK(windows')
  BY <1>1, <1>2 DEF WindowsTypeOK, LimiterInv
<1>4. Limited => BucketsSound(windows', guesses', login')
  BY <1>1, <1>2 DEF LimiterInv, BucketsSound, BucketSound
<1>5. QED
  BY <1>1, <1>3, <1>4 DEF LimiterInv, BucketsBounded

\* Before the first login there is nothing to account for.
LEMMA EmptyLimiter ==
  ASSUME NEW w, w = [n \in {} |-> NewBucket],
         NEW g, g = [n \in Names |-> 0], NEW l
  PROVE  /\ WindowsTypeOK(w)
         /\ g \in [Names -> Nat]
         /\ BucketsSound(w, g, l)
         /\ Cardinality(DOMAIN w) <= MaxWindows
<1>1. Cardinality(DOMAIN w) = 0
  BY FS_EmptySet
<1>2. QED
  BY <1>1, ConstantFacts DEF WindowsTypeOK, BucketsSound, BucketSound

-----------------------------------------------------------------------------
(* The sessions and the requests. *)

\* Sessions begin with a fresh token, and whoever is admitted holds a credential.
LEMMA SessionsStayTyped ==
  ASSUME SessionsTypeOK, [AdminNext]_adminVars
  PROVE  SessionsTypeOK'
<1>1. SessionTTL \in Nat \ {0} /\ MaxRotations \in Nat
  BY AdminAssumption
<1>2. ASSUME NEW a \in Logins, LoginSucceeds(a)
      PROVE  SessionsTypeOK'
  <2>1. PICK t \in SessionTokens \ minted :
          minted' = minted \cup {t} /\ sessions' = With(sessions, t, SessionTTL)
    BY <1>2 DEF LoginSucceeds
  <2>2. DOMAIN sessions' = DOMAIN sessions \cup {t}
    BY <2>1 DEF With
  <2>3. sessions' \in [DOMAIN sessions' -> 0..SessionTTL]
    BY <1>1, <2>1, <2>2 DEF With, SessionsTypeOK
  <2>4. QED
    BY <1>2, <2>1, <2>2, <2>3 DEF LoginSucceeds, SessionsTypeOK
<1>3. ASSUME NEW v \in Visits, NEW t \in SessionTokens, EnterWithCookie(v, t)
      PROVE  SessionsTypeOK'
  <2>1. Cookie(t) \in Credentials
    BY DEF Credentials
  <2>2. CASE sessions[t] = 0
    BY <1>3, <2>2 DEF EnterWithCookie, Restrict, SessionsTypeOK
  <2>3. CASE sessions[t] # 0
    BY <1>3, <2>1, <2>3 DEF EnterWithCookie, SessionsTypeOK
  <2>4. QED
    BY <2>2, <2>3
<1>4. ASSUME NEW v \in Visits, EnterWithKey(v)
      PROVE  SessionsTypeOK'
  <2>1. ApiKey(rotations) \in Credentials
    BY <1>1, <1>4 DEF EnterWithKey, SessionsTypeOK, Credentials
  <2>2. QED
    BY <1>4, <2>1 DEF EnterWithKey, SessionsTypeOK
<1>5. ASSUME NEW v \in Visits, Logout(v)
      PROVE  SessionsTypeOK'
  BY <1>5 DEF Logout, Restrict, SessionsTypeOK
<1>6. ASSUME NEW v \in Visits, RotateKey(v)
      PROVE  SessionsTypeOK'
  BY <1>1, <1>6 DEF RotateKey, SessionsTypeOK
<1>7. ASSUME NEW v \in Visits, Act(v)
      PROVE  SessionsTypeOK'
  BY <1>7 DEF Act, SessionsTypeOK
<1>8. CASE AdminTick
  <2>1. \A t \in DOMAIN sessions : Less(sessions[t]) \in 0..SessionTTL
    BY <1>1 DEF SessionsTypeOK, Less
  <2>2. QED
    BY <1>8, <2>1 DEF AdminTick, SessionsTypeOK
<1>9. CASE AdminRestart
  BY <1>9 DEF AdminRestart, NoTokens, SessionsTypeOK
<1>10. ASSUME NEW a \in Logins,
              \/ \E n \in Names : StartLogin(a, n)
              \/ LoginFails(a)
              \/ LoginWithoutToken(a)
       PROVE  SessionsTypeOK'
  BY <1>10 DEF StartLogin, LoginFails, LoginWithoutToken, SessionsTypeOK
<1>11. CASE UNCHANGED adminVars
  BY <1>11 DEF adminVars, SessionsTypeOK
<1>12. QED
  BY <1>2, <1>3, <1>4, <1>5, <1>6, <1>7, <1>8, <1>9, <1>10, <1>11 DEF AdminNext

-----------------------------------------------------------------------------
(* The theorems. *)

\* The first state satisfies the invariant.
LEMMA InitInv == AdminInit => AdminInv
<1> SUFFICES ASSUME AdminInit
             PROVE  AdminInv
  OBVIOUS
<1>1. LimiterInv
  BY EmptyLimiter DEF AdminInit, LimiterInv, BucketsBounded
<1>2. SessionsTypeOK
  BY AdminAssumption DEF AdminInit, NoTokens, SessionsTypeOK
<1>3. QED
  BY <1>1, <1>2 DEF AdminInv

\* Every step keeps it.
LEMMA StepKeepsInv ==
  ASSUME AdminInv, [AdminNext]_adminVars
  PROVE  AdminInv'
<1>0. LimiterInv /\ SessionsTypeOK
  BY DEF AdminInv
<1>1. ASSUME NEW a \in Logins, NEW n \in Names, StartLogin(a, n)
      PROVE  LimiterInv'
  BY <1>0, <1>1, StartKeepsLimiter
<1>2. ASSUME NEW a \in Logins, LoginFails(a) \/ LoginSucceeds(a) \/ LoginWithoutToken(a)
      PROVE  LimiterInv'
  BY <1>0, <1>2, FailureKeepsLimiter, SuccessKeepsLimiter, NoTokenKeepsLimiter
<1>3. ASSUME AdminTick
      PROVE  LimiterInv'
  BY <1>0, <1>3, TickKeepsLimiter
<1>4. ASSUME AdminRestart
      PROVE  LimiterInv'
  <2>1. /\ windows' = [n \in {} |-> NewBucket]
        /\ guesses' = [n \in Names |-> 0]
        /\ login' = [a \in Logins |-> Nobody]
    BY <1>4 DEF AdminRestart
  <2>2. /\ WindowsTypeOK(windows')
        /\ guesses' \in [Names -> Nat]
        /\ BucketsSound(windows', guesses', login')
        /\ Cardinality(DOMAIN windows') <= MaxWindows
    BY <2>1, EmptyLimiter
  <2>3. QED
    BY <2>1, <2>2 DEF LimiterInv, BucketsBounded
<1>5. ASSUME NEW v \in Visits,
             \/ \E t \in SessionTokens : EnterWithCookie(v, t)
             \/ EnterWithKey(v) \/ Logout(v) \/ RotateKey(v) \/ Act(v)
      PROVE  LimiterInv'
  <2>1. UNCHANGED <<windows, login, guesses>>
    BY <1>5 DEF EnterWithCookie, EnterWithKey, Logout, RotateKey, Act
  <2>2. QED
    BY <1>0, <2>1 DEF LimiterInv, BucketsBounded
<1>6. ASSUME UNCHANGED adminVars
      PROVE  LimiterInv'
  <2>1. UNCHANGED <<windows, login, guesses>>
    BY <1>6 DEF adminVars
  <2>2. QED
    BY <1>0, <2>1 DEF LimiterInv, BucketsBounded
<1>7. LimiterInv'
  BY <1>1, <1>2, <1>3, <1>4, <1>5, <1>6 DEF AdminNext
<1>8. QED
  BY <1>0, <1>7, SessionsStayTyped DEF AdminInv

\* The invariant holds of every reachable state.
LEMMA InvCorrect == AdminSpec => []AdminInv
BY InitInv, StepKeepsInv, PTL DEF AdminSpec

\* Every variable of the handler's maps and of its requests keeps its type.
THEOREM AdminTypeCorrect == AdminSpec => []AdminTypeOK
<1>1. AdminInv => AdminTypeOK
  BY DEF AdminInv, LimiterInv, SessionsTypeOK, WindowsTypeOK, AdminTypeOK
<1>2. QED
  BY <1>1, InvCorrect, PTL

\* However logins interleave between the limiter's test, their password check and
\* the record of their failure, the wrong guesses at a name since its bucket exists
\* stay below the limit plus the logins that can run at once, and the limiter keeps
\* to its number of buckets.
THEOREM LimiterCorrect == AdminSpec => []LimiterHolds
<1>1. AdminInv => LimiterHolds
  <2> SUFFICES ASSUME AdminInv, Limited, NEW n \in Names
               PROVE  guesses[n] <= MaxAttempts - 1 + Cardinality(Logins)
    BY DEF LimiterHolds, GuessesBounded, AdminInv, LimiterInv
  <2>1. BucketSound(n, windows, guesses[n], Pending(n, login))
    BY DEF AdminInv, LimiterInv, BucketsSound
  <2>2. /\ Cardinality(Pending(n, login)) \in Nat
        /\ Cardinality(Logins) \in Nat
        /\ guesses[n] \in Nat
    BY PendingFacts DEF AdminInv, LimiterInv
  <2>3. QED
    BY <2>1, <2>2, ConstantFacts DEF BucketSound, Limited
<1>2. QED
  BY <1>1, InvCorrect, PTL

\* A session that is in the map leaves it only when its time is over, when the process
\* ends, or by a logout that was admitted with its own cookie: no login, no rotation of
\* the key and no logout of another session or with the key touches it.
THEOREM OnlyOwnSessionCorrect == AdminSpec => OnlyOwnSession
<1>1. ASSUME [AdminNext]_adminVars, AdminInv,
             NEW t \in DOMAIN sessions, t \notin DOMAIN sessions'
      PROVE  \/ sessions[t] = 0 \/ AdminRestart
             \/ \E v \in Visits : visit[v] = Cookie(t) /\ visit'[v] = Nobody
  <2>1. ASSUME NEW v \in Visits, Logout(v)
        PROVE  visit[v] = Cookie(t) /\ visit'[v] = Nobody
    BY <1>1, <2>1 DEF Logout, EndedBy, Restrict, AdminInv, SessionsTypeOK
  <2>2. ASSUME NEW v \in Visits, NEW s \in SessionTokens, EnterWithCookie(v, s)
        PROVE  sessions[t] = 0
    BY <1>1, <2>2 DEF EnterWithCookie, Restrict
  <2>3. ASSUME NEW a \in Logins, LoginSucceeds(a)
        PROVE  FALSE
    BY <1>1, <2>3 DEF LoginSucceeds, With
  <2>4. CASE AdminTick
    BY <1>1, <2>4 DEF AdminTick
  <2>5. CASE UNCHANGED sessions
    BY <1>1, <2>5
  <2>6. QED
    BY <1>1, <2>1, <2>2, <2>3, <2>4, <2>5
    DEF AdminNext, adminVars, StartLogin, LoginFails, LoginWithoutToken, EnterWithKey,
        RotateKey, Act
<1>2. AdminInv /\ [AdminNext]_adminVars =>
        [\A t \in DOMAIN sessions :
           t \notin DOMAIN sessions' =>
             \/ sessions[t] = 0 \/ AdminRestart
             \/ \E v \in Visits : visit[v] = Cookie(t) /\ visit'[v] = Nobody]_adminVars
  BY <1>1
<1>3. QED
  BY <1>2, InvCorrect, PTL DEF AdminSpec, OnlyOwnSession

-----------------------------------------------------------------------------
(***************************************************************************)
(* Mcp.  BatchAnswered speaks of a response that was sent; McpInv says what *)
(* the buffer, the errors and the calls are at every message on the way.   *)
(***************************************************************************)

McpStages ==
  {"idle", "reading", "admitting", "dispatching", "calling", "encoding", "ending",
   "sent"}
AtMessage == {"dispatching", "calling", "encoding"}
AtReplies == AtMessage \cup {"ending"}

McpTypeOK ==
  /\ stage \in McpStages
  /\ body \in Bodies \cup {Nothing} /\ (stage # "idle" => body \in Bodies)
  /\ canceled \in BOOLEAN /\ admitted \in BOOLEAN
  /\ next \in Nat
  /\ reply \in [error : BOOLEAN, size : Nat]
  /\ buffer \in Seq(Nat) /\ bytes \in Nat
  /\ errors \in Nat /\ status \in Nat /\ calls \in Nat /\ failed \in Nat

\* Before any message was run there is nothing to be undone.
Untouched ==
  stage \in {"idle", "reading", "admitting"} =>
    /\ next = 1 /\ buffer = <<>> /\ bytes = 0
    /\ errors = 0 /\ failed = 0 /\ calls = 0

\* What is run was let in as a whole.
Accepted ==
  stage \in AtReplies \cup {"admitting"} =>
    /\ Len(body.messages) \in 1..MaxBatch
    /\ body.batch => ToolCalls(body.messages) <= 1

\* It is run message by message.
LetIn ==
  stage \in AtReplies =>
    /\ admitted = RequiresAuth(body.messages)
    /\ IF stage \in AtMessage THEN next \in 1..Len(body.messages)
       ELSE next = Len(body.messages) + 1
    /\ stage = "calling" => message.id
    /\ stage = "encoding" => canceled \/ message.id

\* The messages before the present one that wait for an answer have it in the
\* buffer, and there is room for the end.
AnsweredSoFar ==
  stage \in AtReplies =>
    /\ ToSet(buffer) = {n \in 1..(next - 1) : body.messages[n].id}
    /\ InOrder(buffer)
    /\ buffer # <<>> =>
         bytes <= Limit(body.messages) - (IF body.batch THEN 2 ELSE 1)

\* A tool was called for a message that is over or at work.
CalledSoFar ==
  stage \in AtReplies =>
    /\ calls \in {0, 1}
    /\ calls = 1 =>
         \E n \in DOMAIN body.messages :
           /\ body.messages[n].method = "tools/call"
           /\ n < next \/ (n = next /\ stage \in {"calling", "encoding"})

\* Every error is counted, up to the longest batch.
ErrorsOf(n) == IF n < MaxBatch THEN n ELSE MaxBatch
ErrorsCounted == stage # "sent" => errors = ErrorsOf(failed)

McpInv ==
  /\ McpTypeOK /\ Untouched /\ Accepted /\ LetIn /\ AnsweredSoFar
  /\ CalledSoFar /\ ErrorsCounted /\ BatchAnswered

-----------------------------------------------------------------------------

\* What a body may be.
LEMMA BodyFacts ==
  ASSUME NEW b \in Bodies
  PROVE  /\ b.messages \in Seq(Messages) /\ b.batch \in BOOLEAN
         /\ ~b.batch => Len(b.messages) = 1
         /\ Limit(b.messages) \in Nat
         /\ MaxDiscovery \in Nat /\ 2 <= MaxDiscovery
         /\ MaxDiscovery <= Limit(b.messages)
         /\ MaxBatch \in Nat \ {0}
BY McpAssumption DEF Limit

\* The messages of a body with a call of a tool need a token.
LEMMA ToolsNeedToken ==
  ASSUME NEW messages, NEW n \in DOMAIN messages, messages[n].method = "tools/call"
  PROVE  RequiresAuth(messages)
BY DEF RequiresAuth

\* The calls of tools in a body are finitely many.
LEMMA ToolCallsType ==
  ASSUME NEW messages \in Seq(Messages)
  PROVE  /\ IsFiniteSet({i \in DOMAIN messages : messages[i].method = "tools/call"})
         /\ ToolCalls(messages) \in Nat
<1> DEFINE all == {i \in DOMAIN messages : messages[i].method = "tools/call"}
<1>1. all \subseteq 1..Len(messages)
  OBVIOUS
<1>2. IsFiniteSet(1..Len(messages))
  BY FS_Interval
<1>3. IsFiniteSet(all)
  BY <1>1, <1>2, FS_Subset
<1>4. ToolCalls(messages) = Cardinality(all)
  BY DEF ToolCalls
<1> HIDE DEF all
<1>5. ToolCalls(messages) \in Nat
  BY <1>3, <1>4, FS_CardinalityType
<1>6. QED
  BY <1>3, <1>5 DEF all

\* Two calls of tools are more than a batch may have.
LEMMA TwoToolCalls ==
  ASSUME NEW messages \in Seq(Messages), NEW m \in DOMAIN messages,
         NEW n \in DOMAIN messages, m # n,
         messages[m].method = "tools/call", messages[n].method = "tools/call"
  PROVE  ~(ToolCalls(messages) <= 1)
<1> DEFINE all == {i \in DOMAIN messages : messages[i].method = "tools/call"}
<1>1. IsFiniteSet(all)
  BY ToolCallsType
<1>2. Cardinality({m} \cup {n}) = 2
  <2>1. Cardinality({m}) = 1 /\ IsFiniteSet({m}) /\ n \notin {m}
    BY FS_Singleton
  <2>2. Cardinality({m} \cup {n}) = Cardinality({m}) + 1
    BY <2>1, FS_AddElement
  <2>3. QED
    BY <2>1, <2>2
<1>3. Cardinality({m} \cup {n}) <= Cardinality(all) /\ Cardinality(all) \in Nat
  <2>1. {m} \cup {n} \subseteq all
    OBVIOUS
  <2> HIDE DEF all
  <2>2. QED
    BY <1>1, <2>1, FS_Subset, FS_CardinalityType
<1>4. ToolCalls(messages) = Cardinality(all)
  BY DEF ToolCalls
<1> HIDE DEF all
<1>5. QED
  BY <1>2, <1>3, <1>4

\* One error more.
LEMMA OneErrorMore ==
  ASSUME NEW n \in Nat, NEW m \in Nat, m = ErrorsOf(n)
  PROVE  OneMore(m) = ErrorsOf(n + 1) /\ OneMore(m) \in Nat
BY McpAssumption DEF ErrorsOf, OneMore

\* While a body is worked on, one tool at most was called, for a token.
LEMMA CalledOnce ==
  ASSUME McpInv, stage \notin {"idle", "sent"}
  PROVE  calls \in {0, 1} /\ (calls = 1 => admitted)
<1>1. CASE stage \in {"reading", "admitting"}
  BY <1>1 DEF McpInv, Untouched
<1>2. CASE stage \in AtReplies
  BY <1>2, ToolsNeedToken DEF McpInv, LetIn, CalledSoFar
<1>3. QED
  BY <1>1, <1>2 DEF McpInv, McpTypeOK, McpStages, AtReplies, AtMessage

\* An error in place of all replies.
LEMMA ErrorStep ==
  ASSUME McpInv, stage \notin {"idle", "sent"},
         NEW code \in Nat \ {200, 202}, NEW size \in Nat,
         size + 1 <= Limit(body.messages), SendErrorOf(code, size)
  PROVE  McpInv'
<1> USE DEF SendErrorOf, progress
<1>1. McpTypeOK'
  <2>1. errors' \in Nat
    BY OneErrorMore DEF McpInv, McpTypeOK, ErrorsCounted
  <2>2. <<>> \in Seq(Nat)
    OBVIOUS
  <2>3. QED
    BY <2>1, <2>2 DEF McpInv, McpTypeOK, McpStages
<1>2. Untouched' /\ Accepted' /\ LetIn' /\ AnsweredSoFar' /\ CalledSoFar' /\ ErrorsCounted'
  BY DEF Untouched, Accepted, LetIn, AnsweredSoFar, CalledSoFar, ErrorsCounted, AtReplies,
         AtMessage
<1>3. BatchAnswered'
  <2>1. ToSet(buffer') = {} /\ InOrder(buffer')
    BY DEF ToSet, InOrder
  <2>2. bytes' <= Limit(body'.messages)
    OBVIOUS
  <2>3. calls' <= 1 /\ (calls' = 1 => admitted')
    BY CalledOnce
  <2>4. errors' = ErrorsOf(failed' + 1)
    BY OneErrorMore DEF McpInv, McpTypeOK, ErrorsCounted
  <2>5. status' # 200 /\ status' # 202
    OBVIOUS
  <2> HIDE DEF SendErrorOf
  <2>6. QED
    BY <2>1, <2>2, <2>3, <2>4, <2>5 DEF BatchAnswered, ErrorsOf
<1>4. QED
  BY <1>1, <1>2, <1>3 DEF McpInv

\* A request that is refused as a whole is answered with one error.
LEMMA SendErrorStep ==
  ASSUME McpInv, stage \notin {"idle", "sent"},
         NEW code \in Nat \ {200, 202}, SendError(code)
  PROVE  McpInv'
<1>1. 1 + 1 <= Limit(body.messages)
  BY BodyFacts DEF McpInv, McpTypeOK
<1>2. QED
  BY <1>1, ErrorStep DEF SendError

\* A batch that is refused is answered with the error of its first message.
LEMMA SendFirstErrorStep ==
  ASSUME McpInv, stage \notin {"idle", "sent"}, body.messages # <<>>,
         NEW code \in Nat \ {200, 202}, SendFirstError(code)
  PROVE  McpInv'
<1> DEFINE m == body.messages[1]
           size == IF m.id THEN m.size ELSE 1
<1>1. body \in Bodies
  BY DEF McpInv, McpTypeOK
<1>2. size \in Nat
  <2>1. body.messages \in Seq(Messages)
    BY <1>1, BodyFacts
  <2>2. 1 \in DOMAIN body.messages
    BY <2>1
  <2>3. m \in Messages
    BY <2>1, <2>2
  <2>4. QED
    BY <2>3 DEF Messages
<1>3. CASE size > MaxDiscovery - 1
  BY <1>3, SendErrorStep DEF SendFirstError
<1>4. CASE ~(size > MaxDiscovery - 1)
  <2>1. size + 1 <= Limit(body.messages)
    <3> HIDE DEF size
    <3>1. QED
      BY <1>1, <1>2, <1>4, BodyFacts
  <2>2. SendErrorOf(code, size)
    BY <1>4 DEF SendFirstError
  <2> HIDE DEF size
  <2>3. QED
    BY <1>2, <2>1, <2>2, ErrorStep
<1>5. QED
  BY <1>3, <1>4

-----------------------------------------------------------------------------
(* One lemma per action. *)

\* At the start no request is being handled.
LEMMA McpInitInv == McpInit => McpInv
<1> SUFFICES ASSUME McpInit PROVE McpInv
  OBVIOUS
<1> USE DEF McpInit
<1>1. McpTypeOK
  <2>1. <<>> \in Seq(Nat)
    OBVIOUS
  <2>2. QED
    BY <2>1 DEF McpTypeOK, McpStages, NoReply
<1>2. ErrorsCounted
  BY McpAssumption DEF ErrorsCounted, ErrorsOf
<1>3. QED
  BY <1>1, <1>2 DEF McpInv, Untouched, Accepted, LetIn, AnsweredSoFar, CalledSoFar,
                    BatchAnswered, AtReplies, AtMessage

\* A request comes in; nothing of it has been answered.
LEMMA ReceiveStep ==
  ASSUME McpInv, NEW b \in Bodies, Receive(b)
  PROVE  McpInv'
<1> USE DEF Receive, sent
<1>1. McpTypeOK'
  BY DEF McpInv, McpTypeOK, McpStages
<1>2. Untouched' /\ ErrorsCounted'
  BY DEF McpInv, Untouched, ErrorsCounted
<1>3. QED
  BY <1>1, <1>2 DEF McpInv, Accepted, LetIn, AnsweredSoFar, CalledSoFar, BatchAnswered,
                    AtReplies, AtMessage

\* The client goes away, or the connection is closed.
LEMMA CancelStep ==
  ASSUME McpInv, Cancel
  PROVE  McpInv'
<1> USE DEF Cancel, sent
<1>1. McpTypeOK'
  BY DEF McpInv, McpTypeOK
<1>2. Untouched' /\ ErrorsCounted'
  BY DEF McpInv, Untouched, ErrorsCounted
<1>3. Accepted' /\ LetIn'
  BY DEF McpInv, Accepted, LetIn, message
<1>4. AnsweredSoFar' /\ CalledSoFar'
  BY DEF McpInv, AnsweredSoFar, CalledSoFar
<1>5. BatchAnswered'
  BY DEF BatchAnswered
<1>6. QED
  BY <1>1, <1>2, <1>3, <1>4, <1>5 DEF McpInv

\* The body is read: parsed into its messages, or refused as a whole.
LEMMA ReadBodyStep ==
  ASSUME McpInv, ReadBody
  PROVE  McpInv'
<1>1. stage = "reading" /\ body \in Bodies
  BY DEF ReadBody, McpInv, McpTypeOK
<1>2. CASE Canceled
  BY <1>1, <1>2, SendErrorStep DEF Canceled
<1>3. CASE SendError(400)
  BY <1>1, <1>3, SendErrorStep
<1>4. CASE Len(body.messages) \in 1..MaxBatch /\ SendFirstError(400)
  <2>1. body.messages # <<>>
    BY <1>1, <1>4, BodyFacts
  <2>2. QED
    BY <1>1, <1>4, <2>1, SendFirstErrorStep
<1>5. CASE /\ stage' = "admitting" /\ Len(body.messages) \in 1..MaxBatch
           /\ ~(body.batch /\ ToolCalls(body.messages) > 1)
           /\ UNCHANGED <<progress, next, reply, buffer, sent, errors, calls, failed>>
  <2> USE <1>1, <1>5 DEF progress, sent
  <2>1. McpTypeOK'
    BY DEF McpInv, McpTypeOK, McpStages
  <2>2. Untouched' /\ ErrorsCounted'
    BY DEF McpInv, Untouched, ErrorsCounted
  <2>3. body' = body /\ stage' \notin AtReplies /\ stage' # "sent"
    BY DEF AtReplies, AtMessage
  <2>4. Accepted'
    <3>1. ToolCalls(body.messages) \in Nat
      BY <1>1, BodyFacts, ToolCallsType
    <3>2. body.batch => ToolCalls(body.messages) <= 1
      BY <1>5, <3>1
    <3>3. QED
      BY <1>5, <2>3, <3>2 DEF Accepted
  <2>5. LetIn' /\ AnsweredSoFar' /\ CalledSoFar' /\ BatchAnswered'
    BY <2>3 DEF LetIn, AnsweredSoFar, CalledSoFar, BatchAnswered
  <2>6. QED
    BY <2>1, <2>2, <2>4, <2>5 DEF McpInv
<1>6. QED
  BY <1>1, <1>2, <1>3, <1>4, <1>5 DEF ReadBody

\* The token is checked if a message needs one; an error answers the whole body.
LEMMA AdmitStep ==
  ASSUME McpInv, Admit
  PROVE  McpInv'
<1>1. stage = "admitting" /\ body \in Bodies /\ body.messages \in Seq(Messages)
  BY BodyFacts DEF Admit, McpInv, McpTypeOK
<1>2. ASSUME NEW code \in {401, 429, 500}, SendFirstError(code)
      PROVE  McpInv'
  <2>1. body.messages # <<>>
    BY <1>1 DEF McpInv, Accepted
  <2>2. QED
    BY <1>1, <1>2, <2>1, SendFirstErrorStep
<1>3. ASSUME stage' = "dispatching", admitted' = RequiresAuth(body.messages),
             UNCHANGED <<body, canceled, next, reply, buffer, sent, errors, calls, failed>>
      PROVE  McpInv'
  <2> USE <1>1, <1>3 DEF sent
  <2>1. McpTypeOK'
    <3>1. admitted' \in BOOLEAN
      BY DEF RequiresAuth
    <3>2. QED
      BY <3>1 DEF McpInv, McpTypeOK, McpStages
  <2>2. next = 1 /\ buffer = <<>> /\ bytes = 0 /\ calls = 0
    BY DEF McpInv, Untouched
  <2>3. Untouched' /\ ErrorsCounted' /\ Accepted' /\ LetIn'
    BY <2>2 DEF McpInv, Untouched, ErrorsCounted, Accepted, LetIn, AtReplies, AtMessage
  <2>4. AnsweredSoFar' /\ CalledSoFar'
    BY <2>2 DEF AnsweredSoFar, CalledSoFar, ToSet, InOrder
  <2>5. QED
    BY <2>1, <2>3, <2>4 DEF McpInv, BatchAnswered
<1>4. QED
  BY <1>2, <1>3 DEF Admit

\* What the handler works on while it is at a message.
LEMMA AtAMessage ==
  ASSUME McpInv, stage \in AtMessage
  PROVE  /\ body \in Bodies /\ body.messages \in Seq(Messages)
         /\ next \in DOMAIN body.messages /\ next \in 1..Len(body.messages)
         /\ next \in Nat /\ Len(body.messages) \in Nat
         /\ message \in Messages /\ message.size \in Nat
<1>1. body \in Bodies /\ next \in 1..Len(body.messages)
  BY DEF McpInv, McpTypeOK, LetIn, AtReplies, AtMessage
<1>2. body.messages \in Seq(Messages)
  BY <1>1, BodyFacts
<1>3. next \in DOMAIN body.messages /\ message \in Messages
  BY <1>1, <1>2 DEF message
<1>4. QED
  BY <1>1, <1>2, <1>3 DEF Messages

\* A reply is at hand.
LEMMA RepliesStep ==
  ASSUME McpInv, stage \in {"dispatching", "calling"}, canceled \/ message.id,
         NEW error \in BOOLEAN, NEW size \in Nat, Replies(error, size),
         UNCHANGED calls
  PROVE  McpInv'
<1> USE DEF Replies, progress, sent
<1>1. stage \in AtMessage
  BY DEF AtMessage
<1>2. McpTypeOK' /\ ErrorsCounted'
  <2>1. errors = ErrorsOf(failed) /\ errors \in Nat /\ failed \in Nat
    BY DEF McpInv, ErrorsCounted, McpTypeOK
  <2>2. errors' = ErrorsOf(failed') /\ errors' \in Nat /\ failed' \in Nat
    BY <2>1, OneErrorMore
  <2>3. QED
    BY <2>2 DEF McpInv, McpTypeOK, McpStages, ErrorsCounted
<1>3. Untouched' /\ Accepted' /\ LetIn'
  BY <1>1 DEF McpInv, Untouched, Accepted, LetIn, AtReplies, AtMessage, message
<1>4. AnsweredSoFar' /\ CalledSoFar'
  BY <1>1 DEF McpInv, AnsweredSoFar, CalledSoFar, AtReplies, AtMessage
<1>5. QED
  BY <1>2, <1>3, <1>4 DEF McpInv, BatchAnswered

\* The handler goes on; the reply to a message with an ID is in the buffer.
LEMMA GoesOnStep ==
  ASSUME McpInv, stage \in {"dispatching", "encoding"}, GoesOn,
         UNCHANGED <<progress, errors, status, calls, failed>>,
         bytes' \in Nat,
         \/ ~message.id /\ UNCHANGED <<buffer, bytes>>
         \/ /\ message.id /\ buffer' = Append(buffer, next)
            /\ bytes' <= Limit(body.messages) - (IF body.batch THEN 2 ELSE 1),
         stage = "dispatching" \/ message.id
  PROVE  McpInv'
<1> USE DEF GoesOn, progress
<1>1. /\ body \in Bodies /\ body.messages \in Seq(Messages)
      /\ next \in DOMAIN body.messages /\ next \in 1..Len(body.messages)
      /\ next \in Nat /\ Len(body.messages) \in Nat
  BY AtAMessage DEF AtMessage
<1>2. buffer \in Seq(Nat)
  BY DEF McpInv, McpTypeOK
<1>3. /\ stage' \in {"ending", "dispatching"} /\ next' = next + 1
      /\ body' = body /\ canceled' = canceled /\ admitted' = admitted
  OBVIOUS
<1>4. McpTypeOK' /\ ErrorsCounted'
  <2>1. buffer' \in Seq(Nat)
    <3>1. Append(buffer, next) \in Seq(Nat)
      BY <1>1, <1>2
    <3>2. buffer' = buffer \/ buffer' = Append(buffer, next)
      OBVIOUS
    <3>3. QED
      BY <1>2, <3>1, <3>2
  <2>2. ErrorsCounted'
    BY DEF McpInv, ErrorsCounted
  <2>3. reply' \in [error : BOOLEAN, size : Nat]
    BY DEF NoReply
  <2>4. QED
    BY <1>1, <1>3, <2>1, <2>2, <2>3 DEF McpInv, McpTypeOK, McpStages
<1>5. Untouched' /\ Accepted' /\ LetIn'
  BY <1>1, <1>3 DEF McpInv, Untouched, Accepted, LetIn, AtReplies, AtMessage
<1>6. /\ ToSet(buffer) = {n \in 1..(next - 1) : body.messages[n].id}
      /\ InOrder(buffer)
  BY DEF McpInv, AnsweredSoFar, AtReplies, AtMessage
<1>7. AnsweredSoFar'
  <2>1. CASE ~message.id
    <3>1. {n \in 1..(next - 1) : body.messages[n].id}
            = {n \in 1..next : body.messages[n].id}
      BY <1>1, <2>1 DEF message
    <3>2. buffer' = buffer /\ bytes' = bytes
      BY <2>1
    <3>3. buffer # <<>> =>
            bytes <= Limit(body.messages) - (IF body.batch THEN 2 ELSE 1)
      BY DEF McpInv, AnsweredSoFar, AtReplies, AtMessage
    <3>4. QED
      BY <1>1, <1>3, <1>6, <3>1, <3>2, <3>3 DEF AnsweredSoFar
  <2>2. CASE message.id
    <3>1. /\ buffer' = Append(buffer, next)
          /\ bytes' <= Limit(body.messages) - (IF body.batch THEN 2 ELSE 1)
      BY <2>2
    <3>2. ToSet(buffer') = ToSet(buffer) \cup {next}
      <4>1. /\ DOMAIN buffer' = DOMAIN buffer \cup {Len(buffer) + 1}
            /\ \A i \in DOMAIN buffer : buffer'[i] = buffer[i]
            /\ buffer'[Len(buffer) + 1] = next
        BY <1>1, <1>2, <3>1
      <4>2. QED
        BY <4>1 DEF ToSet
    <3>3. {n \in 1..next : body.messages[n].id}
            = {n \in 1..(next - 1) : body.messages[n].id} \cup {next}
      BY <1>1, <2>2 DEF message
    <3>4. InOrder(buffer')
      <4> SUFFICES ASSUME NEW i \in DOMAIN buffer', NEW j \in DOMAIN buffer', i < j
                   PROVE  buffer'[i] < buffer'[j]
        BY DEF InOrder
      <4>1. \A k \in DOMAIN buffer : buffer[k] \in ToSet(buffer)
        BY DEF ToSet
      <4>2. \A k \in DOMAIN buffer : buffer[k] < next
        BY <1>1, <1>2, <1>6, <4>1
      <4>3. i \in DOMAIN buffer
        BY <1>1, <1>2, <3>1
      <4>4. CASE j \in DOMAIN buffer
        BY <1>1, <1>2, <1>6, <3>1, <4>3, <4>4 DEF InOrder
      <4>5. CASE j \notin DOMAIN buffer
        <5>1. buffer'[j] = next /\ buffer'[i] = buffer[i]
          BY <1>1, <1>2, <3>1, <4>3, <4>5
        <5>2. QED
          BY <4>2, <4>3, <5>1
      <4>6. QED
        BY <4>4, <4>5
    <3>5. QED
      BY <1>1, <1>3, <1>6, <3>1, <3>2, <3>3, <3>4 DEF AnsweredSoFar
  <2>3. QED
    BY <2>1, <2>2
<1>8. CalledSoFar'
  BY <1>1, <1>3 DEF McpInv, CalledSoFar, AtReplies, AtMessage
<1>9. QED
  BY <1>3, <1>4, <1>5, <1>7, <1>8 DEF McpInv, BatchAnswered

\* A message is answered, passed over as a notification, or handed to its tool.
LEMMA DispatchStep ==
  ASSUME McpInv, Dispatch
  PROVE  McpInv'
<1>1. stage = "dispatching" /\ stage \in AtMessage
  BY DEF Dispatch, AtMessage
<1>2. /\ body \in Bodies /\ body.messages \in Seq(Messages)
      /\ next \in DOMAIN body.messages /\ next \in 1..Len(body.messages)
      /\ message.size \in Nat
  BY <1>1, AtAMessage
<1>3. CASE Canceled
  BY <1>1, <1>3, SendErrorStep DEF Canceled
<1>4. CASE canceled /\ Replies(TRUE, message.size) /\ UNCHANGED calls
  BY <1>1, <1>2, <1>4, RepliesStep
<1>5. CASE /\ ~canceled /\ Silent(message) /\ GoesOn
           /\ UNCHANGED <<progress, buffer, sent, errors, calls, failed>>
  <2>1. ~message.id
    BY <1>5 DEF Silent
  <2>2. UNCHANGED <<progress, errors, status, calls, failed>> /\ UNCHANGED <<buffer, bytes>>
    BY <1>5 DEF sent
  <2>3. bytes' \in Nat
    BY <2>2 DEF McpInv, McpTypeOK
  <2>4. QED
    BY <1>1, <1>5, <2>1, <2>2, <2>3, GoesOnStep
<1>6. CASE ~canceled /\ ~Silent(message)
           /\ message.method = "tools/call" /\ stage' = "calling" /\ calls' = calls + 1
           /\ UNCHANGED <<progress, next, reply, buffer, sent, errors, failed>>
  <2> USE DEF progress, sent
  <2>1. calls = 0
    <3> SUFFICES ASSUME calls # 0 PROVE FALSE
      OBVIOUS
    <3>1. PICK n \in DOMAIN body.messages :
            body.messages[n].method = "tools/call" /\ n < next
      BY <1>1 DEF McpInv, CalledSoFar, AtReplies
    <3>2. body.messages[next].method = "tools/call" /\ n # next
      BY <1>2, <1>6, <3>1 DEF message
    <3>3. ~(ToolCalls(body.messages) <= 1)
      BY <1>2, <3>1, <3>2, TwoToolCalls
    <3>4. ~body.batch
      BY <1>1, <3>3, <1>2, BodyFacts DEF McpInv, Accepted, AtReplies
    <3>5. Len(body.messages) = 1
      BY <1>2, <3>4, BodyFacts
    <3>6. QED
      BY <1>2, <3>1, <3>5
  <2>2. McpTypeOK' /\ ErrorsCounted'
    BY <1>1, <1>6, <2>1 DEF McpInv, McpTypeOK, McpStages, ErrorsCounted
  <2>3. Untouched' /\ Accepted' /\ LetIn'
    BY <1>1, <1>6 DEF McpInv, Untouched, Accepted, LetIn, AtReplies, AtMessage, message,
                      Silent
  <2>4. AnsweredSoFar'
    BY <1>1, <1>6 DEF McpInv, AnsweredSoFar, AtReplies, AtMessage
  <2>5. CalledSoFar'
    BY <1>2, <1>6, <2>1 DEF CalledSoFar, message
  <2>6. QED
    BY <1>6, <2>2, <2>3, <2>4, <2>5 DEF McpInv, BatchAnswered
<1>7. ASSUME ~Silent(message), NEW error \in BOOLEAN, Replies(error, message.size),
             UNCHANGED calls
      PROVE  McpInv'
  BY <1>1, <1>2, <1>7, RepliesStep DEF Silent
<1>8. QED
  BY <1>3, <1>4, <1>5, <1>6, <1>7 DEF Dispatch

\* The tool of a message returns.
LEMMA ToolReturnsStep ==
  ASSUME McpInv, ToolReturns
  PROVE  McpInv'
<1>1. stage = "calling" /\ stage \in AtMessage /\ UNCHANGED calls
  BY DEF ToolReturns, AtMessage
<1>2. message.id
  BY <1>1 DEF McpInv, LetIn, AtReplies
<1>3. message.size \in Nat
  BY <1>1, AtAMessage
<1>4. ASSUME NEW size \in ToolSizes, Replies(FALSE, size)
      PROVE  McpInv'
  <2>1. size \in Nat
    BY McpAssumption
  <2>2. QED
    BY <1>1, <1>2, <1>4, <2>1, RepliesStep
<1>5. CASE Replies(TRUE, message.size)
  BY <1>1, <1>2, <1>3, <1>5, RepliesStep
<1>6. QED
  BY <1>4, <1>5 DEF ToolReturns

\* The answer of a message joins the others, if there is room for it.
LEMMA EncodeStep ==
  ASSUME McpInv, Encode
  PROVE  McpInv'
<1>1. stage = "encoding" /\ stage \in AtMessage
  BY DEF Encode, AtMessage
<1>2. CASE Canceled
  BY <1>1, <1>2, SendErrorStep DEF Canceled
<1>3. CASE SendError(413)
  BY <1>1, <1>3, SendErrorStep
<1>4. CASE /\ ~canceled /\ reply.size <= Room(Opening)
           /\ buffer' = Append(buffer, next)
           /\ bytes' = Opening + reply.size
           /\ GoesOn
           /\ UNCHANGED <<progress, errors, status, calls, failed>>
  <2>1. message.id
    BY <1>1, <1>4 DEF McpInv, LetIn, AtReplies
  <2>2. /\ body \in Bodies /\ reply.size \in Nat /\ bytes \in Nat
        /\ Limit(body.messages) \in Nat /\ Opening \in Nat
    <3>1. body \in Bodies /\ reply.size \in Nat /\ bytes \in Nat
      BY <1>1 DEF McpInv, McpTypeOK
    <3>2. QED
      BY <3>1, BodyFacts DEF Opening
  <2>3. bytes' <= Limit(body.messages) - (IF body.batch THEN 2 ELSE 1)
    <3>1. CASE body.batch
      BY <1>4, <2>2, <3>1 DEF Room
    <3>2. CASE ~body.batch
      BY <1>4, <2>2, <3>2 DEF Room, Opening
    <3>3. QED
      BY <3>1, <3>2
  <2>4. bytes' \in Nat
    BY <1>4, <2>2
  <2>5. QED
    BY <1>1, <1>4, <2>1, <2>3, <2>4, GoesOnStep
<1>5. QED
  BY <1>2, <1>3, <1>4 DEF Encode

\* What has been gathered is sent.
LEMMA SendStep ==
  ASSUME McpInv, Send
  PROVE  McpInv'
<1>1. stage = "ending" /\ stage \in AtReplies /\ body \in Bodies
  BY DEF Send, AtReplies, McpInv, McpTypeOK
<1>2. CASE Canceled
  BY <1>1, <1>2, SendErrorStep DEF Canceled
<1>3. CASE /\ stage' = "sent"
           /\ status' = (IF buffer = <<>> THEN 202 ELSE 200)
           /\ bytes' = (IF buffer = <<>> THEN 0
                        ELSE IF body.batch THEN bytes + 2 ELSE bytes + 1)
           /\ UNCHANGED <<progress, next, reply, buffer, errors, calls, failed>>
  <2> USE <1>1, <1>3 DEF progress
  <2>1. /\ body.messages \in Seq(Messages) /\ Limit(body.messages) \in Nat
        /\ bytes \in Nat /\ buffer \in Seq(Nat)
    BY BodyFacts DEF McpInv, McpTypeOK
  <2>2. next = Len(body.messages) + 1
    BY DEF McpInv, LetIn, AtMessage
  <2>3. ToSet(buffer) = Awaited /\ InOrder(buffer)
    <3>1. DOMAIN body.messages = 1..(next - 1)
      BY <2>1, <2>2
    <3>2. QED
      BY <3>1 DEF McpInv, AnsweredSoFar, Awaited
  <2>4. bytes' <= Limit(body.messages) /\ bytes' \in Nat
    BY <2>1 DEF McpInv, AnsweredSoFar
  <2>5. calls <= 1 /\ (calls = 1 => admitted)
    BY CalledOnce
  <2>6. errors = ErrorsOf(failed)
    BY DEF McpInv, ErrorsCounted
  <2>7. McpTypeOK'
    BY <2>4 DEF McpInv, McpTypeOK, McpStages
  <2>8. ToSet(<<>>) = {}
    BY DEF ToSet
  <2>9. Awaited' = Awaited
    BY DEF Awaited
  <2>10. BatchAnswered'
    <3>1. CASE buffer = <<>>
      <4>1. status' = 202 /\ buffer' = <<>> /\ Awaited' = {} /\ InOrder(buffer')
        BY <2>3, <2>8, <2>9, <3>1
      <4>2. failed' \in Nat /\ failed' = failed /\ errors' = ErrorsOf(failed')
        BY <2>6 DEF McpInv, McpTypeOK
      <4>3. QED
        BY <2>4, <2>5, <2>8, <4>1, <4>2 DEF BatchAnswered, ErrorsOf
    <3>2. CASE buffer # <<>>
      <4>1. /\ status' = 200 /\ ToSet(buffer') = Awaited' /\ buffer' # <<>>
            /\ InOrder(buffer')
        BY <2>3, <2>9, <3>2
      <4>2. failed' \in Nat /\ failed' = failed /\ errors' = ErrorsOf(failed')
        BY <2>6 DEF McpInv, McpTypeOK
      <4>3. QED
        BY <2>4, <2>5, <4>1, <4>2 DEF BatchAnswered, ErrorsOf
    <3>3. QED
      BY <3>1, <3>2
  <2>11. Untouched' /\ Accepted' /\ LetIn' /\ AnsweredSoFar' /\ CalledSoFar'
         /\ ErrorsCounted'
    BY DEF Untouched, Accepted, LetIn, AnsweredSoFar, CalledSoFar, ErrorsCounted,
           AtReplies, AtMessage
  <2>12. QED
    BY <2>7, <2>10, <2>11 DEF McpInv
<1>4. QED
  BY <1>2, <1>3 DEF Send

\* After a response the handler is as at the beginning.
LEMMA McpDoneStep ==
  ASSUME McpInv, McpDone
  PROVE  McpInv'
<1> USE DEF McpDone
<1>1. McpTypeOK'
  <2>1. <<>> \in Seq(Nat)
    OBVIOUS
  <2>2. QED
    BY <2>1 DEF McpTypeOK, McpStages, NoReply
<1>2. ErrorsCounted'
  BY McpAssumption DEF ErrorsCounted, ErrorsOf
<1>3. QED
  BY <1>1, <1>2 DEF McpInv, Untouched, Accepted, LetIn, AnsweredSoFar, CalledSoFar,
                    BatchAnswered, AtReplies, AtMessage

\* Every step of a request keeps the invariant.
LEMMA McpStepInv == McpInv /\ [McpNext]_mcpVars => McpInv'
<1> SUFFICES ASSUME McpInv, [McpNext]_mcpVars PROVE McpInv'
  OBVIOUS
<1>1. ASSUME UNCHANGED mcpVars PROVE McpInv'
  BY <1>1 DEF mcpVars, McpInv, McpTypeOK, Untouched, Accepted, LetIn, AnsweredSoFar,
              CalledSoFar, ErrorsCounted, BatchAnswered, Awaited, message
<1>2. QED
  BY <1>1, ReceiveStep, CancelStep, ReadBodyStep, AdmitStep, DispatchStep,
     ToolReturnsStep, EncodeStep, SendStep, McpDoneStep DEF McpNext

\* The invariant of a request holds in every state.
LEMMA McpInvCorrect == McpSpec => []McpInv
BY McpInitInv, McpStepInv, PTL DEF McpSpec

\* Every variable of the handler has its type.
THEOREM McpTypeCorrect == McpSpec => []McpTypeOK
<1>1. McpInv => McpTypeOK
  BY DEF McpInv
<1>2. QED
  BY <1>1, McpInvCorrect, PTL

\* Whatever comes in and whenever the client goes away, the answer is all or
\* nothing and within the limit, at most one tool was called, for a token, and
\* every error is counted.
THEOREM BatchCorrect == McpSpec => []BatchAnswered
<1>1. McpInv => BatchAnswered
  BY DEF McpInv
<1>2. QED
  BY <1>1, McpInvCorrect, PTL

-----------------------------------------------------------------------------
(***************************************************************************)
(* Retention.  OldRowsGo is inductive only together with what a table owes *)
(* to the statement that cleaned it in this hour, and that statement takes *)
(* its retention from a setting read in the same round.                    *)
(***************************************************************************)

RetentionTypeOK ==
  /\ age \in [LogRows -> Nat \cup {Absent}]
  /\ setting \in Settings
  /\ step \in (0..Len(Tables)) \cup {Waiting}
  /\ missed \in [Range(Tables) -> Nat]

\* The statements of a round work with a retention it has read.
RoundHasRead ==
  step \in DOMAIN Tables => days \in {RetentionOf(value) : value \in Settings}

\* In the hour in which its table was cleaned, no row is older than it may be.
CleanedIsClean ==
  \A r \in LogRows : Table[r] \in cleaned => age[r] <= Longest(Table[r])

RetentionInv == RetentionTypeOK /\ RoundHasRead /\ CleanedIsClean /\ OldRowsGo

-----------------------------------------------------------------------------
(* Facts about the tables and their retentions. *)

\* The cleaner goes through four tables.
LEMMA TablesAreFour ==
  /\ Len(Tables) = 4 /\ DOMAIN Tables = 1..4
  /\ \A n \in 1..4 : Tables[n] \in Range(Tables)
  /\ Waiting \notin 0..4
<1>1. Len(Tables) = 4 /\ DOMAIN Tables = 1..4
  BY DEF Tables, Logs
<1>2. \A n \in 1..4 : Tables[n] \in Range(Tables)
  BY <1>1 DEF Range
<1>3. QED
  BY <1>1, <1>2 DEF Waiting

\* Of finitely many numbers one is the greatest.
LEMMA GreatestExists ==
  ASSUME NEW S \in SUBSET Int, IsFiniteSet(S), S # {}
  PROVE  \E m \in S : \A n \in S : n <= m
<1> DEFINE Without == {X \in FiniteSubsetsOf(S) :
                         X # {} /\ ~\E m \in X : \A n \in X : n <= m}
<1>1. SUFFICES ASSUME S \in Without PROVE FALSE
  BY DEF FiniteSubsetsOf
<1>2. IsWellFoundedOn(StrictSubsetOrdering(S), FiniteSubsetsOf(S))
  BY FS_StrictSubsetOrderingWellFounded
<1>3. PICK X \in Without : \A Y \in Without : <<Y, X>> \notin StrictSubsetOrdering(S)
  <2>1. Without \subseteq FiniteSubsetsOf(S) /\ Without # {}
    BY <1>1
  <2> HIDE DEF Without
  <2>2. QED
    BY <1>2, <2>1, WFMin
<1>4. X \subseteq S /\ IsFiniteSet(X)
  BY DEF FiniteSubsetsOf
<1>5. PICK x \in X : TRUE
  OBVIOUS
<1> DEFINE Y == X \ {x}
<1>6. Y \in FiniteSubsetsOf(S) /\ <<Y, X>> \in StrictSubsetOrdering(S)
  <2>1. IsFiniteSet(Y)
    BY <1>4, FS_Subset
  <2>2. QED
    BY <2>1, <1>4, <1>5 DEF FiniteSubsetsOf, StrictSubsetOrdering
<1>7. CASE Y = {}
  <2>1. \A n \in X : n <= x
    BY <1>4, <1>5, <1>7
  <2>2. QED
    BY <2>1
<1>8. CASE Y # {}
  <2>1. PICK m \in Y : \A n \in Y : n <= m
    BY <1>3, <1>6, <1>8
  <2>2. x \in Int /\ m \in Int /\ m \in X
    BY <1>4, <1>5
  <2>3. CASE x <= m
    BY <2>1, <2>2, <2>3
  <2>4. CASE m < x
    <3>1. \A n \in X : n <= x
      BY <2>1, <2>2, <2>4, <1>4
    <3>2. QED
      BY <3>1
  <2>5. QED
    BY <2>2, <2>3, <2>4
<1>9. QED
  BY <1>7, <1>8

Retentions == {RetentionOf(value) : value \in Settings}

\* Whatever the settings hold, a round deletes by a retention of at least an hour.
LEMMA RetentionPositive ==
  ASSUME NEW value \in Settings
  PROVE  RetentionOf(value) \in Nat \ {0}
  BY RetentionAssumption DEF RetentionOf

\* Among the retentions a round may read there is a longest one.
LEMMA LongestRetention ==
  \E m \in Retentions : \A n \in Retentions : m >= n
<1>1. Settings \subseteq Int /\ IsFiniteSet(Settings) /\ Settings # {} /\ Default \in Nat
  BY RetentionAssumption
<1>2. PICK top \in Settings : \A value \in Settings : value <= top
  BY <1>1, GreatestExists
<1>3. CASE RetentionOf(top) < Default /\ \E value \in Settings : value <= 0
  <2>1. PICK low \in Settings : low <= 0
    BY <1>3
  <2>2. RetentionOf(low) = Default
    BY <2>1 DEF RetentionOf
  <2>3. ASSUME NEW value \in Settings
        PROVE  Default >= RetentionOf(value)
    <3>1. value \in Int /\ top \in Int /\ value <= top /\ RetentionOf(top) < Default
      BY <1>1, <1>2, <1>3
    <3>2. QED
      BY <1>1, <3>1 DEF RetentionOf
  <2>4. QED
    BY <2>2, <2>3 DEF Retentions
<1>4. CASE ~(RetentionOf(top) < Default /\ \E value \in Settings : value <= 0)
  <2>1. \A value \in Settings : RetentionOf(top) >= RetentionOf(value)
    BY <1>1, <1>2, <1>4 DEF RetentionOf
  <2>2. QED
    BY <2>1 DEF Retentions
<1>5. QED
  BY <1>3, <1>4

\* Longest bounds the retention of every log, and that of the cache.
LEMMA LongestBounds ==
  ASSUME NEW t
  PROVE  /\ Longest(t) \in Nat
         /\ t = "search_cache" => CacheTTL = Longest(t) + 1
         /\ t # "search_cache" => \A n \in Retentions : n <= Longest(t)
<1>1. CASE t = "search_cache"
  BY <1>1, RetentionAssumption DEF Longest
<1>2. CASE t # "search_cache"
  <2>1. Longest(t) = Max(Retentions)
    BY <1>2 DEF Longest, Retentions
  <2>2. Max(Retentions) \in Retentions /\ \A n \in Retentions : Max(Retentions) >= n
    BY LongestRetention DEF Max
  <2>3. Retentions \subseteq Nat
    BY RetentionPositive DEF Retentions
  <2>4. QED
    BY <1>2, <2>1, <2>2, <2>3
<1>3. QED
  BY <1>1, <1>2

-----------------------------------------------------------------------------
(* The invariant is inductive. *)

\* At the start there is no row, and a round is due.
LEMMA RetentionInitInv == RetentionInit => RetentionInv
<1> SUFFICES ASSUME RetentionInit PROVE RetentionInv
  OBVIOUS
<1> USE DEF RetentionInit
<1>1. RetentionTypeOK
  BY TablesAreFour DEF RetentionTypeOK
<1>2. RoundHasRead
  BY TablesAreFour DEF RoundHasRead, Waiting
<1>3. CleanedIsClean
  BY DEF CleanedIsClean
<1>4. OldRowsGo
  <2>1. ASSUME NEW r \in LogRows
        PROVE  age[r] <= Longest(Table[r]) + missed[Table[r]] + 1
    <3>1. age[r] = 0 - 1 /\ missed[Table[r]] = 0
      BY RetentionAssumption DEF Absent
    <3>2. Longest(Table[r]) \in Nat
      BY LongestBounds
    <3>3. QED
      BY <3>1, <3>2
  <2>2. QED
    BY <2>1 DEF OldRowsGo
<1>5. QED
  BY <1>1, <1>2, <1>3, <1>4 DEF RetentionInv

\* A round that begins, reads, fails or is cut off touches no row; its settings may
\* change under it.
LEMMA RoundSteps ==
  ASSUME RetentionInv,
         \/ RoundBegins \/ ReadRetention \/ RoundFails \/ Stop \/ Start
         \/ \E value \in Settings : UpdateRetention(value)
         \/ UNCHANGED retentionVars
  PROVE  RetentionInv'
<1>1. RetentionTypeOK /\ RoundHasRead /\ CleanedIsClean /\ OldRowsGo
  BY DEF RetentionInv
<1>2. age' = age /\ cleaned' = cleaned /\ missed' = missed
  BY DEF RoundBegins, ReadRetention, RoundFails, Stop, Start, UpdateRetention, retentionVars
<1>3. setting' \in Settings
  BY <1>1 DEF RetentionTypeOK, RoundBegins, ReadRetention, RoundFails, Stop, Start,
       UpdateRetention, retentionVars
<1>4. step' \in {Waiting, 0, step} \/ (step' = 1 /\ days' = RetentionOf(setting))
  BY DEF RoundBegins, ReadRetention, RoundFails, Stop, Start, UpdateRetention, retentionVars
<1>5. RetentionTypeOK'
  BY <1>1, <1>2, <1>3, <1>4, TablesAreFour DEF RetentionTypeOK
<1>6. RoundHasRead'
  <2>1. CASE step' = 1 /\ days' = RetentionOf(setting)
    BY <1>1, <2>1 DEF RoundHasRead, RetentionTypeOK
  <2>2. CASE step' \in {Waiting, 0}
    BY <2>2, TablesAreFour DEF RoundHasRead, Waiting
  <2>3. CASE step' = step /\ days' = days
    BY <1>1, <2>3 DEF RoundHasRead
  <2>4. step' \in {Waiting, 0} \/ days' = days \/ ReadRetention
    BY DEF RoundBegins, RoundFails, Stop, Start, UpdateRetention, retentionVars
  <2>5. ReadRetention => step' = 1 /\ days' = RetentionOf(setting)
    BY DEF ReadRetention
  <2>6. QED
    BY <1>4, <2>1, <2>2, <2>3, <2>4, <2>5
<1>7. CleanedIsClean'
  BY <1>1, <1>2 DEF CleanedIsClean
<1>8. OldRowsGo'
  BY <1>1, <1>2 DEF OldRowsGo
<1>9. QED
  BY <1>5, <1>6, <1>7, <1>8 DEF RetentionInv

\* What a statement leaves in its table is no older than the longest retention.
LEMMA CleanTableStep ==
  ASSUME RetentionInv, CleanTable
  PROVE  RetentionInv'
<1>1. RetentionTypeOK /\ RoundHasRead /\ CleanedIsClean /\ OldRowsGo
  BY DEF RetentionInv
<1>2. /\ age' = [r \in LogRows |->
                  IF Table[r] = Tables[step] /\ Expired(r) THEN Absent ELSE age[r]]
      /\ cleaned' = cleaned \cup {Tables[step]}
      /\ step' = (IF step = Len(Tables) THEN Waiting ELSE step + 1)
      /\ setting' = setting /\ days' = days /\ missed' = missed
      /\ step \in 1..4
  BY TablesAreFour DEF CleanTable
<1>3. days \in Retentions /\ days \in Nat
  BY <1>1, <1>2, TablesAreFour, RetentionPositive DEF RoundHasRead, Retentions
<1>4. \A r \in LogRows : age[r] \in Int /\ (age'[r] = age[r] \/ age'[r] = 0 - 1)
  BY <1>1, <1>2 DEF RetentionTypeOK, Absent
<1>5. RetentionTypeOK'
  <2>1. age' \in [LogRows -> Nat \cup {Absent}]
    BY <1>1, <1>2 DEF RetentionTypeOK
  <2>2. step' \in (0..4) \cup {Waiting}
    BY <1>2, TablesAreFour
  <2>3. QED
    BY <1>1, <1>2, <2>1, <2>2, TablesAreFour DEF RetentionTypeOK
<1>6. RoundHasRead'
  BY <1>2, <1>3 DEF RoundHasRead, Retentions
<1>7. CleanedIsClean'
  <2>1. ASSUME NEW r \in LogRows, Table[r] \in cleaned'
        PROVE  age'[r] <= Longest(Table[r])
    <3>1. Longest(Table[r]) \in Nat
      BY LongestBounds
    <3>2. CASE Table[r] \in cleaned
      BY <1>1, <1>4, <3>1, <3>2 DEF CleanedIsClean
    <3>3. CASE Table[r] = Tables[step] /\ Expired(r)
      BY <1>2, <3>1, <3>3 DEF Absent
    <3>4. CASE Table[r] = Tables[step] /\ ~Expired(r)
      <4>1. age'[r] = age[r]
        BY <1>2, <3>4
      <4>2. CASE Table[r] = "search_cache"
        <5>1. ~(age[r] >= CacheTTL)
          BY <3>4, <4>2 DEF Expired
        <5>2. CacheTTL = Longest(Table[r]) + 1
          BY <4>2, LongestBounds
        <5>3. QED
          BY <1>4, <3>1, <4>1, <5>1, <5>2
      <4>3. CASE Table[r] # "search_cache"
        <5>1. ~(age[r] > days)
          BY <3>4, <4>3 DEF Expired
        <5>2. days <= Longest(Table[r])
          BY <1>3, <4>3, LongestBounds
        <5>3. QED
          BY <1>3, <1>4, <3>1, <4>1, <5>1, <5>2
      <4>4. QED
        BY <4>2, <4>3
    <3>5. QED
      BY <1>2, <2>1, <3>2, <3>3, <3>4
  <2>2. QED
    BY <2>1 DEF CleanedIsClean
<1>8. OldRowsGo'
  <2>1. ASSUME NEW r \in LogRows
        PROVE  age'[r] <= Longest(Table[r]) + missed[Table[r]] + 1
    <3>1. Longest(Table[r]) \in Nat /\ missed[Table[r]] \in Nat
      BY <1>1, LongestBounds, RetentionAssumption DEF RetentionTypeOK
    <3>2. age[r] <= Longest(Table[r]) + missed[Table[r]] + 1
      BY <1>1 DEF OldRowsGo
    <3>3. QED
      BY <1>4, <3>1, <3>2
  <2>2. QED
    BY <1>2, <2>1 DEF OldRowsGo
<1>9. QED
  BY <1>5, <1>6, <1>7, <1>8 DEF RetentionInv

\* What is written is new.
LEMMA WriteStep ==
  ASSUME RetentionInv, NEW w \in LogRows, Write(w)
  PROVE  RetentionInv'
<1>1. RetentionTypeOK /\ RoundHasRead /\ CleanedIsClean /\ OldRowsGo
  BY DEF RetentionInv
<1>2. /\ age' = [age EXCEPT ![w] = 0]
      /\ setting' = setting /\ step' = step /\ days' = days
      /\ cleaned' = cleaned /\ missed' = missed
  BY DEF Write
<1>3. \A r \in LogRows : age[r] \in Int /\ (age'[r] = age[r] \/ age'[r] = 0)
  BY <1>1, <1>2 DEF RetentionTypeOK, Absent
<1>4. \A r \in LogRows : Longest(Table[r]) \in Nat /\ missed[Table[r]] \in Nat
  BY <1>1, LongestBounds, RetentionAssumption DEF RetentionTypeOK
<1>5. RetentionTypeOK'
  BY <1>1, <1>2 DEF RetentionTypeOK
<1>6. RoundHasRead'
  BY <1>1, <1>2 DEF RoundHasRead
<1>7. CleanedIsClean'
  <2>1. ASSUME NEW r \in LogRows, Table[r] \in cleaned
        PROVE  age'[r] <= Longest(Table[r])
    <3>1. age[r] <= Longest(Table[r])
      BY <1>1, <2>1 DEF CleanedIsClean
    <3>2. QED
      BY <1>3, <1>4, <3>1
  <2>2. QED
    BY <1>2, <2>1 DEF CleanedIsClean
<1>8. OldRowsGo'
  <2>1. ASSUME NEW r \in LogRows
        PROVE  age'[r] <= Longest(Table[r]) + missed[Table[r]] + 1
    <3>1. age[r] <= Longest(Table[r]) + missed[Table[r]] + 1
      BY <1>1 DEF OldRowsGo
    <3>2. QED
      BY <1>3, <1>4, <3>1
  <2>2. QED
    BY <1>2, <2>1 DEF OldRowsGo
<1>9. QED
  BY <1>5, <1>6, <1>7, <1>8 DEF RetentionInv

\* An hour makes every row an hour older, and lets every table not cleaned in it
\* miss an hour more.
LEMMA HourStep ==
  ASSUME RetentionInv, Hour
  PROVE  RetentionInv'
<1>1. RetentionTypeOK /\ RoundHasRead /\ CleanedIsClean /\ OldRowsGo
  BY DEF RetentionInv
<1>2. /\ age' = [r \in LogRows |-> IF age[r] = Absent THEN Absent ELSE age[r] + 1]
      /\ missed' = [t \in Range(Tables) |-> IF t \in cleaned THEN 0 ELSE missed[t] + 1]
      /\ cleaned' = {}
      /\ setting' = setting /\ step' = step /\ days' = days
  BY DEF Hour
<1>3. RetentionTypeOK'
  <2>1. age' \in [LogRows -> Nat \cup {Absent}]
    <3>1. \A r \in LogRows : age[r] = Absent \/ age[r] + 1 \in Nat
      BY <1>1 DEF RetentionTypeOK
    <3>2. QED
      BY <1>2, <3>1
  <2>2. missed' \in [Range(Tables) -> Nat]
    BY <1>1, <1>2 DEF RetentionTypeOK
  <2>3. QED
    BY <1>1, <1>2, <2>1, <2>2 DEF RetentionTypeOK
<1>4. RoundHasRead'
  BY <1>1, <1>2 DEF RoundHasRead
<1>5. CleanedIsClean'
  BY <1>2 DEF CleanedIsClean
<1>6. OldRowsGo'
  <2>1. ASSUME NEW r \in LogRows
        PROVE  age'[r] <= Longest(Table[r]) + missed'[Table[r]] + 1
    <3>1. /\ Longest(Table[r]) \in Nat /\ Table[r] \in Range(Tables)
          /\ missed[Table[r]] \in Nat /\ age[r] \in Int
      BY <1>1, LongestBounds, RetentionAssumption DEF RetentionTypeOK, Absent
    <3>2. missed'[Table[r]] = IF Table[r] \in cleaned THEN 0 ELSE missed[Table[r]] + 1
      BY <1>2, <3>1
    <3>3. CASE age[r] = Absent
      <4>1. age'[r] = 0 - 1
        BY <1>2, <3>3 DEF Absent
      <4>2. QED
        BY <3>1, <3>2, <4>1
    <3>4. CASE age[r] # Absent
      <4>1. age'[r] = age[r] + 1
        BY <1>2, <3>4
      <4>2. CASE Table[r] \in cleaned
        <5>1. age[r] <= Longest(Table[r])
          BY <1>1, <4>2 DEF CleanedIsClean
        <5>2. QED
          BY <3>1, <3>2, <4>1, <4>2, <5>1
      <4>3. CASE Table[r] \notin cleaned
        <5>1. age[r] <= Longest(Table[r]) + missed[Table[r]] + 1
          BY <1>1 DEF OldRowsGo
        <5>2. QED
          BY <3>1, <3>2, <4>1, <4>3, <5>1
      <4>4. QED
        BY <4>2, <4>3
    <3>5. QED
      BY <3>3, <3>4
  <2>2. QED
    BY <2>1 DEF OldRowsGo
<1>7. QED
  BY <1>3, <1>4, <1>5, <1>6 DEF RetentionInv

\* Every step of the cleaner keeps the invariant.
LEMMA RetentionStepInv == RetentionInv /\ [RetentionNext]_retentionVars => RetentionInv'
<1>1. SUFFICES ASSUME RetentionInv, [RetentionNext]_retentionVars PROVE RetentionInv'
  OBVIOUS
<1>2. CASE CleanTable
  BY <1>1, <1>2, CleanTableStep
<1>3. CASE \E r \in LogRows : Write(r)
  BY <1>1, <1>3, WriteStep
<1>4. CASE Hour
  BY <1>1, <1>4, HourStep
<1>5. CASE \/ RoundBegins \/ ReadRetention \/ RoundFails \/ Stop \/ Start
           \/ \E value \in Settings : UpdateRetention(value)
           \/ UNCHANGED retentionVars
  BY <1>1, <1>5, RoundSteps
<1>6. QED
  BY <1>1, <1>2, <1>3, <1>4, <1>5 DEF RetentionNext

\* The invariant of the cleaner holds in every state.
THEOREM RetentionCorrect == RetentionSpec => []RetentionInv
  BY RetentionInitInv, RetentionStepInv, PTL DEF RetentionSpec

\* The cleaner of startLogRetentionCleaner has its types: a round is at one of four
\* statements or at none, and no age or count of missed hours is out of its range.
THEOREM RetentionTypeCorrect == RetentionSpec => []RetentionTypeOK
<1>1. RetentionInv => RetentionTypeOK
  BY DEF RetentionInv
<1>2. QED
  BY <1>1, RetentionCorrect, PTL

\* Whatever rounds fail at which statement of DeleteOldLogs or ClearExpiredCache,
\* however often the retention is changed or the process is down: a row outlives its
\* retention by no more than the hours its table has been missed in a row, and one.
THEOREM OldRowsCorrect == RetentionSpec => []OldRowsGo
<1>1. RetentionInv => OldRowsGo
  BY DEF RetentionInv
<1>2. QED
  BY <1>1, RetentionCorrect, PTL

-----------------------------------------------------------------------------
(***************************************************************************)
(* Gateway.  The overshoot of a quota is bounded, a run is permitted by    *)
(* one row, and the entry of a request agrees with its log and its marks.  *)
(*                                                                         *)
(* What a request leaves behind depends on its own step and on nothing     *)
(* another request does; Sound says, step by step, what that is.  Only the *)
(* administrator reaches into it: the row a request would find must be one *)
(* that was granted since it came in.                                      *)
(***************************************************************************)

Coming == {"settings", "admin key", "token"}    \* not known yet
Inside == {"rate", "handler", "running"}        \* known, not answered
Leaving == {"unwinding", "marked"}              \* answered

\* How often a request has tried to mark its token.
Tries(m) == m.made + m.lost

\* Whom the request turned out to be, and with which row: those of a token are a row
\* granted since it came in, and MCP has tried to mark the token by then.
Identified(q, mark, given) ==
  \/ /\ q.who \in Tokens
     /\ q.row \in given
     /\ mark = IF q.ask.mcp THEN 1 ELSE 0
  \/ /\ q.who \in {"anonymous", AdminKey}
     /\ q.row = None
     /\ mark = 0

\* A run was let through by the row of its token, if it has one.
Permitted(q) ==
  q.row # None =>
    /\ HasScope(q.row, q.ask.tool)
    /\ TokenProviders(q.row, q.ask.tool, q.ask.names) # None

\* An answer is exempt from the mark if and only if it denied an extraction, and what
\* the execution log shows agrees.
Accounted(q, log) ==
  /\ q.row = None
  /\ q.exempt <=> q.status = 403 /\ q.execution
  /\ q.exempt => ~q.ask.mcp
  /\ log # None => q.execution
  /\ log = "rejected" => q.exempt
  /\ log = "run" => ~q.exempt

Sound(q, log, mark, given, rows) ==
  /\ q.at = "idle" => q = Idle /\ log = None /\ mark = 0
  /\ q.at # "idle" => q.ask \in Asked
  /\ q.at \in Coming \cup Inside =>
       /\ log = None /\ q.status = 0 /\ ~q.exempt
       /\ q.execution <=> q.at = "running"
  /\ q.at \in Coming =>
       /\ q.who = None /\ q.row = None /\ mark = 0
       /\ (q.ask.cred \in Tokens /\ rows[q.ask.cred].on) => rows[q.ask.cred] \in given
  /\ q.at \in Inside => Identified(q, mark, given)
  /\ q.at = "rate" => q.who \in Tokens
  /\ q.at = "running" => Permitted(q)
  /\ q.at \in Leaving => Accounted(q, log)
  /\ q.at = "unwinding" => mark = IF q.who \in Tokens /\ q.ask.mcp THEN 1 ELSE 0
  /\ q.at = "marked" => mark = IF q.who \in Tokens /\ ~q.exempt THEN 1 ELSE 0

RequestsSound == \A r \in Requests : Sound(req[r], logged[r], Tries(marks[r]), granted[r], row)

\* The requests that passed the quota of t and may still count.
Admitted(t, q) == {r \in Requests : q[r].at \in Inside /\ q[r].who = t}

\* Counted and yet to be counted, a token's requests overshoot by what may run at once.
LoadBounded ==
  \A t \in Tokens : Daily[t] > 0 =>
    usage[t] + Cardinality(Admitted(t, req)) <= Daily[t] - 1 + Cardinality(Requests)

GatewayInv == GatewayTypeOK /\ RequestsSound /\ LoadBounded

-----------------------------------------------------------------------------
(* What a step of one request has to do. *)

Statuses == {0, 200, 400, 401, 403, 408, 413, 429, 500}
RequestType ==
  [at : Steps, ask : Asked \cup {None}, who : Identities, row : Rows \cup {None},
   status : Statuses, execution : BOOLEAN, exempt : BOOLEAN]

MarksType == [made : Nat, lost : Nat]

BooksTyped ==
  /\ req \in [Requests -> RequestType]
  /\ logged \in [Requests -> {"run", "rejected", None}]
  /\ marks \in [Requests -> MarksType]
  /\ granted \in [Requests -> SUBSET Rows]

\* A step of r keeps r sound and leaves the other requests alone.
Kept(r) ==
  /\ BooksTyped'
  /\ Sound(req'[r], logged'[r], Tries(marks'[r]), granted'[r], row)
  /\ \A s \in Requests \ {r} :
       /\ req'[s] = req[s]
       /\ logged'[s] = logged[s]
       /\ marks'[s] = marks[s]
       /\ granted'[s] = granted[s]

\* No request is admitted that was not before.
NoneAdmitted ==
  \A s \in Requests :
    (req'[s].at \in Inside /\ req'[s].who \in Tokens) =>
      req[s].at \in Inside /\ req'[s].who = req[s].who

\* The identities and rows are told apart.
LEMMA NamesDiffer ==
  /\ None \notin Tokens /\ AdminKey \notin Tokens /\ "anonymous" \notin Tokens
  /\ None \notin Rows /\ None \notin Asked /\ None \notin {"run", "rejected"}
  /\ None # "anonymous"
BY GatewayAssumption

\* What the books hold of one request.
LEMMA BooksFacts ==
  ASSUME GatewayInv, NEW r \in Requests
  PROVE  /\ BooksTyped
         /\ req[r] \in RequestType
         /\ logged[r] \in {"run", "rejected", None}
         /\ marks[r] \in MarksType /\ Tries(marks[r]) \in Nat
         /\ granted[r] \subseteq Rows
         /\ Sound(req[r], logged[r], Tries(marks[r]), granted[r], row)
BY DEF GatewayInv, GatewayTypeOK, RequestsSound, BooksTyped, RequestType, Statuses,
       MarksType, Tries

\* A mark is tried once more, made or lost, where it is owed.
LEMMA MarkFacts ==
  ASSUME BooksTyped, NEW r \in Requests, NEW owes \in BOOLEAN,
         IF owes THEN MarkToken(r) ELSE UNCHANGED marks
  PROVE  /\ marks' \in [Requests -> MarksType]
         /\ Tries(marks'[r]) = IF owes THEN Tries(marks[r]) + 1 ELSE Tries(marks[r])
         /\ \A s \in Requests \ {r} : marks'[s] = marks[s]
<1>1. marks[r] \in MarksType /\ marks \in [Requests -> MarksType]
  BY DEF BooksTyped
<1>2. CASE ~owes
  BY <1>1, <1>2
<1>3. CASE owes
  <2>1. CASE marks' = [marks EXCEPT ![r].made = @ + 1]
    BY <1>1, <1>3, <2>1 DEF MarksType, Tries
  <2>2. CASE marks' = [marks EXCEPT ![r].lost = @ + 1]
    BY <1>1, <1>3, <2>2 DEF MarksType, Tries
  <2>3. QED
    BY <1>3, <2>1, <2>2 DEF MarkToken
<1>4. QED
  BY <1>2, <1>3

\* A step that keeps its request keeps them all.
LEMMA KeptIsSound ==
  ASSUME GatewayInv, NEW r \in Requests, Kept(r), row' = row
  PROVE  RequestsSound'
BY DEF GatewayInv, RequestsSound, Kept

\* The requests a token has admitted are finitely many.
LEMMA AdmittedFacts ==
  ASSUME NEW q, NEW t
  PROVE  /\ IsFiniteSet(Admitted(t, q))
         /\ Cardinality(Admitted(t, q)) \in Nat
         /\ Cardinality(Admitted(t, q)) <= Cardinality(Requests)
         /\ Cardinality(Requests) \in Nat
BY GatewayAssumption, FS_Subset, FS_CardinalityType DEF Admitted

\* Fewer requests admitted are no more in number.
LEMMA FewerAdmitted ==
  ASSUME NEW p, NEW q, NEW t, Admitted(t, p) \subseteq Admitted(t, q)
  PROVE  Cardinality(Admitted(t, p)) <= Cardinality(Admitted(t, q))
BY AdmittedFacts, FS_Subset

\* Where no request is admitted and none counted, the load stays bounded.
LEMMA NoneAdmittedKeepsLoad ==
  ASSUME GatewayInv, NoneAdmitted, \A t \in Tokens : usage'[t] \in 0..usage[t]
  PROVE  LoadBounded'
<1> SUFFICES ASSUME NEW t \in Tokens, Daily[t] > 0
             PROVE  usage'[t] + Cardinality(Admitted(t, req')) <=
                      Daily[t] - 1 + Cardinality(Requests)
  BY DEF LoadBounded
<1>1. Admitted(t, req') \subseteq Admitted(t, req)
  BY DEF NoneAdmitted, Admitted
<1>2. Cardinality(Admitted(t, req')) <= Cardinality(Admitted(t, req))
  BY <1>1, FewerAdmitted
<1>3. usage[t] + Cardinality(Admitted(t, req)) <= Daily[t] - 1 + Cardinality(Requests)
  BY DEF GatewayInv, LoadBounded
<1>4. /\ usage[t] \in Nat
      /\ usage'[t] \in Nat /\ usage'[t] <= usage[t]
      /\ Daily[t] \in Nat
  BY GatewayAssumption DEF GatewayInv, GatewayTypeOK
<1>5. /\ Cardinality(Admitted(t, req')) \in Nat
      /\ Cardinality(Admitted(t, req)) \in Nat
      /\ Cardinality(Requests) \in Nat
  BY AdmittedFacts
<1>6. QED
  BY <1>2, <1>3, <1>4, <1>5

-----------------------------------------------------------------------------
(* The steps of a request. *)

\* An answer, wherever it comes from: what has been logged is a run, and only an
\* extraction that was denied has status 403 and an execution.
LEMMA AnswerKeeps ==
  ASSUME GatewayInv, NEW r \in Requests, NEW answer \in Statuses, Answers(r, answer),
         req[r].at \in Coming \cup Inside,
         req[r].at = "running" => answer # 403,
         \/ logged' = logged
         \/ req[r].at = "running" /\ logged' = [logged EXCEPT ![r] = "run"],
         marks' = marks
  PROVE  Kept(r) /\ NoneAdmitted
<1>1. /\ BooksTyped
      /\ req[r] \in RequestType
      /\ Sound(req[r], logged[r], Tries(marks[r]), granted[r], row)
  BY BooksFacts
<1> DEFINE q == [req[r] EXCEPT !.at = "unwinding", !.status = answer, !.row = None]
<1>2. /\ req' = [req EXCEPT ![r] = q]
      /\ granted' = [granted EXCEPT ![r] = {}]
  BY <1>1 DEF Answers, BooksTyped, RequestType
<1>3. /\ q \in RequestType
      /\ q.at = "unwinding" /\ q.status = answer /\ q.row = None
      /\ q.ask = req[r].ask /\ q.who = req[r].who
      /\ q.execution = req[r].execution /\ q.exempt = req[r].exempt
  BY <1>1 DEF RequestType, Steps
<1> HIDE DEF q
<1>4. BooksTyped' /\ req'[r] = q
  BY <1>1, <1>2, <1>3 DEF BooksTyped
<1>5. logged'[r] = None \/ (logged'[r] = "run" /\ req[r].at = "running")
  BY <1>1 DEF Sound, BooksTyped
<1>6. Accounted(q, logged'[r])
  BY <1>1, <1>3, <1>5, NamesDiffer DEF Sound, Accounted, RequestType
<1>7. Tries(marks'[r]) = IF q.who \in Tokens /\ q.ask.mcp THEN 1 ELSE 0
  <2>1. marks'[r] = marks[r] /\ req[r].ask = q.ask /\ req[r].who = q.who
    BY <1>3
  <2>2. CASE req[r].at \in Coming
    BY <1>1, <2>1, <2>2, NamesDiffer DEF Sound
  <2>3. CASE req[r].at \in Inside
    <3>1. Identified(req[r], Tries(marks[r]), granted[r])
      BY <1>1, <2>3 DEF Sound
    <3>2. QED
      BY <2>1, <3>1, NamesDiffer DEF Identified
  <2>4. QED
    BY <2>2, <2>3
<1>8. Sound(q, logged'[r], Tries(marks'[r]), granted'[r], row)
  BY <1>1, <1>3, <1>6, <1>7 DEF Sound, Coming, Inside, Leaving
<1>9. NoneAdmitted
  BY <1>1, <1>2, <1>3 DEF NoneAdmitted, Inside, BooksTyped
<1>10. QED
  BY <1>1, <1>2, <1>4, <1>8, <1>9 DEF Kept, BooksTyped

\* A request that comes in: the row its token has now, if enabled, is granted.
LEMMA ArriveKeeps ==
  ASSUME GatewayInv, NEW r \in Requests, NEW ask \in Asked, Arrive(r, ask)
  PROVE  Kept(r) /\ NoneAdmitted
<1>1. /\ BooksTyped
      /\ req[r] = Idle /\ logged[r] = None /\ Tries(marks[r]) = 0
  BY BooksFacts DEF Arrive, At, Sound
<1> DEFINE q == IF ask.mcp /\ ask.tool = None
                  THEN [Idle EXCEPT !.at = "handler", !.ask = ask, !.who = "anonymous"]
                  ELSE [Idle EXCEPT !.at = "settings", !.ask = ask]
           given == IF ask.cred \in Tokens THEN {a \in {row[ask.cred]} : a.on} ELSE {}
<1>2. /\ req' = [req EXCEPT ![r] = q]
      /\ granted' = [granted EXCEPT ![r] = given]
      /\ UNCHANGED <<logged, marks>>
  BY DEF Arrive
<1>3. /\ q \in RequestType
      /\ q.at = IF ask.mcp /\ ask.tool = None THEN "handler" ELSE "settings"
      /\ q.who = IF ask.mcp /\ ask.tool = None THEN "anonymous" ELSE None
      /\ q.ask = ask /\ q.row = None /\ q.status = 0 /\ ~q.execution /\ ~q.exempt
  <2>1. \A at \in Steps, who \in Identities :
          [at |-> at, ask |-> ask, who |-> who, row |-> None, status |-> 0,
           execution |-> FALSE, exempt |-> FALSE] \in RequestType
    BY DEF RequestType, Statuses
  <2>2. CASE ask.mcp /\ ask.tool = None
    <3>1. q = [at |-> "handler", ask |-> ask, who |-> "anonymous", row |-> None,
               status |-> 0, execution |-> FALSE, exempt |-> FALSE]
      BY <2>2 DEF Idle
    <3>2. "handler" \in Steps /\ "anonymous" \in Identities
      BY DEF Steps, Identities
    <3> HIDE DEF q
    <3>3. QED
      BY <2>1, <2>2, <3>1, <3>2
  <2>3. CASE ~(ask.mcp /\ ask.tool = None)
    <3>1. q = [at |-> "settings", ask |-> ask, who |-> None, row |-> None,
               status |-> 0, execution |-> FALSE, exempt |-> FALSE]
      BY <2>3 DEF Idle
    <3>2. QED
      BY <2>1, <2>3, <3>1 DEF Steps, Identities
  <2>4. QED
    BY <2>2, <2>3
<1>4. /\ given \subseteq Rows
      /\ (ask.cred \in Tokens /\ row[ask.cred].on) => row[ask.cred] \in given
  BY DEF GatewayInv, GatewayTypeOK
<1> HIDE DEF q, given
<1>5. /\ BooksTyped'
      /\ req'[r] = q /\ granted'[r] = given /\ logged'[r] = None /\ Tries(marks'[r]) = 0
  BY <1>1, <1>2, <1>3, <1>4 DEF BooksTyped
<1>6. Sound(q, None, 0, given, row)
  BY <1>3, <1>4 DEF Sound, Identified, Coming, Inside, Leaving
<1>7. NoneAdmitted
  BY <1>1, <1>2, <1>3, NamesDiffer DEF NoneAdmitted, Inside, BooksTyped
<1>8. QED
  BY <1>1, <1>2, <1>5, <1>6, <1>7 DEF Kept, BooksTyped

\* A request whose credential is still being looked up.
LEMMA GoesOnKeeps ==
  ASSUME GatewayInv, NEW r \in Requests, req[r].at \in Coming,
         NEW later \in Coming, Goes(r, later), logged' = logged, marks' = marks
  PROVE  Kept(r) /\ NoneAdmitted
<1>1. /\ BooksTyped
      /\ req[r] \in RequestType
      /\ Sound(req[r], logged[r], Tries(marks[r]), granted[r], row)
  BY BooksFacts
<1> DEFINE q == [req[r] EXCEPT !.at = later]
<1>2. req' = [req EXCEPT ![r] = q] /\ granted' = granted
  BY <1>1 DEF Goes, BooksTyped, RequestType
<1>3. /\ q \in RequestType
      /\ q.at = later /\ q.status = req[r].status /\ q.row = req[r].row
      /\ q.ask = req[r].ask /\ q.who = req[r].who
      /\ q.execution = req[r].execution /\ q.exempt = req[r].exempt
  BY <1>1 DEF RequestType, Steps, Coming
<1> HIDE DEF q
<1>4. BooksTyped' /\ req'[r] = q
  BY <1>1, <1>2, <1>3 DEF BooksTyped
<1>5. Sound(q, logged[r], Tries(marks[r]), granted[r], row)
  BY <1>1, <1>3 DEF Sound, Coming, Inside, Leaving
<1>6. NoneAdmitted
  BY <1>1, <1>2, <1>3 DEF NoneAdmitted, Coming, Inside, BooksTyped
<1>7. QED
  BY <1>1, <1>2, <1>4, <1>5, <1>6 DEF Kept, BooksTyped

\* A request that needs no token, or is the administrator's, has no row.
LEMMA KnownKeeps ==
  ASSUME GatewayInv, NEW r \in Requests, req[r].at \in Coming,
         NEW who \in {"anonymous", AdminKey}, Known(r, who), logged' = logged, marks' = marks
  PROVE  Kept(r) /\ NoneAdmitted
<1>1. /\ BooksTyped
      /\ req[r] \in RequestType
      /\ Sound(req[r], logged[r], Tries(marks[r]), granted[r], row)
  BY BooksFacts
<1> DEFINE q == [req[r] EXCEPT !.at = "handler", !.who = who]
<1>2. req' = [req EXCEPT ![r] = q] /\ granted' = granted
  BY <1>1 DEF Known, BooksTyped, RequestType
<1>3. /\ q \in RequestType
      /\ q.at = "handler" /\ q.who = who
      /\ q.status = req[r].status /\ q.row = req[r].row /\ q.ask = req[r].ask
      /\ q.execution = req[r].execution /\ q.exempt = req[r].exempt
  BY <1>1 DEF RequestType, Steps, Identities
<1> HIDE DEF q
<1>4. BooksTyped' /\ req'[r] = q
  BY <1>1, <1>2, <1>3 DEF BooksTyped
<1>5. Sound(q, logged[r], Tries(marks[r]), granted[r], row)
  BY <1>1, <1>3 DEF Sound, Identified, Coming, Inside, Leaving
<1>6. NoneAdmitted
  BY <1>1, <1>2, <1>3, NamesDiffer DEF NoneAdmitted, Inside, BooksTyped
<1>7. QED
  BY <1>1, <1>2, <1>4, <1>5, <1>6 DEF Kept, BooksTyped

\* A token that is found: its row is granted, and it had room for one more request
\* when it was looked up.
FindsToken(r) ==
  /\ At(r, "token")
  /\ Cred(r) \in Tokens
  /\ Found(Cred(r))
  /\ req' = [req EXCEPT ![r].at = "rate", ![r].who = Cred(r), ![r].row = row[Cred(r)]]
  /\ IF req[r].ask.mcp THEN MarkToken(r) ELSE UNCHANGED marks
  /\ UNCHANGED granted

\* findAPIToken: the row as it is now is what the request is admitted by.
LEMMA FindKeeps ==
  ASSUME GatewayInv, NEW r \in Requests, FindsToken(r), logged' = logged, UNCHANGED database
  PROVE  Kept(r) /\ LoadBounded'
<1>1. /\ BooksTyped
      /\ req[r] \in RequestType /\ req[r].at = "token" /\ req[r].ask \in Asked
      /\ Sound(req[r], logged[r], Tries(marks[r]), granted[r], row)
  BY BooksFacts DEF FindsToken, At, Sound
<1> DEFINE t == req[r].ask.cred
           q == [req[r] EXCEPT !.at = "rate", !.who = t, !.row = row[t]]
           mark == Tries(marks'[r])
<1>2. /\ req' = [req EXCEPT ![r] = q]
      /\ granted' = granted
      /\ t \in Tokens /\ row[t] \in Rows /\ row[t].on
      /\ Daily[t] = 0 \/ usage[t] < Daily[t]
  <2>1. /\ req' = [req EXCEPT ![r].at = "rate", ![r].who = t, ![r].row = row[t]]
        /\ granted' = granted
        /\ t \in Tokens /\ row[t].on
        /\ Daily[t] = 0 \/ usage[t] < Daily[t]
    BY DEF FindsToken, Cred, Found
  <2>2. row[t] \in Rows
    BY <2>1 DEF GatewayInv, GatewayTypeOK
  <2>3. req' = [req EXCEPT ![r] = q]
    BY <1>1, <2>1 DEF BooksTyped, RequestType
  <2>4. QED
    BY <2>1, <2>2, <2>3
<1>3. /\ q \in RequestType
      /\ q.at = "rate" /\ q.who = t /\ q.row = row[t]
      /\ q.status = req[r].status /\ q.ask = req[r].ask
      /\ q.execution = req[r].execution /\ q.exempt = req[r].exempt
  BY <1>1, <1>2 DEF RequestType, Steps, Identities
<1>4. /\ marks' \in [Requests -> MarksType]
      /\ mark = IF q.ask.mcp THEN 1 ELSE 0
      /\ \A s \in Requests \ {r} : marks'[s] = marks[s]
  <2>1. Tries(marks[r]) = 0
    BY <1>1 DEF Sound, Coming
  <2>2. req[r].ask.mcp \in BOOLEAN
    BY <1>1, GatewayAssumption
  <2>3. IF req[r].ask.mcp THEN MarkToken(r) ELSE UNCHANGED marks
    BY DEF FindsToken
  <2>4. QED
    BY <1>1, <1>3, <2>1, <2>2, <2>3, MarkFacts
<1>0. mark = Tries(marks'[r])
  OBVIOUS
<1> HIDE DEF q, mark
<1>5. BooksTyped' /\ req'[r] = q /\ Tries(marks'[r]) = mark
  BY <1>0, <1>1, <1>2, <1>3, <1>4 DEF BooksTyped
<1>6. row[t] \in granted[r]
  BY <1>1, <1>2 DEF Sound, Coming
<1>7. Sound(q, logged[r], mark, granted[r], row)
  BY <1>1, <1>2, <1>3, <1>4, <1>6 DEF Sound, Identified, Coming, Inside, Leaving
<1>8. Kept(r)
  BY <1>1, <1>2, <1>4, <1>5, <1>7 DEF Kept, BooksTyped
<1>9. ASSUME NEW u \in Tokens, Daily[u] > 0
      PROVE  usage[u] + Cardinality(Admitted(u, req')) <=
               Daily[u] - 1 + Cardinality(Requests)
  <2>1. /\ Cardinality(Admitted(u, req')) \in Nat
        /\ Cardinality(Admitted(u, req')) <= Cardinality(Requests)
        /\ Cardinality(Admitted(u, req)) \in Nat
        /\ Cardinality(Requests) \in Nat
        /\ usage[u] \in Nat /\ Daily[u] \in Nat
    <3>1. usage[u] \in Nat /\ Daily[u] \in Nat
      BY GatewayAssumption DEF GatewayInv, GatewayTypeOK
    <3>2. QED
      BY <3>1, AdmittedFacts
  <2>2. CASE u = t
    BY <1>2, <1>9, <2>1, <2>2
  <2>3. CASE u # t
    <3>1. Admitted(u, req') \subseteq Admitted(u, req)
      BY <1>1, <1>2, <1>3, <2>3 DEF Admitted, BooksTyped
    <3>2. Cardinality(Admitted(u, req')) <= Cardinality(Admitted(u, req))
      BY <3>1, FewerAdmitted
    <3>3. usage[u] + Cardinality(Admitted(u, req)) <= Daily[u] - 1 + Cardinality(Requests)
      BY <1>9 DEF GatewayInv, LoadBounded
    <3>4. QED
      BY <2>1, <3>2, <3>3
  <2>4. QED
    BY <2>2, <2>3
<1>10. QED
  BY <1>8, <1>9 DEF LoadBounded, database

\* A request within its rate goes on with the identity and the row it has.
LEMMA WithinRateKeeps ==
  ASSUME GatewayInv, NEW r \in Requests, At(r, "rate"), Goes(r, "handler"),
         logged' = logged, marks' = marks
  PROVE  Kept(r) /\ NoneAdmitted
<1>1. /\ BooksTyped
      /\ req[r] \in RequestType /\ req[r].at = "rate"
      /\ Sound(req[r], logged[r], Tries(marks[r]), granted[r], row)
  BY BooksFacts DEF At
<1> DEFINE q == [req[r] EXCEPT !.at = "handler"]
<1>2. req' = [req EXCEPT ![r] = q] /\ granted' = granted
  BY <1>1 DEF Goes, BooksTyped, RequestType
<1>3. /\ q \in RequestType
      /\ q.at = "handler" /\ q.status = req[r].status /\ q.row = req[r].row
      /\ q.ask = req[r].ask /\ q.who = req[r].who
      /\ q.execution = req[r].execution /\ q.exempt = req[r].exempt
  BY <1>1 DEF RequestType, Steps
<1> HIDE DEF q
<1>4. BooksTyped' /\ req'[r] = q
  BY <1>1, <1>2, <1>3 DEF BooksTyped
<1>5. Identified(q, Tries(marks[r]), granted[r])
  <2>1. Identified(req[r], Tries(marks[r]), granted[r])
    BY <1>1 DEF Sound, Inside
  <2>2. QED
    BY <1>3, <2>1 DEF Identified
<1>6. Sound(q, logged[r], Tries(marks[r]), granted[r], row)
  BY <1>1, <1>3, <1>5 DEF Sound, Coming, Inside, Leaving
<1>7. NoneAdmitted
  BY <1>1, <1>2, <1>3 DEF NoneAdmitted, Inside, BooksTyped
<1>8. QED
  BY <1>1, <1>2, <1>4, <1>6, <1>7 DEF Kept, BooksTyped

\* A run begins only if the row of the token, the one that was granted, permits it.
LEMMA BeginKeeps ==
  ASSUME GatewayInv, NEW r \in Requests, BeginRun(r)
  PROVE  Kept(r) /\ NoneAdmitted
<1>1. /\ BooksTyped
      /\ req[r] \in RequestType /\ req[r].at = "handler"
      /\ Sound(req[r], logged[r], Tries(marks[r]), granted[r], row)
  BY BooksFacts DEF BeginRun, At
<1> DEFINE q == [req[r] EXCEPT !.at = "running", !.execution = TRUE]
<1>2. /\ req' = [req EXCEPT ![r] = q]
      /\ UNCHANGED <<granted, logged, marks>>
  BY <1>1 DEF BeginRun, BooksTyped, RequestType
<1>3. /\ q \in RequestType
      /\ q.at = "running" /\ q.execution
      /\ q.status = req[r].status /\ q.row = req[r].row
      /\ q.ask = req[r].ask /\ q.who = req[r].who /\ q.exempt = req[r].exempt
  BY <1>1 DEF RequestType, Steps
<1> HIDE DEF q
<1>4. BooksTyped' /\ req'[r] = q
  BY <1>1, <1>2, <1>3 DEF BooksTyped
<1>5. Identified(q, Tries(marks[r]), granted[r])
  <2>1. Identified(req[r], Tries(marks[r]), granted[r])
    BY <1>1 DEF Sound, Inside
  <2>2. QED
    BY <1>3, <2>1 DEF Identified
<1>6. Permitted(q)
  BY <1>3 DEF Permitted, BeginRun, Denied, Runs
<1>7. Sound(q, logged[r], Tries(marks[r]), granted[r], row)
  BY <1>1, <1>3, <1>5, <1>6 DEF Sound, Coming, Inside, Leaving
<1>8. NoneAdmitted
  BY <1>1, <1>2, <1>3 DEF NoneAdmitted, Inside, BooksTyped
<1>9. QED
  BY <1>1, <1>2, <1>4, <1>7, <1>8 DEF Kept, BooksTyped

\* How the record of a request that is denied changes.
DeniedRecord(q) ==
  [q EXCEPT !.at = "unwinding", !.status = 403, !.row = None,
            !.execution = TRUE, !.exempt = TRUE]

\* The record of a denied request is one of a request, with the status 403.
LEMMA DeniedRecordFacts ==
  ASSUME NEW q \in RequestType
  PROVE  /\ DeniedRecord(q) \in RequestType
         /\ DeniedRecord(q).at = "unwinding" /\ DeniedRecord(q).status = 403
         /\ DeniedRecord(q).row = None
         /\ DeniedRecord(q).execution /\ DeniedRecord(q).exempt
         /\ DeniedRecord(q).ask = q.ask /\ DeniedRecord(q).who = q.who
<1>1. PICK answer \in Statuses : answer = 403
  BY DEF Statuses
<1> DEFINE p == [q EXCEPT !.at = "unwinding", !.status = answer]
<1>2. DeniedRecord(q) \in RequestType
  <2>1. p \in RequestType
    BY DEF RequestType, Steps
  <2>2. DeniedRecord(q) = [p EXCEPT !.row = None, !.execution = TRUE, !.exempt = TRUE]
    BY <1>1 DEF DeniedRecord, RequestType
  <2> HIDE DEF p
  <2>3. QED
    BY <2>1, <2>2 DEF RequestType
<1>3. /\ DeniedRecord(q).at = "unwinding" /\ DeniedRecord(q).status = 403
      /\ DeniedRecord(q).row = None
      /\ DeniedRecord(q).execution = TRUE /\ DeniedRecord(q).exempt = TRUE
      /\ DeniedRecord(q).ask = q.ask /\ DeniedRecord(q).who = q.who
  BY DEF DeniedRecord, RequestType
<1>4. QED
  BY <1>2, <1>3

\* An extraction that is denied is logged, if at all, as rejected, and is exempt.
LEMMA DenyExtractKeeps ==
  ASSUME GatewayInv, NEW r \in Requests, DenyExtract(r)
  PROVE  Kept(r) /\ NoneAdmitted
<1>1. /\ BooksTyped
      /\ req[r] \in RequestType /\ req[r].at = "handler" /\ ~req[r].ask.mcp
      /\ Sound(req[r], logged[r], Tries(marks[r]), granted[r], row)
  BY BooksFacts DEF DenyExtract, At
<1> DEFINE q == DeniedRecord(req[r])
<1>2. /\ req' = [req EXCEPT ![r] = q]
      /\ granted' = [granted EXCEPT ![r] = {}]
      /\ logged' = [logged EXCEPT ![r] = "rejected"] \/ logged' = logged
      /\ marks' = marks
  <2>1. req' = [req EXCEPT ![r] = q]
    BY DEF DenyExtract, DeniedRecord
  <2>2. QED
    BY <2>1 DEF DenyExtract
<1>3. /\ q \in RequestType
      /\ q.at = "unwinding" /\ q.execution /\ q.exempt /\ q.status = 403 /\ q.row = None
      /\ q.ask = req[r].ask /\ q.who = req[r].who
  BY <1>1, DeniedRecordFacts
<1> HIDE DEF q
<1>4. BooksTyped' /\ req'[r] = q
  BY <1>1, <1>2, <1>3 DEF BooksTyped
<1>5. logged'[r] \in {"rejected", None}
  BY <1>1, <1>2 DEF Sound, Inside, BooksTyped
<1>6. Tries(marks[r]) = 0
  BY <1>1 DEF Sound, Inside, Identified
<1>7. Sound(q, logged'[r], Tries(marks[r]), {}, row)
  BY <1>1, <1>3, <1>5, <1>6, NamesDiffer DEF Sound, Accounted, Coming, Inside, Leaving
<1>8. NoneAdmitted
  BY <1>1, <1>2, <1>3 DEF NoneAdmitted, Inside, BooksTyped
<1>9. QED
  BY <1>1, <1>2, <1>4, <1>7, <1>8 DEF Kept, BooksTyped

\* A run that is over counts for its token and admits no more.
LEMMA EndKeeps ==
  ASSUME GatewayInv, NEW r \in Requests, At(r, "running"),
         NEW answer \in RunStatuses(r), EndRun(r, answer)
  PROVE  Kept(r) /\ LoadBounded'
<1>1. /\ BooksTyped
      /\ req[r].at = "running"
  BY BooksFacts DEF At
<1>2. answer \in Statuses /\ answer # 403
  BY DEF RunStatuses, Statuses
<1>3. Kept(r) /\ NoneAdmitted
  BY <1>1, <1>2, AnswerKeeps DEF EndRun, Inside
<1>4. CASE usage' = usage
  <2>1. \A t \in Tokens : usage'[t] \in 0..usage[t]
    BY <1>4 DEF GatewayInv, GatewayTypeOK
  <2>2. QED
    BY <1>3, <2>1, NoneAdmittedKeepsLoad
<1>5. CASE usage' = [t \in Tokens |-> IF t = req[r].who THEN usage[t] + 1 ELSE usage[t]]
  <2> SUFFICES ASSUME NEW t \in Tokens, Daily[t] > 0
               PROVE  usage'[t] + Cardinality(Admitted(t, req')) <=
                        Daily[t] - 1 + Cardinality(Requests)
    BY <1>3 DEF LoadBounded
  <2>1. /\ usage[t] \in Nat /\ Daily[t] \in Nat
        /\ usage[t] + Cardinality(Admitted(t, req)) <= Daily[t] - 1 + Cardinality(Requests)
    BY GatewayAssumption DEF GatewayInv, GatewayTypeOK, LoadBounded
  <2>2. /\ Cardinality(Admitted(t, req')) \in Nat
        /\ Cardinality(Admitted(t, req)) \in Nat
        /\ Cardinality(Requests) \in Nat
        /\ IsFiniteSet(Admitted(t, req))
    BY AdmittedFacts
  <2>3. CASE t # req[r].who
    <3>1. Admitted(t, req') \subseteq Admitted(t, req)
      BY <1>3 DEF NoneAdmitted, Admitted
    <3>2. Cardinality(Admitted(t, req')) <= Cardinality(Admitted(t, req))
      BY <3>1, FewerAdmitted
    <3>3. usage'[t] = usage[t]
      BY <1>5, <2>3
    <3>4. QED
      BY <2>1, <2>2, <3>2, <3>3
  <2>4. CASE t = req[r].who
    <3>1. r \in Admitted(t, req)
      BY <1>1, <2>4 DEF Admitted, Inside
    <3>2. req'[r].at = "unwinding"
      BY <1>1 DEF EndRun, Answers, BooksTyped, RequestType
    <3>3. Admitted(t, req') \subseteq Admitted(t, req) \ {r}
      BY <1>3, <3>2 DEF NoneAdmitted, Admitted, Inside
    <3>4. /\ IsFiniteSet(Admitted(t, req) \ {r})
          /\ Cardinality(Admitted(t, req) \ {r}) = Cardinality(Admitted(t, req)) - 1
      BY <2>2, <3>1, FS_RemoveElement
    <3>5. Cardinality(Admitted(t, req')) <= Cardinality(Admitted(t, req) \ {r})
      BY <3>3, <3>4, FS_Subset
    <3>6. usage'[t] = usage[t] + 1
      BY <1>5, <2>4
    <3>7. QED
      BY <2>1, <2>2, <3>4, <3>5, <3>6
  <2>5. QED
    BY <2>3, <2>4
<1>6. QED
  BY <1>3, <1>4, <1>5 DEF EndRun

\* The deferred call makes up for the mark that is still owed.
LEMMA MarkKeeps ==
  ASSUME GatewayInv, NEW r \in Requests, MarkUsed(r)
  PROVE  Kept(r) /\ NoneAdmitted
<1>1. /\ BooksTyped
      /\ req[r] \in RequestType /\ req[r].at = "unwinding"
      /\ Sound(req[r], logged[r], Tries(marks[r]), granted[r], row)
  BY BooksFacts DEF MarkUsed, At
<1> DEFINE q == [req[r] EXCEPT !.at = "marked"]
           mark == Tries(marks'[r])
<1>2. /\ req' = [req EXCEPT ![r] = q]
      /\ granted' = granted /\ logged' = logged
  BY <1>1 DEF MarkUsed, Goes, BooksTyped, RequestType
<1>3. /\ q \in RequestType
      /\ q.at = "marked" /\ q.status = req[r].status /\ q.row = req[r].row
      /\ q.ask = req[r].ask /\ q.who = req[r].who
      /\ q.execution = req[r].execution /\ q.exempt = req[r].exempt
  BY <1>1 DEF RequestType, Steps
<1>4. Accounted(req[r], logged[r])
  BY <1>1 DEF Sound, Leaving
<1>5. /\ marks' \in [Requests -> MarksType]
      /\ mark = IF q.who \in Tokens /\ ~q.exempt THEN 1 ELSE 0
      /\ \A s \in Requests \ {r} : marks'[s] = marks[s]
  <2>1. Tries(marks[r]) = IF req[r].who \in Tokens /\ req[r].ask.mcp THEN 1 ELSE 0
    BY <1>1 DEF Sound
  <2>2. OwesMark(r) \in BOOLEAN /\ IF OwesMark(r) THEN MarkToken(r) ELSE UNCHANGED marks
    BY DEF MarkUsed, OwesMark
  <2>3. /\ marks' \in [Requests -> MarksType]
        /\ mark = IF OwesMark(r) THEN Tries(marks[r]) + 1 ELSE Tries(marks[r])
        /\ \A s \in Requests \ {r} : marks'[s] = marks[s]
    BY <1>1, <2>2, MarkFacts
  <2>4. CASE req[r].who \in Tokens /\ req[r].ask.mcp
    BY <1>3, <1>4, <2>1, <2>3, <2>4 DEF Accounted, OwesMark
  <2>5. CASE ~(req[r].who \in Tokens /\ req[r].ask.mcp)
    BY <1>3, <2>1, <2>3, <2>5 DEF OwesMark
  <2>6. QED
    BY <2>3, <2>4, <2>5
<1>0. mark = Tries(marks'[r])
  OBVIOUS
<1> HIDE DEF q, mark
<1>6. BooksTyped' /\ req'[r] = q /\ Tries(marks'[r]) = mark
  BY <1>0, <1>1, <1>2, <1>3, <1>5 DEF BooksTyped
<1>7. Accounted(q, logged[r])
  BY <1>3, <1>4 DEF Accounted
<1>8. Sound(q, logged[r], mark, granted[r], row)
  BY <1>1, <1>3, <1>5, <1>7 DEF Sound, Coming, Inside, Leaving
<1>9. NoneAdmitted
  BY <1>1, <1>2, <1>3 DEF NoneAdmitted, Inside, BooksTyped
<1>10. QED
  BY <1>1, <1>2, <1>5, <1>6, <1>8, <1>9 DEF Kept, BooksTyped

\* A request that is over leaves nothing behind.
LEMMA RecordKeeps ==
  ASSUME GatewayInv, NEW r \in Requests, RecordEntry(r)
  PROVE  Kept(r) /\ NoneAdmitted
<1>1. BooksTyped
  BY BooksFacts
<1>2. Idle \in RequestType /\ Idle.at = "idle"
  BY DEF Idle, RequestType, Steps, Identities, Statuses
<1>3. /\ req' = [req EXCEPT ![r] = Idle]
      /\ logged' = [logged EXCEPT ![r] = None]
      /\ marks' = [marks EXCEPT ![r] = Unmarked]
      /\ granted' = granted
  BY DEF RecordEntry
<1>4. /\ BooksTyped'
      /\ req'[r] = Idle /\ logged'[r] = None /\ Tries(marks'[r]) = 0
  <2>1. Unmarked \in MarksType /\ Tries(Unmarked) = 0
    BY DEF Unmarked, MarksType, Tries
  <2>2. QED
    BY <1>1, <1>2, <1>3, <2>1 DEF BooksTyped
<1>5. Sound(Idle, None, 0, granted[r], row)
  BY <1>2 DEF Sound, Coming, Inside, Leaving
<1>6. NoneAdmitted
  BY <1>1, <1>2, <1>3 DEF NoneAdmitted, Inside, BooksTyped
<1>7. QED
  BY <1>1, <1>3, <1>4, <1>5, <1>6 DEF Kept, BooksTyped

-----------------------------------------------------------------------------
(* All steps. *)

\* A step of the request r.
RequestStep(r) ==
  \/ \E ask \in Asked : Arrive(r, ask)
  \/ Malformed(r) \/ ReadSettings(r) \/ LookUpAdminKey(r) \/ LookUpToken(r)
  \/ AllowToken(r)
  \/ BeginRun(r) \/ Reject(r) \/ Deny(r) \/ DenyExtract(r) \/ Panic(r)
  \/ At(r, "running") /\ \E answer \in RunStatuses(r) : EndRun(r, answer)
  \/ MarkUsed(r) \/ RecordEntry(r)

\* Each of its steps keeps a request sound, and the load bounded.
LEMMA RequestStepKeeps ==
  ASSUME GatewayInv, NEW r \in Requests, RequestStep(r)
  PROVE  Kept(r) /\ LoadBounded'
<1>1. \A t \in Tokens : usage[t] \in 0..usage[t]
  BY DEF GatewayInv, GatewayTypeOK
<1>2. NoneAdmitted /\ usage' = usage => LoadBounded'
  BY <1>1, NoneAdmittedKeepsLoad
<1>3. ASSUME NEW ask \in Asked, Arrive(r, ask)
      PROVE  Kept(r) /\ LoadBounded'
  BY <1>2, <1>3, ArriveKeeps DEF Arrive, database
<1>4. ASSUME Malformed(r)
      PROVE  Kept(r) /\ LoadBounded'
  <2>1. Kept(r) /\ NoneAdmitted
    <3>1. /\ req[r].at \in Coming /\ req[r].at # "running"
          /\ UNCHANGED <<logged, marks>>
          /\ Answers(r, 400)
      BY <1>4 DEF Malformed, At, Coming
    <3>2. QED
      BY <3>1, AnswerKeeps DEF Statuses
  <2>2. QED
    BY <1>2, <1>4, <2>1 DEF Malformed, database
<1>5. ASSUME ReadSettings(r)
      PROVE  Kept(r) /\ LoadBounded'
  <2>1. req[r].at \in Coming /\ req[r].at # "running"
    BY <1>5 DEF ReadSettings, At, Coming
  <2>2. UNCHANGED <<usage, logged, marks>>
    BY <1>5 DEF ReadSettings, database
  <2>3. CASE Answers(r, 500) \/ Answers(r, 401)
    BY <2>1, <2>2, <2>3, <1>2, AnswerKeeps DEF Statuses
  <2>4. CASE Known(r, "anonymous")
    BY <2>1, <2>2, <2>4, <1>2, KnownKeeps
  <2>5. CASE Goes(r, "admin key")
    BY <2>1, <2>2, <2>5, <1>2, GoesOnKeeps DEF Coming
  <2>6. QED
    BY <1>5, <2>3, <2>4, <2>5 DEF ReadSettings
<1>6. ASSUME LookUpAdminKey(r)
      PROVE  Kept(r) /\ LoadBounded'
  <2>1. req[r].at \in Coming /\ req[r].at # "running"
    BY <1>6 DEF LookUpAdminKey, At, Coming
  <2>2. UNCHANGED <<usage, logged, marks>>
    BY <1>6 DEF LookUpAdminKey, database
  <2>3. CASE Answers(r, 500)
    BY <2>1, <2>2, <2>3, <1>2, AnswerKeeps DEF Statuses
  <2>4. CASE Known(r, AdminKey)
    BY <2>1, <2>2, <2>4, <1>2, KnownKeeps
  <2>5. CASE Goes(r, "token")
    BY <2>1, <2>2, <2>5, <1>2, GoesOnKeeps DEF Coming
  <2>6. QED
    BY <1>6, <2>3, <2>4, <2>5 DEF LookUpAdminKey
<1>7. ASSUME LookUpToken(r)
      PROVE  Kept(r) /\ LoadBounded'
  <2>1. req[r].at \in Coming /\ req[r].at # "running"
    BY <1>7 DEF LookUpToken, At, Coming
  <2>2. UNCHANGED <<usage, logged>> /\ UNCHANGED database
    BY <1>7 DEF LookUpToken, database
  <2>3. CASE Answers(r, 401) /\ UNCHANGED marks
    BY <2>1, <2>2, <2>3, <1>2, AnswerKeeps DEF Statuses
  <2>4. CASE FindsToken(r)
    BY <2>2, <2>4, FindKeeps
  <2>5. QED
    BY <1>7, <2>3, <2>4 DEF LookUpToken, FindsToken
<1>8. ASSUME AllowToken(r)
      PROVE  Kept(r) /\ LoadBounded'
  <2>1. At(r, "rate") /\ UNCHANGED <<usage, logged, marks>>
    BY <1>8 DEF AllowToken, database
  <2>2. CASE Answers(r, 429)
    BY <2>1, <2>2, <1>2, AnswerKeeps DEF Statuses, At, Inside
  <2>3. CASE Goes(r, "handler")
    BY <2>1, <2>3, <1>2, WithinRateKeeps
  <2>4. QED
    BY <1>8, <2>2, <2>3 DEF AllowToken
<1>9. ASSUME Reject(r) \/ Deny(r)
      PROVE  Kept(r) /\ LoadBounded'
  <2>1. At(r, "handler") /\ UNCHANGED <<usage, logged, marks>>
    BY <1>9 DEF Reject, Deny, database
  <2>2. Answers(r, 200) \/ Answers(r, 400) \/ Answers(r, 403)
    BY <1>9 DEF Reject, Deny
  <2>3. Kept(r) /\ NoneAdmitted
    BY <2>1, <2>2, AnswerKeeps DEF Statuses, At, Inside
  <2>4. QED
    BY <1>2, <2>1, <2>3
<1>10. ASSUME Panic(r)
       PROVE  Kept(r) /\ LoadBounded'
  <2>1. req[r].at \in Inside /\ UNCHANGED <<usage, logged, marks>> /\ Answers(r, 0)
    BY <1>10 DEF Panic, database, Inside
  <2>2. Kept(r) /\ NoneAdmitted
    BY <2>1, AnswerKeeps DEF Statuses
  <2>3. QED
    BY <1>2, <2>1, <2>2
<1>11. ASSUME BeginRun(r)
       PROVE  Kept(r) /\ LoadBounded'
  BY <1>2, <1>11, BeginKeeps DEF BeginRun, database
<1>12. ASSUME DenyExtract(r)
       PROVE  Kept(r) /\ LoadBounded'
  BY <1>2, <1>12, DenyExtractKeeps DEF DenyExtract, database
<1>13. ASSUME At(r, "running"), NEW answer \in RunStatuses(r), EndRun(r, answer)
       PROVE  Kept(r) /\ LoadBounded'
  BY <1>13, EndKeeps
<1>14. ASSUME MarkUsed(r)
       PROVE  Kept(r) /\ LoadBounded'
  BY <1>2, <1>14, MarkKeeps DEF MarkUsed, database
<1>15. ASSUME RecordEntry(r)
       PROVE  Kept(r) /\ LoadBounded'
  BY <1>2, <1>15, RecordKeeps DEF RecordEntry, database
<1>16. QED
  BY <1>3, <1>4, <1>5, <1>6, <1>7, <1>8, <1>9, <1>10, <1>11, <1>12, <1>13, <1>14, <1>15
  DEF RequestStep

\* The administrator's change is granted to all who have not been answered.
LEMMA UpdateKeeps ==
  ASSUME GatewayInv, NEW t \in Tokens, NEW a \in Rows, UpdateToken(t, a)
  PROVE  RequestsSound' /\ BooksTyped'
<1>1. /\ row' = [row EXCEPT ![t] = a]
      /\ UNCHANGED <<req, logged, marks>>
      /\ granted' = [r \in Requests |->
           IF req[r].ask # None /\ Cred(r) = t /\ ~Answered(r) /\ a.on
             THEN granted[r] \cup {a} ELSE granted[r]]
  BY DEF UpdateToken
<1>2. ASSUME NEW r \in Requests
      PROVE  Sound(req[r], logged[r], Tries(marks[r]), granted'[r], row')
  <2>1. /\ Sound(req[r], logged[r], Tries(marks[r]), granted[r], row)
        /\ req[r] \in RequestType
    BY BooksFacts
  <2>2. granted[r] \subseteq granted'[r]
    BY <1>1
  <2>3. Identified(req[r], Tries(marks[r]), granted[r]) =>
          Identified(req[r], Tries(marks[r]), granted'[r])
    BY <2>2 DEF Identified
  <2>4. ASSUME req[r].at \in Coming, req[r].ask.cred \in Tokens, row'[req[r].ask.cred].on
        PROVE  row'[req[r].ask.cred] \in granted'[r]
    <3>1. req[r].ask \in Asked /\ req[r].ask # None /\ ~Answered(r)
      BY <2>1, <2>4, NamesDiffer DEF Sound, Coming, Answered
    <3>2. CASE req[r].ask.cred = t
      <4>1. row'[t] = a
        BY <1>1 DEF GatewayInv, GatewayTypeOK
      <4>2. QED
        BY <1>1, <2>4, <3>1, <3>2, <4>1 DEF Cred
    <3>3. CASE req[r].ask.cred # t
      <4>1. row'[req[r].ask.cred] = row[req[r].ask.cred]
        BY <1>1, <2>4, <3>3 DEF GatewayInv, GatewayTypeOK
      <4>2. QED
        BY <2>1, <2>2, <2>4, <4>1 DEF Sound, Coming
    <3>4. QED
      BY <3>2, <3>3
  <2>5. QED
    BY <2>1, <2>3, <2>4 DEF Sound
<1>3. BooksTyped'
  BY <1>1, BooksFacts DEF BooksTyped, GatewayInv, GatewayTypeOK, RequestType, Statuses
<1>4. QED
  BY <1>1, <1>2, <1>3 DEF RequestsSound

\* The rows, the usage and the windows keep their types.
LEMMA WorldStaysTyped ==
  ASSUME GatewayInv, [GatewayNext]_gatewayVars
  PROVE  /\ row' \in [Tokens -> Rows]
         /\ usage' \in [Tokens -> Nat]
         /\ minute' \in [Tokens -> [open : BOOLEAN, count : Nat]]
<1>1. /\ row \in [Tokens -> Rows]
      /\ usage \in [Tokens -> Nat]
      /\ minute \in [Tokens -> [open : BOOLEAN, count : Nat]]
  BY DEF GatewayInv, GatewayTypeOK
<1>2. ASSUME NEW r \in Requests, AllowToken(r)
      PROVE  minute' \in [Tokens -> [open : BOOLEAN, count : Nat]] /\ UNCHANGED <<row, usage>>
  <2>1. req[r].who \in Tokens
    BY <1>2, BooksFacts DEF AllowToken, At, Sound
  <2> DEFINE t == req[r].who
  <2>2. /\ Window(t) \in [open : BOOLEAN, count : Nat]
        /\ [Window(t) EXCEPT !.count = @ + 1] \in [open : BOOLEAN, count : Nat]
    <3>1. minute[t] \in [open : BOOLEAN, count : Nat]
      BY <1>1, <2>1
    <3>2. Window(t) \in [open : BOOLEAN, count : Nat]
      BY <3>1 DEF Window
    <3>3. QED
      BY <3>2
  <2>3. \/ minute' = minute
        \/ minute' = [minute EXCEPT ![t] = Window(t)]
        \/ minute' = [minute EXCEPT ![t] = [Window(t) EXCEPT !.count = @ + 1]]
    BY <1>2 DEF AllowToken
  <2> HIDE DEF t
  <2>4. QED
    BY <1>1, <1>2, <2>2, <2>3 DEF AllowToken, database
<1>3. ASSUME NEW r \in Requests, NEW answer \in RunStatuses(r), EndRun(r, answer)
      PROVE  usage' \in [Tokens -> Nat] /\ UNCHANGED <<row, minute>>
  BY <1>1, <1>3 DEF EndRun
<1>4. ASSUME NEW r \in Requests, RequestStep(r), ~AllowToken(r),
             \A answer \in RunStatuses(r) : ~EndRun(r, answer)
      PROVE  UNCHANGED <<row, usage, minute>>
  BY <1>4 DEF RequestStep, Arrive, Malformed, ReadSettings, LookUpAdminKey, LookUpToken,
    BeginRun, Reject, Deny, DenyExtract, Panic, MarkUsed, RecordEntry, database
<1>5. ASSUME NEW t \in Tokens, NEW a \in Rows, UpdateToken(t, a)
      PROVE  row' \in [Tokens -> Rows] /\ UNCHANGED <<usage, minute>>
  BY <1>1, <1>5 DEF UpdateToken
<1>6. ASSUME MinuteOver
      PROVE  /\ minute' \in [Tokens -> [open : BOOLEAN, count : Nat]]
             /\ UNCHANGED <<row, usage>>
  BY <1>6 DEF MinuteOver, database
<1>7. ASSUME Midnight
      PROVE  usage' \in [Tokens -> Nat] /\ UNCHANGED <<row, minute>>
  BY <1>7 DEF Midnight
<1>8. ASSUME UNCHANGED gatewayVars
      PROVE  UNCHANGED <<row, usage, minute>>
  BY <1>8 DEF gatewayVars
<1>9. QED
  BY <1>1, <1>2, <1>3, <1>4, <1>5, <1>6, <1>7, <1>8 DEF GatewayNext, RequestStep

\* The first state satisfies the invariant.
LEMMA GatewayInitInv == GatewayInit => GatewayInv
<1> SUFFICES ASSUME GatewayInit
             PROVE  GatewayInv
  OBVIOUS
<1>1. Idle \in RequestType /\ Idle.at = "idle"
  BY DEF Idle, RequestType, Steps, Identities, Statuses
<1>2. GatewayTypeOK
  <2>1. req \in [Requests -> RequestType] /\ row \in [Tokens -> Rows]
    BY <1>1, GatewayAssumption DEF GatewayInit
  <2>2. /\ marks \in [Requests -> [made : Nat, lost : Nat]]
        /\ granted \in [Requests -> SUBSET Rows]
    BY DEF GatewayInit, Unmarked
  <2>3. /\ usage \in [Tokens -> Nat]
        /\ minute \in [Tokens -> [open : BOOLEAN, count : Nat]]
        /\ logged \in [Requests -> {"run", "rejected", None}]
    BY DEF GatewayInit
  <2>4. QED
    BY <2>1, <2>2, <2>3 DEF GatewayTypeOK, RequestType, Statuses
<1>3. RequestsSound
  <2>1. ASSUME NEW r \in Requests
        PROVE  Tries(marks[r]) = 0
    BY DEF GatewayInit, Unmarked, Tries
  <2>2. QED
    BY <1>1, <2>1 DEF GatewayInit, RequestsSound, Sound, Coming, Inside, Leaving
<1>4. LoadBounded
  <2> SUFFICES ASSUME NEW t \in Tokens, Daily[t] > 0
               PROVE  usage[t] + Cardinality(Admitted(t, req)) <=
                        Daily[t] - 1 + Cardinality(Requests)
    BY DEF LoadBounded
  <2>1. usage[t] = 0 /\ Daily[t] \in Nat
    BY GatewayAssumption DEF GatewayInit
  <2>2. QED
    BY <2>1, AdmittedFacts
<1>5. QED
  BY <1>2, <1>3, <1>4 DEF GatewayInv

\* Every step keeps it.
LEMMA GatewayStepKeepsInv ==
  ASSUME GatewayInv, [GatewayNext]_gatewayVars
  PROVE  GatewayInv'
<1>1. RequestsSound' /\ BooksTyped' /\ LoadBounded'
  <2>1. ASSUME NEW r \in Requests, RequestStep(r)
        PROVE  RequestsSound' /\ BooksTyped' /\ LoadBounded'
    <3>1. row' = row
      BY <2>1 DEF RequestStep, Arrive, Malformed, ReadSettings, LookUpAdminKey,
        LookUpToken, AllowToken, BeginRun, Reject, Deny, DenyExtract, Panic, EndRun,
        MarkUsed, RecordEntry, database
    <3>2. QED
      BY <2>1, <3>1, RequestStepKeeps, KeptIsSound, SMTT(40) DEF Kept
  <2>2. \A t \in Tokens : usage[t] \in 0..usage[t] /\ 0 \in 0..usage[t]
    BY DEF GatewayInv, GatewayTypeOK
  <2>3. BooksTyped /\ RequestsSound /\ LoadBounded
    BY DEF BooksTyped, GatewayInv, GatewayTypeOK, RequestType, Statuses, MarksType
  <2>4. UNCHANGED req => NoneAdmitted
    BY DEF NoneAdmitted
  <2>5. ASSUME NEW t \in Tokens, NEW a \in Rows, UpdateToken(t, a)
        PROVE  RequestsSound' /\ BooksTyped' /\ LoadBounded'
    <3>1. LoadBounded'
      BY <2>2, <2>4, <2>5, NoneAdmittedKeepsLoad DEF UpdateToken
    <3>2. QED
      BY <2>5, <3>1, UpdateKeeps
  <2>6. CASE MinuteOver \/ UNCHANGED gatewayVars
    <3>1. UNCHANGED <<row, usage, req, logged, marks, granted>>
      BY <2>6 DEF MinuteOver, gatewayVars, database
    <3>2. QED
      BY <2>3, <3>1 DEF BooksTyped, RequestsSound, LoadBounded
  <2>7. CASE Midnight
    <3>1. /\ UNCHANGED <<row, req, logged, marks, granted>>
          /\ \A t \in Tokens : usage'[t] \in 0..usage[t]
      BY <2>2, <2>7 DEF Midnight
    <3>2. LoadBounded'
      BY <2>4, <3>1, NoneAdmittedKeepsLoad
    <3>3. QED
      BY <2>3, <3>1, <3>2 DEF BooksTyped, RequestsSound
  <2>8. QED
    BY <2>1, <2>5, <2>6, <2>7 DEF GatewayNext, RequestStep
<1>2. GatewayTypeOK'
  BY <1>1, WorldStaysTyped DEF GatewayTypeOK, BooksTyped, RequestType, Statuses, MarksType
<1>3. QED
  BY <1>1, <1>2 DEF GatewayInv

\* The invariant holds of every reachable state.
LEMMA GatewayInvCorrect == GatewaySpec => []GatewayInv
BY GatewayInitInv, GatewayStepKeepsInv, PTL DEF GatewaySpec

-----------------------------------------------------------------------------
(* The theorems. *)

\* Every variable of the public routes keeps its type.
THEOREM GatewayTypeCorrect == GatewaySpec => []GatewayTypeOK
BY GatewayInvCorrect, PTL DEF GatewayInv

\* However many requests of a token are let in before the first of them is counted,
\* what is counted exceeds the daily quota by no more than may run at once.
THEOREM OvershootCorrect == GatewaySpec => []OvershootBounded
<1>1. GatewayInv => OvershootBounded
  <2> SUFFICES ASSUME GatewayInv, NEW t \in Tokens, Daily[t] > 0
               PROVE  usage[t] <= Daily[t] - 1 + Cardinality(Requests)
    BY DEF OvershootBounded
  <2>1. usage[t] + Cardinality(Admitted(t, req)) <= Daily[t] - 1 + Cardinality(Requests)
    BY DEF GatewayInv, LoadBounded
  <2>2. usage[t] \in Nat /\ Daily[t] \in Nat
    BY GatewayAssumption DEF GatewayInv, GatewayTypeOK
  <2>3. QED
    BY <2>1, <2>2, AdmittedFacts
<1>2. QED
  BY <1>1, GatewayInvCorrect, PTL

\* Whatever the administrator changes meanwhile, a request of a token runs with the
\* tool and the providers that one single row permits, a row that was enabled for the
\* token at some moment since the request came in.
THEOREM OneRowCorrect == GatewaySpec => []AdmittedByOneRow
<1>1. GatewayInv => AdmittedByOneRow
  <2> SUFFICES ASSUME GatewayInv, NEW r \in Requests,
                      At(r, "running"), req[r].who \in Tokens
               PROVE  \E a \in granted[r] :
                        /\ req[r].ask.tool \in a.scopes
                        /\ a.allowed # {} => RunsWith(r) # {} /\ RunsWith(r) \subseteq a.allowed
    BY DEF AdmittedByOneRow
  <2> DEFINE a == req[r].row
  <2>1. Identified(req[r], Tries(marks[r]), granted[r]) /\ Permitted(req[r])
    BY BooksFacts DEF At, Sound, Inside
  <2>2. a \in granted[r] /\ a # None
    BY <2>1, NamesDiffer, BooksFacts DEF Identified
  <2>3. /\ req[r].ask.tool \in a.scopes
        /\ TokenProviders(a, req[r].ask.tool, req[r].ask.names) # None
    BY <2>1, <2>2 DEF Permitted, HasScope
  <2>4. RunsWith(r) = TokenProviders(a, req[r].ask.tool, req[r].ask.names)
    BY <2>2 DEF RunsWith
  <2>5. a.allowed # {} => RunsWith(r) # {} /\ RunsWith(r) \subseteq a.allowed
    BY <2>3, <2>4 DEF TokenProviders
  <2>6. QED
    BY <2>2, <2>3, <2>5
<1>2. QED
  BY <1>1, GatewayInvCorrect, PTL

\* Whichever way a request took, panics and failing databases included, its entry in
\* the user request log agrees with its execution log, and the token it names was
\* marked once, unless that mark was lost to the database, or, if the entry shows a
\* denied extraction, not at all.
THEOREM EntriesCorrect == GatewaySpec => EntriesMatch
<1>1. ASSUME GatewayInv, NEW r \in Requests, RecordEntry(r)
      PROVE  EntryMatches(r)
  <2>1. /\ req[r] \in RequestType /\ req[r].at = "marked"
        /\ Sound(req[r], logged[r], Tries(marks[r]), granted[r], row)
    BY <1>1, BooksFacts DEF RecordEntry, At
  <2>2. /\ Accounted(req[r], logged[r])
        /\ Tries(marks[r]) = IF req[r].who \in Tokens /\ ~req[r].exempt THEN 1 ELSE 0
    BY <2>1 DEF Sound, Leaving
  <2>3. /\ Entry(r).auth = "api_token" <=> req[r].who \in Tokens
        /\ Entry(r).status = req[r].status
        /\ Entry(r).execution = req[r].execution
    BY <2>1, NamesDiffer DEF Entry, RequestType, Identities
  <2>4. QED
    BY <2>2, <2>3 DEF EntryMatches, Accounted, Tries
<1>2. GatewayInv /\ [GatewayNext]_gatewayVars =>
        [\A r \in Requests : RecordEntry(r) => EntryMatches(r)]_gatewayVars
  BY <1>1
<1>3. QED
  BY <1>2, GatewayInvCorrect, PTL DEF GatewaySpec, EntriesMatch

=============================================================================
