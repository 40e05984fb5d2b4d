------------------------------ MODULE ListProofs ------------------------------
(***************************************************************************)
(* What the operators of Lists return, for sequences of any length.        *)
(*                                                                         *)
(* Induction is over sets of positions: Climb says that a set which holds  *)
(* 0 and with each position the next holds them all, and LoopExists that   *)
(* a loop over positions has a function of its intermediate results.       *)
(***************************************************************************)
EXTENDS Lists, FiniteSetTheorems, WellFoundedInduction, NaturalsInduction,
        SequenceTheorems, TLAPS

-----------------------------------------------------------------------------
(* Induction. *)

\* A set of natural numbers has a least element.
LEMMA LeastExists ==
  ASSUME NEW S \in SUBSET Nat, S # {}
  PROVE  \E m \in S : \A n \in S : m <= n
<1>1. PICK m \in S : \A n \in S : <<n, m>> \notin OpToRel(<, Nat)
  BY NatLessThanWellFounded, WFMin
<1>2. ASSUME NEW n \in S PROVE m <= n
  <2>1. n \in Nat /\ m \in Nat /\ ~(n < m)
    BY <1>1 DEF OpToRel
  <2>2. QED
    BY <2>1
<1>3. QED
  BY <1>2

\* Positions that can be climbed one by one can all be reached.
LEMMA Climb ==
  ASSUME NEW L \in Nat, NEW Good, 0 \in Good,
         \A n \in 1..L : n - 1 \in Good => n \in Good
  PROVE  \A n \in 0..L : n \in Good
<1> DEFINE Bad == {n \in 0..L : n \notin Good}
<1>1. SUFFICES ASSUME Bad # {} PROVE FALSE
  OBVIOUS
<1>2. Bad \in SUBSET Nat
  OBVIOUS
<1>3. PICK m \in Bad : \A n \in Bad : m <= n
  <2> HIDE DEF Bad
  <2>1. QED
    BY <1>1, <1>2, LeastExists
<1>4. m \in 1..L /\ m - 1 \in 0..L /\ ~(m <= m - 1)
  BY <1>3
<1>5. m - 1 \notin Bad
  <2> HIDE DEF Bad
  <2>1. QED
    BY <1>3, <1>4
<1>6. QED
  BY <1>3, <1>4, <1>5

\* The intermediate results of a loop: turn n makes the next of the one before.
IsLoop(g, L, X, start, turn) ==
  /\ g \in [0..L -> X] /\ g[0] = start
  /\ \A n \in 1..L : g[n] = turn[n][g[n - 1]]

\* A loop whose turns stay in X has them.
LEMMA LoopExists ==
  ASSUME NEW L \in Nat, NEW X, NEW start \in X, NEW turn \in [1..L -> [X -> X]]
  PROVE  \E g : IsLoop(g, L, X, start, turn)
<1> DEFINE Body(g, m) == [n \in 0..m |-> IF n = 0 THEN start ELSE turn[n][g[n - 1]]]
           Good == {m \in Nat : \E g \in [0..m -> X] : g = Body(g, m)}
<1>1. 0 \in Good
  <2> DEFINE g == [n \in 0..0 |-> start]
  <2>1. g \in [0..0 -> X] /\ g = Body(g, 0)
    OBVIOUS
  <2>2. QED
    BY <2>1
<1>2. ASSUME NEW m \in 1..L, m - 1 \in Good PROVE m \in Good
  <2>1. PICK g \in [0..(m - 1) -> X] : g = Body(g, m - 1)
    BY <1>2
  <2> DEFINE h == [n \in 0..m |-> IF n < m THEN g[n] ELSE turn[m][g[m - 1]]]
  <2>2. g[m - 1] \in X
    BY <2>1
  <2>3. h \in [0..m -> X]
    <3>1. ASSUME NEW n \in 0..m PROVE (IF n < m THEN g[n] ELSE turn[m][g[m - 1]]) \in X
      BY <2>1, <2>2
    <3>2. QED
      BY <3>1
  <2>4. ASSUME NEW n \in 0..m PROVE h[n] = Body(h, m)[n]
    <3>1. CASE n < m
      <4>1. h[n] = g[n] /\ n \in 0..(m - 1)
        BY <3>1
      <4>2. n # 0 => h[n - 1] = g[n - 1]
        BY <3>1
      <4>3. g[n] = Body(g, m - 1)[n]
        BY <2>1
      <4>4. QED
        BY <4>1, <4>2, <4>3
    <3>2. CASE n = m
      <4>1. h[m - 1] = g[m - 1] /\ m # 0
        OBVIOUS
      <4>2. QED
        BY <3>2, <4>1
    <3>3. QED
      BY <3>1, <3>2
  <2>5. h = Body(h, m)
    BY <2>4
  <2>6. m \in Nat /\ \E f \in [0..m -> X] : f = Body(f, m)
    <3> HIDE DEF h, Body
    <3>1. QED
      BY <2>3, <2>5
  <2>7. QED
    BY <2>6
<1>3. \A m \in 0..L : m \in Good
  <2> HIDE DEF Good
  <2>1. QED
    BY <1>1, <1>2, Climb
<1>4. PICK g \in [0..L -> X] : g = Body(g, L)
  BY <1>3
<1>5. g[0] = start /\ \A n \in 1..L : g[n] = turn[n][g[n - 1]]
  <2>1. ASSUME NEW n \in 0..L PROVE g[n] = IF n = 0 THEN start ELSE turn[n][g[n - 1]]
    BY <1>4
  <2>2. 0 \in 0..L /\ \A n \in 1..L : n \in 0..L /\ n # 0
    OBVIOUS
  <2>3. QED
    BY <2>1, <2>2
<1>6. QED
  BY <1>5 DEF IsLoop

\* A finite set of integers that has an element has a greatest.
LEMMA GreatestExists ==
  ASSUME NEW S \in SUBSET Int, IsFiniteSet(S), S # {}
  PROVE  \E m \in S : \A n \in S : n <= m
<1> DEFINE Bounds == {n \in Nat : \A X \in SUBSET S :
                        IsFiniteSet(X) /\ X # {} /\ Cardinality(X) = n
                          => \E m \in X : \A k \in X : k <= m}
<1>1. SUFFICES Nat \subseteq Bounds
  BY FS_CardinalityType
<1>2. SUFFICES ASSUME Nat \ Bounds # {} PROVE FALSE
  OBVIOUS
<1>3. PICK n \in Nat \ Bounds : \A k \in Nat \ Bounds : n <= k
  BY <1>2, LeastExists
<1>4. PICK X \in SUBSET S : /\ IsFiniteSet(X) /\ X # {} /\ Cardinality(X) = n
                            /\ ~\E m \in X : \A k \in X : k <= m
  BY <1>3
<1>5. PICK x \in X : TRUE
  BY <1>4
<1> DEFINE Y == X \ {x}
<1>6. IsFiniteSet(Y) /\ Cardinality(Y) = n - 1 /\ Y \in SUBSET S
  BY <1>4, <1>5, FS_RemoveElement
<1>7. n - 1 \in Bounds
  <2>1. n - 1 \in Nat
    BY <1>6, FS_CardinalityType
  <2>2. QED
    BY <1>3, <2>1
<1>8. CASE Y = {}
  BY <1>4, <1>5, <1>8
<1>9. CASE Y # {}
  <2>1. PICK m \in Y : \A k \in Y : k <= m
    BY <1>6, <1>7, <1>9
  <2>2. x \in Int /\ m \in Int /\ m \in X /\ X \subseteq Int
    BY <1>4, <1>5
  <2>3. CASE x <= m
    BY <1>4, <2>1, <2>2, <2>3
  <2>4. CASE m < x
    <3>1. \A k \in X : k <= x
      BY <2>1, <2>2, <2>4
    <3>2. QED
      BY <1>4, <1>5, <3>1
  <2>5. QED
    BY <2>2, <2>3, <2>4
<1>10. QED
  BY <1>8, <1>9

\* A sequence of numbers that rises all the way.
Rising(h) == \A m, n \in DOMAIN h : m < n => h[m] < h[n]

\* A rising sequence of numbers is determined by the numbers in it.
LEMMA RisingUnique ==
  ASSUME NEW M \in Nat, NEW N \in Nat,
         NEW g \in [1..M -> Nat], NEW h \in [1..N -> Nat], Rising(g), Rising(h),
         Range(g) = Range(h)
  PROVE  M = N /\ g = h
<1>1. ASSUME NEW m \in 1..M PROVE \E n \in 1..N : g[m] = h[n]
  BY DEF Range
<1>2. ASSUME NEW n \in 1..N PROVE \E m \in 1..M : g[m] = h[n]
  BY DEF Range
<1> DEFINE Apart == {n \in Nat : n \in 1..M /\ n \in 1..N /\ g[n] # h[n]}
<1>3. Apart = {}
  <2> SUFFICES ASSUME Apart # {} PROVE FALSE
    OBVIOUS
  <2>1. PICK n \in Apart : \A k \in Apart : n <= k
    <3>1. Apart \in SUBSET Nat
      OBVIOUS
    <3> HIDE DEF Apart
    <3>2. QED
      BY <3>1, LeastExists
  <2>2. n \in 1..M /\ n \in 1..N /\ g[n] # h[n] /\ g[n] \in Nat /\ h[n] \in Nat /\ n \in Int
    BY <2>1
  <2>3. ASSUME NEW k \in 1..M, k < n PROVE k \in 1..N /\ g[k] = h[k]
    <3>1. k \notin Apart /\ k \in 1..N /\ k \in Nat
      BY <2>1, <2>2, <2>3
    <3>2. QED
      BY <3>1
  <2> HIDE DEF Apart
  <2>4. CASE g[n] < h[n]
    <3>1. PICK k \in 1..N : g[n] = h[k]
      BY <1>1, <2>2
    <3>2. k # n /\ ~(n < k)
      BY <2>2, <2>4, <3>1 DEF Rising
    <3>3. k < n /\ k \in 1..M
      BY <2>2, <3>2
    <3>4. g[k] = h[k] /\ g[k] < g[n]
      BY <2>2, <2>3, <3>3 DEF Rising
    <3>5. QED
      BY <2>2, <3>1, <3>4
  <2>5. CASE h[n] < g[n]
    <3>1. PICK k \in 1..M : g[k] = h[n]
      BY <1>2, <2>2
    <3>2. k # n /\ ~(n < k)
      BY <2>2, <2>5, <3>1 DEF Rising
    <3>3. k < n /\ k \in 1..N
      BY <2>2, <3>2
    <3>4. g[k] = h[k] /\ h[k] < h[n]
      BY <2>2, <2>3, <3>3 DEF Rising
    <3>5. QED
      BY <2>2, <3>1, <3>4
  <2>6. QED
    BY <2>2, <2>4, <2>5
<1>4. ASSUME NEW n \in 1..M, n \in 1..N PROVE g[n] = h[n]
  <2>1. n \in Nat
    OBVIOUS
  <2>2. QED
    BY <1>3, <1>4, <2>1
<1> HIDE DEF Apart
<1>5. ~(M < N)
  <2> SUFFICES ASSUME M < N PROVE FALSE
    OBVIOUS
  <2>1. PICK m \in 1..M : g[m] = h[M + 1]
    BY <1>2
  <2>2. h[m] = h[M + 1] /\ m < M + 1 /\ m \in 1..N /\ M + 1 \in 1..N
    BY <1>4, <2>1
  <2>3. QED
    BY <2>2 DEF Rising
<1>6. ~(N < M)
  <2> SUFFICES ASSUME N < M PROVE FALSE
    OBVIOUS
  <2>1. PICK n \in 1..N : g[N + 1] = h[n]
    BY <1>1
  <2>2. g[n] = g[N + 1] /\ n < N + 1 /\ n \in 1..M /\ N + 1 \in 1..M
    BY <1>4, <2>1
  <2>3. QED
    BY <2>2 DEF Rising
<1>7. M = N
  BY <1>5, <1>6
<1>8. QED
  BY <1>4, <1>7

-----------------------------------------------------------------------------
(* Among. *)

\* The loop of Among, turn by turn.
AmongTurns(kept, E, s, S) ==
  /\ kept \in [0..Len(s) -> Seq(E)]
  /\ Among(s, S) = kept[Len(s)]
  /\ kept[0] = <<>>
  /\ \A n \in 1..Len(s) :
       kept[n] = IF s[n] \in S THEN Append(kept[n - 1], s[n]) ELSE kept[n - 1]

\* There is a loop as the definition of Among describes.
LEMMA AmongLoop ==
  ASSUME NEW E, NEW s \in Seq(E), NEW S
  PROVE  \E kept : AmongTurns(kept, E, s, S)
<1> DEFINE L == Len(s)
           Body(g) == [n \in 0..L |-> IF n = 0 THEN <<>> ELSE
                                         IF s[n] \in S THEN Append(g[n - 1], s[n]) ELSE g[n - 1]]
           turn == [n \in 1..L |-> [before \in Seq(E) |->
                                         IF s[n] \in S THEN Append(before, s[n]) ELSE before]]
           kept == CHOOSE g : g = Body(g)
<1>1. L \in Nat
  OBVIOUS
<1>2. <<>> \in Seq(E)
  OBVIOUS
<1>3. ASSUME NEW n \in 1..L, NEW before \in Seq(E)
      PROVE  (IF s[n] \in S THEN Append(before, s[n]) ELSE before) \in Seq(E)
  OBVIOUS
<1>4. \E g : g = Body(g)
  <2>1. turn \in [1..L -> [Seq(E) -> Seq(E)]]
    <3> HIDE DEF L
    <3>1. QED
      BY <1>3
  <2>2. PICK g \in [0..L -> Seq(E)] :
          g[0] = <<>> /\ \A n \in 1..L : g[n] = turn[n][g[n - 1]]
    <3> HIDE DEF turn, L
    <3>1. \E g : IsLoop(g, L, Seq(E), <<>>, turn)
      BY <1>1, <1>2, <2>1, LoopExists
    <3>2. QED
      BY <3>1 DEF IsLoop
  <2>3. ASSUME NEW n \in 0..L PROVE g[n] = Body(g)[n]
    <3>1. CASE n = 0
      BY <2>2, <3>1
    <3>2. CASE n # 0
      <4>1. n \in 1..L /\ n - 1 \in 0..L
        BY <1>1, <3>2
      <4>2. g[n - 1] \in Seq(E) /\ g[n] = turn[n][g[n - 1]]
        <5> HIDE DEF turn, L
        <5>1. QED
          BY <2>2, <3>2, <4>1
      <4>3. turn[n][g[n - 1]] = IF s[n] \in S THEN Append(g[n - 1], s[n]) ELSE g[n - 1]
        <5> HIDE DEF L
        <5>1. QED
          BY <4>1, <4>2
      <4>4. QED
        BY <3>2, <4>2, <4>3
    <3>3. QED
      BY <3>1, <3>2
  <2>4. g = Body(g)
    BY <2>2, <2>3, SMTT(40)
  <2>5. QED
    BY <2>4
<1>5. kept = Body(kept)
  BY <1>4
<1>6. Among(s, S) = kept[L]
  BY DEF Among
<1> HIDE DEF kept
<1>7. kept[0] = <<>>
  BY <1>1, <1>5
<1>8. ASSUME NEW n \in 1..L
      PROVE  kept[n] = IF s[n] \in S THEN Append(kept[n - 1], s[n]) ELSE kept[n - 1]
  <2>1. n \in 0..L /\ n # 0
    BY <1>1
  <2>2. QED
    BY <1>5, <2>1
<1>9. \A n \in 0..L : kept[n] \in Seq(E)
  <2> DEFINE Good == {n \in 0..L : kept[n] \in Seq(E)}
  <2>1. 0 \in Good
    <3>1. 0 \in 0..L
      BY <1>1
    <3>2. QED
      BY <1>2, <1>7, <3>1
  <2>2. ASSUME NEW n \in 1..L, n - 1 \in Good PROVE n \in Good
    <3>1. n \in 0..L /\ kept[n - 1] \in Seq(E)
      BY <1>1, <2>2
    <3> HIDE DEF L
    <3>2. kept[n] \in Seq(E)
      BY <1>3, <1>8, <3>1
    <3>3. QED
      BY <3>1, <3>2
  <2>3. \A n \in 0..L : n \in Good
    <3> HIDE DEF Good
    <3>1. QED
      BY <1>1, <2>1, <2>2, Climb
  <2>4. QED
    BY <2>3
<1>10. kept \in [0..L -> Seq(E)]
  <2>1. kept = [n \in 0..L |-> kept[n]]
    BY <1>5
  <2>2. QED
    BY <1>9, <2>1
<1>11. QED
  BY <1>6, <1>7, <1>8, <1>10 DEF AmongTurns

\* t is what s holds in S, at the places h of s, in their order.
Picks(h, t, s, S) ==
  /\ h \in [1..Len(t) -> 1..Len(s)] /\ Rising(h)
  /\ \A n \in 1..Len(t) : t[n] = s[h[n]]
  /\ Range(h) = {i \in 1..Len(s) : s[i] \in S}

\* Among is a sequence of what s holds in S, no longer than s.
LEMMA AmongPicks ==
  ASSUME NEW E, NEW s \in Seq(E), NEW S
  PROVE  /\ Among(s, S) \in Seq(E) /\ Len(Among(s, S)) <= Len(s)
         /\ \E h : Picks(h, Among(s, S), s, S)
<1>1. PICK kept : AmongTurns(kept, E, s, S)
  BY AmongLoop
<1> DEFINE L == Len(s)
           PicksTo(h, n) ==
             /\ h \in [1..Len(kept[n]) -> 1..n] /\ Rising(h)
             /\ \A k \in 1..Len(kept[n]) : kept[n][k] = s[h[k]]
             /\ \A k \in 1..Len(kept[n]) : s[h[k]] \in S
             /\ \A i \in 1..n : s[i] \in S => \E k \in 1..Len(kept[n]) : h[k] = i
           Good == {n \in 0..L : Len(kept[n]) <= n /\ \E h : PicksTo(h, n)}
<1>2. /\ L \in Nat /\ kept \in [0..L -> Seq(E)] /\ kept[0] = <<>> /\ Among(s, S) = kept[L]
      /\ \A n \in 1..L :
           kept[n] = IF s[n] \in S THEN Append(kept[n - 1], s[n]) ELSE kept[n - 1]
  BY <1>1 DEF AmongTurns
<1>3. 0 \in Good
  <2>1. PicksTo(<<>>, 0)
    BY <1>2 DEF Rising
  <2>2. 0 \in 0..L /\ Len(kept[0]) <= 0
    BY <1>2
  <2>3. QED
    BY <2>1, <2>2
<1>4. ASSUME NEW n \in 1..L, n - 1 \in Good PROVE n \in Good
  <2>1. n \in 0..L /\ n - 1 \in 0..L /\ n \in Nat \ {0} /\ s[n] \in E
    BY <1>2
  <2>10. kept[n - 1] \in Seq(E)
    BY <1>2, <2>1
  <2>2. PICK h : PicksTo(h, n - 1)
    BY <1>4
  <2> DEFINE len == Len(kept[n - 1])
  <2>3. len \in Nat /\ len <= n - 1
    BY <1>4, <2>10
  <2>4. CASE s[n] \in S
    <3> DEFINE new == [k \in 1..(len + 1) |-> IF k <= len THEN h[k] ELSE n]
    <3>0. kept[n] = Append(kept[n - 1], s[n])
      BY <1>2, <2>4
    <3>1. Len(kept[n]) = len + 1
      BY <2>1, <2>10, <3>0
    <3>2. /\ kept[n][len + 1] = s[n]
          /\ \A k \in 1..len : kept[n][k] = kept[n - 1][k]
      BY <2>1, <2>10, <3>0
    <3>3. new \in [1..(len + 1) -> 1..n]
      <4>1. ASSUME NEW k \in 1..(len + 1) PROVE (IF k <= len THEN h[k] ELSE n) \in 1..n
        BY <2>2, <2>3
      <4>2. QED
        BY <4>1
    <3>4. /\ \A k \in 1..len : new[k] = h[k] /\ h[k] \in 1..(n - 1) /\ h[k] < n
          /\ new[len + 1] = n
      <4>1. ASSUME NEW k \in 1..len PROVE new[k] = h[k] /\ h[k] \in 1..(n - 1) /\ h[k] < n
        <5>1. k \in 1..(len + 1) /\ k <= len
          BY <2>3
        <5>2. h[k] \in 1..(n - 1)
          BY <2>2
        <5>3. QED
          BY <2>1, <5>1, <5>2
      <4>2. len + 1 \in 1..(len + 1) /\ ~(len + 1 <= len)
        BY <2>3
      <4>3. QED
        BY <4>1, <4>2
    <3>5. Rising(new)
      <4> SUFFICES ASSUME NEW k \in 1..(len + 1), NEW m \in 1..(len + 1), k < m
                   PROVE  new[k] < new[m]
        BY DEF Rising
      <4>1. CASE m = len + 1
        <5>1. k \in 1..len
          BY <2>3, <4>1
        <5> HIDE DEF new
        <5>2. QED
          BY <3>4, <4>1, <5>1
      <4>2. CASE m # len + 1
        <5>1. m \in 1..len /\ k \in 1..len
          BY <2>3, <4>2
        <5>2. QED
          BY <2>2, <3>4, <5>1 DEF Rising
      <4>3. QED
        BY <4>1, <4>2
    <3> HIDE DEF new
    <3>6. ASSUME NEW k \in 1..(len + 1) PROVE kept[n][k] = s[new[k]] /\ s[new[k]] \in S
      <4>1. CASE k = len + 1
        BY <2>4, <3>2, <3>4, <4>1
      <4>2. CASE k # len + 1
        <5>1. k \in 1..len
          BY <2>3, <4>2
        <5>2. QED
          BY <2>2, <3>2, <3>4, <5>1
      <4>3. QED
        BY <4>1, <4>2
    <3>7. ASSUME NEW i \in 1..n, s[i] \in S PROVE \E k \in 1..(len + 1) : new[k] = i
      <4>1. CASE i = n
        BY <2>3, <3>4, <4>1
      <4>2. CASE i # n
        <5>1. PICK k \in 1..len : h[k] = i
          BY <2>2, <3>7, <4>2
        <5>2. k \in 1..(len + 1) /\ new[k] = i
          BY <2>3, <3>4, <5>1
        <5>3. QED
          BY <5>2
      <4>3. QED
        BY <4>1, <4>2
    <3>8. PicksTo(new, n)
      BY <3>1, <3>3, <3>5, <3>6, <3>7
    <3>9. Len(kept[n]) <= n
      BY <2>1, <2>3, <3>1
    <3> HIDE DEF PicksTo
    <3>10. QED
      BY <2>1, <3>8, <3>9
  <2>5. CASE s[n] \notin S
    <3>1. kept[n] = kept[n - 1]
      BY <1>2, <2>5
    <3>2. h \in [1..Len(kept[n]) -> 1..n]
      <4>1. ASSUME NEW k \in 1..Len(kept[n]) PROVE h[k] \in 1..n
        <5>1. h[k] \in 1..(n - 1)
          BY <2>2, <3>1
        <5>2. QED
          BY <2>1, <5>1
      <4>2. QED
        BY <2>2, <3>1, <4>1
    <3>3. ASSUME NEW i \in 1..n, s[i] \in S PROVE \E k \in 1..Len(kept[n]) : h[k] = i
      <4>1. i \in 1..(n - 1)
        BY <2>5, <3>3
      <4>2. QED
        BY <2>2, <3>1, <3>3, <4>1
    <3>4. PicksTo(h, n)
      BY <2>2, <3>1, <3>2, <3>3
    <3>5. Len(kept[n]) <= n
      BY <2>1, <2>3, <3>1
    <3> HIDE DEF PicksTo
    <3>6. QED
      BY <2>1, <3>4, <3>5
  <2>6. QED
    BY <2>4, <2>5
<1>5. L \in Good
  <2> HIDE DEF Good, L
  <2>1. \A n \in 0..L : n \in Good
    BY <1>2, <1>3, <1>4, Climb
  <2>2. QED
    BY <1>2, <2>1
<1>6. PICK h : PicksTo(h, L)
  BY <1>5
<1>7. Among(s, S) = kept[L] /\ kept[L] \in Seq(E) /\ Len(kept[L]) <= Len(s)
  BY <1>2, <1>5
<1>8. Range(h) = {i \in 1..Len(s) : s[i] \in S}
  BY <1>6 DEF Range
<1>9. Picks(h, Among(s, S), s, S)
  BY <1>6, <1>7, <1>8 DEF Picks
<1>10. QED
  BY <1>7, <1>9

\* There is one sequence of what s holds in S.
LEMMA PicksUnique ==
  ASSUME NEW E, NEW s \in Seq(E), NEW S, NEW t \in Seq(E), NEW u \in Seq(E),
         NEW g, NEW h, Picks(g, t, s, S), Picks(h, u, s, S)
  PROVE  t = u
<1>1. /\ g \in [1..Len(t) -> Nat] /\ h \in [1..Len(u) -> Nat]
      /\ Rising(g) /\ Rising(h) /\ Range(g) = Range(h)
  BY DEF Picks
<1>2. Len(t) = Len(u) /\ g = h
  <2>1. Len(t) \in Nat /\ Len(u) \in Nat
    OBVIOUS
  <2>2. QED
    BY <1>1, <2>1, RisingUnique
<1>3. \A n \in 1..Len(t) : t[n] = u[n]
  BY <1>2 DEF Picks
<1>4. QED
  BY <1>2, <1>3, SeqEqual

\* What S holds of other elements makes no difference.
LEMMA AmongSame ==
  ASSUME NEW E, NEW s \in Seq(E), NEW S, NEW T,
         \A i \in 1..Len(s) : s[i] \in S <=> s[i] \in T
  PROVE  Among(s, S) = Among(s, T)
<1>1. PICK g : Picks(g, Among(s, S), s, S)
  BY AmongPicks
<1>2. PICK h : Picks(h, Among(s, T), s, T)
  BY AmongPicks
<1>3. {i \in 1..Len(s) : s[i] \in S} = {i \in 1..Len(s) : s[i] \in T}
  OBVIOUS
<1>4. Picks(h, Among(s, T), s, S)
  BY <1>2, <1>3 DEF Picks
<1>5. Among(s, S) \in Seq(E) /\ Among(s, T) \in Seq(E)
  BY AmongPicks
<1>6. QED
  BY <1>1, <1>4, <1>5, PicksUnique

\* The elements of Among are those of s that are in S, no oftener than in s.
LEMMA AmongElements ==
  ASSUME NEW E, NEW s \in Seq(E), NEW S
  PROVE  /\ ToSet(Among(s, S)) = ToSet(s) \cap S
         /\ \A n \in 1..Len(Among(s, S)) : Among(s, S)[n] \in S
         /\ IsInjective(s) => IsInjective(Among(s, S))
<1> DEFINE t == Among(s, S)
<1>1. t \in Seq(E)
  BY AmongPicks
<1>2. PICK h : Picks(h, t, s, S)
  BY AmongPicks
<1> HIDE DEF t
<1>3. ASSUME NEW n \in 1..Len(t)
      PROVE  h[n] \in 1..Len(s) /\ t[n] = s[h[n]] /\ s[h[n]] \in S
  <2>1. h[n] \in Range(h)
    BY <1>2 DEF Picks, Range
  <2>2. QED
    BY <1>2, <2>1 DEF Picks
<1>4. ASSUME NEW i \in 1..Len(s), s[i] \in S
      PROVE  \E n \in 1..Len(t) : t[n] = s[i]
  <2>1. i \in Range(h)
    BY <1>2, <1>4 DEF Picks
  <2>2. PICK n \in 1..Len(t) : h[n] = i
    BY <1>2, <2>1 DEF Picks, Range
  <2>3. QED
    BY <1>3, <2>2
<1>5. ToSet(t) = ToSet(s) \cap S
  <2>1. ASSUME NEW x \in ToSet(t) PROVE x \in ToSet(s) \cap S
    <3>1. PICK n \in 1..Len(t) : x = t[n]
      BY <1>1 DEF ToSet
    <3>2. QED
      BY <1>3, <3>1 DEF ToSet
  <2>2. ASSUME NEW x \in ToSet(s), x \in S PROVE x \in ToSet(t)
    <3>1. PICK i \in 1..Len(s) : x = s[i]
      BY DEF ToSet
    <3>2. PICK n \in 1..Len(t) : t[n] = x
      BY <1>4, <2>2, <3>1
    <3>3. QED
      BY <1>1, <3>2 DEF ToSet
  <2>3. QED
    BY <2>1, <2>2
<1>6. ASSUME IsInjective(s) PROVE IsInjective(t)
  <2> SUFFICES ASSUME NEW m \in 1..Len(t), NEW n \in 1..Len(t), t[m] = t[n]
               PROVE  m = n
    BY <1>1 DEF IsInjective
  <2>1. h[m] = h[n] /\ h[m] \in Int
    BY <1>3, <1>6 DEF IsInjective
  <2>2. ~(m < n) /\ ~(n < m)
    BY <1>2, <2>1 DEF Picks, Rising
  <2>3. QED
    BY <2>2
<1>7. QED
  BY <1>3, <1>5, <1>6 DEF t

-----------------------------------------------------------------------------
(* Distinct. *)

\* The loop of Distinct, turn by turn.
DistinctTurns(kept, E, s) ==
  /\ kept \in [0..Len(s) -> Seq(E)]
  /\ Distinct(s) = kept[Len(s)]
  /\ kept[0] = <<>>
  /\ \A n \in 1..Len(s) :
       kept[n] = IF s[n] \in ToSet(kept[n - 1]) THEN kept[n - 1] ELSE Append(kept[n - 1], s[n])

\* There is a loop as the definition of Distinct describes.
LEMMA DistinctLoop ==
  ASSUME NEW E, NEW s \in Seq(E)
  PROVE  \E kept : DistinctTurns(kept, E, s)
<1> DEFINE L == Len(s)
           Body(g) == [n \in 0..L |-> IF n = 0 THEN <<>> ELSE
                                         IF s[n] \in ToSet(g[n - 1]) THEN g[n - 1] ELSE Append(g[n - 1], s[n])]
           turn == [n \in 1..L |-> [before \in Seq(E) |->
                                         IF s[n] \in ToSet(before) THEN before ELSE Append(before, s[n])]]
           kept == CHOOSE g : g = Body(g)
<1>1. L \in Nat
  OBVIOUS
<1>2. <<>> \in Seq(E)
  OBVIOUS
<1>3. ASSUME NEW n \in 1..L, NEW before \in Seq(E)
      PROVE  (IF s[n] \in ToSet(before) THEN before ELSE Append(before, s[n])) \in Seq(E)
  OBVIOUS
<1>4. \E g : g = Body(g)
  <2>1. turn \in [1..L -> [Seq(E) -> Seq(E)]]
    <3> HIDE DEF L
    <3>1. QED
      BY <1>3
  <2>2. PICK g \in [0..L -> Seq(E)] :
          g[0] = <<>> /\ \A n \in 1..L : g[n] = turn[n][g[n - 1]]
    <3> HIDE DEF turn, L
    <3>1. \E g : IsLoop(g, L, Seq(E), <<>>, turn)
      BY <1>1, <1>2, <2>1, LoopExists
    <3>2. QED
      BY <3>1 DEF IsLoop
  <2>3. ASSUME NEW n \in 0..L PROVE g[n] = Body(g)[n]
    <3>1. CASE n = 0
      BY <2>2, <3>1
    <3>2. CASE n # 0
      <4>1. n \in 1..L /\ n - 1 \in 0..L
        BY <1>1, <3>2
      <4>2. g[n - 1] \in Seq(E) /\ g[n] = turn[n][g[n - 1]]
        <5> HIDE DEF turn, L
        <5>1. QED
          BY <2>2, <3>2, <4>1
      <4>3. turn[n][g[n - 1]] = IF s[n] \in ToSet(g[n - 1]) THEN g[n - 1] ELSE Append(g[n - 1], s[n])
        <5> HIDE DEF L
        <5>1. QED
          BY <4>1, <4>2
      <4>4. QED
        BY <3>2, <4>2, <4>3
    <3>3. QED
      BY <3>1, <3>2
  <2>4. g = Body(g)
    BY <2>2, <2>3
  <2>5. QED
    BY <2>4
<1>5. kept = Body(kept)
  BY <1>4
<1>6. Distinct(s) = kept[L]
  BY DEF Distinct
<1> HIDE DEF kept
<1>7. kept[0] = <<>>
  BY <1>1, <1>5
<1>8. ASSUME NEW n \in 1..L
      PROVE  kept[n] = IF s[n] \in ToSet(kept[n - 1]) THEN kept[n - 1] ELSE Append(kept[n - 1], s[n])
  <2>1. n \in 0..L /\ n # 0
    BY <1>1
  <2>2. QED
    BY <1>5, <2>1
<1>9. \A n \in 0..L : kept[n] \in Seq(E)
  <2> DEFINE Good == {n \in 0..L : kept[n] \in Seq(E)}
  <2>1. 0 \in Good
    <3>1. 0 \in 0..L
      BY <1>1
    <3>2. QED
      BY <1>2, <1>7, <3>1
  <2>2. ASSUME NEW n \in 1..L, n - 1 \in Good PROVE n \in Good
    <3>1. n \in 0..L /\ kept[n - 1] \in Seq(E)
      BY <1>1, <2>2
    <3> HIDE DEF L
    <3>2. kept[n] \in Seq(E)
      BY <1>3, <1>8, <3>1
    <3>3. QED
      BY <3>1, <3>2
  <2>3. \A n \in 0..L : n \in Good
    <3> HIDE DEF Good
    <3>1. QED
      BY <1>1, <2>1, <2>2, Climb
  <2>4. QED
    BY <2>3
<1>10. kept \in [0..L -> Seq(E)]
  <2>1. kept = [n \in 0..L |-> kept[n]]
    BY <1>5
  <2>2. QED
    BY <1>9, <2>1
<1>11. QED
  BY <1>6, <1>7, <1>8, <1>10 DEF DistinctTurns

\* Distinct keeps every element of s, and none twice.
LEMMA DistinctElements ==
  ASSUME NEW E, NEW s \in Seq(E)
  PROVE  /\ Distinct(s) \in Seq(E) /\ Len(Distinct(s)) <= Len(s)
         /\ IsInjective(Distinct(s)) /\ ToSet(Distinct(s)) = ToSet(s)
<1>1. PICK kept : DistinctTurns(kept, E, s)
  BY DistinctLoop
<1> DEFINE L == Len(s)
           Good == {n \in 0..L : /\ Len(kept[n]) <= n /\ IsInjective(kept[n])
                                 /\ ToSet(kept[n]) = {s[i] : i \in 1..n}}
<1>2. /\ L \in Nat /\ kept \in [0..L -> Seq(E)] /\ kept[0] = <<>> /\ Distinct(s) = kept[L]
      /\ \A n \in 1..L :
           kept[n] = IF s[n] \in ToSet(kept[n - 1]) THEN kept[n - 1]
                     ELSE Append(kept[n - 1], s[n])
  BY <1>1 DEF DistinctTurns
<1>3. 0 \in Good
  <2>1. 0 \in 0..L /\ Len(kept[0]) <= 0 /\ IsInjective(kept[0])
    BY <1>2 DEF IsInjective
  <2>2. ToSet(kept[0]) = {s[i] : i \in 1..0}
    BY <1>2 DEF ToSet
  <2>3. QED
    BY <2>1, <2>2
<1>4. ASSUME NEW n \in 1..L, n - 1 \in Good PROVE n \in Good
  <2>1. n \in 0..L /\ n - 1 \in 0..L /\ n \in Nat \ {0} /\ s[n] \in E
    BY <1>2
  <2> DEFINE before == kept[n - 1]
  <2>2. before \in Seq(E)
    BY <1>2, <2>1
  <2>3. /\ Len(before) <= n - 1 /\ IsInjective(before)
        /\ ToSet(before) = {s[i] : i \in 1..(n - 1)}
    BY <1>4
  <2>4. {s[i] : i \in 1..n} = {s[i] : i \in 1..(n - 1)} \cup {s[n]}
    BY <2>1
  <2>5. kept[n] = IF s[n] \in ToSet(before) THEN before ELSE Append(before, s[n])
    BY <1>2
  <2> HIDE DEF before
  <2>6. CASE s[n] \in ToSet(before)
    <3>1. kept[n] = before /\ Len(before) <= n
      BY <2>1, <2>2, <2>3, <2>5, <2>6
    <3>2. ToSet(kept[n]) = {s[i] : i \in 1..n}
      BY <2>3, <2>4, <2>6, <3>1
    <3>3. QED
      BY <2>1, <2>3, <3>1, <3>2
  <2>7. CASE s[n] \notin ToSet(before)
    <3>1. kept[n] = Append(before, s[n])
      BY <2>5, <2>7
    <3>2. Len(kept[n]) = Len(before) + 1 /\ Len(before) \in Nat
      BY <2>1, <2>2, <3>1
    <3>3. /\ kept[n][Len(before) + 1] = s[n]
          /\ \A k \in 1..Len(before) : kept[n][k] = before[k]
      BY <2>1, <2>2, <3>1
    <3>4. DOMAIN kept[n] = 1..(Len(before) + 1) /\ DOMAIN before = 1..Len(before)
      BY <2>1, <2>2, <3>1
    <3>5. \A k \in 1..Len(before) : before[k] # s[n]
      BY <2>7, <3>4 DEF ToSet
    <3>6. IsInjective(kept[n])
      <4> SUFFICES ASSUME NEW k \in 1..(Len(before) + 1), NEW m \in 1..(Len(before) + 1),
                          kept[n][k] = kept[n][m]
                   PROVE  k = m
        BY <3>4 DEF IsInjective
      <4>1. CASE k = Len(before) + 1 \/ m = Len(before) + 1
        BY <3>2, <3>3, <3>5, <4>1
      <4>2. CASE k \in 1..Len(before) /\ m \in 1..Len(before)
        BY <2>3, <3>3, <3>4, <4>2 DEF IsInjective
      <4>3. QED
        BY <3>2, <4>1, <4>2
    <3>7. ToSet(kept[n]) = ToSet(before) \cup {s[n]}
      <4>1. 1..(Len(before) + 1) = 1..Len(before) \cup {Len(before) + 1}
        BY <3>2
      <4>2. QED
        BY <3>3, <3>4, <4>1 DEF ToSet
    <3>8. Len(kept[n]) <= n
      BY <2>1, <2>3, <3>2
    <3>9. QED
      BY <2>1, <2>3, <2>4, <3>6, <3>7, <3>8
  <2>8. QED
    BY <2>6, <2>7
<1>5. L \in Good
  <2> HIDE DEF Good, L
  <2>1. \A n \in 0..L : n \in Good
    BY <1>2, <1>3, <1>4, Climb
  <2>2. QED
    BY <1>2, <2>1
<1>6. {s[i] : i \in 1..L} = ToSet(s)
  BY DEF ToSet
<1>7. QED
  BY <1>2, <1>5, <1>6

-----------------------------------------------------------------------------
(* Sums. *)

\* The loop of SumsOf, turn by turn.
SumsTurns(sum, s) ==
  /\ sum \in [0..Len(s) -> Nat]
  /\ SumsOf(s) = sum
  /\ sum[0] = 0
  /\ \A n \in 1..Len(s) :
       sum[n] = sum[n - 1] + s[n]

\* There is a loop as the definition of SumsOf describes.
LEMMA SumsLoop ==
  ASSUME NEW s \in Seq(Nat)
  PROVE  \E sum : SumsTurns(sum, s)
<1> DEFINE L == Len(s)
           Body(g) == [n \in 0..L |-> IF n = 0 THEN 0 ELSE
                                         g[n - 1] + s[n]]
           turn == [n \in 1..L |-> [before \in Nat |->
                                         before + s[n]]]
           sum == CHOOSE g : g = Body(g)
<1>1. L \in Nat
  OBVIOUS
<1>2. 0 \in Nat
  OBVIOUS
<1>3. ASSUME NEW n \in 1..L, NEW before \in Nat
      PROVE  (before + s[n]) \in Nat
  OBVIOUS
<1>4. \E g : g = Body(g)
  <2>1. turn \in [1..L -> [Nat -> Nat]]
    <3> HIDE DEF L
    <3>1. QED
      BY <1>3
  <2>2. PICK g \in [0..L -> Nat] :
          g[0] = 0 /\ \A n \in 1..L : g[n] = turn[n][g[n - 1]]
    <3> HIDE DEF turn, L
    <3>1. \E g : IsLoop(g, L, Nat, 0, turn)
      BY <1>1, <1>2, <2>1, LoopExists
    <3>2. QED
      BY <3>1 DEF IsLoop
  <2>3. ASSUME NEW n \in 0..L PROVE g[n] = Body(g)[n]
    <3>1. CASE n = 0
      BY <2>2, <3>1
    <3>2. CASE n # 0
      <4>1. n \in 1..L /\ n - 1 \in 0..L
        BY <1>1, <3>2
      <4>2. g[n - 1] \in Nat /\ g[n] = turn[n][g[n - 1]]
        <5> HIDE DEF turn, L
        <5>1. QED
          BY <2>2, <3>2, <4>1
      <4>3. turn[n][g[n - 1]] = g[n - 1] + s[n]
        <5> HIDE DEF L
        <5>1. QED
          BY <4>1, <4>2
      <4>4. QED
        BY <3>2, <4>2, <4>3
    <3>3. QED
      BY <3>1, <3>2
  <2>4. g = Body(g)
    BY <2>2, <2>3
  <2>5. QED
    BY <2>4
<1>5. sum = Body(sum)
  BY <1>4
<1>6. SumsOf(s) = sum
  BY DEF SumsOf
<1> HIDE DEF sum
<1>7. sum[0] = 0
  BY <1>1, <1>5
<1>8. ASSUME NEW n \in 1..L
      PROVE  sum[n] = sum[n - 1] + s[n]
  <2>1. n \in 0..L /\ n # 0
    BY <1>1
  <2>2. QED
    BY <1>5, <2>1
<1>9. \A n \in 0..L : sum[n] \in Nat
  <2> DEFINE Good == {n \in 0..L : sum[n] \in Nat}
  <2>1. 0 \in Good
    <3>1. 0 \in 0..L
      BY <1>1
    <3>2. QED
      BY <1>2, <1>7, <3>1
  <2>2. ASSUME NEW n \in 1..L, n - 1 \in Good PROVE n \in Good
    <3>1. n \in 0..L /\ sum[n - 1] \in Nat
      BY <1>1, <2>2
    <3> HIDE DEF L
    <3>2. sum[n] \in Nat
      BY <1>3, <1>8, <3>1
    <3>3. QED
      BY <3>1, <3>2
  <2>3. \A n \in 0..L : n \in Good
    <3> HIDE DEF Good
    <3>1. QED
      BY <1>1, <2>1, <2>2, Climb
  <2>4. QED
    BY <2>3
<1>10. sum \in [0..L -> Nat]
  <2>1. sum = [n \in 0..L |-> sum[n]]
    BY <1>5
  <2>2. QED
    BY <1>9, <2>1
<1>11. QED
  BY <1>6, <1>7, <1>8, <1>10 DEF SumsTurns

\* Sums of natural numbers are natural numbers, one number apart.
LEMMA SumsFacts ==
  ASSUME NEW s \in Seq(Nat)
  PROVE  /\ SumsOf(s) \in [0..Len(s) -> Nat] /\ SumsOf(s)[0] = 0
         /\ \A n \in 1..Len(s) : SumsOf(s)[n] = SumsOf(s)[n - 1] + s[n]
         /\ Total(s) \in Nat
<1>1. PICK sum : SumsTurns(sum, s)
  BY SumsLoop
<1>2. SumsOf(s) = sum /\ Len(s) \in 0..Len(s)
  BY <1>1 DEF SumsTurns
<1>3. QED
  BY <1>1, <1>2 DEF SumsTurns, Total

\* The sum of the first numbers is at most that of all.
LEMMA SumsRise ==
  ASSUME NEW s \in Seq(Nat), NEW n \in 0..Len(s)
  PROVE  SumsOf(s)[n] \in Nat /\ SumsOf(s)[n] <= Total(s)
<1> DEFINE L == Len(s)
           f == SumsOf(s)
           Good == {m \in 0..L : \A k \in 0..m : f[k] <= f[m]}
<1>1. /\ L \in Nat /\ f \in [0..L -> Nat]
      /\ \A m \in 1..L : f[m] = f[m - 1] + s[m]
  BY SumsFacts
<1>2. Total(s) = f[L] /\ n \in 0..L /\ \A m \in 1..L : s[m] \in Nat
  BY DEF Total
<1> HIDE DEF f
<1>3. 0 \in Good
  BY <1>1
<1>4. ASSUME NEW m \in 1..L, m - 1 \in Good PROVE m \in Good
  <2>1. \A k \in 0..(m - 1) : f[k] <= f[m - 1]
    BY <1>4
  <2>2. f[m - 1] <= f[m] /\ f[m - 1] \in Nat /\ f[m] \in Nat
    <3>1. m - 1 \in 0..L /\ m \in 0..L
      BY <1>1
    <3>2. f[m - 1] \in Nat /\ f[m] \in Nat
      BY <1>1, <3>1
    <3>3. f[m] = f[m - 1] + s[m] /\ s[m] \in Nat
      BY <1>1, <1>2
    <3>4. QED
      BY <3>2, <3>3
  <2>3. ASSUME NEW k \in 0..m PROVE f[k] <= f[m]
    <3>1. k \in 0..(m - 1) \/ k = m
      OBVIOUS
    <3>2. f[k] \in Nat
      BY <1>1
    <3>3. QED
      BY <2>1, <2>2, <3>1, <3>2
  <2>4. QED
    BY <2>3
<1>5. L \in Good
  <2> HIDE DEF Good, L
  <2>1. \A m \in 0..L : m \in Good
    BY <1>1, <1>3, <1>4, Climb
  <2>2. QED
    BY <1>1, <2>1
<1>6. f[n] \in Nat /\ f[n] <= f[L]
  BY <1>1, <1>2, <1>5
<1>7. QED
  BY <1>2, <1>6 DEF f

\* Of numbers no greater the sum is no greater.
LEMMA TotalMonotone ==
  ASSUME NEW s \in Seq(Nat), NEW t \in Seq(Nat), Len(s) = Len(t),
         \A n \in 1..Len(s) : s[n] <= t[n]
  PROVE  Total(s) <= Total(t)
<1> DEFINE L == Len(s)
           f == SumsOf(s)
           g == SumsOf(t)
           Good == {n \in 0..L : f[n] <= g[n]}
<1>1. /\ L \in Nat /\ f \in [0..L -> Nat] /\ f[0] = 0
      /\ \A n \in 1..L : f[n] = f[n - 1] + s[n]
  BY SumsFacts
<1>2. /\ g \in [0..L -> Nat] /\ g[0] = 0
      /\ \A n \in 1..L : g[n] = g[n - 1] + t[n]
  BY SumsFacts
<1>3. Total(s) = f[L] /\ Total(t) = g[L]
  BY DEF Total
<1> HIDE DEF f, g
<1>4. 0 \in Good
  <2>1. 0 \in 0..L
    BY <1>1
  <2>2. QED
    BY <1>1, <1>2, <2>1
<1>5. ASSUME NEW n \in 1..L, n - 1 \in Good PROVE n \in Good
  <2>1. n \in 0..L /\ n - 1 \in 0..L /\ s[n] \in Nat /\ t[n] \in Nat /\ s[n] <= t[n]
    BY <1>1
  <2>2. f[n - 1] \in Nat /\ g[n - 1] \in Nat /\ f[n - 1] <= g[n - 1]
    BY <1>1, <1>2, <1>5, <2>1
  <2>3. f[n] = f[n - 1] + s[n] /\ g[n] = g[n - 1] + t[n]
    BY <1>1, <1>2
  <2>4. f[n] <= g[n]
    BY <2>1, <2>2, <2>3
  <2>5. QED
    BY <2>1, <2>4
<1>6. L \in Good
  <2> HIDE DEF Good, L
  <2>1. \A n \in 0..L : n \in Good
    BY <1>1, <1>4, <1>5, Climb
  <2>2. QED
    BY <1>1, <2>1
<1>7. QED
  BY <1>3, <1>6

\* Nothing adds up to nothing.
LEMMA TotalZero ==
  ASSUME NEW s \in Seq(Nat), \A n \in 1..Len(s) : s[n] = 0
  PROVE  Total(s) = 0
<1> DEFINE L == Len(s)
           f == SumsOf(s)
           Good == {n \in 0..L : f[n] = 0}
<1>1. /\ L \in Nat /\ f \in [0..L -> Nat] /\ f[0] = 0
      /\ \A n \in 1..L : f[n] = f[n - 1] + s[n]
  BY SumsFacts
<1>2. Total(s) = f[L]
  BY DEF Total
<1> HIDE DEF f
<1>3. 0 \in Good
  <2>1. 0 \in 0..L
    BY <1>1
  <2>2. QED
    BY <1>1, <2>1
<1>4. ASSUME NEW n \in 1..L, n - 1 \in Good PROVE n \in Good
  <2>1. n \in 0..L /\ s[n] = 0 /\ f[n - 1] = 0
    BY <1>1, <1>4
  <2>2. f[n] = 0
    BY <1>1, <2>1
  <2>3. QED
    BY <2>1, <2>2
<1>5. L \in Good
  <2> HIDE DEF Good, L
  <2>1. \A n \in 0..L : n \in Good
    BY <1>1, <1>3, <1>4, Climb
  <2>2. QED
    BY <1>1, <2>1
<1>6. QED
  BY <1>2, <1>5

-----------------------------------------------------------------------------
(* SortedBy. *)

\* m comes before n, or is n, where numbers are sorted stably.
NoLater(numbers, m, n) ==
  numbers[m] < numbers[n] \/ (numbers[m] = numbers[n] /\ m <= n)

\* t is s in the order of the numbers: p[k] is the place in s of what comes k-th.
Sorts(p, t, s, numbers) ==
  /\ p \in Bijection(DOMAIN s, DOMAIN s)
  /\ DOMAIN t = DOMAIN s
  /\ \A k \in DOMAIN s : t[k] = s[p[k]]
  /\ \A j, k \in DOMAIN s : j < k => p[j] # p[k] /\ NoLater(numbers, p[j], p[k])

\* SortedBy sorts: every element gets a place of its own.
LEMMA SortedBySorts ==
  ASSUME NEW E, NEW s \in Seq(E), NEW numbers \in [DOMAIN s -> Int]
  PROVE  SortedBy(s, numbers) \in Seq(E) /\ \E p : Sorts(p, SortedBy(s, numbers), s, numbers)
<1> DEFINE L == Len(s)
           D == 1..L
           Upto(n) == {m \in D : NoLater(numbers, m, n)}
           place == [n \in D |-> PlaceBy(numbers, n)]
<1>1. L \in Nat /\ DOMAIN s = D /\ DOMAIN numbers = D
  OBVIOUS
<1>2. IsFiniteSet(D) /\ Cardinality(D) = L
  <2> HIDE DEF L
  <2>1. /\ IsFiniteSet(1..L)
        /\ Cardinality(1..L) = IF 1 > L THEN 0 ELSE L - 1 + 1
    BY <1>1, FS_Interval
  <2>2. QED
    BY <1>1, <2>1
<1>3. ASSUME NEW n \in D
      PROVE  /\ PlaceBy(numbers, n) = Cardinality(Upto(n)) /\ IsFiniteSet(Upto(n))
             /\ Cardinality(Upto(n)) \in 1..L
  <2>1. PlaceBy(numbers, n) = Cardinality(Upto(n))
    BY <1>1 DEF PlaceBy, NoLater
  <2>2. Upto(n) \in SUBSET D /\ n \in Upto(n)
    BY DEF NoLater
  <2> HIDE DEF Upto
  <2>3. IsFiniteSet(Upto(n)) /\ Cardinality(Upto(n)) <= L
    BY <1>2, <2>2, FS_Subset
  <2>4. Cardinality(Upto(n)) \in Nat /\ Cardinality(Upto(n)) # 0
    BY <2>2, <2>3, FS_CardinalityType, FS_EmptySet
  <2>5. QED
    BY <1>1, <2>1, <2>3, <2>4
<1>4. ASSUME NEW m \in D, NEW n \in D, m # n, NoLater(numbers, m, n)
      PROVE  Cardinality(Upto(m)) < Cardinality(Upto(n))
  <2>1. Upto(m) \in SUBSET Upto(n)
    BY <1>4 DEF NoLater
  <2>2. n \in Upto(n) /\ n \notin Upto(m)
    BY <1>4 DEF NoLater
  <2>3. /\ IsFiniteSet(Upto(n)) /\ Cardinality(Upto(n)) \in 1..L
        /\ Cardinality(Upto(m)) \in 1..L
    BY <1>3
  <2> HIDE DEF Upto
  <2>4. Cardinality(Upto(m)) <= Cardinality(Upto(n)) /\ Cardinality(Upto(m)) # Cardinality(Upto(n))
    BY <2>1, <2>2, <2>3, FS_Subset
  <2>5. QED
    BY <1>1, <2>3, <2>4
<1>5. ASSUME NEW m \in D, NEW n \in D PROVE NoLater(numbers, m, n) \/ NoLater(numbers, n, m)
  BY <1>1 DEF NoLater
<1>6. place \in [D -> D] /\ \A n \in D : place[n] = Cardinality(Upto(n))
  BY <1>3
<1> HIDE DEF Upto, place
<1>7. ASSUME NEW m \in D, NEW n \in D, m # n, NoLater(numbers, m, n)
      PROVE  place[m] < place[n]
  BY <1>4, <1>6, <1>7
<1>8. place \in Injection(D, D)
  <2> SUFFICES ASSUME NEW m \in D, NEW n \in D, m # n PROVE place[m] # place[n]
    BY <1>6 DEF Injection, IsInjective
  <2>1. place[m] \in Int /\ place[n] \in Int
    BY <1>6
  <2>2. place[m] < place[n] \/ place[n] < place[m]
    BY <1>5, <1>7
  <2>3. QED
    BY <2>1, <2>2
<1>9. place \in Surjection(D, D)
  BY <1>2, <1>8, FS_Injection
<1> DEFINE p == [k \in D |-> CHOOSE n \in D : place[n] = k]
<1>10. ASSUME NEW k \in D PROVE p[k] \in D /\ place[p[k]] = k
  BY <1>9 DEF Surjection
<1>11. \A k \in D : SortedBy(s, numbers)[k] = s[p[k]]
  <2>1. ASSUME NEW k \in D PROVE SortedBy(s, numbers)[k] = s[p[k]]
    <3>1. \A n \in D : PlaceBy(numbers, n) = place[n]
      BY <1>3, <1>6
    <3>2. (CHOOSE n \in D : PlaceBy(numbers, n) = k) = (CHOOSE n \in D : place[n] = k)
      BY <3>1
    <3>3. SortedBy(s, numbers)[k] = s[CHOOSE n \in D : PlaceBy(numbers, n) = k]
      BY <1>1 DEF SortedBy
    <3>4. QED
      BY <3>2, <3>3
  <2>2. QED
    BY <2>1
<1>12. p \in [D -> D]
  BY <1>10
<1> HIDE DEF p
<1>13. p \in Bijection(D, D)
  <2>1. IsInjective(p)
    BY <1>10, <1>12 DEF IsInjective
  <2>2. ASSUME NEW n \in D PROVE \E k \in D : p[k] = n
    <3>1. place[n] \in D /\ p[place[n]] \in D /\ place[p[place[n]]] = place[n]
      BY <1>6, <1>10
    <3>2. p[place[n]] = n
      BY <1>8, <3>1 DEF Injection, IsInjective
    <3>3. QED
      BY <3>1, <3>2
  <2>3. QED
    BY <1>12, <2>1, <2>2 DEF Bijection, Injection, Surjection
<1>14. ASSUME NEW j \in D, NEW k \in D, j < k
       PROVE  p[j] # p[k] /\ NoLater(numbers, p[j], p[k])
  <2>1. p[j] \in D /\ p[k] \in D /\ place[p[j]] = j /\ place[p[k]] = k /\ j \in Int /\ k \in Int
    BY <1>10
  <2>2. p[j] # p[k]
    BY <1>14, <2>1
  <2>3. ~NoLater(numbers, p[k], p[j])
    BY <1>7, <1>14, <2>1, <2>2
  <2>4. QED
    BY <1>5, <2>1, <2>2, <2>3
<1>15. DOMAIN SortedBy(s, numbers) = D
  BY <1>1 DEF SortedBy
<1>16. SortedBy(s, numbers) \in Seq(E)
  <2>1. \A k \in D : s[p[k]] \in E
    BY <1>10
  <2>2. SortedBy(s, numbers) = [k \in D |-> SortedBy(s, numbers)[k]]
    BY <1>1 DEF SortedBy
  <2>3. SortedBy(s, numbers) \in [1..L -> E]
    BY <1>11, <2>1, <2>2
  <2>4. QED
    BY <1>1, <2>3
<1>17. Sorts(p, SortedBy(s, numbers), s, numbers)
  BY <1>1, <1>11, <1>13, <1>14, <1>15 DEF Sorts
<1>18. QED
  BY <1>16, <1>17

-----------------------------------------------------------------------------
(* FlattenSeq. *)

\* The loop of FlattenSeq, turn by turn.
FlattenTurns(flat, E, seqs) ==
  /\ flat \in [0..Len(seqs) -> Seq(E)]
  /\ FlattenSeq(seqs) = flat[Len(seqs)]
  /\ flat[0] = <<>>
  /\ \A n \in 1..Len(seqs) : flat[n] = flat[n - 1] \o seqs[n]

\* There is a loop as the definition of FlattenSeq describes.
LEMMA FlattenLoop ==
  ASSUME NEW E, NEW seqs \in Seq(Seq(E))
  PROVE  \E flat : FlattenTurns(flat, E, seqs)
<1> DEFINE L == Len(seqs)
           Body(g) == [i \in 1..L |-> IF i = 1 THEN seqs[i] ELSE g[i - 1] \o seqs[i]]
           turn == [n \in 1..L |-> [before \in Seq(E) |-> before \o seqs[n]]]
           flatten == CHOOSE g : g = Body(g)
<1>1. L \in Nat /\ <<>> \in Seq(E) /\ \A n \in 1..L : seqs[n] \in Seq(E)
  OBVIOUS
<1>2. PICK flat : IsLoop(flat, L, Seq(E), <<>>, turn)
  <2>1. turn \in [1..L -> [Seq(E) -> Seq(E)]]
    OBVIOUS
  <2> HIDE DEF turn, L
  <2>2. QED
    BY <1>1, <2>1, LoopExists
<1>3. flat \in [0..L -> Seq(E)] /\ flat[0] = <<>>
  BY <1>2 DEF IsLoop
<1>4. ASSUME NEW n \in 1..L PROVE flat[n] = flat[n - 1] \o seqs[n]
  <2>1. n - 1 \in 0..L
    BY <1>1
  <2>2. flat[n - 1] \in Seq(E)
    BY <1>3, <2>1
  <2>3. flat[n] = turn[n][flat[n - 1]]
    BY <1>2 DEF IsLoop
  <2>4. QED
    BY <2>2, <2>3
<1> HIDE DEF turn
<1>5. ASSUME NEW i \in 1..L, i = 1 PROVE flat[i] = seqs[i]
  <2>1. flat[i] = flat[i - 1] \o seqs[i]
    BY <1>4
  <2>2. i - 1 = 0 /\ seqs[i] \in Seq(E)
    BY <1>1, <1>5
  <2>3. flat[i] = <<>> \o seqs[i]
    BY <1>3, <2>1, <2>2
  <2>4. QED
    BY <2>2, <2>3
<1> DEFINE given == [i \in 1..L |-> flat[i]]
<1>6. ASSUME NEW i \in 1..L PROVE given[i] = Body(given)[i]
  <2>1. CASE i = 1
    BY <1>5, <2>1
  <2>2. CASE i # 1
    <3>1. i - 1 \in 1..L
      BY <1>1, <2>2
    <3>2. given[i] = given[i - 1] \o seqs[i]
      BY <1>4, <3>1
    <3> HIDE DEF given
    <3>3. QED
      BY <2>2, <3>2
  <2>3. QED
    BY <2>1, <2>2
<1>7. given = Body(given)
  BY <1>6
<1>8. flatten = Body(flatten)
  <2> HIDE DEF given
  <2>1. QED
    BY <1>7
<1>9. FlattenSeq(seqs) = IF L = 0 THEN seqs ELSE flatten[L]
  BY DEF FlattenSeq
<1> HIDE DEF flatten, given
<1> DEFINE Good == {n \in 0..L : n # 0 => flatten[n] = flat[n]}
<1>10. 0 \in Good
  BY <1>1
<1>11. ASSUME NEW n \in 1..L, n - 1 \in Good PROVE n \in Good
  <2>1. flatten[n] = IF n = 1 THEN seqs[n] ELSE flatten[n - 1] \o seqs[n]
    BY <1>8
  <2>2. n # 1 => flatten[n - 1] = flat[n - 1]
    BY <1>11
  <2>3. flatten[n] = flat[n]
    BY <1>4, <1>5, <2>1, <2>2
  <2>4. QED
    BY <1>1, <2>3
<1>12. L \in Good
  <2> HIDE DEF Good, L
  <2>1. \A n \in 0..L : n \in Good
    BY <1>1, <1>10, <1>11, Climb
  <2>2. QED
    BY <1>1, <2>1
<1>13. FlattenSeq(seqs) = flat[L]
  <2>1. CASE L = 0
    <3>1. seqs = <<>>
      BY <2>1
    <3>2. QED
      BY <1>3, <1>9, <2>1, <3>1
  <2>2. CASE L # 0
    BY <1>9, <1>12, <2>2
  <2>3. QED
    BY <2>1, <2>2
<1>14. QED
  BY <1>3, <1>4, <1>13 DEF FlattenTurns

\* The n-th element of the sequences laid end to end is the k[n]-th of the o[n]-th:
\* all of them, each once, in order.
Origins(o, k, flat, seqs) ==
  /\ o \in [1..Len(flat) -> 1..Len(seqs)]
  /\ \A m, n \in 1..Len(flat) : m < n => o[m] <= o[n] /\ (o[m] = o[n] => k[m] < k[n])
  /\ \A n \in 1..Len(flat) : k[n] \in 1..Len(seqs[o[n]]) /\ flat[n] = seqs[o[n]][k[n]]
  /\ \A i \in 1..Len(seqs) : \A m \in 1..Len(seqs[i]) :
       \E n \in 1..Len(flat) : o[n] = i /\ k[n] = m

\* FlattenSeq lays sequences end to end, leaving nothing out.
LEMMA FlattenOrigins ==
  ASSUME NEW E, NEW seqs \in Seq(Seq(E))
  PROVE  /\ FlattenSeq(seqs) \in Seq(E)
         /\ \E o, k : Origins(o, k, FlattenSeq(seqs), seqs)
<1>1. PICK flat : FlattenTurns(flat, E, seqs)
  BY FlattenLoop
<1> DEFINE L == Len(seqs)
           Upto(o, k, f, j) ==
             /\ o \in [1..Len(f) -> 1..j]
             /\ \A m, n \in 1..Len(f) : m < n => o[m] <= o[n] /\ (o[m] = o[n] => k[m] < k[n])
             /\ \A n \in 1..Len(f) :
                  k[n] \in 1..Len(seqs[o[n]]) /\ f[n] = seqs[o[n]][k[n]]
             /\ \A i \in 1..j : \A m \in 1..Len(seqs[i]) :
                  \E n \in 1..Len(f) : o[n] = i /\ k[n] = m
           Good == {j \in 0..L : \E o, k : Upto(o, k, flat[j], j)}
<1>0. L \in Nat /\ \A n \in 1..L : seqs[n] \in Seq(E)
  OBVIOUS
<1>2. /\ L \in Nat /\ flat \in [0..L -> Seq(E)] /\ flat[0] = <<>>
      /\ FlattenSeq(seqs) = flat[L]
      /\ \A n \in 1..L : flat[n] = flat[n - 1] \o seqs[n]
  BY <1>0, <1>1, Zenon DEF FlattenTurns
<1>3. 0 \in Good
  <2>1. Upto(<<>>, <<>>, <<>>, 0)
    OBVIOUS
  <2>2. 0 \in 0..L
    BY <1>2
  <2> HIDE DEF Upto
  <2>3. QED
    BY <1>2, <2>1, <2>2
<1>4. ASSUME NEW j \in 1..L, j - 1 \in Good PROVE j \in Good
  <2> DEFINE f == flat[j - 1]
             h == seqs[j]
             M == Len(f)
             N == Len(h)
  <2>1. j \in 0..L /\ j - 1 \in 0..L /\ j \in Nat \ {0} /\ h \in Seq(E)
    BY <1>0, <1>2
  <2>2. f \in Seq(E) /\ flat[j] = f \o h
    BY <1>2, <2>1
  <2>3. M \in Nat /\ N \in Nat /\ M = Len(f) /\ N = Len(h)
    BY <2>1, <2>2
  <2>4. PICK o, k : Upto(o, k, f, j - 1)
    BY <1>4
  <2> DEFINE p == [n \in 1..(M + N) |-> IF n <= M THEN o[n] ELSE j]
             q == [n \in 1..(M + N) |-> IF n <= M THEN k[n] ELSE n - M]
  <2> HIDE DEF f, h, M, N
  <2>5. /\ Len(f \o h) = M + N
        /\ \A n \in 1..M : (f \o h)[n] = f[n]
        /\ \A n \in 1..(M + N) : n > M => (f \o h)[n] = h[n - M]
    <3>1. Len(f \o h) = M + N
      BY <2>1, <2>2, <2>3
    <3>2. ASSUME NEW n \in 1..M PROVE (f \o h)[n] = f[n]
      BY <2>1, <2>2, <2>3
    <3>3. ASSUME NEW n \in 1..(M + N), n > M PROVE (f \o h)[n] = h[n - M]
      BY <2>1, <2>2, <2>3, <3>3
    <3>4. QED
      BY <3>1, <3>2, <3>3
  <2>6. ASSUME NEW n \in 1..M
        PROVE  /\ n \in 1..(M + N) /\ p[n] = o[n] /\ q[n] = k[n]
               /\ o[n] \in 1..(j - 1) /\ o[n] < j
    <3>1. n \in 1..(M + N) /\ n <= M
      BY <2>3
    <3>2. o[n] \in 1..(j - 1)
      BY <2>3, <2>4
    <3>3. o[n] < j
      BY <2>1, <3>2
    <3>4. p[n] = o[n] /\ q[n] = k[n]
      BY <3>1
    <3>5. QED
      BY <3>1, <3>2, <3>3, <3>4
  <2>7. ASSUME NEW n \in 1..(M + N), n > M
        PROVE  p[n] = j /\ q[n] = n - M /\ n - M \in 1..N
    <3>1. p[n] = j /\ q[n] = n - M
      BY <2>3, <2>7
    <3>2. n - M \in 1..N
      BY <2>3, <2>7
    <3>3. QED
      BY <3>1, <3>2
  <2>8. DOMAIN p = 1..(M + N) /\ p = [n \in 1..(M + N) |-> p[n]]
    OBVIOUS
  <2> HIDE DEF p, q
  <2>9. ASSUME NEW n \in 1..(M + N) PROVE n \in 1..M \/ n > M
    BY <2>3
  <2>10. p \in [1..(M + N) -> 1..j]
    <3>1. ASSUME NEW n \in 1..(M + N) PROVE p[n] \in 1..j
      <4>1. CASE n > M
        BY <2>1, <2>7, <4>1
      <4>2. CASE n \in 1..M
        <5>1. p[n] \in 1..(j - 1)
          BY <2>6, <4>2
        <5>2. QED
          BY <2>1, <5>1
      <4>3. QED
        BY <2>9, <4>1, <4>2
    <3>2. QED
      BY <2>8, <3>1
  <2>11. ASSUME NEW m \in 1..(M + N), NEW n \in 1..(M + N), m < n
         PROVE  p[m] <= p[n] /\ (p[m] = p[n] => q[m] < q[n])
    <3>1. CASE n > M /\ m > M
      <4>1. p[m] = j /\ p[n] = j /\ q[m] = m - M /\ q[n] = n - M
        BY <2>7, <3>1
      <4>2. QED
        BY <2>1, <2>3, <2>11, <4>1
    <3>2. CASE n > M /\ m \in 1..M
      <4>1. p[m] = o[m] /\ p[n] = j /\ o[m] \in 1..(j - 1)
        BY <2>6, <2>7, <3>2
      <4>2. QED
        BY <2>1, <4>1
    <3>3. CASE n \in 1..M
      <4>1. m \in 1..M
        BY <2>3, <2>11, <3>3
      <4>2. o[m] <= o[n] /\ (o[m] = o[n] => k[m] < k[n])
        BY <2>3, <2>4, <2>11, <3>3, <4>1
      <4>3. QED
        BY <2>6, <3>3, <4>1, <4>2
    <3>4. QED
      BY <2>9, <3>1, <3>2, <3>3
  <2>12. ASSUME NEW n \in 1..(M + N)
         PROVE  q[n] \in 1..Len(seqs[p[n]]) /\ (f \o h)[n] = seqs[p[n]][q[n]]
    <3>1. CASE n > M
      BY <2>5, <2>7, <3>1 DEF h, N
    <3>2. CASE n \in 1..M
      <4>1. k[n] \in 1..Len(seqs[o[n]]) /\ f[n] = seqs[o[n]][k[n]]
        BY <2>3, <2>4, <3>2
      <4>2. QED
        BY <2>5, <2>6, <3>2, <4>1
    <3>3. QED
      BY <2>9, <3>1, <3>2
  <2>13. ASSUME NEW i \in 1..j, NEW m \in 1..Len(seqs[i])
         PROVE  \E n \in 1..(M + N) : p[n] = i /\ q[n] = m
    <3>1. CASE i = j
      <4>1. m \in 1..N
        BY <3>1 DEF N, h
      <4>2. M + m \in 1..(M + N) /\ M + m > M /\ (M + m) - M = m
        BY <2>3, <4>1
      <4>3. QED
        BY <2>7, <3>1, <4>2
    <3>2. CASE i # j
      <4>1. i \in 1..(j - 1)
        BY <2>1, <3>2
      <4>2. PICK n \in 1..M : o[n] = i /\ k[n] = m
        BY <2>3, <2>4, <4>1
      <4>3. QED
        BY <2>6, <4>2
    <3>3. QED
      BY <3>1, <3>2
  <2>14. Upto(p, q, flat[j], j)
    BY <2>2, <2>5, <2>10, <2>11, <2>12, <2>13
  <2> HIDE DEF Upto
  <2>15. QED
    BY <2>1, <2>14
<1>5. L \in Good
  <2> HIDE DEF Good, L
  <2>1. \A n \in 0..L : n \in Good
    BY <1>2, <1>3, <1>4, Climb
  <2>2. QED
    BY <1>2, <2>1
<1>6. PICK o, k : Upto(o, k, FlattenSeq(seqs), L)
  <2>1. \E o, k : Upto(o, k, flat[L], L)
    BY <1>5
  <2> HIDE DEF Upto
  <2>2. QED
    BY <1>2, <2>1
<1>7. Origins(o, k, FlattenSeq(seqs), seqs)
  BY <1>6 DEF Origins
<1>8. FlattenSeq(seqs) \in Seq(E)
  BY <1>2
<1>9. QED
  BY <1>7, <1>8

-----------------------------------------------------------------------------
(* Sequences laid end to end. *)

\* The elements of two sequences laid end to end are those of both.
LEMMA JoinedElements ==
  ASSUME NEW E, NEW s \in Seq(E), NEW t \in Seq(E)
  PROVE  /\ s \o t \in Seq(E) /\ Len(s \o t) = Len(s) + Len(t)
         /\ \A n \in DOMAIN s : n \in DOMAIN (s \o t) /\ (s \o t)[n] = s[n]
         /\ \A n \in DOMAIN t : Len(s) + n \in DOMAIN (s \o t) /\ (s \o t)[Len(s) + n] = t[n]
         /\ \A n \in DOMAIN (s \o t) :
              n \in DOMAIN s \/ (n - Len(s) \in DOMAIN t /\ n = Len(s) + (n - Len(s)))
OBVIOUS

=============================================================================
