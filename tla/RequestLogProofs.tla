-------------------------- MODULE RequestLogProofs --------------------------
(***************************************************************************)
(* Proofs about RequestLog, for any number of logs, tokens, keys, calls    *)
(* and connections, whichever deletions are asked for: the requests and    *)
(* the successful calls counted for a token are those of its committed     *)
(* logs, and nothing is counted twice.                                     *)
(*                                                                         *)
(* The invariant says what an open log has locked and what a deletion      *)
(* under way has moved and dropped.  The rest is counting: sums over rows  *)
(* are taken element by element, occurrences in a sequence of statements   *)
(* added where sequences are joined.                                       *)
(***************************************************************************)
EXTENDS RequestLog, FiniteSetTheorems, WellFoundedInduction, NaturalsInduction, TLAPS

-----------------------------------------------------------------------------
(* The inductive invariant. *)

Statement ==
  {s \in [do : {"insert", "settings", "upsert"}, key : Keys \cup {Null},
           row : Rows \cup {Null}] : s.do = "upsert" => s.row \in Rows}
CallSet == [key : Keys, success : BOOLEAN]
EntrySet == [token : Tokens \cup {Null}, calls : CallLists \cup {<<>>}]
Written(w) == Statements(entry[w].token, entry[w].calls)

DeletionSet ==
  [op : {"none", "token", "key"}, id : Tokens \cup Keys \cup {Null}, stage : 0..5,
   moved : [Rows -> Nat], dropped : SUBSET Rows]

RequestLogTypeOK ==
  /\ tokens \subseteq Tokens /\ keys \subseteq Keys
  /\ usage \in [Rows -> Nat]
  /\ owner \in [Rows -> Writers \cup {Null, Admin}]
  /\ pc \in [Writers -> {"idle", "queued", "open", "committed", "lost"}]
  /\ entry \in [Writers -> EntrySet]
  /\ todo \in [Writers -> Seq(Statement)]
  /\ reading \subseteq Writers
  /\ refs \in [Writers -> SUBSET Keys]
  /\ deletion \in DeletionSet

\* Locks and connections are held by transactions that are open; there are
\* connections for all of them.
HeldSound ==
  /\ \A r \in Rows : owner[r] \in Open \cup {Null} \cup
                         (IF deletion.op = "none" THEN {} ELSE {Admin})
  /\ reading \subseteq Open
  /\ Free \in 0..Connections

\* An open log has yet to write a row, or has it locked; it reads the settings
\* when it is their turn.
LogSound(w) ==
  \A i \in DOMAIN Written(w) :
    Written(w)[i].do = "upsert" =>
      \/ owner[Written(w)[i].row] = w
      \/ \E j \in DOMAIN todo[w] : todo[w][j] = Written(w)[i]
LogsSound ==
  /\ \A w \in Open : LogSound(w)
  /\ \A w \in reading : NextIs(w, "settings")

\* Who counts for a key counts for its token.
CoveredBy(u) ==
  \A t \in Tokens \cup {Null}, k \in Keys :
    u[<<"daily", t, k>>] > 0 => u[<<"daily", t, Null>>] > 0

\* What a deletion has dropped is locked; what it has moved is still there, or was
\* dropped; if it has dropped the requests of a token, it has dropped them for all
\* of its keys.
DeletionSound ==
  /\ \A r \in deletion.dropped : owner[r] = Admin
  /\ CoveredBy(deletion.moved)
  /\ deletion.op = "none" => deletion = NoDeletion
  /\ deletion.op = "key" =>
       /\ deletion.id \in keys
       /\ \A r \in Rows : deletion.moved[r] = 0
       /\ \A r \in deletion.dropped : r[1] = "daily" /\ r[3] = deletion.id
  /\ deletion.op = "token" =>
       /\ deletion.id \in tokens
       /\ \A r \in deletion.dropped : r[2] = deletion.id
       /\ \A r \in Rows :
            /\ deletion.moved[r] > 0 => r[2] = Null
            /\ deletion.moved[r] <= usage[<<r[1], deletion.id, r[3]>>]
       /\ <<"daily", deletion.id, Null>> \in deletion.dropped =>
            \A k \in Keys : usage[<<"daily", deletion.id, k>>] > 0 =>
              <<"daily", deletion.id, k>> \in deletion.dropped

\* The properties, for rows u, places p and entries e of logs.
CommittedIn(p) == {w \in Writers : p[w] = "committed"}
LoggedIn(p, e, t) == {w \in CommittedIn(p) : e[w].token = t}
CallsIn(p, e) ==
  {c \in CommittedIn(p) \X (1..MaxCalls) : c[2] \in DOMAIN e[c[1]].calls}
KeyCallsIn(p, e, k) == {c \in CallsIn(p, e) : e[c[1]].calls[c[2]].key = k}
SucceededIn(p, e, t) ==
  {c \in CallsIn(p, e) : e[c[1]].token = t /\ e[c[1]].calls[c[2]].success}
DailyOf(u, k) == [t \in Tokens \cup {Null} |-> u[<<"daily", t, k>>]]
MeterOf(u, t) == [k \in Keys \cup {Null} |-> u[<<"meter", t, k>>]]
SumOf(f, S) == Total(LAMBDA x : f[x], S)

Counting(u, p, e, ts, ks) ==
  /\ \A t \in ts : u[<<"daily", t, Null>>] = Cardinality(LoggedIn(p, e, t))
  /\ \A t \in ts :
       SumOf(MeterOf(u, t), Keys \cup {Null}) = Cardinality(SucceededIn(p, e, t))
  /\ SumOf(DailyOf(u, Null), Tokens \cup {Null}) <= Cardinality(CommittedIn(p))
  /\ \A k \in ks :
       SumOf(DailyOf(u, k), Tokens \cup {Null}) <= Cardinality(KeyCallsIn(p, e, k))

RequestLogInv ==
  /\ RequestLogTypeOK /\ HeldSound /\ LogsSound /\ DeletionSound /\ CoveredBy(usage)
  /\ Counting(usage, pc, entry, tokens, keys)
-----------------------------------------------------------------------------
(* Sums over finite sets. *)

Picked(s) == CHOOSE x \in s : TRUE
SumBody(it, f, S) ==
  [s \in SUBSET S |-> IF s = {} THEN 0 ELSE f[Picked(s)] + it[s \ {Picked(s)}]]

\* Of sets of natural numbers that are not empty there is a least element.
LEMMA LeastExists ==
  ASSUME NEW S \in SUBSET Nat, S # {}
  PROVE  \E m \in S : \A n \in S : m <= n
<1>1. PICK m \in S : \A n \in S : <<n, m>> \notin OpToRel(<, Nat)
  BY NatLessThanWellFounded, WFMin
<1>2. ASSUME NEW n \in S PROVE m <= n
  <2>1. n \in Nat /\ m \in Nat /\ ~(n < m)
    BY <1>1 DEF OpToRel
  <2>2. QED
    BY <2>1
<1>3. QED
  BY <1>2

\* Among subsets of a finite set one is the first to be as none of its parts.
LEMMA FirstSubset ==
  ASSUME NEW S, IsFiniteSet(S), NEW Bad \in SUBSET (SUBSET S), Bad # {}
  PROVE  \E s \in Bad : \A x \in s : s \ {x} \notin Bad
<1>1. \A s \in SUBSET S : IsFiniteSet(s)
  BY FS_Subset
<1>2. IsWellFoundedOn(StrictSubsetOrdering(S), FiniteSubsetsOf(S))
  BY FS_StrictSubsetOrderingWellFounded
<1>3. Bad \subseteq FiniteSubsetsOf(S)
  BY <1>1 DEF FiniteSubsetsOf
<1>4. PICK s \in Bad : \A t \in Bad : <<t, s>> \notin StrictSubsetOrdering(S)
  BY <1>2, <1>3, WFMin
<1>5. ASSUME NEW x \in s PROVE s \ {x} \notin Bad
  BY <1>4 DEF StrictSubsetOrdering
<1>6. QED
  BY <1>5

\* What is picked of a set is in it.
LEMMA PickedIsElement ==
  ASSUME NEW s, s # {}
  PROVE  Picked(s) \in s
BY DEF Picked

\* The sum that Total stands for can be taken element by element.
LEMMA SumByElements ==
  ASSUME NEW S, IsFiniteSet(S), NEW f
  PROVE  \E it : it = SumBody(it, f, S) /\ SumOf(f, S) = it[S]
<1> DEFINE Small(n) == {s \in SUBSET S : Cardinality(s) <= n}
           Body(g, n) == [s \in Small(n) |->
                            IF s = {} THEN 0 ELSE f[Picked(s)] + g[s \ {Picked(s)}]]
           Defined(n) == \E g : g = Body(g, n)
           Without == {n \in Nat : ~Defined(n)}
<1>1. \A s \in SUBSET S : /\ IsFiniteSet(s) /\ Cardinality(s) \in Nat
                          /\ Cardinality(s) <= Cardinality(S)
                          /\ s # {} => Cardinality(s \ {Picked(s)}) = Cardinality(s) - 1
  BY FS_Subset, FS_CardinalityType, FS_RemoveElement, PickedIsElement
<1>2. Defined(Cardinality(S))
  <2>1. SUFFICES ASSUME Without # {} PROVE FALSE
    BY <1>1
  <2>2. PICK n \in Without : \A m \in Without : n <= m
    <3>1. Without \in SUBSET Nat
      OBVIOUS
    <3> HIDE DEF Without
    <3>2. QED
      BY <2>1, <3>1, LeastExists
  <2>3. n \in Nat /\ ~Defined(n)
    BY <2>2
  <2>4. CASE n = 0
    <3>1. Small(0) = {{}}
      <4>1. ASSUME NEW s \in SUBSET S PROVE Cardinality(s) <= 0 <=> s = {}
        <5>1. Cardinality(s) \in Nat /\ (Cardinality(s) = 0 <=> s = {})
          BY <1>1, FS_EmptySet
        <5>2. QED
          BY <5>1
      <4>2. QED
        BY <4>1
    <3> DEFINE g == [s \in {{}} |-> 0]
    <3>2. g = Body(g, 0)
      BY <3>1
    <3>3. QED
      BY <2>3, <2>4, <3>2
  <2>5. CASE n # 0
    <3>1. n - 1 \in Nat /\ ~(n <= n - 1)
      BY <2>3, <2>5
    <3>2. n - 1 \notin Without
      <4> HIDE DEF Without
      <4>1. QED
        BY <2>2, <3>1
    <3>3. PICK g : g = Body(g, n - 1)
      BY <3>1, <3>2
    <3> DEFINE h == [s \in Small(n) |-> IF s \in Small(n - 1) THEN g[s]
                       ELSE f[Picked(s)] + g[s \ {Picked(s)}]]
    <3> HIDE DEF Without, Defined
    <3>4. ASSUME NEW s \in Small(n)
          PROVE  h[s] = Body(h, n)[s]
      <4>1. s \in SUBSET S /\ Cardinality(s) <= n /\ Cardinality(s) \in Nat
        BY <1>1
      <4>2. CASE s = {}
        <5>1. s \in Small(n - 1)
          BY <3>1, <4>2, FS_EmptySet
        <5>2. g[s] = 0
          BY <3>3, <4>2, <5>1
        <5>3. QED
          BY <4>2, <5>1, <5>2
      <4>3. CASE s # {}
        <5> DEFINE t == s \ {Picked(s)}
        <5>1. Cardinality(t) = Cardinality(s) - 1 /\ t \in SUBSET S
          BY <1>1, <4>1, <4>3
        <5>2. t \in Small(n - 1) /\ t \in Small(n)
          BY <2>3, <4>1, <5>1
        <5>3. h[t] = g[t]
          BY <5>2
        <5>4. s \in Small(n - 1) => g[s] = f[Picked(s)] + g[t]
          BY <3>3, <4>3
        <5>5. h[s] = f[Picked(s)] + g[t]
          BY <5>4
        <5>6. QED
          BY <4>3, <5>3, <5>5
      <4>4. QED
        BY <4>2, <4>3
    <3>5. h = Body(h, n)
      BY <3>4
    <3>6. QED
      BY <2>3, <3>5 DEF Defined
  <2>6. QED
    BY <2>4, <2>5
<1>3. Small(Cardinality(S)) = SUBSET S
  BY <1>1
<1>4. \E it : it = SumBody(it, f, S)
  BY <1>2, <1>3 DEF SumBody
<1> DEFINE it == CHOOSE g : g = SumBody(g, f, S)
<1>5. it = SumBody(it, f, S)
  BY <1>4
<1>6. SumOf(f, S) = it[S]
  BY DEF SumOf, Total, MapThenSumSet, MapThenFoldSet, SumBody, Picked
<1>7. QED
  BY <1>5, <1>6

\* The sum of natural numbers is one.
LEMMA SumType ==
  ASSUME NEW S, IsFiniteSet(S), NEW f \in [S -> Nat],
         NEW it, it = SumBody(it, f, S)
  PROVE  \A s \in SUBSET S : it[s] \in Nat
<1> DEFINE Bad == {s \in SUBSET S : it[s] \notin Nat}
<1> SUFFICES ASSUME Bad # {} PROVE FALSE
  OBVIOUS
<1>1. PICK s \in Bad : \A x \in s : s \ {x} \notin Bad
  <2>1. Bad \in SUBSET (SUBSET S)
    OBVIOUS
  <2> HIDE DEF Bad
  <2>2. QED
    BY <2>1, FirstSubset
<1>2. s \in SUBSET S /\ it[s] \notin Nat
  BY <1>1
<1>3. it[s] = IF s = {} THEN 0 ELSE f[Picked(s)] + it[s \ {Picked(s)}]
  BY <1>2 DEF SumBody
<1>4. s # {} => Picked(s) \in S /\ it[s \ {Picked(s)}] \in Nat
  BY <1>1, <1>2, PickedIsElement
<1>5. QED
  BY <1>2, <1>3, <1>4

\* So is that of a finite set of them.
LEMMA SumIsNat ==
  ASSUME NEW S, IsFiniteSet(S), NEW f \in [S -> Nat]
  PROVE  SumOf(f, S) \in Nat
<1>1. PICK i : i = SumBody(i, f, S) /\ SumOf(f, S) = i[S]
  BY SumByElements
<1>2. \A s \in SUBSET S : i[s] \in Nat
  BY <1>1, SumType
<1>3. QED
  BY <1>1, <1>2

\* Sums are added by adding their terms.
LEMMA SumOfSums ==
  ASSUME NEW S, IsFiniteSet(S), NEW f \in [S -> Nat], NEW g \in [S -> Nat],
         NEW h \in [S -> Nat], \A x \in S : h[x] = f[x] + g[x]
  PROVE  /\ SumOf(h, S)
              = SumOf(f, S) + SumOf(g, S)
         /\ SumOf(f, S) \in Nat /\ SumOf(g, S) \in Nat
<1>1. PICK i : i = SumBody(i, f, S) /\ SumOf(f, S) = i[S]
  BY SumByElements
<1>2. PICK j : j = SumBody(j, g, S) /\ SumOf(g, S) = j[S]
  BY SumByElements
<1>3. PICK k : k = SumBody(k, h, S) /\ SumOf(h, S) = k[S]
  BY SumByElements
<1>4. \A s \in SUBSET S : i[s] \in Nat /\ j[s] \in Nat
  BY <1>1, <1>2, SumType
<1> DEFINE Bad == {s \in SUBSET S : k[s] # i[s] + j[s]}
<1>5. Bad = {}
  <2> SUFFICES ASSUME Bad # {} PROVE FALSE
    OBVIOUS
  <2>1. PICK s \in Bad : \A x \in s : s \ {x} \notin Bad
    <3>1. Bad \in SUBSET (SUBSET S)
      OBVIOUS
    <3> HIDE DEF Bad
    <3>2. QED
      BY <3>1, FirstSubset
  <2>2. s \in SUBSET S /\ k[s] # i[s] + j[s]
    BY <2>1
  <2>3. CASE s = {}
    <3>1. i[s] = 0 /\ j[s] = 0 /\ k[s] = 0
      BY <1>1, <1>2, <1>3, <2>2, <2>3 DEF SumBody
    <3>2. QED
      BY <2>2, <3>1
  <2>4. CASE s # {}
    <3> DEFINE x == Picked(s)
               r == s \ {Picked(s)}
    <3>1. x \in S /\ r \in SUBSET S /\ k[r] = i[r] + j[r]
      BY <2>1, <2>2, <2>4, PickedIsElement
    <3>2. i[s] = f[x] + i[r]
      BY <1>1, <2>2, <2>4 DEF SumBody
    <3>3. j[s] = g[x] + j[r]
      BY <1>2, <2>2, <2>4 DEF SumBody
    <3>4. k[s] = h[x] + k[r]
      BY <1>3, <2>2, <2>4 DEF SumBody
    <3>5. f[x] \in Nat /\ g[x] \in Nat /\ h[x] = f[x] + g[x]
      BY <3>1
    <3>6. i[r] \in Nat /\ j[r] \in Nat
      BY <1>4, <3>1
    <3> HIDE DEF x, r
    <3>7. QED
      BY <2>2, <3>1, <3>2, <3>3, <3>4, <3>5, <3>6
  <2>5. QED
    BY <2>3, <2>4
<1>6. k[S] = i[S] + j[S]
  BY <1>5
<1>7. QED
  BY <1>1, <1>2, <1>3, <1>4, <1>6

\* A sum with one term.
LEMMA SumOfOne ==
  ASSUME NEW S, IsFiniteSet(S), NEW a \in S, NEW n \in Nat, NEW f \in [S -> Nat],
         \A x \in S : f[x] = IF x = a THEN n ELSE 0
  PROVE  SumOf(f, S) = n
<1>1. PICK i : i = SumBody(i, f, S) /\ SumOf(f, S) = i[S]
  BY SumByElements
<1> DEFINE Bad == {s \in SUBSET S : i[s] # IF a \in s THEN n ELSE 0}
<1>2. Bad = {}
  <2> SUFFICES ASSUME Bad # {} PROVE FALSE
    OBVIOUS
  <2>1. PICK s \in Bad : \A x \in s : s \ {x} \notin Bad
    <3>1. Bad \in SUBSET (SUBSET S)
      OBVIOUS
    <3> HIDE DEF Bad
    <3>2. QED
      BY <3>1, FirstSubset
  <2>2. s \in SUBSET S /\ i[s] # IF a \in s THEN n ELSE 0
    BY <2>1
  <2>3. i[s] = IF s = {} THEN 0 ELSE f[Picked(s)] + i[s \ {Picked(s)}]
    BY <1>1, <2>2 DEF SumBody
  <2>4. s # {} => /\ Picked(s) \in s /\ Picked(s) \in S
                  /\ i[s \ {Picked(s)}] = IF a \in s \ {Picked(s)} THEN n ELSE 0
    BY <2>1, <2>2, PickedIsElement
  <2>5. s # {} => f[Picked(s)] = IF Picked(s) = a THEN n ELSE 0
    BY <2>4
  <2>6. QED
    BY <2>2, <2>3, <2>4, <2>5
<1>3. QED
  BY <1>1, <1>2

\* A sum of zeros.
LEMMA SumOfNothing ==
  ASSUME NEW S, IsFiniteSet(S), NEW f \in [S -> Nat], \A x \in S : f[x] = 0
  PROVE  SumOf(f, S) = 0
<1>1. SumOf(f, S) = SumOf(f, S) + SumOf(f, S) /\ SumOf(f, S) \in Nat
  BY SumOfSums
<1> DEFINE n == SumOf(f, S)
<1>2. n \in Nat /\ n = n + n
  BY <1>1
<1> HIDE DEF n
<1>3. n = 0
  BY <1>2
<1>4. QED
  BY <1>3 DEF n

\* A sum of which one term grows.
LEMMA SumAfterAdding ==
  ASSUME NEW S, IsFiniteSet(S), NEW f \in [S -> Nat], NEW g \in [S -> Nat],
         NEW a \in S, NEW n \in Nat, g[a] = f[a] + n, \A x \in S \ {a} : g[x] = f[x]
  PROVE  SumOf(g, S) = SumOf(f, S) + n /\ SumOf(f, S) \in Nat
<1> DEFINE one == [x \in S |-> IF x = a THEN n ELSE 0]
<1>1. one \in [S -> Nat] /\ \A x \in S : one[x] = IF x = a THEN n ELSE 0
  OBVIOUS
<1>2. \A x \in S : g[x] = f[x] + one[x]
  <2> SUFFICES ASSUME NEW x \in S PROVE g[x] = f[x] + one[x]
    OBVIOUS
  <2>1. f[x] \in Nat
    OBVIOUS
  <2>2. CASE x = a
    BY <2>2
  <2>3. CASE x # a
    BY <2>1, <2>3
  <2>4. QED
    BY <2>2, <2>3
<1> HIDE DEF one
<1>3. SumOf(one, S) = n
  BY <1>1, SumOfOne
<1>4. QED
  BY <1>1, <1>2, <1>3, SumOfSums

\* A sum of no greater terms is no greater.
LEMMA SumOfLess ==
  ASSUME NEW S, IsFiniteSet(S), NEW f \in [S -> Nat], NEW g \in [S -> Nat],
         \A x \in S : f[x] <= g[x]
  PROVE  SumOf(f, S) <= SumOf(g, S)
<1> DEFINE d == [x \in S |-> g[x] - f[x]]
<1>1. d \in [S -> Nat] /\ \A x \in S : g[x] = f[x] + d[x]
  <2>1. ASSUME NEW x \in S PROVE d[x] \in Nat /\ g[x] = f[x] + d[x]
    <3>1. f[x] \in Nat /\ g[x] \in Nat /\ f[x] <= g[x] /\ d[x] = g[x] - f[x]
      OBVIOUS
    <3> HIDE DEF d
    <3>2. QED
      BY <3>1
  <2>2. QED
    BY <2>1
<1> HIDE DEF d
<1>2. /\ SumOf(g, S)
           = SumOf(f, S) + SumOf(d, S)
      /\ SumOf(f, S) \in Nat /\ SumOf(d, S) \in Nat
  BY <1>1, SumOfSums
<1>3. QED
  BY <1>2

\* Summing up, over all kinds, the elements of each kind counts the elements.
LEMMA SumOfKinds ==
  ASSUME NEW S, IsFiniteSet(S), NEW A, IsFiniteSet(A), NEW c \in [A -> S],
         NEW K \in [S -> SUBSET A], \A x \in S, i \in A : i \in K[x] <=> c[i] = x,
         NEW f \in [S -> Nat], \A x \in S : f[x] = Cardinality(K[x])
  PROVE  SumOf(f, S) = Cardinality(A)
<1>1. PICK n : n = SumBody(n, f, S) /\ SumOf(f, S) = n[S]
  BY SumByElements
<1> DEFINE Of(s) == {i \in A : c[i] \in s}
           Bad == {s \in SUBSET S : n[s] # Cardinality(Of(s))}
<1>2. \A s : IsFiniteSet(Of(s)) /\ Cardinality(Of(s)) \in Nat
  <2>1. \A s : Of(s) \in SUBSET A
    OBVIOUS
  <2> HIDE DEF Of
  <2>2. QED
    BY <2>1, FS_Subset, FS_CardinalityType
<1>3. Bad = {}
  <2> SUFFICES ASSUME Bad # {} PROVE FALSE
    OBVIOUS
  <2>1. PICK s \in Bad : \A x \in s : s \ {x} \notin Bad
    <3>1. Bad \in SUBSET (SUBSET S)
      OBVIOUS
    <3> HIDE DEF Bad
    <3>2. QED
      BY <3>1, FirstSubset
  <2>2. s \in SUBSET S /\ n[s] # Cardinality(Of(s))
    BY <2>1
  <2>3. n[s] = IF s = {} THEN 0 ELSE f[Picked(s)] + n[s \ {Picked(s)}]
    BY <1>1, <2>2 DEF SumBody
  <2>4. CASE s = {}
    <3>1. Of(s) = {}
      BY <2>4
    <3> HIDE DEF Of
    <3>2. QED
      BY <2>2, <2>3, <2>4, <3>1, FS_EmptySet
  <2>5. CASE s # {}
    <3> DEFINE x == Picked(s)
               r == s \ {Picked(s)}
    <3>1. x \in s /\ x \in S /\ r \in SUBSET S /\ n[r] = Cardinality(Of(r))
      BY <2>1, <2>2, <2>5, PickedIsElement
    <3>2. f[x] = Cardinality(Of({x}))
      <4>1. Of({x}) = K[x]
        BY <3>1
      <4>2. QED
        BY <3>1, <4>1, ZenonT(60)
    <3>3. Of(s) = Of({x}) \cup Of(r) /\ Of({x}) \cap Of(r) = {}
      BY <3>1
    <3> HIDE DEF Of
    <3>4. Cardinality(Of({x}) \cup Of(r))
            = Cardinality(Of({x})) + Cardinality(Of(r)) - Cardinality(Of({x}) \cap Of(r))
      BY <1>2, FS_Union
    <3>5. Cardinality(Of(s)) = Cardinality(Of({x})) + Cardinality(Of(r))
      <4>1. Cardinality({}) = 0
        BY FS_EmptySet
      <4>2. /\ Cardinality(Of({x})) \in Nat /\ Cardinality(Of(r)) \in Nat
            /\ Cardinality(Of({x}) \cap Of(r)) = 0
        BY <1>2, <3>3, <4>1
      <4>3. Cardinality(Of(s)) = Cardinality(Of({x}) \cup Of(r))
        BY <3>3
      <4> HIDE DEF x, r
      <4>4. QED
        BY <3>4, <4>2, <4>3
    <3>6. QED
      BY <2>2, <2>3, <2>5, <3>1, <3>2, <3>5
  <2>6. QED
    BY <2>4, <2>5
<1>4. Of(S) = A
  OBVIOUS
<1> HIDE DEF Of
<1>5. n[S] = Cardinality(Of(S))
  BY <1>3
<1>6. QED
  BY <1>1, <1>4, <1>5

\* What is taken from one term and added to another leaves the sum as it was; if
\* less is added, it leaves less.
LEMMA SumAfterMove ==
  ASSUME NEW S, IsFiniteSet(S), NEW f \in [S -> Nat], NEW g \in [S -> Nat],
         NEW a \in S, NEW b \in S, a # b, g[a] = 0, g[b] <= f[b] + f[a],
         \A x \in S \ {a, b} : g[x] <= f[x]
  PROVE  /\ SumOf(g, S) <= SumOf(f, S)
         /\ g[b] = f[b] + f[a] /\ (\A x \in S \ {a, b} : g[x] = f[x]) =>
              SumOf(g, S) = SumOf(f, S)
<1> DEFINE moved == f[a]
           from == [x \in S |-> IF x = a THEN moved ELSE 0]
           to == [x \in S |-> IF x = b THEN moved ELSE 0]
           before == [x \in S |-> f[x] + to[x]]
           after == [x \in S |-> g[x] + from[x]]
<1>1. from \in [S -> Nat] /\ to \in [S -> Nat] /\ moved \in Nat
  OBVIOUS
<1>2. before \in [S -> Nat] /\ after \in [S -> Nat]
  BY <1>1
<1>3. /\ SumOf(from, S) = moved
      /\ SumOf(to, S) = moved
  <2>1. /\ \A x \in S : from[x] = IF x = a THEN moved ELSE 0
        /\ \A x \in S : to[x] = IF x = b THEN moved ELSE 0
    OBVIOUS
  <2> HIDE DEF from, to, moved
  <2>2. QED
    BY <1>1, <2>1, SumOfOne
<1>4. /\ SumOf(before, S) = SumOf(f, S) + moved
      /\ SumOf(f, S) \in Nat
  <2>1. \A x \in S : before[x] = f[x] + to[x]
    OBVIOUS
  <2> HIDE DEF before, to, after, from, moved
  <2>2. QED
    BY <1>1, <1>2, <1>3, <2>1, SumOfSums
<1>5. /\ SumOf(after, S) = SumOf(g, S) + moved
      /\ SumOf(g, S) \in Nat
  <2>1. \A x \in S : after[x] = g[x] + from[x]
    OBVIOUS
  <2> HIDE DEF after, from, to, before, moved
  <2>2. /\ SumOf(after, S) = SumOf(g, S) + SumOf(from, S)
        /\ SumOf(g, S) \in Nat
    <3>1. from \in [S -> Nat] /\ after \in [S -> Nat]
      BY <1>1, <1>2
    <3>2. QED
      BY <2>1, <3>1, SumOfSums
  <2>3. QED
    BY <1>3, <2>2
<1>6. \A x \in S : after[x] <= before[x]
  <2> SUFFICES ASSUME NEW x \in S PROVE after[x] <= before[x]
    OBVIOUS
  <2>1. f[x] \in Nat /\ g[x] \in Nat /\ f[a] \in Nat
    OBVIOUS
  <2>2. CASE x = a
    BY <2>1, <2>2
  <2>3. CASE x = b
    BY <2>1, <2>3
  <2>4. CASE x \in S \ {a, b}
    BY <2>1, <2>4
  <2>5. QED
    BY <2>2, <2>3, <2>4
<1>7. SumOf(after, S) <= SumOf(before, S)
  <2> HIDE DEF after, before
  <2>1. QED
    BY <1>2, <1>6, SumOfLess
<1>8. ASSUME g[b] = f[b] + f[a], \A x \in S \ {a, b} : g[x] = f[x]
      PROVE  SumOf(before, S) <= SumOf(after, S)
  <2>1. \A x \in S : before[x] <= after[x]
    <3> SUFFICES ASSUME NEW x \in S PROVE before[x] <= after[x]
      OBVIOUS
    <3>1. f[x] \in Nat /\ g[x] \in Nat /\ f[a] \in Nat
      OBVIOUS
    <3>2. CASE x = a
      BY <1>8, <3>1, <3>2
    <3>3. CASE x = b
      BY <1>8, <3>1, <3>3
    <3>4. CASE x \in S \ {a, b}
      BY <1>8, <3>1, <3>4
    <3>5. QED
      BY <3>2, <3>3, <3>4
  <2> HIDE DEF after, before
  <2>2. QED
    BY <1>2, <2>1, SumOfLess
<1> HIDE DEF after, before, moved
<1>9. QED
  BY <1>1, <1>4, <1>5, <1>7, <1>8

-----------------------------------------------------------------------------
(* How often something occurs in a sequence. *)

Count(s, x) == Cardinality({i \in DOMAIN s : s[i] = x})

\* Shifted indices are as many as before.
LEMMA ShiftedCount ==
  ASSUME NEW A \in SUBSET Nat, IsFiniteSet(A), NEW n \in Nat
  PROVE  /\ IsFiniteSet({n + i : i \in A})
         /\ Cardinality({n + i : i \in A}) = Cardinality(A)
<1> DEFINE B == {n + i : i \in A}
           f == [i \in A |-> n + i]
<1>1. f \in Bijection(A, B)
  <2>1. f \in Surjection(A, B)
    BY DEF Surjection
  <2>2. \A i, j \in A : f[i] = f[j] => i = j
    OBVIOUS
  <2>3. QED
    BY <2>1, <2>2 DEF Bijection, Injection, Surjection, IsInjective
<1> HIDE DEF B, f
<1>2. IsFiniteSet(B) /\ Cardinality(B) = Cardinality(A)
  BY <1>1, FS_Bijection DEF ExistsBijection
<1>3. QED
  BY <1>2 DEF B

\* Occurrences are finite, and a number.
LEMMA CountType ==
  ASSUME NEW T, NEW s \in Seq(T), NEW x
  PROVE  /\ IsFiniteSet({i \in DOMAIN s : s[i] = x})
         /\ Count(s, x) \in Nat
<1> DEFINE A == {i \in DOMAIN s : s[i] = x}
<1>1. A \in SUBSET (1..Len(s)) /\ Len(s) \in Nat
  OBVIOUS
<1>2. IsFiniteSet(1..Len(s))
  BY FS_Interval
<1>3. Count(s, x) = Cardinality(A)
  BY DEF Count
<1> HIDE DEF A
<1>4. IsFiniteSet(A) /\ Cardinality(A) \in Nat
  BY <1>1, <1>2, FS_Subset, FS_CardinalityType
<1>5. QED
  BY <1>3, <1>4 DEF A

\* Occurrences add up where sequences are joined.
LEMMA CountJoined ==
  ASSUME NEW T, NEW s \in Seq(T), NEW t \in Seq(T), NEW x
  PROVE  Count(s \o t, x) = Count(s, x) + Count(t, x)
<1> DEFINE A == {i \in DOMAIN s : s[i] = x}
           B == {i \in DOMAIN t : t[i] = x}
           C == {i \in DOMAIN (s \o t) : (s \o t)[i] = x}
           n == Len(s)
           D == {n + i : i \in B}
<1>1. n \in Nat /\ Len(t) \in Nat /\ B \in SUBSET Nat
  OBVIOUS
<1>2. DOMAIN (s \o t) = 1..(n + Len(t)) /\ DOMAIN s = 1..n /\ DOMAIN t = 1..Len(t)
  OBVIOUS
<1>3. /\ \A i \in 1..n : (s \o t)[i] = s[i]
      /\ \A i \in 1..Len(t) : (s \o t)[n + i] = t[i]
  OBVIOUS
<1>4. C = A \cup D
  <2>1. ASSUME NEW i \in C PROVE i \in A \cup D
    <3>1. CASE i \in 1..n
      BY <1>2, <1>3, <2>1, <3>1
    <3>2. CASE i \notin 1..n
      <4>1. i \in Nat /\ i - n \in 1..Len(t) /\ i = n + (i - n)
        BY <1>1, <1>2, <2>1, <3>2
      <4>2. t[i - n] = x
        BY <1>3, <2>1, <4>1
      <4>3. i - n \in B
        BY <1>2, <4>1, <4>2
      <4>4. QED
        BY <4>1, <4>3
    <3>3. QED
      BY <3>1, <3>2
  <2>2. ASSUME NEW i \in A PROVE i \in C
    <3>1. i \in 1..n /\ i \in DOMAIN (s \o t)
      BY <1>1, <1>2, <2>2
    <3>2. QED
      BY <1>3, <2>2, <3>1
  <2>3. ASSUME NEW i \in D PROVE i \in C
    <3>1. PICK j \in B : i = n + j
      BY <2>3
    <3>2. j \in 1..Len(t) /\ n + j \in DOMAIN (s \o t)
      BY <1>1, <1>2, <3>1
    <3>3. QED
      BY <1>3, <3>1, <3>2
  <2>4. QED
    BY <2>1, <2>2, <2>3
<1>5. A \cap D = {}
  BY <1>1, <1>2
<1>6. /\ IsFiniteSet(A) /\ Cardinality(A) \in Nat
      /\ IsFiniteSet(B) /\ Cardinality(B) \in Nat
  BY CountType, FS_CardinalityType
<1>7. /\ Count(s, x) = Cardinality(A) /\ Count(t, x) = Cardinality(B)
      /\ Count(s \o t, x) = Cardinality(C)
  BY DEF Count
<1>8. IsFiniteSet(D) /\ Cardinality(D) = Cardinality(B)
  BY <1>1, <1>6, ShiftedCount
<1> HIDE DEF A, B, C, D, n
<1>9. Cardinality(A \cup D) = Cardinality(A) + Cardinality(D) - Cardinality(A \cap D)
  BY <1>6, <1>8, FS_Union
<1>10. Cardinality(A \cap D) = 0
  BY <1>5, FS_EmptySet
<1>11. QED
  BY <1>4, <1>6, <1>7, <1>8, <1>9, <1>10

\* Nothing occurs in the empty sequence.
LEMMA CountOfNothing ==
  ASSUME NEW x
  PROVE  Count(<<>>, x) = 0
<1>1. {i \in DOMAIN <<>> : <<>>[i] = x} = {}
  OBVIOUS
<1>2. QED
  BY <1>1, FS_EmptySet DEF Count

\* A flattened sequence of sequences, when each of them has at most one occurrence.
LEMMA CountFlattened ==
  ASSUME NEW T, NEW seqs \in Seq(Seq(T)), NEW x, NEW A \in SUBSET DOMAIN seqs,
         \A i \in DOMAIN seqs : Count(seqs[i], x) = IF i \in A THEN 1 ELSE 0
  PROVE  FlattenSeq(seqs) \in Seq(T) /\ Count(FlattenSeq(seqs), x) = Cardinality(A)
<1> DEFINE Length == Len(seqs)
           Body(g, m) == [n \in 1..m |-> IF n = 1 THEN seqs[n] ELSE g[n - 1] \o seqs[n]]
           Defined(m) == \E g : g = Body(g, m)
           flat == CHOOSE g : g = Body(g, Length)
           Upto(n) == {i \in A : i <= n}
<1>1. Length \in Nat /\ DOMAIN seqs = 1..Length
  OBVIOUS
<1>2. CASE Length = 0
  <2>1. seqs = <<>> /\ A = {}
    BY <1>1, <1>2
  <2>2. FlattenSeq(seqs) = <<>>
    BY <1>2, <2>1 DEF FlattenSeq
  <2>3. <<>> \in Seq(T)
    OBVIOUS
  <2>4. QED
    BY <2>1, <2>2, <2>3, CountOfNothing, FS_EmptySet
<1>3. CASE Length # 0
  <2>1. flat = Body(flat, Length)
    <3> DEFINE Without == {m \in 0..Length : ~Defined(m)}
    <3>1. SUFFICES Defined(Length)
      OBVIOUS
    <3> HIDE DEF Defined
    <3>2. SUFFICES ASSUME Without # {} PROVE FALSE
      BY <1>1
    <3>3. PICK m \in Without : \A n \in Without : m <= n
      <4>1. Without \in SUBSET Nat
        BY <1>1
      <4> HIDE DEF Without
      <4>2. QED
        BY <3>2, <4>1, LeastExists
    <3>4. m \in Nat /\ m \in 0..Length /\ ~Defined(m)
      BY <1>1, <3>3
    <3>5. CASE m = 0
      <4> DEFINE g == [n \in 1..0 |-> <<>>]
      <4>1. g = Body(g, 0)
        OBVIOUS
      <4>2. QED
        BY <3>4, <3>5, <4>1 DEF Defined
    <3>6. CASE m # 0
      <4>1. m - 1 \in 0..Length /\ ~(m <= m - 1)
        BY <1>1, <3>4, <3>6
      <4>2. m - 1 \notin Without
        <5> HIDE DEF Without
        <5>1. QED
          BY <3>3, <4>1
      <4>3. PICK g : g = Body(g, m - 1)
        BY <4>1, <4>2 DEF Defined
      <4> DEFINE h == [n \in 1..m |-> IF n < m THEN g[n]
                         ELSE IF m = 1 THEN seqs[m] ELSE g[m - 1] \o seqs[m]]
      <4>4. ASSUME NEW n \in 1..m
            PROVE  h[n] = Body(h, m)[n]
        <5>1. CASE n < m
          <6>1. h[n] = g[n] /\ n \in 1..(m - 1)
            BY <3>4, <5>1
          <6>2. n # 1 => h[n - 1] = g[n - 1]
            BY <3>4, <5>1, <6>1
          <6>3. g[n] = Body(g, m - 1)[n]
            BY <4>3
          <6>4. QED
            BY <6>1, <6>2, <6>3
        <5>2. CASE n = m
          <6>1. m # 1 => h[m - 1] = g[m - 1]
            BY <3>4, <3>6
          <6>2. QED
            BY <3>4, <3>6, <5>2, <6>1
        <5>3. QED
          BY <3>4, <5>1, <5>2
      <4>5. h = Body(h, m)
        BY <4>4
      <4>6. QED
        BY <3>4, <4>5 DEF Defined
    <3>7. QED
      BY <3>5, <3>6
  <2>2. FlattenSeq(seqs) = flat[Length]
    BY <1>3 DEF FlattenSeq
  <2> HIDE DEF flat
  <2>3. \A n \in 1..Length :
          flat[n] = IF n = 1 THEN seqs[n] ELSE flat[n - 1] \o seqs[n]
    BY <2>1
  <2>4. \A n \in Nat : IsFiniteSet(Upto(n)) /\ Cardinality(Upto(n)) \in Nat
    <3>1. IsFiniteSet(A)
      <4>1. IsFiniteSet(1..Length) /\ A \in SUBSET (1..Length)
        BY <1>1, FS_Interval
      <4>2. QED
        BY <4>1, FS_Subset
    <3>2. \A n \in Nat : Upto(n) \in SUBSET A
      OBVIOUS
    <3> HIDE DEF Upto
    <3>3. QED
      BY <3>1, <3>2, FS_Subset, FS_CardinalityType
  <2> DEFINE Good(n) == flat[n] \in Seq(T) /\ Count(flat[n], x) = Cardinality(Upto(n))
             Bad == {n \in 1..Length : ~Good(n)}
  <2>5. \A n \in 1..Length : Good(n)
    <3> SUFFICES ASSUME Bad # {} PROVE FALSE
      OBVIOUS
    <3>1. PICK n \in Bad : \A k \in Bad : n <= k
      <4>1. Bad \in SUBSET Nat
        BY <1>1
      <4> HIDE DEF Bad
      <4>2. QED
        BY <4>1, LeastExists
    <3>2. n \in 1..Length /\ n \in Nat /\ ~Good(n)
      BY <3>1
    <3>3. n # 1 => Good(n - 1)
      <4> SUFFICES ASSUME n # 1 PROVE Good(n - 1)
        OBVIOUS
      <4>1. n - 1 \in 1..Length /\ ~(n <= n - 1)
        BY <1>1, <3>2
      <4>2. n - 1 \notin Bad
        BY <3>1, <4>1
      <4>3. QED
        BY <4>1, <4>2
    <3>4. seqs[n] \in Seq(T) /\ n \in DOMAIN seqs
      BY <1>1, <3>2
    <3>5. Count(seqs[n], x) = IF n \in A THEN 1 ELSE 0
      BY <3>4
    <3>6. Cardinality(Upto(n)) = (IF n \in A THEN 1 ELSE 0)
                                   + (IF n = 1 THEN 0 ELSE Cardinality(Upto(n - 1)))
      <4>1. Upto(n) \ {n} = IF n = 1 THEN {} ELSE Upto(n - 1)
        BY <1>1, <3>2
      <4>2. n \in Upto(n) <=> n \in A
        BY <3>2
      <4>3. Cardinality(Upto(n) \ {n}) = IF n \in Upto(n) THEN Cardinality(Upto(n)) - 1
                                         ELSE Cardinality(Upto(n))
        BY <2>4, <3>2, FS_RemoveElement
      <4>4. Cardinality(Upto(n) \ {n}) = IF n = 1 THEN 0 ELSE Cardinality(Upto(n - 1))
        <5> HIDE DEF Upto
        <5>1. QED
          BY <4>1, FS_EmptySet
      <4>5. Cardinality(Upto(n)) \in Nat
        BY <2>4, <3>2
      <4> HIDE DEF Upto
      <4>6. QED
        BY <4>2, <4>3, <4>4, <4>5
    <3>7. CASE n = 1
      <4>1. flat[n] = seqs[n]
        BY <2>3, <3>2, <3>7
      <4> HIDE DEF Upto
      <4>2. QED
        BY <3>2, <3>4, <3>5, <3>6, <3>7, <4>1
    <3>8. CASE n # 1
      <4>1. flat[n] = flat[n - 1] \o seqs[n] /\ flat[n - 1] \in Seq(T)
        BY <2>3, <3>2, <3>3, <3>8
      <4>2. Count(flat[n], x) = Count(flat[n - 1], x) + Count(seqs[n], x)
        BY <3>4, <4>1, CountJoined
      <4>3. flat[n] \in Seq(T)
        BY <3>4, <4>1
      <4>4. Count(flat[n - 1], x) = Cardinality(Upto(n - 1))
            /\ Cardinality(Upto(n - 1)) \in Nat
        <5>1. n - 1 \in Nat
          BY <3>2, <3>8
        <5>2. QED
          BY <2>4, <3>3, <3>8, <5>1
      <4> HIDE DEF Upto
      <4>5. QED
        BY <3>2, <3>5, <3>6, <3>8, <4>2, <4>3, <4>4
    <3>9. QED
      BY <3>7, <3>8
  <2>6. Upto(Length) = A
    BY <1>1
  <2>7. Good(Length)
    <3>1. Length \in 1..Length
      BY <1>1, <1>3
    <3> HIDE DEF Good
    <3>2. QED
      BY <2>5, <3>1
  <2>8. QED
    BY <2>2, <2>6, <2>7
<1>4. QED
  BY <1>2, <1>3

-----------------------------------------------------------------------------
(* What a log writes. *)

\* What a log of token t with these calls is to add to the row r.
AddedBy(t, calls, r) ==
  IF r[2] # t THEN 0
  ELSE IF r[1] = "meter"
    THEN Cardinality({i \in DOMAIN calls : calls[i].success /\ calls[i].key = r[3]})
  ELSE IF r[3] = Null THEN 1
  ELSE Cardinality({i \in DOMAIN calls : calls[i].key = r[3]})

\* NULL and the administrator are no token, key or log, and there are finitely many
\* of those.
LEMMA NullFacts ==
  /\ Null \notin Tokens /\ Null \notin Keys /\ Null \notin Writers /\ Null # Admin
  /\ Admin \notin Writers
  /\ IsFiniteSet(Tokens \cup {Null}) /\ IsFiniteSet(Keys \cup {Null})
  /\ IsFiniteSet(Writers)
BY SetsAssumption, FS_AddElement

\* The calls of a log are a sequence of at most MaxCalls calls.
LEMMA CallsAreSequences ==
  ASSUME NEW calls \in CallLists \cup {<<>>}
  PROVE  calls \in Seq(CallSet) /\ Len(calls) <= MaxCalls /\ MaxCalls \in Nat
<1>1. <<>> \in Seq(CallSet) /\ Len(<<>>) = 0
  OBVIOUS
<1>2. CASE calls = <<>>
  BY <1>1, <1>2, CallsAssumption
<1>3. CASE calls \in CallLists
  BY <1>3, CallsAssumption DEF CallSet
<1>4. QED
  BY <1>2, <1>3

\* Statements that differ.
LEMMA StatementsDiffer ==
  /\ \A r, s : Upsert(r) = Upsert(s) <=> r = s
  /\ \A k, r : Insert(k) # Upsert(r)
  /\ \A r : ReadSettings # Upsert(r)
<1>1. ASSUME NEW r, NEW s, Upsert(r) = Upsert(s) PROVE r = s
  <2>1. Upsert(r).row = Upsert(s).row
    BY <1>1
  <2>2. QED
    BY <2>1 DEF Upsert
<1>2. ASSUME NEW k, NEW r PROVE Insert(k) # Upsert(r)
  <2>1. Insert(k).do # Upsert(r).do
    BY DEF Insert, Upsert
  <2>2. QED
    BY <2>1
<1>3. ASSUME NEW r PROVE ReadSettings # Upsert(r)
  <2>1. ReadSettings.do # Upsert(r).do
    BY DEF ReadSettings, Upsert
  <2>2. QED
    BY <2>1
<1>4. QED
  BY <1>1, <1>2, <1>3

\* The upsert of a row is a statement.
LEMMA UpsertType ==
  ASSUME NEW r \in Rows
  PROVE  Upsert(r) \in Statement
BY DEF Upsert, Statement

\* The rows of a token and a key, or of NULL for either.
LEMMA RowType ==
  ASSUME NEW t \in Tokens \cup {Null}, NEW k \in Keys \cup {Null}
  PROVE  <<"daily", t, k>> \in Rows /\ <<"meter", t, k>> \in Rows
BY DEF Rows

\* The statements of one call.
LEMMA CallStatementsFacts ==
  ASSUME NEW t \in Tokens \cup {Null}, NEW call \in CallSet, NEW r \in Rows
  PROVE  /\ CallStatements(t, call) \in Seq(Statement)
         /\ Count(CallStatements(t, call), Upsert(r))
              = IF call.success /\ r = <<"meter", t, call.key>> THEN 1 ELSE 0
<1> DEFINE x == Upsert(r)
           a == Insert(call.key)
           b == ReadSettings
           c == Upsert(<<"meter", t, call.key>>)
<1>1. a \in Statement /\ b \in Statement /\ c \in Statement
  <2>1. call.key \in Keys
    BY DEF CallSet
  <2>2. c \in Statement
    BY <2>1, RowType, UpsertType
  <2>3. QED
    BY <2>1, <2>2 DEF Insert, ReadSettings, Statement
<1>2. a # x /\ b # x /\ (c = x <=> r = <<"meter", t, call.key>>)
  BY StatementsDiffer
<1>3. CallStatements(t, call) = IF call.success THEN <<a, b, c>> ELSE <<a>>
  BY DEF CallStatements
<1>4. Cardinality({}) = 0 /\ Cardinality({3}) = 1
  BY FS_EmptySet, FS_Singleton
<1> HIDE DEF a, b, c, x
<1>5. CASE call.success
  <2>1. {i \in DOMAIN <<a, b, c>> : <<a, b, c>>[i] = x} = IF c = x THEN {3} ELSE {}
    <3>1. DOMAIN <<a, b, c>> = {1, 2, 3}
      OBVIOUS
    <3>2. <<a, b, c>>[1] = a /\ <<a, b, c>>[2] = b /\ <<a, b, c>>[3] = c
      OBVIOUS
    <3>3. QED
      BY <1>2, <3>1, <3>2
  <2>2. Count(<<a, b, c>>, x) = IF c = x THEN 1 ELSE 0
    BY <1>4, <2>1 DEF Count
  <2>3. QED
    BY <1>1, <1>2, <1>3, <1>5, <2>2 DEF x
<1>6. CASE ~call.success
  <2>1. {i \in DOMAIN <<a>> : <<a>>[i] = x} = {}
    BY <1>2
  <2>2. Count(<<a>>, x) = 0
    BY <1>4, <2>1 DEF Count
  <2>3. QED
    BY <1>1, <1>3, <1>6, <2>2 DEF x
<1>7. QED
  BY <1>5, <1>6 DEF CallSet

\* All statements of a log: each row is written as often as it should count.
LEMMA StatementsFacts ==
  ASSUME NEW t \in Tokens \cup {Null}, NEW calls \in Seq(CallSet), NEW r \in Rows
  PROVE  /\ Statements(t, calls) \in Seq(Statement)
         /\ Count(Statements(t, calls), Upsert(r)) = AddedBy(t, calls, r)
<1> DEFINE x == Upsert(r)
           seqs == [i \in DOMAIN calls |-> CallStatements(t, calls[i])]
           once == <<Upsert(<<"daily", t, Null>>)>>
           each == [i \in DOMAIN calls |-> Upsert(<<"daily", t, calls[i].key>>)]
           A == {i \in DOMAIN calls : calls[i].success /\ r = <<"meter", t, calls[i].key>>}
<1>1. \A i \in DOMAIN calls : calls[i] \in CallSet /\ calls[i].key \in Keys
  <2>1. \A i \in DOMAIN calls : calls[i] \in CallSet
    OBVIOUS
  <2>2. QED
    BY <2>1 DEF CallSet
<1>2. /\ seqs \in Seq(Seq(Statement)) /\ DOMAIN seqs = DOMAIN calls
      /\ \A i \in DOMAIN seqs : Count(seqs[i], x) = IF i \in A THEN 1 ELSE 0
  <2>1. \A i \in DOMAIN calls : seqs[i] = CallStatements(t, calls[i])
    OBVIOUS
  <2>2. \A i \in DOMAIN calls : seqs[i] \in Seq(Statement)
    BY <1>1, <2>1, CallStatementsFacts
  <2>3. seqs \in Seq(Seq(Statement)) /\ DOMAIN seqs = DOMAIN calls
    <3>1. DOMAIN calls = 1..Len(calls) /\ Len(calls) \in Nat
      OBVIOUS
    <3>2. seqs \in [1..Len(calls) -> Seq(Statement)]
      BY <2>2, <3>1
    <3>3. QED
      BY <3>1, <3>2
  <2>4. \A i \in DOMAIN calls : Count(seqs[i], x) = IF i \in A THEN 1 ELSE 0
    BY <1>1, <2>1, CallStatementsFacts
  <2>5. QED
    BY <2>3, <2>4
<1>3. FlattenSeq(seqs) \in Seq(Statement) /\ Count(FlattenSeq(seqs), x) = Cardinality(A)
  <2>1. A \in SUBSET DOMAIN seqs
    BY <1>2
  <2> HIDE DEF seqs, A, x
  <2>2. QED
    BY <1>2, <2>1, CountFlattened
<1>4. once \in Seq(Statement) /\ Count(once, x) = IF r = <<"daily", t, Null>> THEN 1 ELSE 0
  <2>1. Upsert(<<"daily", t, Null>>) \in Statement
    BY RowType, UpsertType
  <2>2. once \in Seq(Statement)
    BY <2>1
  <2>3. {i \in DOMAIN once : once[i] = x} = IF r = <<"daily", t, Null>> THEN {1} ELSE {}
    BY StatementsDiffer
  <2>4. Cardinality({}) = 0 /\ Cardinality({1}) = 1
    BY FS_EmptySet, FS_Singleton
  <2> HIDE DEF once
  <2>5. QED
    BY <2>2, <2>3, <2>4 DEF Count
<1>5. /\ each \in Seq(Statement)
      /\ Count(each, x)
           = Cardinality({i \in DOMAIN calls : r = <<"daily", t, calls[i].key>>})
  <2>1. \A i \in DOMAIN calls : each[i] \in Statement
    <3>1. \A i \in DOMAIN calls : <<"daily", t, calls[i].key>> \in Rows
      BY <1>1, RowType
    <3>2. QED
      BY <3>1, UpsertType
  <2>2. each \in Seq(Statement)
    <3>1. DOMAIN calls = 1..Len(calls) /\ Len(calls) \in Nat
      OBVIOUS
    <3>2. each \in [1..Len(calls) -> Statement]
      BY <2>1, <3>1
    <3> HIDE DEF each
    <3>3. QED
      BY <3>1, <3>2
  <2>3. {i \in DOMAIN each : each[i] = x}
          = {i \in DOMAIN calls : r = <<"daily", t, calls[i].key>>}
    BY StatementsDiffer
  <2> HIDE DEF each
  <2>4. QED
    BY <2>2, <2>3 DEF Count
<1>6. Statements(t, calls) = FlattenSeq(seqs) \o once \o each
  BY DEF Statements
<1> DEFINE flat == FlattenSeq(seqs)
           E == {i \in DOMAIN calls : r = <<"daily", t, calls[i].key>>}
<1>7. /\ flat \o once \in Seq(Statement)
      /\ Count(flat \o once, x)
           = Cardinality(A) + IF r = <<"daily", t, Null>> THEN 1 ELSE 0
  <2> HIDE DEF flat, once, x, A
  <2>1. flat \o once \in Seq(Statement)
    BY <1>3, <1>4 DEF flat
  <2>2. QED
    BY <1>3, <1>4, <2>1, CountJoined DEF flat
<1>8. /\ Statements(t, calls) \in Seq(Statement)
      /\ Count(Statements(t, calls), x)
           = Cardinality(A) + (IF r = <<"daily", t, Null>> THEN 1 ELSE 0) + Cardinality(E)
  <2> HIDE DEF once, each, x, A, E
  <2>1. Statements(t, calls) = (flat \o once) \o each
    BY <1>6 DEF flat
  <2> HIDE DEF flat
  <2>2. Statements(t, calls) \in Seq(Statement)
    BY <1>5, <1>7, <2>1
  <2>3. Count((flat \o once) \o each, x) = Count(flat \o once, x) + Count(each, x)
    BY <1>5, <1>7, CountJoined
  <2>4. Count(each, x) = Cardinality(E)
    BY <1>5 DEF E
  <2>5. QED
    BY <1>7, <2>1, <2>2, <2>3, <2>4
<1>9. PICK table \in {"daily", "meter"}, s \in Tokens \cup {Null}, k \in Keys \cup {Null} :
        r = <<table, s, k>>
  BY DEF Rows
<1>10. r[1] = table /\ r[2] = s /\ r[3] = k /\ Null \notin Keys
  BY <1>9, NullFacts
<1>11. Cardinality({}) = 0
  BY FS_EmptySet
<1>12. A = IF table = "meter" /\ s = t
             THEN {i \in DOMAIN calls : calls[i].success /\ calls[i].key = k} ELSE {}
  BY <1>9
<1>13. E = IF table = "daily" /\ s = t
             THEN {i \in DOMAIN calls : calls[i].key = k} ELSE {}
  BY <1>9
<1>14. r = <<"daily", t, Null>> <=> table = "daily" /\ s = t /\ k = Null
  BY <1>9
<1>15. k = Null => E = {}
  BY <1>1, <1>10, <1>13
<1>16. IsFiniteSet(DOMAIN calls)
  <2>1. DOMAIN calls = 1..Len(calls) /\ Len(calls) \in Nat
    OBVIOUS
  <2>2. QED
    BY <2>1, FS_Interval
<1>17. Cardinality(A) \in Nat /\ Cardinality(E) \in Nat
  <2>1. A \in SUBSET DOMAIN calls /\ E \in SUBSET DOMAIN calls
    OBVIOUS
  <2> HIDE DEF A, E
  <2>2. QED
    BY <1>16, <2>1, FS_Subset, FS_CardinalityType
<1> HIDE DEF A, E
<1>18. Count(Statements(t, calls), x) = AddedBy(t, calls, r)
  <2> DEFINE n == Count(Statements(t, calls), x)
  <2>1. n = Cardinality(A) + (IF r = <<"daily", t, Null>> THEN 1 ELSE 0) + Cardinality(E)
    BY <1>8
  <2> HIDE DEF n
  <2>2. CASE s # t
    <3>1. A = {} /\ E = {} /\ r # <<"daily", t, Null>>
      BY <1>12, <1>13, <1>14, <2>2
    <3>2. QED
      BY <1>10, <1>11, <2>1, <2>2, <3>1 DEF AddedBy, n
  <2>3. CASE s = t /\ table = "meter"
    <3>1. E = {} /\ r # <<"daily", t, Null>>
      BY <1>13, <1>14, <2>3
    <3>2. n = Cardinality(A)
      BY <1>11, <1>17, <2>1, <3>1
    <3>3. AddedBy(t, calls, r) = Cardinality(A)
      BY <1>10, <1>12, <2>3 DEF AddedBy
    <3>4. QED
      BY <3>2, <3>3 DEF n
  <2>4. CASE s = t /\ table = "daily"
    <3>1. A = {} /\ Cardinality(A) = 0
      BY <1>11, <1>12, <2>4
    <3>2. CASE k = Null
      <4>1. Cardinality(E) = 0 /\ r = <<"daily", t, Null>>
        BY <1>11, <1>14, <1>15, <2>4, <3>2
      <4>2. n = 1
        BY <2>1, <3>1, <4>1
      <4>3. AddedBy(t, calls, r) = 1
        BY <1>10, <2>4, <3>2 DEF AddedBy
      <4>4. QED
        BY <4>2, <4>3 DEF n
    <3>3. CASE k # Null
      <4>1. n = Cardinality(E)
        BY <1>14, <1>17, <2>1, <3>1, <3>3
      <4>2. AddedBy(t, calls, r) = Cardinality(E)
        BY <1>10, <1>13, <2>4, <3>3 DEF AddedBy
      <4>3. QED
        BY <4>1, <4>2 DEF n
    <3>4. QED
      BY <3>2, <3>3
  <2>5. QED
    BY <2>2, <2>3, <2>4
<1>19. QED
  BY <1>8, <1>18

-----------------------------------------------------------------------------
(* The counts. *)

\* A row is its table, its token and its key.
LEMMA RowFacts ==
  ASSUME NEW r \in Rows
  PROVE  /\ r = <<r[1], r[2], r[3]>> /\ r[1] \in {"daily", "meter"}
         /\ r[2] \in Tokens \cup {Null} /\ r[3] \in Keys \cup {Null}
BY DEF Rows

\* The terms of the sums are natural numbers.
LEMMA SumTerms ==
  ASSUME NEW u \in [Rows -> Nat]
  PROVE  /\ \A k \in Keys \cup {Null} : DailyOf(u, k) \in [Tokens \cup {Null} -> Nat]
         /\ \A t \in Tokens \cup {Null} : MeterOf(u, t) \in [Keys \cup {Null} -> Nat]
<1>1. \A t \in Tokens \cup {Null}, k \in Keys \cup {Null} :
        u[<<"daily", t, k>>] \in Nat /\ u[<<"meter", t, k>>] \in Nat
  BY RowType
<1>2. QED
  BY <1>1 DEF DailyOf, MeterOf

\* The sets that are counted are finite.
LEMMA CountedAreFinite ==
  ASSUME NEW p, NEW e
  PROVE  /\ IsFiniteSet(CommittedIn(p)) /\ IsFiniteSet(CallsIn(p, e))
         /\ \A t : IsFiniteSet(LoggedIn(p, e, t)) /\ IsFiniteSet(SucceededIn(p, e, t))
         /\ \A k : IsFiniteSet(KeyCallsIn(p, e, k))
<1>1. IsFiniteSet(Writers) /\ CommittedIn(p) \in SUBSET Writers
  BY NullFacts DEF CommittedIn
<1>2. IsFiniteSet(CommittedIn(p))
  BY <1>1, FS_Subset
<1>3. IsFiniteSet(1..MaxCalls)
  BY CallsAssumption, FS_Interval
<1>4. IsFiniteSet(CommittedIn(p) \X (1..MaxCalls))
  BY <1>2, <1>3, FS_Product
<1>5. CallsIn(p, e) \in SUBSET (CommittedIn(p) \X (1..MaxCalls))
  BY DEF CallsIn
<1>6. IsFiniteSet(CallsIn(p, e))
  BY <1>4, <1>5, FS_Subset
<1>7. /\ \A t : LoggedIn(p, e, t) \in SUBSET CommittedIn(p)
      /\ \A t : SucceededIn(p, e, t) \in SUBSET CallsIn(p, e)
      /\ \A k : KeyCallsIn(p, e, k) \in SUBSET CallsIn(p, e)
  BY DEF LoggedIn, SucceededIn, KeyCallsIn
<1>8. QED
  BY <1>2, <1>6, <1>7, FS_Subset

\* Nothing is counted anew as long as no log is committed.
LEMMA CountingKept ==
  ASSUME NEW u, NEW p, NEW e, NEW ts, NEW ks, Counting(u, p, e, ts, ks),
         NEW q, NEW d, \A w \in Writers : q[w] = "committed" <=> p[w] = "committed",
         \A w \in Writers : p[w] = "committed" => d[w] = e[w]
  PROVE  Counting(u, q, d, ts, ks)
<1>1. CommittedIn(q) = CommittedIn(p)
  BY DEF CommittedIn
<1>2. \A w \in CommittedIn(p) : d[w] = e[w]
  BY DEF CommittedIn
<1>3. CallsIn(q, d) = CallsIn(p, e)
  BY <1>1, <1>2 DEF CallsIn
<1>4. \A c \in CallsIn(p, e) : d[c[1]] = e[c[1]]
  BY <1>2 DEF CallsIn
<1>5. /\ \A t : LoggedIn(q, d, t) = LoggedIn(p, e, t)
      /\ \A t : SucceededIn(q, d, t) = SucceededIn(p, e, t)
      /\ \A k : KeyCallsIn(q, d, k) = KeyCallsIn(p, e, k)
  BY <1>1, <1>2, <1>3, <1>4 DEF LoggedIn, SucceededIn, KeyCallsIn
<1>6. QED
  BY <1>1, <1>5 DEF Counting

\* The calls of one log, by their number.
LEMMA CallsOfOne ==
  ASSUME NEW w, NEW A \in SUBSET Nat, IsFiniteSet(A)
  PROVE  /\ IsFiniteSet({w} \X A)
         /\ Cardinality({w} \X A) = Cardinality(A) /\ Cardinality(A) \in Nat
<1>1. IsFiniteSet({w}) /\ Cardinality({w}) = 1
  BY FS_Singleton
<1>2. IsFiniteSet({w} \X A) /\ Cardinality({w} \X A) = Cardinality({w}) * Cardinality(A)
  BY <1>1, FS_Product
<1>3. Cardinality(A) \in Nat
  BY FS_CardinalityType
<1>4. QED
  BY <1>1, <1>2, <1>3

\* Two sets that have nothing in common add up.
LEMMA CountApart ==
  ASSUME NEW A, NEW B, IsFiniteSet(A), IsFiniteSet(B), A \cap B = {}
  PROVE  /\ Cardinality(A \cup B) = Cardinality(A) + Cardinality(B)
         /\ Cardinality(A) \in Nat /\ Cardinality(B) \in Nat
<1>1. Cardinality(A \cup B) = Cardinality(A) + Cardinality(B) - Cardinality(A \cap B)
  BY FS_Union
<1>2. Cardinality(A \cap B) = 0
  BY FS_EmptySet
<1>3. Cardinality(A) \in Nat /\ Cardinality(B) \in Nat
  BY FS_CardinalityType
<1>4. QED
  BY <1>1, <1>2, <1>3

\* The log of w, so far not committed, is committed: rows u become a, places p
\* become q.
CommitOf(w, u, p, e, q, a) ==
  /\ u \in [Rows -> Nat] /\ e \in [Writers -> EntrySet]
  /\ p[w] # "committed" /\ q[w] = "committed"
  /\ \A v \in Writers \ {w} : q[v] = "committed" <=> p[v] = "committed"
  /\ a = [r \in Rows |-> u[r] + AddedBy(e[w].token, e[w].calls, r)]

\* A log that is committed counts as its request and its calls do.
LEMMA CountingCommit ==
  ASSUME NEW w \in Writers, NEW u, NEW p, NEW e, NEW q, NEW a, CommitOf(w, u, p, e, q, a),
         NEW ts \in SUBSET Tokens, NEW ks \in SUBSET Keys, Counting(u, p, e, ts, ks)
  PROVE  /\ Counting(a, q, e, ts, ks) /\ a \in [Rows -> Nat]
         /\ \A r \in Rows : u[r] <= a[r]
         /\ CoveredBy(u) => CoveredBy(a)
<1> /\ u \in [Rows -> Nat] /\ e \in [Writers -> EntrySet]
    /\ p[w] # "committed" /\ q[w] = "committed"
    /\ \A v \in Writers \ {w} : q[v] = "committed" <=> p[v] = "committed"
    /\ a = [r \in Rows |-> u[r] + AddedBy(e[w].token, e[w].calls, r)]
  BY DEF CommitOf
<1> DEFINE tk == e[w].token
           calls == e[w].calls
           ofKey(k) == {i \in DOMAIN calls : calls[i].key = k}
           good == {i \in DOMAIN calls : calls[i].success}
           goodOf(k) == {i \in DOMAIN calls : calls[i].success /\ calls[i].key = k}
           TN == Tokens \cup {Null}
           KN == Keys \cup {Null}
<1>1. tk \in TN /\ calls \in Seq(CallSet) /\ DOMAIN calls \subseteq 1..MaxCalls
      /\ DOMAIN calls \subseteq Nat /\ IsFiniteSet(DOMAIN calls)
  <2>1. e[w] \in EntrySet
    OBVIOUS
  <2>2. tk \in TN /\ calls \in CallLists \cup {<<>>}
    BY <2>1 DEF EntrySet
  <2> HIDE DEF calls
  <2>3. calls \in Seq(CallSet) /\ Len(calls) <= MaxCalls /\ MaxCalls \in Nat
    BY <2>2, CallsAreSequences
  <2>4. DOMAIN calls = 1..Len(calls) /\ Len(calls) \in Nat
    BY <2>3
  <2>5. IsFiniteSet(1..Len(calls))
    BY <2>4, FS_Interval
  <2>6. QED
    BY <2>2, <2>3, <2>4, <2>5
<1>2. \A i \in DOMAIN calls : calls[i].key \in Keys /\ calls[i].key # Null
  <2>1. \A i \in DOMAIN calls : calls[i] \in CallSet
    BY <1>1
  <2>2. QED
    BY <2>1, NullFacts DEF CallSet
<1>3. /\ \A k : ofKey(k) \in SUBSET DOMAIN calls /\ goodOf(k) \in SUBSET DOMAIN calls
      /\ good \in SUBSET DOMAIN calls
  OBVIOUS
<1>4. /\ \A k : /\ IsFiniteSet(ofKey(k)) /\ Cardinality(ofKey(k)) \in Nat
                /\ IsFiniteSet(goodOf(k)) /\ Cardinality(goodOf(k)) \in Nat
                /\ ofKey(k) \in SUBSET Nat /\ goodOf(k) \in SUBSET Nat
      /\ IsFiniteSet(good) /\ Cardinality(good) \in Nat /\ good \in SUBSET Nat
  <2> HIDE DEF ofKey, goodOf, good
  <2>1. QED
    BY <1>1, <1>3, FS_Subset, FS_CardinalityType
<1>5. ASSUME NEW t \in TN, NEW k \in KN
      PROVE  /\ a[<<"daily", t, k>>] = u[<<"daily", t, k>>]
                  + (IF t # tk THEN 0 ELSE IF k = Null THEN 1 ELSE Cardinality(ofKey(k)))
             /\ a[<<"meter", t, k>>] = u[<<"meter", t, k>>]
                  + (IF t # tk THEN 0 ELSE Cardinality(goodOf(k)))
  <2>1. <<"daily", t, k>> \in Rows /\ <<"meter", t, k>> \in Rows
    BY RowType
  <2>2. QED
    BY <2>1 DEF AddedBy
<1>6. \A r \in Rows : AddedBy(tk, calls, r) \in Nat
  BY <1>4 DEF AddedBy
<1>7. a \in [Rows -> Nat] /\ \A r \in Rows : u[r] <= a[r]
  <2> HIDE DEF tk, calls
  <2>1. a = [r \in Rows |-> u[r] + AddedBy(tk, calls, r)]
    BY DEF tk, calls
  <2>2. \A r \in Rows : u[r] \in Nat /\ a[r] = u[r] + AddedBy(tk, calls, r)
    BY <2>1
  <2>3. \A r \in Rows : a[r] \in Nat /\ u[r] <= a[r]
    BY <1>6, <2>2
  <2>4. QED
    BY <2>1, <2>3
<1>8. CommittedIn(q) = CommittedIn(p) \cup {w} /\ w \notin CommittedIn(p)
  BY DEF CommittedIn
<1>9. CallsIn(q, e) = CallsIn(p, e) \cup ({w} \X DOMAIN calls)
  BY <1>1, <1>8 DEF CallsIn
<1>10. \A c \in CallsIn(p, e) : c[1] # w
  BY <1>8 DEF CallsIn
<1> HIDE DEF tk, calls, TN, KN, ofKey, good, goodOf
<1>11. CoveredBy(u) => CoveredBy(a)
  <2> SUFFICES ASSUME CoveredBy(u), NEW t \in TN, NEW k \in Keys, a[<<"daily", t, k>>] > 0
               PROVE  a[<<"daily", t, Null>>] > 0
    BY DEF CoveredBy, TN
  <2>1. <<"daily", t, k>> \in Rows /\ <<"daily", t, Null>> \in Rows
        /\ k \in KN /\ Null \in KN /\ k # Null
    BY RowType, NullFacts DEF TN, KN
  <2>2. u[<<"daily", t, k>>] \in Nat /\ u[<<"daily", t, Null>>] \in Nat
    BY <2>1
  <2>3. a[<<"daily", t, Null>>] = u[<<"daily", t, Null>>] + IF t # tk THEN 0 ELSE 1
    BY <1>5, <2>1
  <2>4. CASE t = tk
    BY <2>2, <2>3, <2>4
  <2>5. CASE t # tk
    <3>1. a[<<"daily", t, k>>] = u[<<"daily", t, k>>] + 0
      BY <1>5, <2>1, <2>5
    <3>2. u[<<"daily", t, Null>>] > 0
      BY <2>2, <3>1 DEF CoveredBy, TN
    <3>3. QED
      BY <2>2, <2>3, <3>2
  <2>6. QED
    BY <2>4, <2>5
<1>12. ASSUME NEW t \in ts
       PROVE  a[<<"daily", t, Null>>] = Cardinality(LoggedIn(q, e, t))
  <2>1. t \in TN /\ Null \in KN /\ u[<<"daily", t, Null>>] = Cardinality(LoggedIn(p, e, t))
    BY DEF Counting, TN, KN
  <2>2. LoggedIn(q, e, t) = IF t = tk THEN LoggedIn(p, e, t) \cup {w} ELSE LoggedIn(p, e, t)
    BY <1>8 DEF LoggedIn, tk
  <2>3. w \notin LoggedIn(p, e, t) /\ IsFiniteSet(LoggedIn(p, e, t))
    <3>1. w \notin LoggedIn(p, e, t)
      BY <1>8 DEF LoggedIn
    <3>2. QED
      BY <3>1, CountedAreFinite
  <2>4. Cardinality(LoggedIn(p, e, t) \cup {w}) = Cardinality(LoggedIn(p, e, t)) + 1
        /\ Cardinality(LoggedIn(p, e, t)) \in Nat
    BY <2>3, FS_AddElement, FS_CardinalityType
  <2>5. a[<<"daily", t, Null>>] = u[<<"daily", t, Null>>] + IF t # tk THEN 0 ELSE 1
    BY <1>5, <2>1
  <2>6. CASE t = tk
    BY <2>1, <2>2, <2>4, <2>5, <2>6
  <2>7. CASE t # tk
    BY <2>1, <2>2, <2>4, <2>5, <2>7
  <2>8. QED
    BY <2>6, <2>7
<1>13. ASSUME NEW t \in ts
       PROVE  SumOf(MeterOf(a, t), Keys \cup {Null}) = Cardinality(SucceededIn(q, e, t))
  <2>1. /\ t \in TN /\ t \in Tokens \cup {Null} /\ IsFiniteSet(Keys \cup {Null})
        /\ SumOf(MeterOf(u, t), Keys \cup {Null}) = Cardinality(SucceededIn(p, e, t))
    BY NullFacts DEF Counting, TN
  <2>2. MeterOf(u, t) \in [Keys \cup {Null} -> Nat] /\ MeterOf(a, t) \in [Keys \cup {Null} -> Nat]
    BY <1>7, <2>1, SumTerms
  <2>3. CASE t # tk
    <3>1. SucceededIn(q, e, t) = SucceededIn(p, e, t)
      BY <1>9, <2>3 DEF SucceededIn, tk
    <3>2. MeterOf(a, t) = MeterOf(u, t)
      <4>1. \A k \in Keys \cup {Null} :
              /\ <<"meter", t, k>> \in Rows /\ u[<<"meter", t, k>>] \in Nat
              /\ a[<<"meter", t, k>>] = u[<<"meter", t, k>>] + 0
        BY <1>5, <2>1, <2>3, RowType DEF KN
      <4>2. QED
        BY <4>1 DEF MeterOf
    <3>3. QED
      BY <2>1, <3>1, <3>2
  <2>4. CASE t = tk
    <3> DEFINE new == [k \in Keys \cup {Null} |-> Cardinality(goodOf(k))]
               kind == [i \in good |-> calls[i].key]
               those == [k \in Keys \cup {Null} |-> goodOf(k)]
    <3>1. kind \in [good -> Keys \cup {Null}]
      BY <1>2 DEF good
    <3>2. /\ those \in [Keys \cup {Null} -> SUBSET good]
          /\ \A k \in Keys \cup {Null}, i \in good : i \in those[k] <=> kind[i] = k
      BY DEF good, goodOf
    <3>3. /\ new \in [Keys \cup {Null} -> Nat]
          /\ \A k \in Keys \cup {Null} : new[k] = Cardinality(those[k])
      BY <1>4
    <3>4. SumOf(new, Keys \cup {Null}) = Cardinality(good)
      <4>1. IsFiniteSet(good) /\ IsFiniteSet(Keys \cup {Null})
        BY <1>4, <2>1
      <4> HIDE DEF new, kind, those
      <4>2. QED
        BY <4>1, <3>1, <3>2, <3>3, SumOfKinds
    <3>5. new \in [Keys \cup {Null} -> Nat]
      BY <3>3
    <3>6. \A k \in Keys \cup {Null} : MeterOf(a, t)[k] = MeterOf(u, t)[k] + new[k]
      <4>1. \A k \in Keys \cup {Null} :
              a[<<"meter", t, k>>] = u[<<"meter", t, k>>] + Cardinality(goodOf(k))
        BY <1>5, <2>1, <2>4, ZenonT(60) DEF KN
      <4>2. QED
        BY <4>1 DEF MeterOf
    <3> HIDE DEF new, kind, those
    <3>7. SumOf(MeterOf(a, t), Keys \cup {Null})
            = SumOf(MeterOf(u, t), Keys \cup {Null}) + SumOf(new, Keys \cup {Null})
      BY <2>1, <2>2, <3>5, <3>6, SumOfSums
    <3>8. SucceededIn(q, e, t) = SucceededIn(p, e, t) \cup ({w} \X good)
      BY <1>9, <2>4 DEF SucceededIn, tk, calls, good
    <3>9. SucceededIn(p, e, t) \cap ({w} \X good) = {}
      BY <1>10 DEF SucceededIn
    <3>10. IsFiniteSet({w} \X good) /\ Cardinality({w} \X good) = Cardinality(good)
      BY <1>4, CallsOfOne
    <3>11. IsFiniteSet(SucceededIn(p, e, t))
      BY CountedAreFinite
    <3>12. Cardinality(SucceededIn(q, e, t))
             = Cardinality(SucceededIn(p, e, t)) + Cardinality(good)
      BY <3>8, <3>9, <3>10, <3>11, CountApart
    <3>13. QED
      BY <2>1, <3>4, <3>7, <3>12
  <2>5. QED
    BY <2>3, <2>4
<1>14. ASSUME NEW k \in KN, NEW n \in Nat,
              a[<<"daily", tk, k>>] = u[<<"daily", tk, k>>] + n
       PROVE  /\ SumOf(DailyOf(a, k), Tokens \cup {Null})
                   = SumOf(DailyOf(u, k), Tokens \cup {Null}) + n
              /\ SumOf(DailyOf(u, k), Tokens \cup {Null}) \in Nat
  <2>1. /\ k \in Keys \cup {Null} /\ tk \in Tokens \cup {Null}
        /\ IsFiniteSet(Tokens \cup {Null})
    BY <1>1, NullFacts DEF KN, TN
  <2>2. /\ DailyOf(u, k) \in [Tokens \cup {Null} -> Nat]
        /\ DailyOf(a, k) \in [Tokens \cup {Null} -> Nat]
    BY <1>7, <2>1, SumTerms
  <2>3. /\ DailyOf(a, k)[tk] = DailyOf(u, k)[tk] + n
        /\ \A t \in (Tokens \cup {Null}) \ {tk} : DailyOf(a, k)[t] = DailyOf(u, k)[t]
    <3>1. \A t \in (Tokens \cup {Null}) \ {tk} :
            /\ <<"daily", t, k>> \in Rows /\ u[<<"daily", t, k>>] \in Nat
            /\ a[<<"daily", t, k>>] = u[<<"daily", t, k>>] + 0
      BY <1>5, <2>1, RowType DEF TN
    <3>2. QED
      BY <1>14, <2>1, <3>1 DEF DailyOf
  <2>4. QED
    BY <2>1, <2>2, <2>3, SumAfterAdding
<1>15. SumOf(DailyOf(a, Null), Tokens \cup {Null}) <= Cardinality(CommittedIn(q))
  <2>1. Null \in KN /\ IsFiniteSet(CommittedIn(p))
    BY CountedAreFinite DEF KN
  <2>2. a[<<"daily", tk, Null>>] = u[<<"daily", tk, Null>>] + 1
    BY <1>1, <1>5, <2>1
  <2>3. Cardinality(CommittedIn(q)) = Cardinality(CommittedIn(p)) + 1
    BY <1>8, <2>1, FS_AddElement
  <2>4. /\ SumOf(DailyOf(u, Null), Tokens \cup {Null}) <= Cardinality(CommittedIn(p))
        /\ Cardinality(CommittedIn(p)) \in Nat
    BY <2>1, FS_CardinalityType DEF Counting
  <2>5. /\ SumOf(DailyOf(a, Null), Tokens \cup {Null})
             = SumOf(DailyOf(u, Null), Tokens \cup {Null}) + 1
        /\ SumOf(DailyOf(u, Null), Tokens \cup {Null}) \in Nat
    BY <1>14, <2>1, <2>2
  <2>6. QED
    BY <2>3, <2>4, <2>5
<1>16. ASSUME NEW k \in ks
       PROVE  SumOf(DailyOf(a, k), Tokens \cup {Null}) <= Cardinality(KeyCallsIn(q, e, k))
  <2>1. k \in KN /\ k # Null /\ IsFiniteSet(KeyCallsIn(p, e, k))
    BY CountedAreFinite, NullFacts DEF KN
  <2>2. a[<<"daily", tk, k>>] = u[<<"daily", tk, k>>] + Cardinality(ofKey(k))
    BY <1>1, <1>5, <2>1
  <2>3. KeyCallsIn(q, e, k) = KeyCallsIn(p, e, k) \cup ({w} \X ofKey(k))
    BY <1>9 DEF KeyCallsIn, calls, ofKey
  <2>4. KeyCallsIn(p, e, k) \cap ({w} \X ofKey(k)) = {}
    BY <1>10 DEF KeyCallsIn
  <2>5. /\ IsFiniteSet({w} \X ofKey(k))
        /\ Cardinality({w} \X ofKey(k)) = Cardinality(ofKey(k))
    BY <1>4, CallsOfOne
  <2>6. Cardinality(KeyCallsIn(q, e, k))
          = Cardinality(KeyCallsIn(p, e, k)) + Cardinality(ofKey(k))
    BY <2>1, <2>3, <2>4, <2>5, CountApart
  <2>7. SumOf(DailyOf(u, k), Tokens \cup {Null}) <= Cardinality(KeyCallsIn(p, e, k))
    BY DEF Counting
  <2>8. Cardinality(ofKey(k)) \in Nat /\ Cardinality(KeyCallsIn(p, e, k)) \in Nat
    BY <1>4, <2>1, FS_CardinalityType
  <2>9. /\ SumOf(DailyOf(a, k), Tokens \cup {Null})
             = SumOf(DailyOf(u, k), Tokens \cup {Null}) + Cardinality(ofKey(k))
        /\ SumOf(DailyOf(u, k), Tokens \cup {Null}) \in Nat
    BY <1>14, <2>1, <2>2, <2>8
  <2>10. QED
    BY <2>6, <2>7, <2>8, <2>9
<1>17. QED
  BY <1>7, <1>11, <1>12, <1>13, <1>15, <1>16 DEF Counting

-----------------------------------------------------------------------------
(* Types. *)

\* What a committed log adds to a row.
LEMMA AddedFacts ==
  ASSUME RequestLogTypeOK, NEW w \in Writers, NEW r \in Rows
  PROVE  /\ Written(w) \in Seq(Statement)
         /\ Added(w, r) = AddedBy(entry[w].token, entry[w].calls, r)
         /\ Added(w, r) \in Nat
         /\ Added(w, r) # 0 => \E i \in DOMAIN Written(w) : Written(w)[i] = Upsert(r)
<1>1. entry[w] \in EntrySet
  BY DEF RequestLogTypeOK
<1>2. entry[w].token \in Tokens \cup {Null} /\ entry[w].calls \in CallLists \cup {<<>>}
  BY <1>1 DEF EntrySet
<1>3. entry[w].calls \in Seq(CallSet)
  BY <1>2, CallsAreSequences
<1>4. /\ Written(w) \in Seq(Statement)
      /\ Count(Written(w), Upsert(r)) = AddedBy(entry[w].token, entry[w].calls, r)
  BY <1>2, <1>3, StatementsFacts DEF Written
<1>5. Added(w, r) = Count(Written(w), Upsert(r))
  BY DEF Added, Count, Written
<1>6. Count(Written(w), Upsert(r)) \in Nat
  BY <1>4, CountType
<1>7. ASSUME ~\E i \in DOMAIN Written(w) : Written(w)[i] = Upsert(r)
      PROVE  Added(w, r) = 0
  <2>1. {i \in DOMAIN Written(w) : Written(w)[i] = Upsert(r)} = {}
    BY <1>7
  <2>2. QED
    BY <1>5, <2>1, FS_EmptySet DEF Count
<1>8. QED
  BY <1>4, <1>5, <1>6, <1>7

\* The statement that is next.
LEMMA NextStatement ==
  ASSUME RequestLogTypeOK, NEW w \in Writers, NEW do, NextIs(w, do)
  PROVE  /\ Head(todo[w]) \in Statement /\ Tail(todo[w]) \in Seq(Statement)
         /\ Head(todo[w]).do = do /\ w \in Open /\ todo[w] # <<>>
         /\ \A s : (\E j \in DOMAIN todo[w] : todo[w][j] = s) =>
              s = Head(todo[w]) \/ \E j \in DOMAIN Tail(todo[w]) : Tail(todo[w])[j] = s
<1>1. todo[w] \in Seq(Statement) /\ todo[w] # <<>> /\ Head(todo[w]).do = do /\ w \in Open
  BY DEF RequestLogTypeOK, NextIs
<1> DEFINE q == todo[w]
<1>2. q \in Seq(Statement) /\ q # <<>>
  BY <1>1
<1> HIDE DEF q
<1>3. Head(q) \in Statement /\ Tail(q) \in Seq(Statement) /\ Head(q) = q[1]
      /\ Len(Tail(q)) = Len(q) - 1 /\ Len(q) \in Nat /\ DOMAIN q = 1..Len(q)
      /\ DOMAIN Tail(q) = 1..Len(Tail(q))
  BY <1>2
<1>4. \A j \in 1..Len(Tail(q)) : Tail(q)[j] = q[j + 1]
  BY <1>2
<1>5. ASSUME NEW j \in DOMAIN q, j # 1
      PROVE  \E i \in DOMAIN Tail(q) : Tail(q)[i] = q[j]
  <2>1. j - 1 \in 1..Len(Tail(q)) /\ (j - 1) + 1 = j
    BY <1>3, <1>5
  <2>2. Tail(q)[j - 1] = q[j]
    BY <1>4, <2>1
  <2>3. QED
    BY <1>3, <2>1, <2>2
<1>6. QED
  BY <1>1, <1>3, <1>5 DEF q

\* A transaction that is over leaves the types as they are.
LEMMA CloseTypes ==
  ASSUME RequestLogTypeOK, NEW w \in Writers, NEW o \in {"committed", "lost"}, Close(w, o)
  PROVE  /\ owner' \in [Rows -> Writers \cup {Null, Admin}]
         /\ pc' \in [Writers -> {"idle", "queued", "open", "committed", "lost"}]
         /\ todo' \in [Writers -> Seq(Statement)]
         /\ reading' \subseteq Writers
         /\ refs' \in [Writers -> SUBSET Keys]
<1>1. <<>> \in Seq(Statement)
  OBVIOUS
<1>2. QED
  BY <1>1 DEF RequestLogTypeOK, Close, UnlockedBy

\* So does a log that is lost.
LEMMA LoseTypes ==
  ASSUME RequestLogTypeOK, NEW w \in Writers, Lose(w)
  PROVE  RequestLogTypeOK'
<1>1. UNCHANGED <<tokens, keys, usage, entry, deletion>> /\ Close(w, "lost")
  BY DEF Lose
<1>2. QED
  BY <1>1, CloseTypes DEF RequestLogTypeOK

\* Every step keeps the types.
LEMMA TypesKept ==
  ASSUME RequestLogTypeOK, LogsSound, [Next]_vars
  PROVE  RequestLogTypeOK'
<1>1. ASSUME NEW w \in Writers, NEW t \in tokens \cup {Null}, NEW calls \in CallLists,
             Finish(w, t, calls)
      PROVE  RequestLogTypeOK'
  <2>1. [token |-> t, calls |-> calls] \in EntrySet
    BY DEF RequestLogTypeOK, EntrySet
  <2>2. entry' \in [Writers -> EntrySet]
    BY <1>1, <2>1 DEF RequestLogTypeOK, Finish
  <2>3. pc' \in [Writers -> {"idle", "queued", "open", "committed", "lost"}]
    BY <1>1 DEF RequestLogTypeOK, Finish
  <2>4. QED
    BY <1>1, <2>2, <2>3 DEF RequestLogTypeOK, Finish
<1>2. ASSUME NEW w \in Writers, Begin(w) PROVE RequestLogTypeOK'
  <2>1. CASE entry[w].token \in tokens \cup {Null}
    <3>1. Statements(entry[w].token, entry[w].calls) \in Seq(Statement)
      <4>1. PICK r \in Rows : TRUE
        BY RowType
      <4>2. QED
        BY <4>1, AddedFacts DEF Written
    <3>2. QED
      BY <1>2, <2>1, <3>1 DEF RequestLogTypeOK, Begin
  <2>2. CASE entry[w].token \notin tokens \cup {Null}
    BY <1>2, <2>2, LoseTypes DEF Begin
  <2>3. QED
    BY <2>1, <2>2
<1>3. ASSUME NEW w \in Writers, InsertCall(w) PROVE RequestLogTypeOK'
  <2>1. Tail(todo[w]) \in Seq(Statement)
    BY <1>3, NextStatement DEF InsertCall
  <2>2. CASE Head(todo[w]).key \in keys
    <3>1. todo' \in [Writers -> Seq(Statement)]
      BY <1>3, <2>1, <2>2 DEF RequestLogTypeOK, InsertCall
    <3>2. refs' \in [Writers -> SUBSET Keys]
      <4>1. refs[w] \cup {Head(todo[w]).key} \in SUBSET Keys
        BY <2>2 DEF RequestLogTypeOK
      <4>2. refs' = [refs EXCEPT ![w] = refs[w] \cup {Head(todo[w]).key}]
        BY <1>3, <2>2 DEF InsertCall
      <4>3. QED
        BY <4>1, <4>2 DEF RequestLogTypeOK
    <3>3. QED
      BY <1>3, <2>2, <3>1, <3>2 DEF RequestLogTypeOK, InsertCall
  <2>3. CASE Head(todo[w]).key \notin keys
    BY <1>3, <2>3, LoseTypes DEF InsertCall
  <2>4. QED
    BY <2>2, <2>3
<1>4. ASSUME NEW w \in Writers, BorrowConnection(w) PROVE RequestLogTypeOK'
  BY <1>4 DEF RequestLogTypeOK, BorrowConnection
<1>5. ASSUME NEW w \in Writers, ReturnConnection(w) PROVE RequestLogTypeOK'
  <2>1. Tail(todo[w]) \in Seq(Statement)
    BY <1>5, NextStatement DEF ReturnConnection, LogsSound
  <2>2. QED
    BY <1>5, <2>1 DEF RequestLogTypeOK, ReturnConnection
<1>6. ASSUME NEW w \in Writers, UpsertRow(w) PROVE RequestLogTypeOK'
  <2>1. Tail(todo[w]) \in Seq(Statement)
    BY <1>6, NextStatement DEF UpsertRow
  <2>2. owner' \in [Rows -> Writers \cup {Null, Admin}]
    BY <1>6 DEF RequestLogTypeOK, UpsertRow
  <2>3. todo' \in [Writers -> Seq(Statement)]
    BY <1>6, <2>1 DEF RequestLogTypeOK, UpsertRow
  <2>4. QED
    BY <1>6, <2>2, <2>3 DEF RequestLogTypeOK, UpsertRow
<1>7. ASSUME NEW w \in Writers, Commit(w) PROVE RequestLogTypeOK'
  <2>1. Close(w, "committed") /\ UNCHANGED <<tokens, keys, entry, deletion>>
        /\ usage' = [r \in Rows |-> usage[r] + Added(w, r)]
    BY <1>7 DEF Commit
  <2>2. \A r \in Rows : usage[r] \in Nat /\ Added(w, r) \in Nat
    BY AddedFacts DEF RequestLogTypeOK
  <2>3. usage' \in [Rows -> Nat]
    BY <2>1, <2>2
  <2>4. QED
    BY <2>1, <2>3, CloseTypes DEF RequestLogTypeOK
<1>8. ASSUME NEW d \in Deletions, StartDeletion(d.op, d.id) PROVE RequestLogTypeOK'
  <2>1. d.op \in {"token", "key"} /\ d.id \in Tokens \cup Keys \cup {Null}
    BY <1>8, DeletionsAssumption DEF RequestLogTypeOK, StartDeletion
  <2>2. deletion' = [op |-> d.op, id |-> d.id, stage |-> 1, moved |-> [r \in Rows |-> 0],
                     dropped |-> {}]
    BY <1>8 DEF StartDeletion, NoDeletion
  <2>3. deletion' \in DeletionSet
    BY <2>1, <2>2 DEF DeletionSet
  <2>4. QED
    BY <1>8, <2>3 DEF RequestLogTypeOK, StartDeletion, logs
<1>9. NoDeletion \in DeletionSet
  BY DEF NoDeletion, DeletionSet
<1>10. /\ deletion.op \in {"none", "token", "key"} /\ deletion.stage \in 0..5
       /\ deletion.id \in Tokens \cup Keys \cup {Null}
       /\ deletion.moved \in [Rows -> Nat] /\ deletion.dropped \subseteq Rows
  BY DEF RequestLogTypeOK, DeletionSet
<1>11. CASE MergeRows
  <2> DEFINE source == RowsOfToken(TableOf(deletion.stage), deletion.id)
             moved == [r \in Rows |-> IF \E s \in source : WithoutToken(s) = r
                         THEN usage[<<r[1], deletion.id, r[3]>>] ELSE deletion.moved[r]]
  <2>1. deletion' = [deletion EXCEPT !.stage = @ + 1, !.moved = moved]
    BY <1>11 DEF MergeRows
  <2>2. moved \in [Rows -> Nat]
    <3>1. ASSUME NEW r \in Rows, NEW s \in source, WithoutToken(s) = r
          PROVE  usage[<<r[1], deletion.id, r[3]>>] \in Nat
      <4>1. s \in Rows /\ s[2] = deletion.id /\ r = <<s[1], Null, s[3]>>
        BY <3>1 DEF RowsOfToken, WithoutToken
      <4>2. <<r[1], deletion.id, r[3]>> = s
        BY <4>1, RowFacts
      <4>3. QED
        BY <4>1, <4>2 DEF RequestLogTypeOK
    <3>2. QED
      BY <1>10, <3>1
  <2>3. deletion.stage + 1 \in 0..5
    BY <1>10, <1>11 DEF MergeRows, Merging
  <2> HIDE DEF moved
  <2>4. deletion' \in DeletionSet
    BY <2>1, <2>2, <2>3 DEF RequestLogTypeOK, DeletionSet
  <2>5. owner' \in [Rows -> Writers \cup {Null, Admin}]
    BY <1>11 DEF MergeRows, RequestLogTypeOK
  <2>6. QED
    BY <1>11, <2>4, <2>5 DEF MergeRows, RequestLogTypeOK, logs
<1>12. CASE DropRows
  <2>1. deletion' = [deletion EXCEPT !.stage = @ + 1, !.dropped = @ \cup DeletionWrites]
    BY <1>12 DEF DropRows
  <2>2. DeletionWrites \subseteq Rows
    BY <1>12 DEF DropRows, DeletionWrites, Dropping, Merging, RowsOfToken, DroppedWithKey
  <2>3. deletion.stage + 1 \in 0..5
    BY <1>10, <1>12 DEF DropRows, Dropping
  <2>4. deletion' \in DeletionSet
    BY <1>10, <2>1, <2>2, <2>3 DEF RequestLogTypeOK, DeletionSet
  <2>5. owner' \in [Rows -> Writers \cup {Null, Admin}]
    BY <1>12 DEF DropRows, RequestLogTypeOK
  <2>6. QED
    BY <1>12, <2>4, <2>5 DEF DropRows, RequestLogTypeOK, logs
<1>13. ASSUME EndDeletion
       PROVE  /\ owner' \in [Rows -> Writers \cup {Null, Admin}]
              /\ deletion' \in DeletionSet /\ UNCHANGED logs
  BY <1>9, <1>13 DEF EndDeletion, RequestLogTypeOK, UnlockedBy
<1>14. CASE FinishDeletion
  <2> DEFINE left == Left(deletion.op, deletion.id)
             nulled(r) == {s \in left : SetNull(deletion.op, s) = r}
             more(r) == IF nulled(r) = {} THEN 0 ELSE usage[CHOOSE s \in nulled(r) : TRUE]
  <2>1. \A r \in Rows : more(r) \in Nat
    <3>1. \A r : nulled(r) \subseteq Rows
      BY DEF Left
    <3>2. \A r : nulled(r) # {} => (CHOOSE s \in nulled(r) : TRUE) \in nulled(r)
      OBVIOUS
    <3> HIDE DEF nulled
    <3>3. QED
      BY <3>1, <3>2 DEF RequestLogTypeOK
  <2>2. usage' = [r \in Rows |-> IF r \in deletion.dropped \cup left THEN 0
                                 ELSE usage[r] + deletion.moved[r] + more(r)]
    BY <1>14 DEF FinishDeletion, UsageAfterDeletion
  <2> HIDE DEF more, left
  <2>3. \A r \in Rows : usage[r] + deletion.moved[r] + more(r) \in Nat
    BY <1>10, <2>1 DEF RequestLogTypeOK
  <2>4. usage' \in [Rows -> Nat]
    BY <2>2, <2>3
  <2>5. tokens' \subseteq Tokens /\ keys' \subseteq Keys
    BY <1>14 DEF FinishDeletion, RequestLogTypeOK
  <2>6. EndDeletion
    BY <1>14 DEF FinishDeletion
  <2>7. QED
    BY <1>13, <2>4, <2>5, <2>6 DEF RequestLogTypeOK, logs
<1>15. CASE FailDeletion
  BY <1>13, <1>15 DEF FailDeletion, UsageAfterRollback, RequestLogTypeOK, logs
<1>16. CASE UNCHANGED vars
  BY <1>16 DEF RequestLogTypeOK, vars, logs
<1>17. ASSUME NEW w \in Writers, Timeout(w) \/ AbortLog(w) PROVE RequestLogTypeOK'
  BY <1>17, LoseTypes DEF Timeout, AbortLog
<1>18. QED
  BY <1>1, <1>2, <1>3, <1>4, <1>5, <1>6, <1>7, <1>8, <1>11, <1>12, <1>14, <1>15, <1>16,
     <1>17 DEF Next, LogStep, DeletionStep

-----------------------------------------------------------------------------
(* Locks and connections. *)

\* The rows a transaction had locked are free when it is over, and no others.
LEMMA UnlockedFacts ==
  ASSUME RequestLogTypeOK, NEW x, owner' = UnlockedBy(x), x # Null
  PROVE  \A r \in Rows : owner'[r] = IF owner[r] = x THEN Null ELSE owner[r]
BY DEF UnlockedBy

\* The numbers that Free is made of.
LEMMA FreeFacts ==
  ASSUME RequestLogTypeOK
  PROVE  /\ IsFiniteSet(Open) /\ IsFiniteSet(reading)
         /\ Cardinality(Open) \in Nat /\ Cardinality(reading) \in Nat
<1>1. Open \in SUBSET Writers /\ reading \in SUBSET Writers
  BY DEF RequestLogTypeOK, Open
<1>2. QED
  BY <1>1, NullFacts, FS_Subset, FS_CardinalityType

\* A log that is closed gives back its connections and its locks.
LEMMA CloseHeld ==
  ASSUME RequestLogTypeOK, HeldSound, NEW w \in Writers, NEW o \in {"committed", "lost"},
         Close(w, o), deletion' = deletion
  PROVE  HeldSound'
<1>1. /\ pc' = [pc EXCEPT ![w] = o] /\ reading' = reading \ {w}
      /\ owner' = UnlockedBy(w)
  BY DEF Close
<1>2. Open' = Open \ {w}
  <2>1. \A v \in Writers : pc'[v] = IF v = w THEN o ELSE pc[v]
    BY <1>1 DEF RequestLogTypeOK
  <2>2. QED
    BY <2>1 DEF Open
<1>3. \A r \in Rows : owner'[r] = IF owner[r] = w THEN Null ELSE owner[r]
  BY <1>1, NullFacts, UnlockedFacts
<1>4. Cardinality(Open') <= Cardinality(Open) /\ Cardinality(Open') \in Nat
      /\ Cardinality(reading') <= Cardinality(reading) /\ Cardinality(reading') \in Nat
  BY <1>1, <1>2, FreeFacts, FS_Subset, FS_CardinalityType
<1>5. \A r \in Rows : owner'[r] \in Open' \cup {Null} \cup
                         (IF deletion'.op = "none" THEN {} ELSE {Admin})
  BY <1>2, <1>3 DEF HeldSound
<1>6. reading' \subseteq Open'
  BY <1>1, <1>2 DEF HeldSound
<1>7. Free' \in 0..Connections
  <2>1. Cardinality(Open) \in Nat /\ Cardinality(reading) \in Nat /\ Connections \in Nat
    BY FreeFacts, ConnectionsAssumption
  <2>2. Free' <= Connections /\ Free' >= Free /\ Free' \in Int
    BY <1>4, <2>1 DEF Free
  <2>3. QED
    BY <2>1, <2>2 DEF HeldSound
<1>8. QED
  BY <1>5, <1>6, <1>7 DEF HeldSound

\* So does a log that is lost.
LEMMA LoseHeld ==
  ASSUME RequestLogTypeOK, HeldSound, NEW w \in Writers, Lose(w)
  PROVE  HeldSound'
BY CloseHeld DEF Lose

\* The end of a deletion.
LEMMA EndHeld ==
  ASSUME RequestLogTypeOK, HeldSound, EndDeletion, deletion.op # "none"
  PROVE  HeldSound'
<1>1. deletion'.op = "none" /\ owner' = UnlockedBy(Admin) /\ UNCHANGED logs
  BY DEF EndDeletion, NoDeletion
<1>2. \A r \in Rows : owner'[r] = IF owner[r] = Admin THEN Null ELSE owner[r]
  BY <1>1, NullFacts, UnlockedFacts
<1>3. Open' = Open /\ reading' = reading
  BY <1>1 DEF Open, logs
<1>4. Free' = Free + 1 /\ Free' <= Connections
  <2>1. Cardinality(Open) \in Nat /\ Cardinality(reading) \in Nat /\ Connections \in Nat
    BY FreeFacts, ConnectionsAssumption
  <2>2. QED
    BY <1>1, <1>3, <2>1 DEF Free
<1>5. QED
  BY <1>1, <1>2, <1>3, <1>4, ConnectionsAssumption DEF HeldSound

\* What a statement of a deletion writes is locked by nobody else.
LEMMA WritesAreFree ==
  ASSUME RequestLogTypeOK, HeldSound, deletion.op # "none", Blockers(Admin) = {},
         owner' = [r \in Rows |-> IF r \in DeletionWrites THEN Admin ELSE owner[r]]
  PROVE  /\ \A r \in Rows \cap DeletionWrites : owner[r] \in {Null, Admin}
         /\ \A r \in Rows, w \in Writers : owner'[r] = w <=> owner[r] = w
         /\ \A r \in Rows : owner[r] = Admin => owner'[r] = Admin
<1>1. Locked(DeletionWrites, Admin) = {}
  BY NullFacts DEF Blockers
<1>2. \A r \in Rows \cap DeletionWrites : owner[r] \in {Null, Admin}
  BY <1>1 DEF Locked
<1>3. QED
  BY <1>2, NullFacts

\* Every step leaves locks and connections with transactions that are open.
LEMMA HeldKept ==
  ASSUME RequestLogTypeOK, HeldSound, LogsSound, [Next]_vars
  PROVE  HeldSound'
<1>1. ASSUME NEW w \in Writers, NEW t \in tokens \cup {Null}, NEW calls \in CallLists,
             Finish(w, t, calls)
      PROVE  HeldSound'
  <2>1. Open' = Open
    <3>1. \A v \in Writers : pc'[v] = IF v = w THEN "queued" ELSE pc[v]
      BY <1>1 DEF Finish, RequestLogTypeOK
    <3>2. QED
      BY <1>1, <3>1 DEF Open, Finish
  <2>2. QED
    BY <1>1, <2>1 DEF HeldSound, Free, Finish
<1>2. ASSUME NEW w \in Writers, Begin(w) PROVE HeldSound'
  <2>1. CASE entry[w].token \in tokens \cup {Null}
    <3>1. /\ pc' = [pc EXCEPT ![w] = "open"] /\ Free > 0 /\ pc[w] = "queued"
          /\ UNCHANGED <<owner, reading, deletion>>
      BY <1>2, <2>1 DEF Begin
    <3>2. Open' = Open \cup {w} /\ w \notin Open
      <4>1. \A v \in Writers : pc'[v] = IF v = w THEN "open" ELSE pc[v]
        BY <3>1 DEF RequestLogTypeOK
      <4>2. QED
        BY <3>1, <4>1 DEF Open
    <3>3. Cardinality(Open') = Cardinality(Open) + 1
      BY <3>2, FreeFacts, FS_AddElement
    <3>4. Free' = Free - 1
      BY <3>1, <3>3, FreeFacts, ConnectionsAssumption DEF Free
    <3>5. Free' \in 0..Connections
      BY <3>1, <3>4, ConnectionsAssumption DEF HeldSound
    <3>6. QED
      BY <3>1, <3>2, <3>5 DEF HeldSound
  <2>2. CASE entry[w].token \notin tokens \cup {Null}
    BY <1>2, <2>2, LoseHeld DEF Begin
  <2>3. QED
    BY <2>1, <2>2
<1>3. ASSUME NEW w \in Writers, InsertCall(w) PROVE HeldSound'
  <2>1. CASE Head(todo[w]).key \in keys
    BY <1>3, <2>1 DEF HeldSound, InsertCall, Free, Open
  <2>2. CASE Head(todo[w]).key \notin keys
    BY <1>3, <2>2, LoseHeld DEF InsertCall
  <2>3. QED
    BY <2>1, <2>2
<1>4. ASSUME NEW w \in Writers, BorrowConnection(w) PROVE HeldSound'
  <2>1. /\ w \in Open /\ w \notin reading /\ Free > 0 /\ reading' = reading \cup {w}
        /\ UNCHANGED <<owner, pc, deletion>>
    BY <1>4 DEF BorrowConnection, NextIs
  <2>2. Open' = Open /\ Cardinality(reading') = Cardinality(reading) + 1
    BY <2>1, FreeFacts, FS_AddElement DEF Open
  <2>3. Free' = Free - 1
    BY <2>1, <2>2, FreeFacts, ConnectionsAssumption DEF Free
  <2>4. Free' \in 0..Connections
    BY <2>1, <2>3, ConnectionsAssumption DEF HeldSound
  <2>5. QED
    BY <2>1, <2>2, <2>4 DEF HeldSound
<1>5. ASSUME NEW w \in Writers, ReturnConnection(w) PROVE HeldSound'
  <2>1. /\ w \in reading /\ reading' = reading \ {w} /\ UNCHANGED <<owner, pc, deletion>>
    BY <1>5 DEF ReturnConnection
  <2>2. Open' = Open /\ Cardinality(reading') = Cardinality(reading) - 1
        /\ Cardinality(reading') \in Nat
    BY <2>1, FreeFacts, FS_RemoveElement, FS_CardinalityType DEF Open
  <2>3. Free' = Free + 1 /\ Free' <= Connections
    BY <2>1, <2>2, FreeFacts, ConnectionsAssumption DEF Free
  <2>4. Free' \in 0..Connections
    BY <2>3, ConnectionsAssumption DEF HeldSound
  <2>5. QED
    BY <2>1, <2>2, <2>4 DEF HeldSound
<1>6. ASSUME NEW w \in Writers, UpsertRow(w) PROVE HeldSound'
  <2>1. /\ w \in Open /\ UNCHANGED <<reading, pc, deletion>>
        /\ owner' = [owner EXCEPT ![Head(todo[w]).row] = w]
    BY <1>6 DEF UpsertRow, NextIs
  <2>2. Open' = Open /\ Free' = Free
    BY <2>1 DEF Open, Free
  <2>3. \A r \in Rows : owner'[r] \in {w, owner[r]}
    BY <2>1 DEF RequestLogTypeOK
  <2>4. QED
    BY <2>1, <2>2, <2>3 DEF HeldSound
<1>7. ASSUME NEW w \in Writers, Commit(w) PROVE HeldSound'
  BY <1>7, CloseHeld DEF Commit
<1>8. ASSUME NEW d \in Deletions, StartDeletion(d.op, d.id) PROVE HeldSound'
  <2>1. /\ deletion.op = "none" /\ deletion'.op # "none" /\ Free > 0
        /\ UNCHANGED <<owner, reading, pc>>
    BY <1>8, DeletionsAssumption DEF StartDeletion, NoDeletion, logs
  <2>2. Open' = Open /\ Free' = Free - 1
    BY <2>1, FreeFacts, ConnectionsAssumption DEF Open, Free
  <2>3. Free' \in 0..Connections
    BY <2>1, <2>2, ConnectionsAssumption DEF HeldSound
  <2>4. QED
    BY <2>1, <2>2, <2>3 DEF HeldSound
<1>9. ASSUME UNCHANGED logs, deletion'.op = deletion.op, deletion.op # "none",
             owner' = [r \in Rows |-> IF r \in DeletionWrites THEN Admin ELSE owner[r]]
      PROVE  HeldSound'
  <2>1. Open' = Open /\ Free' = Free /\ reading' = reading
    BY <1>9 DEF Open, Free, logs
  <2>2. \A r \in Rows : owner'[r] \in {Admin, owner[r]}
    BY <1>9
  <2>3. QED
    BY <1>9, <2>1, <2>2 DEF HeldSound
<1>10. CASE MergeRows
  <2>1. deletion'.op = deletion.op /\ deletion.op # "none"
    BY <1>10 DEF MergeRows, Merging, RequestLogTypeOK, DeletionSet
  <2>2. QED
    BY <1>9, <1>10, <2>1 DEF MergeRows
<1>11. CASE DropRows
  <2>1. deletion'.op = deletion.op /\ deletion.op # "none"
    BY <1>11 DEF DropRows, Dropping, RequestLogTypeOK, DeletionSet
  <2>2. QED
    BY <1>9, <1>11, <2>1 DEF DropRows
<1>12. CASE FinishDeletion
  BY <1>12, EndHeld DEF FinishDeletion, Finishing
<1>13. CASE FailDeletion
  BY <1>13, EndHeld DEF FailDeletion
<1>14. CASE UNCHANGED vars
  BY <1>14 DEF HeldSound, Free, Open, vars, logs
<1>15. ASSUME NEW w \in Writers, Timeout(w) \/ AbortLog(w) PROVE HeldSound'
  BY <1>15, LoseHeld DEF Timeout, AbortLog
<1>16. QED
  BY <1>1, <1>2, <1>3, <1>4, <1>5, <1>6, <1>7, <1>8, <1>10, <1>11, <1>12, <1>13, <1>14,
     <1>15 DEF Next, LogStep, DeletionStep

-----------------------------------------------------------------------------
(* Logs. *)

\* A log keeps what it has locked, and what is no longer to be written is locked.
LEMMA LogKept ==
  ASSUME RequestLogTypeOK, NEW w \in Writers, LogSound(w), entry'[w] = entry[w],
         \A r \in Rows : owner[r] = w => owner'[r] = w,
         \A j \in DOMAIN todo[w] : todo[w][j].do = "upsert" =>
           \/ owner'[todo[w][j].row] = w
           \/ \E k \in DOMAIN todo'[w] : todo'[w][k] = todo[w][j]
  PROVE  LogSound(w)'
<1>1. Written(w)' = Written(w)
  BY DEF Written
<1>2. \A i \in DOMAIN Written(w) :
        Written(w)[i].do = "upsert" => Written(w)[i].row \in Rows
  <2>1. PICK r \in Rows : TRUE
    BY RowType
  <2>2. Written(w) \in Seq(Statement)
    BY <2>1, AddedFacts
  <2>3. \A i \in DOMAIN Written(w) : Written(w)[i] \in Statement
    BY <2>2
  <2>4. QED
    BY <2>3 DEF Statement
<1>3. ASSUME NEW i \in DOMAIN Written(w), Written(w)[i].do = "upsert"
      PROVE  \/ owner'[Written(w)[i].row] = w
             \/ \E j \in DOMAIN todo'[w] : todo'[w][j] = Written(w)[i]
  <2>1. CASE owner[Written(w)[i].row] = w
    BY <1>2, <1>3, <2>1
  <2>2. CASE \E j \in DOMAIN todo[w] : todo[w][j] = Written(w)[i]
    BY <1>3, <2>2
  <2>3. QED
    BY <1>3, <2>1, <2>2 DEF LogSound
<1>4. QED
  BY <1>1, <1>3 DEF LogSound

\* Logs that are not touched.
LEMMA LogsKept ==
  ASSUME RequestLogTypeOK, LogsSound, NEW S \in SUBSET Writers,
         \A v \in S : entry'[v] = entry[v] /\ todo'[v] = todo[v],
         \A r \in Rows : \A v \in S : owner[r] = v => owner'[r] = v
  PROVE  /\ \A v \in S \cap Open : LogSound(v)'
         /\ \A v \in S \cap Open' : \A do : NextIs(v, do) => NextIs(v, do)'
<1>1. ASSUME NEW v \in S \cap Open PROVE LogSound(v)'
  <2>1. v \in Writers /\ LogSound(v) /\ entry'[v] = entry[v] /\ todo'[v] = todo[v]
    BY DEF LogsSound
  <2>2. \A r \in Rows : owner[r] = v => owner'[r] = v
    OBVIOUS
  <2>3. \A j \in DOMAIN todo[v] : \E k \in DOMAIN todo'[v] : todo'[v][k] = todo[v][j]
    BY <2>1
  <2>4. QED
    BY <2>1, <2>2, <2>3, LogKept
<1>2. ASSUME NEW v \in S \cap Open', NEW do, NextIs(v, do) PROVE NextIs(v, do)'
  BY <1>2 DEF NextIs
<1>3. QED
  BY <1>1, <1>2

\* A log that is closed leaves the locks of the others alone.
LEMMA CloseLogs ==
  ASSUME RequestLogTypeOK, LogsSound, NEW w \in Writers, NEW o \in {"committed", "lost"},
         Close(w, o), entry' = entry
  PROVE  LogsSound'
<1>1. Open' = Open \ {w} /\ reading' = reading \ {w}
      /\ \A v \in Writers \ {w} : entry'[v] = entry[v] /\ todo'[v] = todo[v]
  <2>1. \A v \in Writers : pc'[v] = IF v = w THEN o ELSE pc[v]
    BY DEF RequestLogTypeOK, Close
  <2>2. QED
    BY <2>1 DEF RequestLogTypeOK, Close, Open
<1>2. \A r \in Rows : \A v \in Writers \ {w} : owner[r] = v => owner'[r] = v
  BY DEF Close, UnlockedBy
<1>3. /\ \A v \in (Writers \ {w}) \cap Open : LogSound(v)'
      /\ \A v \in (Writers \ {w}) \cap Open' : \A do : NextIs(v, do) => NextIs(v, do)'
  BY <1>1, <1>2, LogsKept
<1>4. \A v \in reading' : v \in Open' /\ v \in Writers /\ v # w /\ NextIs(v, "settings")
  BY <1>1 DEF LogsSound, NextIs, Open
<1>5. \A v \in Open' : v \in Writers /\ v # w /\ v \in Open
  BY <1>1 DEF Open
<1>6. QED
  BY <1>3, <1>4, <1>5 DEF LogsSound

\* So does one that is lost.
LEMMA LoseLogs ==
  ASSUME RequestLogTypeOK, LogsSound, NEW w \in Writers, Lose(w)
  PROVE  LogsSound'
BY CloseLogs DEF Lose

\* An open log has run its next statement, without giving up a lock.
LEMMA StatementRun ==
  ASSUME RequestLogTypeOK, LogsSound, NEW w \in Writers, NEW do, NextIs(w, do),
         todo' = [todo EXCEPT ![w] = Tail(@)], reading' = reading \ {w},
         UNCHANGED <<pc, entry>>,
         do = "upsert" => owner'[Head(todo[w]).row] = w,
         \A r \in Rows, v \in Writers : owner[r] = v => owner'[r] = v
  PROVE  LogsSound'
<1>1. Open' = Open /\ Open \subseteq Writers
  BY DEF Open
<1>2. \A v \in Writers \ {w} : entry'[v] = entry[v] /\ todo'[v] = todo[v]
  BY DEF RequestLogTypeOK
<1>3. /\ \A v \in (Writers \ {w}) \cap Open : LogSound(v)'
      /\ \A v \in (Writers \ {w}) \cap Open' : \A d : NextIs(v, d) => NextIs(v, d)'
  <2>1. \A r \in Rows : \A v \in Writers \ {w} : owner[r] = v => owner'[r] = v
    OBVIOUS
  <2>2. QED
    BY <1>2, <2>1, LogsKept
<1>4. LogSound(w)'
  <2>1. LogSound(w) /\ entry'[w] = entry[w] /\ todo'[w] = Tail(todo[w])
    BY NextStatement DEF LogsSound, RequestLogTypeOK
  <2>2. \A r \in Rows : owner[r] = w => owner'[r] = w
    OBVIOUS
  <2>3. ASSUME NEW j \in DOMAIN todo[w], todo[w][j].do = "upsert"
        PROVE  \/ owner'[todo[w][j].row] = w
               \/ \E k \in DOMAIN todo'[w] : todo'[w][k] = todo[w][j]
    <3>1. \/ todo[w][j] = Head(todo[w])
          \/ \E k \in DOMAIN Tail(todo[w]) : Tail(todo[w])[k] = todo[w][j]
      BY NextStatement
    <3>2. Head(todo[w]).do = do
      BY NextStatement
    <3>3. QED
      BY <2>1, <2>3, <3>1, <3>2
  <2>4. QED
    BY <2>1, <2>2, <2>3, LogKept
<1>5. \A v \in reading' : v \in (Writers \ {w}) \cap Open' /\ NextIs(v, "settings")
  BY <1>1 DEF LogsSound, NextIs
<1>6. QED
  BY <1>1, <1>3, <1>4, <1>5 DEF LogsSound

\* No step takes from an open log what it has locked.
LEMMA LogsSoundKept ==
  ASSUME RequestLogTypeOK, HeldSound, LogsSound, [Next]_vars
  PROVE  LogsSound'
<1> USE DEF Open
<1>1. ASSUME UNCHANGED <<entry, todo, reading, pc>>,
             \A r \in Rows, v \in Writers : owner[r] = v => owner'[r] = v
      PROVE  LogsSound'
  <2>1. Open' = Open /\ Open \subseteq Writers
    BY <1>1
  <2>2. /\ \A v \in Writers \cap Open : LogSound(v)'
        /\ \A v \in Writers \cap Open' : \A do : NextIs(v, do) => NextIs(v, do)'
    BY <1>1, LogsKept
  <2>3. \A v \in reading : v \in Open /\ NextIs(v, "settings")
    BY DEF LogsSound, NextIs
  <2>4. QED
    BY <1>1, <2>1, <2>2, <2>3 DEF LogsSound
<1>2. ASSUME NEW w \in Writers, NEW t \in tokens \cup {Null}, NEW calls \in CallLists,
             Finish(w, t, calls)
      PROVE  LogsSound'
  <2>1. /\ \A v \in Writers : pc'[v] = IF v = w THEN "queued" ELSE pc[v]
        /\ \A v \in Writers \ {w} : entry'[v] = entry[v]
        /\ UNCHANGED <<todo, reading, owner>> /\ pc[w] = "idle"
    BY <1>2 DEF Finish, RequestLogTypeOK
  <2>2. Open' = Open /\ Open \subseteq Writers \ {w}
    BY <2>1
  <2>3. /\ \A v \in (Writers \ {w}) \cap Open : LogSound(v)'
        /\ \A v \in (Writers \ {w}) \cap Open' : \A do : NextIs(v, do) => NextIs(v, do)'
    BY <2>1, LogsKept
  <2>4. \A v \in reading : v \in Open /\ NextIs(v, "settings")
    BY DEF LogsSound, NextIs
  <2>5. QED
    BY <2>1, <2>2, <2>3, <2>4 DEF LogsSound
<1>3. ASSUME NEW w \in Writers, Begin(w) PROVE LogsSound'
  <2>1. CASE entry[w].token \in tokens \cup {Null}
    <3>1. /\ \A v \in Writers : pc'[v] = IF v = w THEN "open" ELSE pc[v]
          /\ \A v \in Writers \ {w} : todo'[v] = todo[v]
          /\ todo'[w] = Written(w)
          /\ UNCHANGED <<entry, reading, owner>> /\ pc[w] = "queued"
      BY <1>3, <2>1 DEF Begin, RequestLogTypeOK, Written
    <3>2. Open' = Open \cup {w} /\ Open \subseteq Writers \ {w}
      BY <3>1
    <3>3. /\ \A v \in (Writers \ {w}) \cap Open : LogSound(v)'
          /\ \A v \in (Writers \ {w}) \cap Open' : \A do : NextIs(v, do) => NextIs(v, do)'
      BY <3>1, LogsKept
    <3>4. LogSound(w)'
      <4>1. Written(w)' = Written(w)
        BY <3>1 DEF Written
      <4>2. QED
        BY <3>1, <4>1 DEF LogSound
    <3>5. \A v \in reading : v \in Open /\ NextIs(v, "settings")
      BY DEF LogsSound, NextIs
    <3>6. QED
      BY <3>1, <3>2, <3>3, <3>4, <3>5 DEF LogsSound
  <2>2. CASE entry[w].token \notin tokens \cup {Null}
    BY <1>3, <2>2, LoseLogs DEF Begin
  <2>3. QED
    BY <2>1, <2>2
<1>4. ASSUME NEW w \in Writers, InsertCall(w) PROVE LogsSound'
  <2>1. CASE Head(todo[w]).key \in keys
    <3>1. reading' = reading \ {w}
      BY <1>4, <2>1 DEF InsertCall, LogsSound, NextIs
    <3>2. QED
      BY <1>4, <2>1, <3>1, StatementRun DEF InsertCall
  <2>2. CASE Head(todo[w]).key \notin keys
    BY <1>4, <2>2, LoseLogs DEF InsertCall
  <2>3. QED
    BY <2>1, <2>2
<1>5. ASSUME NEW w \in Writers, BorrowConnection(w) PROVE LogsSound'
  <2>1. /\ UNCHANGED <<entry, todo, pc, owner>> /\ reading' = reading \cup {w}
        /\ NextIs(w, "settings")
    BY <1>5 DEF BorrowConnection
  <2>2. /\ \A v \in Writers \cap Open : LogSound(v)'
        /\ \A v \in Writers \cap Open' : \A do : NextIs(v, do) => NextIs(v, do)'
    BY <2>1, LogsKept
  <2>3. \A v \in reading' : v \in Open /\ NextIs(v, "settings")
    BY <2>1 DEF LogsSound, NextIs
  <2>4. QED
    BY <2>1, <2>2, <2>3 DEF LogsSound
<1>6. ASSUME NEW w \in Writers, ReturnConnection(w) PROVE LogsSound'
  <2>1. NextIs(w, "settings")
    BY <1>6 DEF ReturnConnection, LogsSound
  <2>2. QED
    BY <1>6, <2>1, StatementRun DEF ReturnConnection
<1>7. ASSUME NEW w \in Writers, UpsertRow(w) PROVE LogsSound'
  <2>1. /\ NextIs(w, "upsert") /\ Blockers(w) = {}
        /\ owner' = [owner EXCEPT ![Head(todo[w]).row] = w]
        /\ UNCHANGED <<pc, entry, reading>>
    BY <1>7 DEF UpsertRow
  <2>2. reading' = reading \ {w}
    BY <2>1 DEF LogsSound, NextIs
  <2>3. Head(todo[w]).row \in Rows
    BY <2>1, NextStatement DEF Statement
  <2>4. Locked({Head(todo[w]).row}, w) = {}
    BY <2>1, NullFacts DEF Blockers
  <2>5. owner[Head(todo[w]).row] \in {Null, w}
    BY <2>4 DEF Locked
  <2>6. \A r \in Rows, v \in Writers : owner[r] = v => owner'[r] = v
    BY <2>1, <2>3, <2>5, NullFacts DEF RequestLogTypeOK
  <2>7. owner'[Head(todo[w]).row] = w
    BY <2>1, <2>3 DEF RequestLogTypeOK
  <2>8. QED
    BY <1>7, <2>1, <2>2, <2>6, <2>7, StatementRun DEF UpsertRow
<1>8. ASSUME NEW w \in Writers, Commit(w) PROVE LogsSound'
  BY <1>8, CloseLogs DEF Commit
<1>9. ASSUME NEW d \in Deletions, StartDeletion(d.op, d.id) PROVE LogsSound'
  BY <1>1, <1>9 DEF StartDeletion, logs
<1>10. CASE MergeRows
  <2>1. \A r \in Rows, v \in Writers : owner[r] = v => owner'[r] = v
    BY <1>10, WritesAreFree DEF MergeRows, Merging
  <2>2. QED
    BY <1>1, <1>10, <2>1 DEF MergeRows, logs
<1>11. CASE DropRows
  <2>1. \A r \in Rows, v \in Writers : owner[r] = v => owner'[r] = v
    BY <1>11, WritesAreFree DEF DropRows, Dropping
  <2>2. QED
    BY <1>1, <1>11, <2>1 DEF DropRows, logs
<1>12. ASSUME EndDeletion PROVE LogsSound'
  <2>1. \A r \in Rows, v \in Writers : owner[r] = v => owner'[r] = v
    BY <1>12, NullFacts DEF EndDeletion, UnlockedBy
  <2>2. QED
    BY <1>1, <1>12, <2>1 DEF EndDeletion, logs
<1>13. CASE FinishDeletion \/ FailDeletion
  BY <1>12, <1>13 DEF FinishDeletion, FailDeletion
<1>14. CASE UNCHANGED vars
  BY <1>1, <1>14 DEF vars, logs
<1>15. ASSUME NEW w \in Writers, Timeout(w) \/ AbortLog(w) PROVE LogsSound'
  BY <1>15, LoseLogs DEF Timeout, AbortLog
<1>16. QED
  BY <1>2, <1>3, <1>4, <1>5, <1>6, <1>7, <1>8, <1>9, <1>10, <1>11, <1>13, <1>14, <1>15
  DEF Next, LogStep, DeletionStep

-----------------------------------------------------------------------------
(* What a deletion leaves. *)

\* The rows after the deletion of a token.
LEMMA AfterTokenDeletion ==
  ASSUME RequestLogTypeOK, DeletionSound, CoveredBy(usage), deletion.op = "token",
         Conflicts("token", deletion.id) = {},
         NEW u, u = UsageAfterDeletion
  PROVE  /\ u \in [Rows -> Nat]
         /\ \A r \in Rows : r[2] = deletion.id => u[r] = 0
         /\ \A r \in Rows : r[2] \notin {Null, deletion.id} => u[r] = usage[r]
         /\ \A r \in Rows : r[2] = Null =>
              /\ u[r] <= usage[r] + usage[<<r[1], deletion.id, r[3]>>]
              /\ usage[r] + deletion.moved[r] <= u[r]
              /\ u[r] > 0 =>
                   \/ usage[r] > 0 \/ deletion.moved[r] > 0
                   \/ /\ usage[<<r[1], deletion.id, r[3]>>] > 0
                      /\ <<r[1], deletion.id, r[3]>> \notin deletion.dropped
              /\ (/\ usage[<<r[1], deletion.id, r[3]>>] > 0
                  /\ <<r[1], deletion.id, r[3]>> \notin deletion.dropped) => u[r] > 0
<1> DEFINE id == deletion.id
           left == Left("token", id)
           nulled(r) == {s \in left : SetNull("token", s) = r}
           with(r) == <<r[1], id, r[3]>>
<1>1. /\ id \in Tokens /\ id # Null
      /\ usage \in [Rows -> Nat] /\ deletion.moved \in [Rows -> Nat]
      /\ \A r \in deletion.dropped : r[2] = id
      /\ \A r \in Rows : /\ deletion.moved[r] > 0 => r[2] = Null
                         /\ deletion.moved[r] <= usage[with(r)]
  BY NullFacts DEF DeletionSound, RequestLogTypeOK, DeletionSet
<1>2. \A s : s \in left <=> s \in Rows \ deletion.dropped /\ usage[s] > 0 /\ s[2] = id
  BY DEF Left, Exists
<1>3. ASSUME NEW r \in Rows PROVE with(r) \in Rows
  BY <1>1, RowFacts, RowType
<1>4. ASSUME NEW r \in Rows, NEW s \in nulled(r)
      PROVE  s = with(r) /\ r[2] = Null
  <2>1. s \in Rows /\ s[2] = id /\ r = <<s[1], Null, s[3]>>
    BY <1>2 DEF SetNull, WithoutToken
  <2>2. QED
    BY <2>1, RowFacts
<1>5. ASSUME NEW r \in Rows, r[2] = Null, with(r) \in left
      PROVE  with(r) \in nulled(r) /\ usage[r] = 0 /\ deletion.moved[r] = 0
  <2>1. SetNull("token", with(r)) = r
    BY <1>5, RowFacts DEF SetNull, WithoutToken
  <2>2. with(r) \notin Conflicts("token", id)
    OBVIOUS
  <2>3. ~Exists(r) /\ ~(deletion.moved[r] > 0)
    BY <1>5, <2>1, <2>2 DEF Conflicts
  <2>4. usage[r] \in Nat /\ deletion.moved[r] \in Nat
    BY <1>1
  <2>5. QED
    BY <1>5, <2>1, <2>3, <2>4 DEF Exists
<1> DEFINE more(r) == IF nulled(r) = {} THEN 0 ELSE usage[CHOOSE s \in nulled(r) : TRUE]
<1>6. u = [r \in Rows |-> IF r \in deletion.dropped \cup left THEN 0
                          ELSE usage[r] + deletion.moved[r] + more(r)]
  BY DEF UsageAfterDeletion
<1>7. ASSUME NEW r \in Rows
      PROVE  /\ nulled(r) # {} => /\ r[2] = Null /\ with(r) \in left
                                  /\ more(r) = usage[with(r)]
             /\ nulled(r) = {} => more(r) = 0
             /\ r[2] = Null /\ with(r) \in left => nulled(r) # {}
  <2>1. ASSUME nulled(r) # {} PROVE r[2] = Null /\ with(r) \in left
                                    /\ more(r) = usage[with(r)]
    <3>1. (CHOOSE s \in nulled(r) : TRUE) \in nulled(r)
      BY <2>1
    <3>2. (CHOOSE s \in nulled(r) : TRUE) = with(r) /\ r[2] = Null
      BY <1>4, <3>1
    <3>3. with(r) \in left
      BY <3>1, <3>2
    <3>4. QED
      BY <2>1, <3>2, <3>3
  <2>2. QED
    BY <1>5, <2>1
<1> HIDE DEF more, nulled, left
<1>8. ASSUME NEW r \in Rows
      PROVE  /\ u[r] \in Nat
             /\ r[2] = id => u[r] = 0
             /\ r[2] \notin {Null, id} => u[r] = usage[r]
             /\ r[2] = Null =>
                  /\ u[r] <= usage[r] + usage[with(r)]
                  /\ usage[r] + deletion.moved[r] <= u[r]
                  /\ u[r] > 0 => \/ usage[r] > 0 \/ deletion.moved[r] > 0
                                 \/ usage[with(r)] > 0 /\ with(r) \notin deletion.dropped
                  /\ usage[with(r)] > 0 /\ with(r) \notin deletion.dropped => u[r] > 0
  <2>1. /\ usage[r] \in Nat /\ deletion.moved[r] \in Nat /\ usage[with(r)] \in Nat
        /\ with(r) \in Rows
    BY <1>1, <1>3
  <2>2. more(r) \in Nat
    BY <1>7, <2>1
  <2>3. CASE r[2] = id
    <3>1. with(r) = r
      BY <2>3, RowFacts
    <3>2. deletion.moved[r] = 0 /\ nulled(r) = {}
      BY <1>1, <1>7, <2>1, <2>3
    <3>3. more(r) = 0
      BY <1>7, <3>2
    <3>4. r \notin left /\ r \notin deletion.dropped => usage[r] = 0
      BY <1>2, <2>1, <2>3
    <3>5. u[r] = 0
      BY <1>6, <2>1, <3>2, <3>3, <3>4
    <3>6. QED
      BY <1>1, <2>3, <3>5
  <2>4. CASE r[2] \notin {Null, id}
    <3>1. deletion.moved[r] = 0 /\ nulled(r) = {}
      BY <1>1, <1>7, <2>1, <2>4
    <3>2. more(r) = 0
      BY <1>7, <3>1
    <3>3. r \notin left /\ r \notin deletion.dropped
      BY <1>1, <1>2, <2>4
    <3>4. u[r] = usage[r]
      BY <1>6, <2>1, <3>1, <3>2, <3>3
    <3>5. QED
      BY <2>1, <2>4, <3>4
  <2>5. CASE r[2] = Null
    <3>1. r \notin left /\ r \notin deletion.dropped
      BY <1>1, <1>2, <2>5
    <3>2. u[r] = usage[r] + deletion.moved[r] + more(r)
      BY <1>6, <3>1
    <3>3. with(r) \in left <=> usage[with(r)] > 0 /\ with(r) \notin deletion.dropped
      BY <1>2, <2>1
    <3>4. CASE with(r) \in left
      <4>1. usage[r] = 0 /\ deletion.moved[r] = 0
        BY <1>5, <2>5, <3>4
      <4>2. more(r) = usage[with(r)] /\ usage[with(r)] > 0
        BY <1>7, <2>5, <3>3, <3>4
      <4>3. QED
        BY <1>1, <2>1, <2>2, <2>5, <3>2, <3>3, <3>4, <4>1, <4>2
    <3>5. CASE with(r) \notin left
      <4>1. more(r) = 0
        BY <1>7, <3>5
      <4>2. deletion.moved[r] <= usage[with(r)]
        BY <1>1
      <4>3. QED
        BY <1>1, <2>1, <2>2, <2>5, <3>2, <3>3, <3>5, <4>1, <4>2
    <3>6. QED
      BY <3>4, <3>5
  <2>6. QED
    BY <2>3, <2>4, <2>5
<1>9. u \in [Rows -> Nat]
  BY <1>6, <1>8
<1>10. QED
  BY <1>8, <1>9

\* The rows after the deletion of a key: only the meter has rows left over.
LEMMA AfterKeyDeletion ==
  ASSUME RequestLogTypeOK, DeletionSound, CoveredBy(usage), deletion.op = "key",
         Conflicts("key", deletion.id) = {},
         NEW u, u = UsageAfterDeletion
  PROVE  /\ u \in [Rows -> Nat]
         /\ \A r \in Rows : r[3] = deletion.id => u[r] = 0
         /\ \A r \in Rows : r[3] \notin {Null, deletion.id} => u[r] = usage[r]
         /\ \A r \in Rows : r[3] = Null =>
              u[r] = IF r[1] = "daily" THEN usage[r]
                     ELSE usage[r] + usage[<<r[1], r[2], deletion.id>>]
<1> DEFINE id == deletion.id
           left == Left("key", id)
           nulled(r) == {s \in left : SetNull("key", s) = r}
           with(r) == <<r[1], r[2], id>>
           more(r) == IF nulled(r) = {} THEN 0 ELSE usage[CHOOSE s \in nulled(r) : TRUE]
<1>1. /\ id \in Keys /\ id # Null
      /\ usage \in [Rows -> Nat] /\ deletion.moved \in [Rows -> Nat]
      /\ \A r \in deletion.dropped : r[1] = "daily" /\ r[3] = id
      /\ \A r \in Rows : deletion.moved[r] = 0
  BY NullFacts DEF DeletionSound, RequestLogTypeOK, DeletionSet
<1>2. \A s : s \in left <=> s \in Rows \ deletion.dropped /\ usage[s] > 0 /\ s[3] = id
  BY DEF Left, Exists
<1>3. ASSUME NEW r \in Rows PROVE with(r) \in Rows
  BY <1>1, RowFacts, RowType
<1>4. ASSUME NEW r \in Rows, NEW s \in nulled(r)
      PROVE  s = with(r) /\ r[3] = Null
  <2>1. s \in Rows /\ s[3] = id /\ r = <<s[1], s[2], Null>>
    BY <1>2 DEF SetNull, WithoutKey
  <2>2. QED
    BY <2>1, RowFacts
<1>5. ASSUME NEW r \in Rows, r[3] = Null, with(r) \in left
      PROVE  with(r) \in nulled(r) /\ usage[r] = 0
  <2>1. SetNull("key", with(r)) = r
    BY <1>5, RowFacts DEF SetNull, WithoutKey
  <2>2. with(r) \notin Conflicts("key", id)
    OBVIOUS
  <2>3. ~Exists(r)
    BY <1>5, <2>1, <2>2 DEF Conflicts
  <2>4. usage[r] \in Nat
    BY <1>1
  <2>5. QED
    BY <1>5, <2>1, <2>3, <2>4 DEF Exists
<1>6. u = [r \in Rows |-> IF r \in deletion.dropped \cup left THEN 0
                          ELSE usage[r] + deletion.moved[r] + more(r)]
  BY DEF UsageAfterDeletion
<1>7. ASSUME NEW r \in Rows
      PROVE  /\ nulled(r) # {} => /\ r[3] = Null /\ with(r) \in left
                                  /\ more(r) = usage[with(r)]
             /\ nulled(r) = {} => more(r) = 0
             /\ r[3] = Null /\ with(r) \in left => nulled(r) # {}
  <2>1. ASSUME nulled(r) # {} PROVE r[3] = Null /\ with(r) \in left
                                    /\ more(r) = usage[with(r)]
    <3>1. (CHOOSE s \in nulled(r) : TRUE) \in nulled(r)
      BY <2>1
    <3>2. (CHOOSE s \in nulled(r) : TRUE) = with(r) /\ r[3] = Null
      BY <1>4, <3>1
    <3>3. with(r) \in left
      BY <3>1, <3>2
    <3>4. QED
      BY <2>1, <3>2, <3>3
  <2>2. QED
    BY <1>5, <2>1
<1> HIDE DEF more, nulled, left
<1>8. ASSUME NEW r \in Rows
      PROVE  /\ u[r] \in Nat
             /\ r[3] = id => u[r] = 0
             /\ r[3] \notin {Null, id} => u[r] = usage[r]
             /\ r[3] = Null => u[r] = IF r[1] = "daily" THEN usage[r]
                                      ELSE usage[r] + usage[with(r)]
  <2>1. usage[r] \in Nat /\ deletion.moved[r] = 0 /\ usage[with(r)] \in Nat
        /\ with(r) \in Rows
    BY <1>1, <1>3
  <2>2. CASE r[3] # Null
    <3>1. more(r) = 0
      BY <1>7, <2>2
    <3>2. r \notin deletion.dropped \cup left => u[r] = usage[r]
      BY <1>6, <2>1, <3>1
    <3>3. r \in deletion.dropped \cup left => u[r] = 0 /\ r[3] = id
      BY <1>1, <1>2, <1>6
    <3>4. r[3] = id /\ r \notin deletion.dropped \cup left => usage[r] = 0
      BY <1>2, <2>1
    <3>5. QED
      BY <2>1, <2>2, <3>2, <3>3, <3>4
  <2>3. CASE r[3] = Null
    <3>1. r \notin left /\ r \notin deletion.dropped
      BY <1>1, <1>2, <2>3
    <3>2. u[r] = usage[r] + more(r)
      BY <1>6, <2>1, <3>1
    <3>3. CASE r[1] = "daily"
      <4>1. with(r) \notin left
        <5> SUFFICES ASSUME with(r) \in left PROVE FALSE
          OBVIOUS
        <5>1. usage[with(r)] > 0 /\ usage[r] = 0
          BY <1>2, <1>5, <2>3
        <5>2. r = <<"daily", r[2], Null>> /\ with(r) = <<"daily", r[2], id>>
              /\ r[2] \in Tokens \cup {Null}
          BY <2>3, <3>3, RowFacts
        <5>3. usage[r] > 0
          BY <1>1, <5>1, <5>2 DEF CoveredBy
        <5>4. QED
          BY <2>1, <5>1, <5>3
      <4>2. more(r) = 0
        BY <1>7, <4>1
      <4>3. QED
        BY <1>1, <2>1, <2>3, <3>2, <3>3, <4>2
    <3>4. CASE r[1] # "daily"
      <4>1. with(r)[1] # "daily"
        BY <3>4
      <4>2. with(r) \notin left => usage[with(r)] = 0
        BY <1>1, <1>2, <2>1, <4>1
      <4>3. more(r) = usage[with(r)]
        BY <1>7, <2>1, <2>3, <4>2
      <4>4. QED
        BY <1>1, <2>1, <2>3, <3>2, <3>4, <4>3
    <3>5. QED
      BY <3>3, <3>4
  <2>4. QED
    BY <2>2, <2>3
<1>9. u \in [Rows -> Nat]
  BY <1>6, <1>8
<1>10. QED
  BY <1>8, <1>9

-----------------------------------------------------------------------------
(* Deletions under way, and the counts. *)

\* What a log writes as it is committed is locked by it.
LEMMA CommittedRowsLocked ==
  ASSUME RequestLogTypeOK, LogsSound, NEW w \in Writers, Commit(w),
         NEW r \in Rows, Added(w, r) # 0
  PROVE  owner[r] = w
<1>1. w \in Open /\ todo[w] = <<>> /\ LogSound(w)
  BY DEF Commit, LogsSound
<1>2. PICK i \in DOMAIN Written(w) : Written(w)[i] = Upsert(r)
  BY AddedFacts
<1>3. Written(w)[i].do = "upsert" /\ Written(w)[i].row = r
  BY <1>2 DEF Upsert
<1>4. DOMAIN todo[w] = {}
  BY <1>1
<1>5. QED
  BY <1>1, <1>2, <1>3, <1>4 DEF LogSound

\* A commit: what is added is what AddedBy says, and nothing is lost.
LEMMA CommitFacts ==
  ASSUME RequestLogTypeOK, LogsSound, CoveredBy(usage), NEW w \in Writers, Commit(w),
         Counting(usage, pc, entry, tokens, keys)
  PROVE  /\ \A r \in Rows : usage[r] <= usage'[r] /\ usage'[r] = usage[r] + Added(w, r)
         /\ CoveredBy(usage')
         /\ Counting(usage', pc', entry', tokens', keys')
<1>1. /\ usage' = [r \in Rows |-> usage[r] + Added(w, r)]
      /\ pc[w] = "open" /\ pc'[w] = "committed"
      /\ \A v \in Writers \ {w} : pc'[v] = pc[v]
      /\ UNCHANGED <<tokens, keys, entry>>
  BY DEF Commit, Close, RequestLogTypeOK, Open
<1>2. usage' = [r \in Rows |-> usage[r] + AddedBy(entry[w].token, entry[w].calls, r)]
  BY <1>1, AddedFacts
<1>3. /\ usage \in [Rows -> Nat] /\ entry \in [Writers -> EntrySet]
      /\ tokens \in SUBSET Tokens /\ keys \in SUBSET Keys
  BY DEF RequestLogTypeOK
<1>4. /\ \A v \in Writers \ {w} : pc'[v] = "committed" <=> pc[v] = "committed"
      /\ pc[w] # "committed"
  BY <1>1
<1>5. /\ Counting(usage', pc', entry, tokens, keys)
      /\ \A r \in Rows : usage[r] <= usage'[r]
      /\ CoveredBy(usage) => CoveredBy(usage')
  <2>1. CommitOf(w, usage, pc, entry, pc', usage')
    BY <1>1, <1>2, <1>3, <1>4 DEF CommitOf
  <2>2. QED
    BY <1>1, <1>3, <2>1, CountingCommit
<1>6. QED
  BY <1>1, <1>5

\* Rows that only grow, and grow for a token when they grow for one of its keys.
LEMMA DeletionSoundGrows ==
  ASSUME DeletionSound, RequestLogTypeOK, UNCHANGED <<tokens, keys, deletion>>,
         \A r \in deletion.dropped : owner'[r] = owner[r],
         usage' \in [Rows -> Nat], \A r \in Rows : usage[r] <= usage'[r],
         \A r \in deletion.dropped : usage'[r] = usage[r],
         <<"daily", deletion.id, Null>> \in deletion.dropped =>
           \A k \in Keys : usage'[<<"daily", deletion.id, k>>]
                             = usage[<<"daily", deletion.id, k>>]
  PROVE  DeletionSound'
<1>1. \A r \in deletion'.dropped : owner'[r] = Admin
  BY DEF DeletionSound
<1>2. ASSUME deletion.op = "token", NEW r \in Rows
      PROVE  deletion.moved[r] <= usage'[<<r[1], deletion.id, r[3]>>]
  <2>1. deletion.id \in Tokens
    BY <1>2 DEF DeletionSound, RequestLogTypeOK
  <2>2. <<r[1], deletion.id, r[3]>> \in Rows
    BY <2>1, RowFacts, RowType
  <2>3. /\ usage[<<r[1], deletion.id, r[3]>>] \in Nat
        /\ usage'[<<r[1], deletion.id, r[3]>>] \in Nat
        /\ usage[<<r[1], deletion.id, r[3]>>] <= usage'[<<r[1], deletion.id, r[3]>>]
        /\ deletion.moved[r] \in Nat
    BY <2>2 DEF RequestLogTypeOK, DeletionSet
  <2>4. deletion.moved[r] <= usage[<<r[1], deletion.id, r[3]>>]
    BY <1>2 DEF DeletionSound
  <2>5. QED
    BY <2>3, <2>4
<1>3. ASSUME deletion.op = "token" PROVE DeletionSound'
  BY <1>1, <1>2, <1>3 DEF DeletionSound
<1>4. ASSUME deletion.op # "token" PROVE DeletionSound'
  BY <1>1, <1>4 DEF DeletionSound
<1>5. QED
  BY <1>3, <1>4

\* When no deletion is under way nothing is moved or dropped.
LEMMA NoDeletionSound ==
  ASSUME deletion' = NoDeletion
  PROVE  DeletionSound'
<1>1. CoveredBy(NoDeletion.moved)
  <2>1. \A r \in Rows : NoDeletion.moved[r] = 0
    BY DEF NoDeletion
  <2>2. QED
    BY <2>1, RowType DEF CoveredBy
<1>2. NoDeletion.op = "none" /\ NoDeletion.dropped = {}
  BY DEF NoDeletion
<1>3. QED
  BY <1>1, <1>2 DEF DeletionSound, CoveredBy

\* Every step keeps what a deletion has moved and dropped in line with the rows.
LEMMA DeletionSoundKept ==
  ASSUME RequestLogInv, [Next]_vars
  PROVE  DeletionSound'
<1> USE DEF RequestLogInv
<1>1. /\ deletion.moved \in [Rows -> Nat] /\ deletion.dropped \subseteq Rows
      /\ deletion.op \in {"none", "token", "key"}
      /\ usage \in [Rows -> Nat]
      /\ \A r \in deletion.dropped : owner[r] = Admin
  BY DEF RequestLogTypeOK, DeletionSet, DeletionSound
<1>2. ASSUME UNCHANGED <<tokens, keys, deletion, usage>>,
             \A r \in Rows : owner[r] = Admin => owner'[r] = Admin
      PROVE  DeletionSound'
  <2>1. \A r \in deletion.dropped : owner'[r] = owner[r]
    BY <1>1, <1>2
  <2>2. \A r \in Rows : usage[r] <= usage'[r]
    BY <1>1, <1>2
  <2>3. QED
    BY <1>1, <1>2, <2>1, <2>2, DeletionSoundGrows
<1>3. ASSUME NEW w \in Writers, Lose(w) PROVE DeletionSound'
  <2>1. \A r \in Rows : owner[r] = Admin => owner'[r] = Admin
    BY <1>3, NullFacts DEF Lose, Close, UnlockedBy
  <2>2. QED
    BY <1>2, <1>3, <2>1 DEF Lose
<1>4. ASSUME NEW w \in Writers, NEW t \in tokens \cup {Null}, NEW calls \in CallLists,
             Finish(w, t, calls)
      PROVE  DeletionSound'
  BY <1>2, <1>4 DEF Finish
<1>5. ASSUME NEW w \in Writers, Begin(w) PROVE DeletionSound'
  BY <1>2, <1>3, <1>5 DEF Begin
<1>6. ASSUME NEW w \in Writers, InsertCall(w) PROVE DeletionSound'
  BY <1>2, <1>3, <1>6 DEF InsertCall
<1>7. ASSUME NEW w \in Writers, BorrowConnection(w) PROVE DeletionSound'
  BY <1>2, <1>7 DEF BorrowConnection
<1>8. ASSUME NEW w \in Writers, ReturnConnection(w) PROVE DeletionSound'
  BY <1>2, <1>8 DEF ReturnConnection
<1>9. ASSUME NEW w \in Writers, UpsertRow(w) PROVE DeletionSound'
  <2>1. /\ NextIs(w, "upsert") /\ Blockers(w) = {}
        /\ owner' = [owner EXCEPT ![Head(todo[w]).row] = w]
        /\ UNCHANGED <<tokens, keys, usage, deletion>>
    BY <1>9 DEF UpsertRow
  <2>2. Locked({Head(todo[w]).row}, w) = {}
    BY <2>1, NullFacts DEF Blockers
  <2>3. owner[Head(todo[w]).row] # Admin
    BY <2>2, NullFacts DEF Locked
  <2>4. \A r \in Rows : owner[r] = Admin => owner'[r] = Admin
    BY <2>1, <2>3 DEF RequestLogTypeOK
  <2>5. QED
    BY <1>2, <2>1, <2>4
<1>10. ASSUME NEW w \in Writers, Commit(w) PROVE DeletionSound'
  <2>1. /\ \A r \in Rows : usage[r] <= usage'[r] /\ usage'[r] = usage[r] + Added(w, r)
        /\ usage' = [r \in Rows |-> usage[r] + Added(w, r)]
        /\ UNCHANGED <<tokens, keys, deletion>>
    BY <1>10, CommitFacts DEF Commit
  <2>2. \A r \in deletion.dropped : owner'[r] = owner[r]
    BY <1>1, <1>10, NullFacts DEF Commit, Close, UnlockedBy
  <2>3. ASSUME NEW r \in Rows, owner[r] # w PROVE usage'[r] = usage[r]
    <3>1. Added(w, r) = 0
      BY <1>10, <2>3, CommittedRowsLocked
    <3>2. QED
      BY <1>1, <2>1, <3>1
  <2>4. \A r \in deletion.dropped : usage'[r] = usage[r]
    BY <1>1, <2>3, NullFacts
  <2>5. ASSUME <<"daily", deletion.id, Null>> \in deletion.dropped, NEW k \in Keys,
               <<"daily", deletion.id, k>> \in Rows
        PROVE  usage'[<<"daily", deletion.id, k>>] = usage[<<"daily", deletion.id, k>>]
    <3>1. Added(w, <<"daily", deletion.id, Null>>) = 0
      BY <1>1, <1>10, <2>5, CommittedRowsLocked, NullFacts
    <3>2. AddedBy(entry[w].token, entry[w].calls, <<"daily", deletion.id, Null>>) = 0
      BY <1>1, <2>5, <3>1, AddedFacts
    <3>3. entry[w].token # deletion.id
      BY <3>2 DEF AddedBy
    <3>4. Added(w, <<"daily", deletion.id, k>>) = 0
      BY <2>5, <3>3, AddedFacts DEF AddedBy
    <3>5. QED
      BY <1>1, <2>1, <2>5, <3>4
  <2>6. ASSUME <<"daily", deletion.id, Null>> \in deletion.dropped, NEW k \in Keys
        PROVE  <<"daily", deletion.id, k>> \in Rows
    <3>1. deletion.id \in Tokens \cup {Null}
      BY <1>1, <2>6, RowFacts
    <3>2. QED
      BY <3>1, RowType
  <2>7. usage' \in [Rows -> Nat]
    BY <1>10, TypesKept DEF RequestLogTypeOK, Next, LogStep
  <2>8. QED
    BY <2>1, <2>2, <2>4, <2>5, <2>6, <2>7, DeletionSoundGrows
<1>11. ASSUME NEW d \in Deletions, StartDeletion(d.op, d.id) PROVE DeletionSound'
  <2>1. /\ deletion'.op = d.op /\ deletion'.id = d.id /\ deletion'.dropped = {}
        /\ deletion'.moved = [r \in Rows |-> 0] /\ d.op \in {"token", "key"}
        /\ d.id \in (IF d.op = "token" THEN tokens ELSE keys)
        /\ UNCHANGED <<tokens, keys, usage>>
    BY <1>11, DeletionsAssumption DEF StartDeletion, NoDeletion
  <2>2. \A r \in Rows : deletion'.moved[r] = 0
    BY <2>1
  <2>3. CoveredBy(deletion'.moved)
    BY <2>2, RowType DEF CoveredBy
  <2>4. CASE d.op = "token"
    <3>1. d.id \in Tokens
      BY <2>1, <2>4 DEF RequestLogTypeOK
    <3>2. \A r \in Rows : usage[<<r[1], d.id, r[3]>>] \in Nat
      BY <1>1, <3>1, RowFacts, RowType
    <3>3. QED
      BY <2>1, <2>2, <2>3, <2>4, <3>2 DEF DeletionSound, CoveredBy
  <2>5. CASE d.op = "key"
    BY <2>1, <2>2, <2>3, <2>5 DEF DeletionSound, CoveredBy
  <2>6. QED
    BY <2>1, <2>4, <2>5
<1>12. CASE MergeRows
  <2> DEFINE id == deletion.id
             source == RowsOfToken(TableOf(deletion.stage), id)
             moved == deletion'.moved
  <2>1. /\ deletion.op = "token" /\ UNCHANGED <<tokens, keys, usage>>
        /\ deletion'.op = "token" /\ deletion'.id = id
        /\ deletion'.dropped = deletion.dropped
        /\ moved = [r \in Rows |-> IF \E s \in source : WithoutToken(s) = r
                      THEN usage[<<r[1], id, r[3]>>] ELSE deletion.moved[r]]
    BY <1>12 DEF MergeRows, Merging, RequestLogTypeOK, DeletionSet
  <2>2. /\ id \in tokens /\ id \in Tokens
        /\ \A r \in Rows : /\ deletion.moved[r] > 0 => r[2] = Null
                           /\ deletion.moved[r] <= usage[<<r[1], id, r[3]>>]
        /\ CoveredBy(deletion.moved)
    BY <2>1 DEF DeletionSound, RequestLogTypeOK
  <2>3. \A r \in Rows : /\ <<r[1], id, r[3]>> \in Rows
                        /\ usage[<<r[1], id, r[3]>>] \in Nat
    BY <1>1, <2>2, RowFacts, RowType
  <2>4. ASSUME NEW r \in Rows, NEW s \in source, WithoutToken(s) = r
        PROVE  r[2] = Null /\ r[1] = TableOf(deletion.stage)
    BY <2>4 DEF RowsOfToken, WithoutToken
  <2>5. ASSUME NEW r \in Rows
        PROVE  /\ moved[r] > 0 => r[2] = Null
               /\ moved[r] <= usage[<<r[1], id, r[3]>>]
    <3>1. CASE \E s \in source : WithoutToken(s) = r
      <4>1. moved[r] = usage[<<r[1], id, r[3]>>] /\ r[2] = Null
        BY <2>1, <2>4, <3>1
      <4>2. QED
        BY <2>3, <4>1
    <3>2. CASE ~\E s \in source : WithoutToken(s) = r
      BY <2>1, <2>2, <3>2
    <3>3. QED
      BY <3>1, <3>2
  <2>6. CoveredBy(moved)
    <3> SUFFICES ASSUME NEW t \in Tokens \cup {Null}, NEW k \in Keys,
                        moved[<<"daily", t, k>>] > 0
                 PROVE  moved[<<"daily", t, Null>>] > 0
      BY DEF CoveredBy
    <3>1. /\ <<"daily", t, k>> \in Rows /\ <<"daily", t, Null>> \in Rows
          /\ <<"daily", id, k>> \in Rows /\ <<"daily", id, Null>> \in Rows
      BY <2>2, RowType
    <3>2. t = Null
      BY <2>5, <3>1
    <3> DEFINE r == <<"daily", Null, k>>
               n == <<"daily", Null, Null>>
    <3>3. r \in Rows /\ n \in Rows /\ moved[r] > 0
      BY <3>1, <3>2
    <3>4. CASE <<"daily", id, Null>> \in source
      <4>1. WithoutToken(<<"daily", id, Null>>) = n
        BY DEF WithoutToken
      <4>2. moved[n] = usage[<<"daily", id, Null>>]
        BY <2>1, <3>3, <3>4, <4>1
      <4>3. usage[<<"daily", id, Null>>] > 0
        BY <3>4 DEF RowsOfToken, Exists
      <4>4. QED
        BY <3>2, <4>2, <4>3
    <3>5. CASE <<"daily", id, Null>> \notin source
      <4>1. TableOf(deletion.stage) = "daily" => ~(usage[<<"daily", id, Null>>] > 0)
        BY <3>1, <3>5 DEF RowsOfToken, Exists
      <4>2. TableOf(deletion.stage) = "daily" => ~(usage[<<"daily", id, k>>] > 0)
        BY <2>2, <4>1 DEF CoveredBy
      <4>3. ~\E s \in source : WithoutToken(s) = r
        <5> SUFFICES ASSUME NEW s \in source, WithoutToken(s) = r PROVE FALSE
          OBVIOUS
        <5>1. s \in Rows /\ s[2] = id /\ usage[s] > 0 /\ s[1] = TableOf(deletion.stage)
              /\ <<s[1], Null, s[3]>> = r
          BY DEF RowsOfToken, Exists, WithoutToken
        <5>2. s = <<"daily", id, k>> /\ TableOf(deletion.stage) = "daily"
          BY <5>1, RowFacts
        <5>3. QED
          BY <4>2, <5>1, <5>2
      <4>4. deletion.moved[r] > 0
        BY <2>1, <3>3, <4>3
      <4>5. deletion.moved[n] > 0
        BY <2>2, <4>4 DEF CoveredBy
      <4>6. ~\E s \in source : WithoutToken(s) = n
        <5> SUFFICES ASSUME NEW s \in source, WithoutToken(s) = n PROVE FALSE
          OBVIOUS
        <5>1. s \in Rows /\ s[2] = id /\ <<s[1], Null, s[3]>> = n
          BY DEF RowsOfToken, WithoutToken
        <5>2. s = <<"daily", id, Null>>
          BY <5>1, RowFacts
        <5>3. QED
          BY <3>5, <5>2
      <4>7. moved[n] = deletion.moved[n]
        BY <2>1, <3>3, <4>6
      <4>8. QED
        BY <3>2, <4>5, <4>7
    <3>6. QED
      BY <3>4, <3>5
  <2>7. \A r \in deletion.dropped : owner'[r] = Admin /\ r[2] = id
    <3>1. \A r \in Rows : owner[r] = Admin => owner'[r] = Admin
      BY <1>12, <2>1, WritesAreFree DEF MergeRows
    <3>2. QED
      BY <1>1, <2>1, <3>1 DEF DeletionSound
  <2>8. <<"daily", id, Null>> \in deletion.dropped =>
            \A k \in Keys : usage[<<"daily", id, k>>] > 0 =>
              <<"daily", id, k>> \in deletion.dropped
    BY <2>1 DEF DeletionSound
  <2> HIDE DEF moved, source
  <2>9. QED
    BY <2>1, <2>2, <2>5, <2>6, <2>7, <2>8 DEF DeletionSound, CoveredBy, moved
<1>13. CASE DropRows
  <2> DEFINE id == deletion.id
             dropped == deletion.dropped \cup DeletionWrites
  <2>1. /\ deletion.op \in {"token", "key"} /\ UNCHANGED <<tokens, keys, usage>>
        /\ deletion'.op = deletion.op /\ deletion'.id = id
        /\ deletion'.dropped = dropped /\ deletion'.moved = deletion.moved
    BY <1>13 DEF DropRows, Dropping, RequestLogTypeOK, DeletionSet
  <2>2. DeletionWrites \subseteq Rows
    BY <1>13 DEF DropRows, DeletionWrites, Dropping, Merging, RowsOfToken, DroppedWithKey
  <2>3. \A r \in dropped : owner'[r] = Admin
    <3>1. \A r \in Rows : owner[r] = Admin => owner'[r] = Admin
      BY <1>13, <2>1, WritesAreFree DEF DropRows
    <3>2. \A r \in Rows \cap DeletionWrites : owner'[r] = Admin
      BY <1>13 DEF DropRows
    <3>3. QED
      BY <1>1, <2>2, <3>1, <3>2
  <2>4. CASE deletion.op = "key"
    <3>1. DeletionWrites = DroppedWithKey(id)
      BY <1>13, <2>4 DEF DropRows, DeletionWrites, Merging
    <3>2. \A r \in dropped : r[1] = "daily" /\ r[3] = id
      BY <2>4, <3>1 DEF DroppedWithKey, DeletionSound
    <3> HIDE DEF dropped
    <3>3. QED
      BY <2>1, <2>3, <2>4, <3>2 DEF DeletionSound, CoveredBy
  <2>5. CASE deletion.op = "token"
    <3>1. DeletionWrites = RowsOfToken(TableOf(deletion.stage), id)
      BY <1>13, <2>5 DEF DropRows, Dropping, DeletionWrites, Merging
    <3>2. \A r \in dropped : r[2] = id
      BY <2>5, <3>1 DEF RowsOfToken, DeletionSound
    <3>3. ASSUME <<"daily", id, Null>> \in dropped, NEW k \in Keys,
                 usage[<<"daily", id, k>>] > 0
          PROVE  <<"daily", id, k>> \in dropped
      <4>1. CASE <<"daily", id, Null>> \in deletion.dropped
        BY <2>5, <3>3, <4>1 DEF DeletionSound
      <4>2. CASE <<"daily", id, Null>> \in DeletionWrites
        <5>1. TableOf(deletion.stage) = "daily"
          BY <3>1, <4>2 DEF RowsOfToken
        <5>2. <<"daily", id, k>> \in Rows
          BY <2>5, RowType DEF DeletionSound, RequestLogTypeOK
        <5>3. QED
          BY <3>1, <3>3, <5>1, <5>2 DEF RowsOfToken, Exists
      <4>3. QED
        BY <3>3, <4>1, <4>2
    <3> HIDE DEF dropped
    <3>4. QED
      BY <2>1, <2>3, <2>5, <3>2, <3>3 DEF DeletionSound, CoveredBy
  <2>6. QED
    BY <2>1, <2>4, <2>5
<1>14. CASE FinishDeletion \/ FailDeletion
  BY <1>14, NoDeletionSound DEF FinishDeletion, FailDeletion, EndDeletion
<1>15. CASE UNCHANGED vars
  BY <1>2, <1>15 DEF vars
<1>16. ASSUME NEW w \in Writers, Timeout(w) \/ AbortLog(w) PROVE DeletionSound'
  BY <1>3, <1>16 DEF Timeout, AbortLog
<1>17. QED
  BY <1>4, <1>5, <1>6, <1>7, <1>8, <1>9, <1>10, <1>11, <1>12, <1>13, <1>14, <1>15, <1>16
  DEF Next, LogStep, DeletionStep

\* The deletion of a token or of a key that goes through.
LEMMA FinishFacts ==
  ASSUME RequestLogInv, FinishDeletion
  PROVE  /\ deletion.op \in {"token", "key"} /\ UNCHANGED logs
         /\ usage' = UsageAfterDeletion
         /\ deletion.op = "token" =>
              /\ Conflicts("token", deletion.id) = {}
              /\ deletion.id \in Tokens /\ deletion.id # Null
              /\ tokens' = tokens \ {deletion.id} /\ keys' = keys
         /\ deletion.op = "key" =>
              /\ Conflicts("key", deletion.id) = {}
              /\ deletion.id \in Keys /\ deletion.id # Null
              /\ tokens' = tokens /\ keys' = keys \ {deletion.id}
<1>1. deletion.op \in {"token", "key"}
  BY DEF FinishDeletion, Finishing
<1>2. deletion.op = "token" => deletion.id \in Tokens /\ deletion.id # Null
  BY NullFacts DEF RequestLogInv, DeletionSound, RequestLogTypeOK
<1>3. deletion.op = "key" => deletion.id \in Keys /\ deletion.id # Null
  BY NullFacts DEF RequestLogInv, DeletionSound, RequestLogTypeOK
<1>4. QED
  BY <1>1, <1>2, <1>3 DEF FinishDeletion, EndDeletion

\* No row of a key outlives the row of its token.
LEMMA CoveredKept ==
  ASSUME RequestLogInv, [Next]_vars
  PROVE  CoveredBy(usage)'
<1> USE DEF RequestLogInv
<1>1. ASSUME usage' = usage PROVE CoveredBy(usage)'
  BY <1>1 DEF CoveredBy
<1>2. ASSUME NEW w \in Writers, Commit(w) PROVE CoveredBy(usage)'
  BY <1>2, CommitFacts DEF CoveredBy
<1>3. CASE FinishDeletion
  <2> DEFINE id == deletion.id
             u == usage'
  <2>1. \A t \in Tokens \cup {Null} :
          /\ <<"daily", t, Null>> \in Rows
          /\ \A k \in Keys : <<"daily", t, k>> \in Rows /\ k # Null
    BY RowType, NullFacts
  <2>2. \A r \in Rows : usage[r] \in Nat /\ deletion.moved[r] \in Nat
    BY DEF RequestLogTypeOK, DeletionSet
  <2>3. CASE deletion.op = "token"
    <3>1. /\ \A r \in Rows : u[r] \in Nat
          /\ \A r \in Rows : r[2] = id => u[r] = 0
          /\ \A r \in Rows : r[2] \notin {Null, id} => u[r] = usage[r]
          /\ \A r \in Rows : r[2] = Null =>
               /\ usage[r] + deletion.moved[r] <= u[r]
               /\ u[r] > 0 =>
                    \/ usage[r] > 0 \/ deletion.moved[r] > 0
                    \/ /\ usage[<<r[1], id, r[3]>>] > 0
                       /\ <<r[1], id, r[3]>> \notin deletion.dropped
               /\ (/\ usage[<<r[1], id, r[3]>>] > 0
                   /\ <<r[1], id, r[3]>> \notin deletion.dropped) => u[r] > 0
      <4>1. u = UsageAfterDeletion /\ Conflicts("token", id) = {}
        BY <1>3, <2>3, FinishFacts
      <4> HIDE DEF u
      <4>2. QED
        BY <2>3, <4>1, AfterTokenDeletion
    <3>2. id \in Tokens /\ id # Null
      BY <1>3, <2>3, FinishFacts
    <3>3. /\ CoveredBy(deletion.moved) /\ CoveredBy(usage)
          /\ <<"daily", id, Null>> \in deletion.dropped =>
               \A k \in Keys : usage[<<"daily", id, k>>] > 0 =>
                 <<"daily", id, k>> \in deletion.dropped
      BY <2>3 DEF DeletionSound
    <3> SUFFICES ASSUME NEW t \in Tokens \cup {Null}, NEW k \in Keys,
                        u[<<"daily", t, k>>] > 0
                 PROVE  u[<<"daily", t, Null>>] > 0
      BY DEF CoveredBy
    <3> HIDE DEF u, id
    <3>4. CASE t \notin {Null, id}
      BY <2>1, <3>1, <3>3, <3>4 DEF CoveredBy
    <3>5. CASE t = id
      <4>1. <<"daily", t, k>> \in Rows /\ <<"daily", t, k>>[2] = id
        BY <2>1, <3>5
      <4>2. u[<<"daily", t, k>>] = 0
        BY <3>1, <4>1
      <4>3. QED
        BY <4>2
    <3>6. CASE t = Null
      <4> DEFINE r == <<"daily", Null, k>>
                 n == <<"daily", Null, Null>>
      <4>1. /\ r \in Rows /\ n \in Rows /\ u[r] > 0
            /\ r[1] = "daily" /\ r[2] = Null /\ r[3] = k
            /\ n[1] = "daily" /\ n[2] = Null /\ n[3] = Null
        BY <2>1, <3>6
      <4>2. /\ u[n] \in Nat /\ usage[n] \in Nat /\ deletion.moved[n] \in Nat
            /\ usage[n] + deletion.moved[n] <= u[n]
            /\ (/\ usage[<<"daily", id, Null>>] > 0
                /\ <<"daily", id, Null>> \notin deletion.dropped) => u[n] > 0
        BY <2>2, <3>1, <4>1
      <4>3. \/ usage[r] > 0 \/ deletion.moved[r] > 0
            \/ /\ usage[<<"daily", id, k>>] > 0
               /\ <<"daily", id, k>> \notin deletion.dropped
        BY <3>1, <4>1
      <4>4. CASE usage[r] > 0
        <5>1. usage[n] > 0
          BY <3>3, <4>4 DEF CoveredBy
        <5>2. QED
          BY <3>6, <4>2, <5>1
      <4>5. CASE deletion.moved[r] > 0
        <5>1. deletion.moved[n] > 0
          BY <3>3, <4>5 DEF CoveredBy
        <5>2. QED
          BY <3>6, <4>2, <5>1
      <4>6. CASE usage[<<"daily", id, k>>] > 0 /\ <<"daily", id, k>> \notin deletion.dropped
        <5>1. usage[<<"daily", id, Null>>] > 0
          BY <3>2, <3>3, <4>6 DEF CoveredBy
        <5>2. <<"daily", id, Null>> \notin deletion.dropped
          BY <3>3, <4>6
        <5>3. QED
          BY <3>6, <4>2, <5>1, <5>2
      <4>7. QED
        BY <4>3, <4>4, <4>5, <4>6
    <3>7. QED
      BY <3>4, <3>5, <3>6
  <2>4. CASE deletion.op = "key"
    <3>1. /\ \A r \in Rows : r[3] = id => u[r] = 0
          /\ \A r \in Rows : r[3] \notin {Null, id} => u[r] = usage[r]
          /\ \A r \in Rows : r[3] = Null /\ r[1] = "daily" => u[r] = usage[r]
      <4>1. u = UsageAfterDeletion /\ Conflicts("key", id) = {}
        BY <1>3, <2>4, FinishFacts
      <4> HIDE DEF u
      <4>2. QED
        BY <2>4, <4>1, AfterKeyDeletion
    <3> SUFFICES ASSUME NEW t \in Tokens \cup {Null}, NEW k \in Keys,
                        u[<<"daily", t, k>>] > 0
                 PROVE  u[<<"daily", t, Null>>] > 0
      BY DEF CoveredBy
    <3> HIDE DEF u, id
    <3>2. u[<<"daily", t, Null>>] = usage[<<"daily", t, Null>>]
      BY <2>1, <3>1
    <3>3. <<"daily", t, k>> \in Rows /\ <<"daily", t, k>>[3] = k /\ k # Null
      BY <2>1
    <3>4. k # id
      BY <3>1, <3>3
    <3>5. u[<<"daily", t, k>>] = usage[<<"daily", t, k>>]
      BY <3>1, <3>3, <3>4
    <3>6. QED
      BY <3>2, <3>5 DEF CoveredBy
  <2>5. QED
    BY <1>3, <2>3, <2>4, FinishFacts
<1>4. ASSUME NEW w \in Writers, Lose(w) PROVE CoveredBy(usage)'
  BY <1>1, <1>4 DEF Lose
<1>5. ASSUME NEW w \in Writers, NEW t \in tokens \cup {Null}, NEW calls \in CallLists,
             Finish(w, t, calls)
      PROVE  CoveredBy(usage)'
  BY <1>1, <1>5 DEF Finish
<1>6. ASSUME NEW w \in Writers, LogStep(w) PROVE CoveredBy(usage)'
  <2>1. CASE Commit(w)
    BY <1>2, <2>1
  <2>2. CASE ~Commit(w)
    BY <1>1, <1>6, <2>2 DEF LogStep, Begin, InsertCall, BorrowConnection, ReturnConnection,
                            UpsertRow, Timeout, AbortLog, Lose
  <2>3. QED
    BY <2>1, <2>2
<1>7. ASSUME NEW d \in Deletions, StartDeletion(d.op, d.id) PROVE CoveredBy(usage)'
  BY <1>1, <1>7 DEF StartDeletion
<1>8. CASE MergeRows \/ DropRows \/ FailDeletion
  BY <1>1, <1>8 DEF MergeRows, DropRows, FailDeletion, UsageAfterRollback
<1>9. CASE UNCHANGED vars
  BY <1>1, <1>9 DEF vars
<1>10. QED
  BY <1>3, <1>5, <1>6, <1>7, <1>8, <1>9 DEF Next, DeletionStep

\* The counts after the deletion of a token.
LEMMA CountsAfterTokenDeletion ==
  ASSUME RequestLogInv, FinishDeletion, deletion.op = "token"
  PROVE  Counting(usage', pc, entry, tokens \ {deletion.id}, keys)
<1> DEFINE id == deletion.id
           u == usage'
           TN == Tokens \cup {Null}
<1>1. /\ u \in [Rows -> Nat]
      /\ \A r \in Rows : r[2] = id => u[r] = 0
      /\ \A r \in Rows : r[2] \notin {Null, id} => u[r] = usage[r]
      /\ \A r \in Rows : r[2] = Null => u[r] <= usage[r] + usage[<<r[1], id, r[3]>>]
  <2>1. u = UsageAfterDeletion /\ Conflicts("token", id) = {}
    BY FinishFacts
  <2>2. RequestLogTypeOK /\ DeletionSound /\ CoveredBy(usage)
    BY DEF RequestLogInv
  <2> HIDE DEF u
  <2>3. QED
    BY <2>1, <2>2, AfterTokenDeletion
<1>2. /\ id \in Tokens /\ id # Null /\ id \in TN /\ Null \in TN /\ IsFiniteSet(TN)
      /\ usage \in [Rows -> Nat] /\ tokens \subseteq Tokens /\ keys \subseteq Keys
      /\ Null \notin Tokens
  BY FinishFacts, NullFacts DEF RequestLogInv, RequestLogTypeOK
<1>3. Counting(usage, pc, entry, tokens, keys)
  BY DEF RequestLogInv
<1> HIDE DEF u, id, TN
<1>4. ASSUME NEW k \in Keys \cup {Null}
      PROVE  /\ SumOf(DailyOf(u, k), TN) <= SumOf(DailyOf(usage, k), TN)
             /\ SumOf(DailyOf(u, k), TN) \in Nat /\ SumOf(DailyOf(usage, k), TN) \in Nat
  <2> DEFINE f == DailyOf(usage, k)
             g == DailyOf(u, k)
  <2>1. f \in [TN -> Nat] /\ g \in [TN -> Nat]
    BY <1>1, <1>2, SumTerms DEF TN
  <2>2. \A t \in TN : /\ <<"daily", t, k>> \in Rows
                      /\ f[t] = usage[<<"daily", t, k>>] /\ g[t] = u[<<"daily", t, k>>]
    BY RowType DEF TN, DailyOf
  <2>3. g[id] = 0
    BY <1>1, <1>2, <2>2
  <2>4. g[Null] <= f[Null] + f[id]
    BY <1>1, <1>2, <2>2
  <2>5. \A t \in TN \ {id, Null} : g[t] <= f[t]
    <3> SUFFICES ASSUME NEW t \in TN \ {id, Null} PROVE g[t] <= f[t]
      OBVIOUS
    <3>1. g[t] = f[t]
      BY <1>1, <2>2
    <3>2. f[t] \in Nat
      BY <2>1
    <3>3. QED
      BY <3>1, <3>2
  <2> HIDE DEF f, g
  <2>6. SumOf(g, TN) <= SumOf(f, TN)
    BY <1>2, <2>1, <2>3, <2>4, <2>5, SumAfterMove
  <2>7. SumOf(g, TN) \in Nat /\ SumOf(f, TN) \in Nat
    BY <1>2, <2>1, SumIsNat
  <2>8. QED
    BY <2>6, <2>7 DEF f, g
<1>5. ASSUME NEW t \in tokens \ {id}
      PROVE  /\ u[<<"daily", t, Null>>] = Cardinality(LoggedIn(pc, entry, t))
             /\ SumOf(MeterOf(u, t), Keys \cup {Null})
                  = Cardinality(SucceededIn(pc, entry, t))
  <2>1. t \in Tokens /\ t \notin {Null, id}
    BY <1>2
  <2>2. \A k \in Keys \cup {Null} :
          /\ <<"daily", t, k>> \in Rows /\ <<"meter", t, k>> \in Rows
          /\ u[<<"daily", t, k>>] = usage[<<"daily", t, k>>]
          /\ u[<<"meter", t, k>>] = usage[<<"meter", t, k>>]
    BY <1>1, <2>1, RowType
  <2>3. MeterOf(u, t) = MeterOf(usage, t)
    BY <2>2 DEF MeterOf
  <2>4. QED
    BY <1>3, <2>2, <2>3 DEF Counting
<1>6. SumOf(DailyOf(u, Null), TN) <= Cardinality(CommittedIn(pc))
  <2>1. SumOf(DailyOf(usage, Null), TN) <= Cardinality(CommittedIn(pc))
    BY <1>3 DEF Counting, TN
  <2>2. Cardinality(CommittedIn(pc)) \in Nat
    BY CountedAreFinite, FS_CardinalityType
  <2>3. /\ SumOf(DailyOf(u, Null), TN) <= SumOf(DailyOf(usage, Null), TN)
        /\ SumOf(DailyOf(u, Null), TN) \in Nat /\ SumOf(DailyOf(usage, Null), TN) \in Nat
    BY <1>4
  <2>4. QED
    BY <2>1, <2>2, <2>3
<1>7. ASSUME NEW k \in keys
      PROVE  SumOf(DailyOf(u, k), TN) <= Cardinality(KeyCallsIn(pc, entry, k))
  <2>1. SumOf(DailyOf(usage, k), TN) <= Cardinality(KeyCallsIn(pc, entry, k))
    BY <1>3 DEF Counting, TN
  <2>2. Cardinality(KeyCallsIn(pc, entry, k)) \in Nat
    BY CountedAreFinite, FS_CardinalityType
  <2>3. /\ SumOf(DailyOf(u, k), TN) <= SumOf(DailyOf(usage, k), TN)
        /\ SumOf(DailyOf(u, k), TN) \in Nat /\ SumOf(DailyOf(usage, k), TN) \in Nat
    BY <1>2, <1>4
  <2>4. QED
    BY <2>1, <2>2, <2>3
<1>8. QED
  BY <1>5, <1>6, <1>7 DEF Counting, TN, u, id

\* The counts after the deletion of a key.
LEMMA CountsAfterKeyDeletion ==
  ASSUME RequestLogInv, FinishDeletion, deletion.op = "key"
  PROVE  Counting(usage', pc, entry, tokens, keys \ {deletion.id})
<1> DEFINE id == deletion.id
           u == usage'
           KN == Keys \cup {Null}
<1>1. /\ u \in [Rows -> Nat]
      /\ \A r \in Rows : r[3] = id => u[r] = 0
      /\ \A r \in Rows : r[3] \notin {Null, id} => u[r] = usage[r]
      /\ \A r \in Rows : r[3] = Null =>
           u[r] = IF r[1] = "daily" THEN usage[r]
                  ELSE usage[r] + usage[<<r[1], r[2], id>>]
  <2>1. u = UsageAfterDeletion /\ Conflicts("key", id) = {}
    BY FinishFacts
  <2>2. RequestLogTypeOK /\ DeletionSound /\ CoveredBy(usage)
    BY DEF RequestLogInv
  <2> HIDE DEF u
  <2>3. QED
    BY <2>1, <2>2, AfterKeyDeletion
<1>2. /\ id \in Keys /\ id # Null /\ id \in KN /\ Null \in KN /\ IsFiniteSet(KN)
      /\ usage \in [Rows -> Nat] /\ tokens \subseteq Tokens /\ keys \subseteq Keys
      /\ Null \notin Keys
  BY FinishFacts, NullFacts DEF RequestLogInv, RequestLogTypeOK
<1>3. Counting(usage, pc, entry, tokens, keys)
  BY DEF RequestLogInv
<1> HIDE DEF u, id, KN
<1>4. ASSUME NEW k \in KN \ {id} PROVE DailyOf(u, k) = DailyOf(usage, k)
  <2>1. ASSUME NEW t \in Tokens \cup {Null}
        PROVE  u[<<"daily", t, k>>] = usage[<<"daily", t, k>>]
    <3>1. /\ <<"daily", t, k>> \in Rows
          /\ <<"daily", t, k>>[1] = "daily" /\ <<"daily", t, k>>[3] = k
      BY RowType DEF KN
    <3>2. k \notin {id}
      OBVIOUS
    <3>3. QED
      BY <1>1, <3>1, <3>2
  <2>2. QED
    BY <2>1 DEF DailyOf
<1>5. ASSUME NEW t \in tokens
      PROVE  /\ u[<<"daily", t, Null>>] = Cardinality(LoggedIn(pc, entry, t))
             /\ SumOf(MeterOf(u, t), KN) = Cardinality(SucceededIn(pc, entry, t))
  <2> DEFINE f == MeterOf(usage, t)
             g == MeterOf(u, t)
  <2>1. t \in Tokens \cup {Null}
    BY <1>2
  <2>2. \A k \in KN : /\ <<"daily", t, k>> \in Rows /\ <<"meter", t, k>> \in Rows
                      /\ f[k] = usage[<<"meter", t, k>>] /\ g[k] = u[<<"meter", t, k>>]
    BY <2>1, RowType DEF KN, MeterOf
  <2>3. f \in [KN -> Nat] /\ g \in [KN -> Nat]
    BY <1>1, <1>2, <2>1, SumTerms DEF KN
  <2>4. g[id] = 0
    BY <1>1, <1>2, <2>2
  <2>5. g[Null] = f[Null] + f[id]
    <3>1. <<"meter", t, Null>> \in Rows
      BY <1>2, <2>2
    <3>2. u[<<"meter", t, Null>>] = usage[<<"meter", t, Null>>] + usage[<<"meter", t, id>>]
      BY <1>1, <3>1
    <3>3. QED
      BY <1>2, <2>2, <3>2
  <2>6. \A k \in KN \ {id, Null} : g[k] = f[k]
    BY <1>1, <2>2
  <2>7. u[<<"daily", t, Null>>] = usage[<<"daily", t, Null>>]
    BY <1>1, <1>2, <2>2
  <2> HIDE DEF f, g
  <2>8. g[Null] <= f[Null] + f[id] /\ \A k \in KN \ {id, Null} : g[k] <= f[k]
    <3>1. f[Null] \in Nat /\ f[id] \in Nat /\ \A k \in KN : f[k] \in Nat
      BY <1>2, <2>3
    <3>2. QED
      BY <2>5, <2>6, <3>1
  <2>9. SumOf(g, KN) = SumOf(f, KN)
    BY <1>2, <2>3, <2>4, <2>5, <2>6, <2>8, SumAfterMove
  <2>10. QED
    BY <1>3, <2>7, <2>9 DEF Counting, KN, f, g
<1>6. ASSUME NEW k \in keys \ {id}
      PROVE  SumOf(DailyOf(u, k), Tokens \cup {Null}) <= Cardinality(KeyCallsIn(pc, entry, k))
  <2>1. k \in KN \ {id}
    BY <1>2 DEF KN
  <2>2. QED
    BY <1>3, <1>4, <2>1 DEF Counting
<1>7. SumOf(DailyOf(u, Null), Tokens \cup {Null}) <= Cardinality(CommittedIn(pc))
  <2>1. Null \in KN \ {id}
    BY <1>2
  <2>2. QED
    BY <1>3, <1>4, <2>1 DEF Counting
<1>8. QED
  BY <1>5, <1>6, <1>7 DEF Counting, KN, u, id

\* Every step keeps the counts.
LEMMA CountsKept ==
  ASSUME RequestLogInv, [Next]_vars
  PROVE  Counting(usage, pc, entry, tokens, keys)'
<1> DEFINE Kept == Counting(usage', pc', entry', tokens', keys')
<1> SUFFICES Kept
  BY DEF Counting, LoggedIn, SucceededIn, KeyCallsIn, CallsIn, CommittedIn, DailyOf, MeterOf
<1>1. ASSUME UNCHANGED <<usage, tokens, keys>>,
             \A w \in Writers : pc'[w] = "committed" <=> pc[w] = "committed",
             \A w \in Writers : pc[w] = "committed" => entry'[w] = entry[w]
      PROVE  Kept
  BY <1>1, CountingKept DEF RequestLogInv
<1>2. ASSUME NEW w \in Writers, Commit(w) PROVE Kept
  BY <1>2, CommitFacts DEF RequestLogInv
<1>3. CASE FinishDeletion
  <2>1. pc' = pc /\ entry' = entry
    BY <1>3, FinishFacts DEF logs
  <2>2. CASE deletion.op = "token"
    <3>1. tokens' = tokens \ {deletion.id} /\ keys' = keys
      BY <1>3, <2>2, FinishFacts
    <3>2. QED
      BY <1>3, <2>1, <2>2, <3>1, CountsAfterTokenDeletion
  <2>3. CASE deletion.op = "key"
    <3>1. tokens' = tokens /\ keys' = keys \ {deletion.id}
      BY <1>3, <2>3, FinishFacts
    <3>2. QED
      BY <1>3, <2>1, <2>3, <3>1, CountsAfterKeyDeletion
  <2>4. QED
    BY <1>3, <2>2, <2>3, FinishFacts
<1>4. ASSUME NEW w \in Writers, Lose(w), pc[w] # "committed" PROVE Kept
  <2>1. \A v \in Writers : pc'[v] = IF v = w THEN "lost" ELSE pc[v]
    BY <1>4 DEF Lose, Close, RequestLogInv, RequestLogTypeOK
  <2>2. UNCHANGED <<usage, tokens, keys, entry>>
    BY <1>4 DEF Lose
  <2>3. QED
    BY <1>1, <1>4, <2>1, <2>2
<1>5. ASSUME NEW w \in Writers, NEW t \in tokens \cup {Null}, NEW calls \in CallLists,
             Finish(w, t, calls)
      PROVE  Kept
  <2>1. /\ \A v \in Writers : pc'[v] = IF v = w THEN "queued" ELSE pc[v]
        /\ \A v \in Writers \ {w} : entry'[v] = entry[v]
        /\ pc[w] = "idle" /\ UNCHANGED <<usage, tokens, keys>>
    BY <1>5 DEF Finish, RequestLogInv, RequestLogTypeOK
  <2>2. QED
    BY <1>1, <2>1
<1>6. ASSUME NEW w \in Writers, Begin(w) PROVE Kept
  <2>1. CASE entry[w].token \in tokens \cup {Null}
    <3>1. /\ \A v \in Writers : pc'[v] = IF v = w THEN "open" ELSE pc[v]
          /\ pc[w] = "queued" /\ UNCHANGED <<usage, tokens, keys, entry>>
      BY <1>6, <2>1 DEF Begin, RequestLogInv, RequestLogTypeOK
    <3>2. QED
      BY <1>1, <3>1
  <2>2. CASE entry[w].token \notin tokens \cup {Null}
    BY <1>4, <1>6, <2>2 DEF Begin
  <2>3. QED
    BY <2>1, <2>2
<1>7. ASSUME NEW w \in Writers, InsertCall(w) PROVE Kept
  <2>1. pc[w] = "open"
    BY <1>7 DEF InsertCall, NextIs, Open
  <2>2. QED
    BY <1>1, <1>4, <1>7, <2>1 DEF InsertCall
<1>8. ASSUME NEW w \in Writers, BorrowConnection(w) \/ ReturnConnection(w) \/ UpsertRow(w)
      PROVE  Kept
  <2>1. UNCHANGED <<usage, tokens, keys, pc, entry>>
    BY <1>8 DEF BorrowConnection, ReturnConnection, UpsertRow
  <2>2. QED
    BY <1>1, <2>1
<1>9. ASSUME NEW w \in Writers, Timeout(w) \/ AbortLog(w) PROVE Kept
  <2>1. Lose(w) /\ pc[w] # "committed"
    BY <1>9 DEF Timeout, MayTimeOut, AbortLog, Open
  <2>2. QED
    BY <1>4, <2>1
<1>10. ASSUME UNCHANGED <<usage, tokens, keys, logs>> PROVE Kept
  BY <1>1, <1>10 DEF logs
<1>11. ASSUME NEW d \in Deletions, StartDeletion(d.op, d.id) PROVE Kept
  BY <1>10, <1>11 DEF StartDeletion
<1>12. CASE MergeRows \/ DropRows \/ FailDeletion
  BY <1>10, <1>12 DEF MergeRows, DropRows, FailDeletion, UsageAfterRollback, EndDeletion
<1>13. CASE UNCHANGED vars
  BY <1>10, <1>13 DEF vars, logs
<1> HIDE DEF Kept
<1>14. ASSUME NEW w \in Writers, LogStep(w) PROVE Kept
  BY <1>2, <1>6, <1>7, <1>8, <1>9, <1>14 DEF LogStep
<1>15. QED
  BY <1>3, <1>5, <1>11, <1>12, <1>13, <1>14 DEF Next, DeletionStep

-----------------------------------------------------------------------------
(* The invariant. *)

\* At the start nothing is counted.
LEMMA InvInitially ==
  ASSUME Init
  PROVE  RequestLogInv
<1>1. RequestLogTypeOK
  <2>1. <<>> \in Seq(Statement) /\ NoEntry \in EntrySet /\ NoDeletion \in DeletionSet
    BY DEF NoEntry, EntrySet, NoDeletion, DeletionSet
  <2>2. QED
    BY <2>1 DEF Init, RequestLogTypeOK
<1>2. Open = {} /\ reading = {}
  BY DEF Init, Open
<1>3. HeldSound
  <2>1. Cardinality({}) = 0
    BY FS_EmptySet
  <2>2. Free = Connections
    BY <1>2, <2>1, ConnectionsAssumption DEF Free, Init, NoDeletion
  <2>3. QED
    BY <1>2, <2>2, ConnectionsAssumption DEF HeldSound, Init
<1>4. LogsSound
  BY <1>2 DEF LogsSound
<1>5. \A r \in Rows : usage[r] = 0
  BY DEF Init
<1>6. CoveredBy(usage)
  BY <1>5, RowType DEF CoveredBy
<1>7. DeletionSound
  <2>1. \A r \in Rows : NoDeletion.moved[r] = 0
    BY DEF NoDeletion
  <2>2. CoveredBy(NoDeletion.moved)
    BY <2>1, RowType DEF CoveredBy
  <2>3. deletion = NoDeletion /\ NoDeletion.op = "none" /\ NoDeletion.dropped = {}
    BY DEF Init, NoDeletion
  <2>4. QED
    BY <2>2, <2>3 DEF DeletionSound
<1>8. Counting(usage, pc, entry, tokens, keys)
  <2>1. CommittedIn(pc) = {}
    BY DEF Init, CommittedIn
  <2>2. /\ CallsIn(pc, entry) = {} /\ \A t : LoggedIn(pc, entry, t) = {}
    BY <2>1 DEF CallsIn, LoggedIn
  <2>3. /\ \A t : SucceededIn(pc, entry, t) = {} /\ \A k : KeyCallsIn(pc, entry, k) = {}
    BY <2>2 DEF SucceededIn, KeyCallsIn
  <2>4. Cardinality({}) = 0
    BY FS_EmptySet
  <2>5. /\ \A k \in Keys \cup {Null} : SumOf(DailyOf(usage, k), Tokens \cup {Null}) = 0
        /\ \A t \in Tokens \cup {Null} : SumOf(MeterOf(usage, t), Keys \cup {Null}) = 0
    <3>1. ASSUME NEW k \in Keys \cup {Null}
          PROVE  SumOf(DailyOf(usage, k), Tokens \cup {Null}) = 0
      <4>1. \A t \in Tokens \cup {Null} : DailyOf(usage, k)[t] = 0
        BY <1>5, RowType DEF DailyOf
      <4>2. DailyOf(usage, k) \in [Tokens \cup {Null} -> Nat]
        BY <1>1, SumTerms DEF RequestLogTypeOK
      <4>3. QED
        BY <4>1, <4>2, NullFacts, SumOfNothing
    <3>2. ASSUME NEW t \in Tokens \cup {Null}
          PROVE  SumOf(MeterOf(usage, t), Keys \cup {Null}) = 0
      <4>1. \A k \in Keys \cup {Null} : MeterOf(usage, t)[k] = 0
        BY <1>5, RowType DEF MeterOf
      <4>2. MeterOf(usage, t) \in [Keys \cup {Null} -> Nat]
        BY <1>1, SumTerms DEF RequestLogTypeOK
      <4>3. QED
        BY <4>1, <4>2, NullFacts, SumOfNothing
    <3>3. QED
      BY <3>1, <3>2
  <2>6. \A t \in Tokens : <<"daily", t, Null>> \in Rows /\ t \in Tokens \cup {Null}
    BY RowType
  <2>7. tokens = Tokens /\ keys = Keys
    BY DEF Init
  <2>8. \A t \in tokens : /\ usage[<<"daily", t, Null>>] = Cardinality(LoggedIn(pc, entry, t))
                          /\ SumOf(MeterOf(usage, t), Keys \cup {Null})
                               = Cardinality(SucceededIn(pc, entry, t))
    BY <1>5, <2>2, <2>3, <2>4, <2>5, <2>6, <2>7
  <2>9. SumOf(DailyOf(usage, Null), Tokens \cup {Null}) <= Cardinality(CommittedIn(pc))
    <3>1. SumOf(DailyOf(usage, Null), Tokens \cup {Null}) = 0
      BY <2>5
    <3>2. QED
      BY <2>1, <2>4, <3>1
  <2>10. ASSUME NEW k \in keys
         PROVE  SumOf(DailyOf(usage, k), Tokens \cup {Null})
                  <= Cardinality(KeyCallsIn(pc, entry, k))
    <3>1. SumOf(DailyOf(usage, k), Tokens \cup {Null}) = 0
      BY <2>5, <2>7
    <3>2. QED
      BY <2>3, <2>4, <3>1
  <2>11. QED
    BY <2>8, <2>9, <2>10 DEF Counting
<1>9. QED
  BY <1>1, <1>3, <1>4, <1>6, <1>7, <1>8 DEF RequestLogInv

\* Every step keeps the invariant.
LEMMA InvKept ==
  ASSUME RequestLogInv, [Next]_vars
  PROVE  RequestLogInv'
<1>1. RequestLogTypeOK' /\ HeldSound' /\ LogsSound'
  BY TypesKept, HeldKept, LogsSoundKept DEF RequestLogInv
<1>2. DeletionSound' /\ CoveredBy(usage)'
  BY DeletionSoundKept, CoveredKept
<1>3. Counting(usage, pc, entry, tokens, keys)'
  BY CountsKept
<1>4. QED
  BY <1>1, <1>2, <1>3 DEF RequestLogInv

\* The invariant of logs, locks, deletions and counts holds in every state.
THEOREM RequestLogCorrect == Spec => []RequestLogInv
<1>1. Init => RequestLogInv
  BY InvInitially
<1>2. RequestLogInv /\ [Next]_vars => RequestLogInv'
  BY InvKept
<1>3. QED
  BY <1>1, <1>2, PTL DEF Spec

-----------------------------------------------------------------------------
(* The properties. *)

\* Every variable has its type, no more connections are in use than the pool has, and
\* only transactions under way hold locks.
THEOREM TypeCorrect == Spec => []TypeOK
<1>1. RequestLogInv => TypeOK
  <2> SUFFICES ASSUME RequestLogInv PROVE TypeOK
    OBVIOUS
  <2>1. \A w \in Writers : /\ entry[w].token \in Tokens \cup {Null}
                           /\ entry[w].calls \in CallLists \cup {<<>>}
                           /\ refs[w] \subseteq Keys
    <3>1. \A w \in Writers : entry[w] \in EntrySet /\ refs[w] \in SUBSET Keys
      BY DEF RequestLogInv, RequestLogTypeOK
    <3>2. QED
      BY <3>1 DEF EntrySet
  <2>2. deletion.op \in {"none", "token", "key"} /\ deletion.stage \in 0..5
    BY DEF RequestLogInv, RequestLogTypeOK, DeletionSet
  <2>3. owner \in [Rows -> Open \cup {Null} \cup
                            (IF deletion.op = "none" THEN {} ELSE {Admin})]
    BY DEF RequestLogInv, RequestLogTypeOK, HeldSound
  <2>4. QED
    BY <2>1, <2>2, <2>3 DEF RequestLogInv, RequestLogTypeOK, HeldSound, TypeOK
<1>2. QED
  BY <1>1, RequestLogCorrect, PTL

\* TokenUsageExact: the requests counted for a token, which its quota is checked
\* against, are those with a committed log (recordRequestLog, upsertUsage).
THEOREM UsageCorrect == Spec => []TokenUsageExact
<1>1. RequestLogInv => TokenUsageExact
  <2> SUFFICES ASSUME RequestLogInv PROVE TokenUsageExact
    OBVIOUS
  <2>1. \A t : Logged(t) = LoggedIn(pc, entry, t)
    BY DEF Logged, LoggedIn, CommittedIn
  <2>2. QED
    BY <2>1 DEF TokenUsageExact, RequestLogInv, Counting, Row
<1>2. QED
  BY <1>1, RequestLogCorrect, PTL

\* The calls of the properties are those of the invariant.
LEMMA SameCalls ==
  /\ \A t : Succeeded(t) = SucceededIn(pc, entry, t)
  /\ \A t, k : LoggedCalls(t, k) = {c \in KeyCallsIn(pc, entry, k) : entry[c[1]].token = t}
<1>1. \A t : CallsLogged(t) = {c \in CallsIn(pc, entry) : entry[c[1]].token = t}
  BY DEF CallsLogged, Logged, CallsIn, CommittedIn
<1>2. QED
  BY <1>1 DEF Succeeded, SucceededIn, LoggedCalls, KeyCallsIn

\* BillingPreserved: the meter of a token (usage_meter_daily) holds every successful
\* call of its committed logs, also after DeleteProviderKey.
THEOREM BillingCorrect == Spec => []BillingPreserved
<1>1. RequestLogInv => BillingPreserved
  <2> SUFFICES ASSUME RequestLogInv, NEW t \in tokens
               PROVE  Total(LAMBDA k : Row("meter", t, k), Keys \cup {Null})
                        = Cardinality(Succeeded(t))
    BY DEF BillingPreserved
  <2>1. SumOf(MeterOf(usage, t), Keys \cup {Null}) = Cardinality(SucceededIn(pc, entry, t))
    BY DEF RequestLogInv, Counting
  <2>2. Total(LAMBDA k : Row("meter", t, k), Keys \cup {Null})
          = SumOf(MeterOf(usage, t), Keys \cup {Null})
    BY DEF SumOf, Total, MapThenSumSet, MapThenFoldSet, MeterOf, Row
  <2>3. QED
    BY <2>1, <2>2, SameCalls
<1>2. QED
  BY <1>1, RequestLogCorrect, PTL

\* NeverOvercounted: neither a commit, nor a deletion, nor the rollback of one counts a
\* request or a call twice.
THEOREM NotOvercounted == Spec => []NeverOvercounted
<1>1. RequestLogInv => NeverOvercounted
  <2> SUFFICES ASSUME RequestLogInv PROVE NeverOvercounted
    OBVIOUS
  <2>1. \A w \in Writers : entry[w].token \in Tokens \cup {Null}
    <3>1. \A w \in Writers : entry[w] \in EntrySet
      BY DEF RequestLogInv, RequestLogTypeOK
    <3>2. QED
      BY <3>1 DEF EntrySet
  <2>2. ASSUME NEW k \in Keys \cup {Null}
        PROVE  Total(LAMBDA t : Row("daily", t, k), Tokens \cup {Null})
                 = SumOf(DailyOf(usage, k), Tokens \cup {Null})
    BY DEF SumOf, Total, MapThenSumSet, MapThenFoldSet, DailyOf, Row
  <2>3. UNION {Logged(t) : t \in Tokens \cup {Null}} = CommittedIn(pc)
    <3>1. \A w : w \in CommittedIn(pc) => w \in Logged(entry[w].token)
                                         /\ entry[w].token \in Tokens \cup {Null}
      BY <2>1 DEF Logged, CommittedIn
    <3>2. \A t : Logged(t) \subseteq CommittedIn(pc)
      BY DEF Logged, CommittedIn
    <3>3. QED
      BY <3>1, <3>2
  <2>4. ASSUME NEW k
        PROVE  UNION {LoggedCalls(t, k) : t \in Tokens \cup {Null}}
                 = KeyCallsIn(pc, entry, k)
    <3>1. \A t : LoggedCalls(t, k) = {c \in KeyCallsIn(pc, entry, k) : entry[c[1]].token = t}
      BY SameCalls
    <3>2. \A c \in KeyCallsIn(pc, entry, k) : entry[c[1]].token \in Tokens \cup {Null}
      BY <2>1 DEF KeyCallsIn, CallsIn, CommittedIn
    <3>3. \A c \in KeyCallsIn(pc, entry, k) : c \in LoggedCalls(entry[c[1]].token, k)
      BY <3>1
    <3>4. \A t : LoggedCalls(t, k) \subseteq KeyCallsIn(pc, entry, k)
      BY <3>1
    <3>5. QED
      BY <3>2, <3>3, <3>4
  <2>5. /\ SumOf(DailyOf(usage, Null), Tokens \cup {Null}) <= Cardinality(CommittedIn(pc))
        /\ \A k \in keys : SumOf(DailyOf(usage, k), Tokens \cup {Null})
                             <= Cardinality(KeyCallsIn(pc, entry, k))
    BY DEF RequestLogInv, Counting
  <2>6. \A k \in keys : k \in Keys \cup {Null}
    BY DEF RequestLogInv, RequestLogTypeOK
  <2>7. Total(LAMBDA t : Row("daily", t, Null), Tokens \cup {Null})
          <= Cardinality(UNION {Logged(t) : t \in Tokens \cup {Null}})
    <3>1. Null \in Keys \cup {Null}
      OBVIOUS
    <3>2. Total(LAMBDA t : Row("daily", t, Null), Tokens \cup {Null})
            = SumOf(DailyOf(usage, Null), Tokens \cup {Null})
      BY <2>2, <3>1
    <3>3. QED
      BY <2>3, <2>5, <3>2
  <2>8. ASSUME NEW k \in keys
        PROVE  Total(LAMBDA t : Row("daily", t, k), Tokens \cup {Null})
                 <= Cardinality(UNION {LoggedCalls(t, k) : t \in Tokens \cup {Null}})
    <3>1. Total(LAMBDA t : Row("daily", t, k), Tokens \cup {Null})
            = SumOf(DailyOf(usage, k), Tokens \cup {Null})
      BY <2>2, <2>6
    <3>2. QED
      BY <2>4, <2>5, <3>1
  <2>9. QED
    BY <2>7, <2>8 DEF NeverOvercounted
<1>2. QED
  BY <1>1, RequestLogCorrect, PTL
=============================================================================
