-------------------------------- MODULE Lists --------------------------------
(***************************************************************************)
(* What the orchestrator's loops over slices compute, written as recursive *)
(* functions over positions, so that ListProofs can say what they keep.    *)
(***************************************************************************)
EXTENDS Integers, SequencesExt

\* The elements of s that are in S.
Among(s, S) ==
  LET kept[n \in 0..Len(s)] ==
        IF n = 0 THEN <<>>
        ELSE IF s[n] \in S THEN Append(kept[n - 1], s[n]) ELSE kept[n - 1]
  IN kept[Len(s)]

\* The elements of s, each where it occurs first.
Distinct(s) ==
  LET kept[n \in 0..Len(s)] ==
        IF n = 0 THEN <<>>
        ELSE LET before == kept[n - 1] IN
             IF s[n] \in ToSet(before) THEN before ELSE Append(before, s[n])
  IN kept[Len(s)]

\* The sums of the first numbers of s.
SumsOf(s) ==
  LET sum[n \in 0..Len(s)] == IF n = 0 THEN 0 ELSE sum[n - 1] + s[n]
  IN sum

Total(s) == SumsOf(s)[Len(s)]

\* sort.SliceStable: s by ascending numbers, equal ones in their order.
PlaceBy(numbers, n) ==
  Cardinality({m \in DOMAIN numbers :
                 numbers[m] < numbers[n] \/ (numbers[m] = numbers[n] /\ m <= n)})

SortedBy(s, numbers) ==
  [k \in DOMAIN s |-> s[CHOOSE n \in DOMAIN s : PlaceBy(numbers, n) = k]]
=============================================================================
