------------------------------ MODULE MCKeyPool ------------------------------
(***************************************************************************)
(* The instances of KeyPool that TLC checks.                               *)
(***************************************************************************)
EXTENDS KeyPool, TLC

CONSTANTS k1, k2

\* Midnight, and midnight on the first of a month.
DayRolls == {{"day"}}
DayAndMonthRoll == {{"day"}, {"day", "month"}}

\* Quotas.
TwoADay == [k \in Keys |-> [c \in Cycles |-> 2]]
TwoADayThreeAMonth ==
  [k \in Keys |-> [c \in Cycles |-> IF c = "day" THEN 2 ELSE 3]]

\* Limits of concurrency and of requests per minute.
Unlimited == [k \in Keys |-> 0]
OneEach == [k \in Keys |-> 1]
OnlyFirstLimited == [k \in Keys |-> IF k = k1 THEN 1 ELSE 0]

Symmetry == Permutations(Requests)
=============================================================================
