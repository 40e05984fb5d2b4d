--------------------------- MODULE MCCachedSearch ---------------------------
(***************************************************************************)
(* The instances of CachedSearch that TLC checks.                          *)
(***************************************************************************)
EXTENDS CachedSearch, TLC

DayRolls == {{"day"}}

TwoADay == [k \in Keys |-> [c \in Cycles |-> 2]]
OneADay == [k \in Keys |-> [c \in Cycles |-> 1]]
Unlimited == [k \in Keys |-> 0]
OneAMinute == [k \in Keys |-> 1]

Symmetry == Permutations(Requests)
=============================================================================
