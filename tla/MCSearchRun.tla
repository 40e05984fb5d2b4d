----------------------------- MODULE MCSearchRun -----------------------------
(***************************************************************************)
(* The instances of SearchRun that TLC checks.                             *)
(***************************************************************************)
EXTENDS SearchRun

CONSTANTS brave, exa, c1, c2

\* Both callers search with both providers, c2 also with exa alone.
TwoCallers ==
  {[caller |-> c, names |-> <<brave, exa>>, policy |-> "default"] : c \in {c1, c2}}
    \cup {[caller |-> c2, names |-> <<exa>>, policy |-> p] : p \in {"default", "bypass"}}

OneRetry == [p \in Providers |-> IF p = brave THEN 1 ELSE 0]
OneAndTwoTicks == [p \in Providers |-> IF p = brave THEN 1 ELSE 2]
AnyDefault == [p \in Providers |-> {}]

\* A page that both find, with different scores, and a page of each.
Overlapping ==
  [p \in Providers |->
     IF p = brave THEN <<[url |-> "u", score |-> 1], [url |-> "v", score |-> 2]>>
              ELSE <<[url |-> "w", score |-> 1], [url |-> "u", score |-> 3]>>]
=============================================================================
