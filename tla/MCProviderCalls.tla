--------------------------- MODULE MCProviderCalls ---------------------------
(***************************************************************************)
(* What goes on around the calls of a provider and outside the pool's      *)
(* counters: which keys their results leave listed (KeyStatus), which of   *)
(* them the next call gets (KeyRotation), and an extraction that makes     *)
(* many of them (Extract).  The models share no state, each leaving the    *)
(* others open; one run checks each by itself, and which one is chosen at  *)
(* the start.                                                              *)
(***************************************************************************)
EXTENDS KeyStatus, KeyRotation, Extract, TLC

CONSTANTS u, v, jina, exa, site

VARIABLE part

CallsInit ==
  /\ Init /\ RotationInit /\ ExtractInit
  /\ part \in {"status", "rotation", "extract"}
  /\ part # "rotation" => strategy = "round_robin" /\ watched = 1

CallsNext ==
  /\ part' = part
  /\ \/ /\ part = "status" /\ Next
        /\ UNCHANGED <<rotationVars, extractVars>>
     \/ /\ part = "rotation" /\ RotationNext
        /\ UNCHANGED <<vars, extractVars>>
     \/ /\ part = "extract" /\ ExtractNext
        /\ UNCHANGED <<vars, rotationVars>>

CallsSpec ==
  /\ CallsInit /\ [][CallsNext]_<<vars, rotationVars, extractVars, part>>
  /\ WF_vars(part = "status" /\ Tick)

-----------------------------------------------------------------------------
(* Extract: two URLs; u is named twice, and a Tavily request brings a window. *)

TwoUrls ==
  {[urls |-> <<u, v, u>>, names |-> <<jina, exa>>, window |-> w] : w \in {0, 1}}
OneSite == [page \in Urls |-> IF page = u THEN site ELSE Literal]
JinaRetries == [p \in Extractors |-> IF p = jina THEN 1 ELSE 0]
ExaUntimed == [p \in Extractors |-> IF p = jina THEN 1 ELSE 0]
UnequalSizes == [p \in Extractors |-> IF p = jina THEN 2 ELSE 5]
Escapes == [p \in Extractors |-> IF p = jina THEN 1 ELSE 3]
LongTitles == [p \in Extractors |-> IF p = jina THEN 0 ELSE 12]
PartSizes ==
  [kind \in Parts |-> IF kind = "title" THEN LongTitles
                     ELSE [p \in Extractors |-> IF kind = "images" THEN 2 ELSE 8]]
=============================================================================
