---------------------------- MODULE SearchPromise ----------------------------
(***************************************************************************)
(* What a run of executeSearch promises to whoever waits for it: the       *)
(* providers asked for are settled as the mode demands, each once, and the *)
(* run is over when nothing is left to settle.  Attempts, keys, goroutines *)
(* and the ways in which time runs out are the business of SearchRun.      *)
(***************************************************************************)
EXTENDS Naturals, Sequences

CONSTANTS Runs, Modes, Orders

VARIABLES mode, open, asked, outcome, late
promised == <<mode, open, asked, outcome, late>>

Outcomes == {"results", "empty", "failed"}
Settled(r, i) == outcome[r][i] \in Outcomes

Init ==
  /\ mode \in Modes
  /\ open = {}
  /\ asked = [r \in Runs |-> <<>>]
  /\ outcome = [r \in Runs |-> <<>>]
  /\ late = {}

Open(r) ==
  /\ r \notin open
  /\ open' = open \cup {r}
  /\ \E order \in Orders :
       /\ asked' = [asked EXCEPT ![r] = order]
       /\ outcome' = [outcome EXCEPT ![r] = [i \in DOMAIN order |-> "none"]]
  /\ UNCHANGED <<mode, late>>

\* Fallback comes to a provider when all before it brought nothing; single mode
\* knows the first alone.
Turn(r, i) ==
  CASE mode = "parallel" -> TRUE
    [] mode = "fallback" -> \A j \in 1..(i - 1) : outcome[r][j] \in {"empty", "failed"}
    [] mode = "single" -> i = 1

Settle(r, i) ==
  /\ r \in open
  /\ ~Settled(r, i) /\ Turn(r, i)
  /\ \E o \in Outcomes : outcome' = [outcome EXCEPT ![r][i] = o]
  /\ UNCHANGED <<mode, open, asked, late>>

\* Time passes; for some runs it runs out.
TimePasses ==
  /\ \E over \in SUBSET open : late' = late \cup over
  /\ UNCHANGED <<mode, open, asked, outcome>>

Complete(r) ==
  \/ \A i \in DOMAIN asked[r] : Settled(r, i)
  \/ mode = "single" /\ \E i \in DOMAIN asked[r] : Settled(r, i)
  \/ mode = "fallback" /\ \E i \in DOMAIN asked[r] : outcome[r][i] = "results"
  \/ mode = "fallback" /\ r \in late

Close(r) ==
  /\ r \in open
  /\ Complete(r)
  /\ open' = open \ {r}
  /\ late' = late \ {r}
  /\ asked' = [asked EXCEPT ![r] = <<>>]
  /\ outcome' = [outcome EXCEPT ![r] = <<>>]
  /\ UNCHANGED mode

Next ==
  \/ \E r \in Runs :
       \/ Open(r)
       \/ Close(r)
       \/ \E i \in DOMAIN asked[r] : Settle(r, i)
  \/ TimePasses

Spec == Init /\ [][Next]_promised
=============================================================================
