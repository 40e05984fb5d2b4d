---------------------------- MODULE MCRequestLog ----------------------------
(***************************************************************************)
(* The instances of RequestLog that TLC checks.                            *)
(***************************************************************************)
EXTENDS RequestLog

CONSTANTS t1, k1, k2

Ok(k) == [key |-> k, success |-> TRUE]
Failed(k) == [key |-> k, success |-> FALSE]

\* One call; a failed call and its retry with another key.
OneCall == {<<Ok(k1)>>}
CallOrRetry == {<<Ok(k1)>>, <<Failed(k1), Ok(k2)>>}

\* Two pages extracted with two keys of a provider.
TwoPages == {<<Ok(k1), Ok(k2)>>}

NoDeletions == {}
TokenDeletion == {[op |-> "token", id |-> t1]}
KeyDeletions == {[op |-> "key", id |-> k] : k \in Keys}
AnyDeletion == KeyDeletions \cup TokenDeletion
=============================================================================
