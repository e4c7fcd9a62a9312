----------------------------- MODULE MCSmsSend -----------------------------
(* Small instances of SmsSend for TLC: several requests that share a key. *)
EXTENDS SmsSend, TLC

CONSTANTS r1, r2, r3, k1

TwoRequests == {r1, r2}
ThreeRequests == {r1, r2, r3}
OneKey == {k1}
SameKey == [r \in Requests |-> k1]

(* Requests with one key are interchangeable. Only used by safety runs. *)
Symmetry == Permutations(Requests)
=============================================================================
