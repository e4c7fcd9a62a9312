-------------------------- MODULE IdempotentCreate --------------------------
(***************************************************************************)
(* What X-Idempotency-Key promises, with no cache, lock or table in sight: *)
(* a key stands for one message for good, and every accepted request that  *)
(* carries the key is answered with that message.                          *)
(***************************************************************************)
CONSTANTS Requests, Keys, KeyOf, Null
VARIABLES chosen,  \* the message of each key
          answer   \* the message each accepted request was told

Init ==
    /\ chosen = [k \in Keys |-> Null]
    /\ answer = [r \in Requests |-> Null]

(* A request brings its key's message into being. *)
Choose(r) ==
    /\ chosen[KeyOf[r]] = Null
    /\ chosen' = [chosen EXCEPT ![KeyOf[r]] = r]
    /\ UNCHANGED answer

Answer(r) ==
    /\ answer[r] = Null
    /\ chosen[KeyOf[r]] # Null
    /\ answer' = [answer EXCEPT ![r] = chosen[KeyOf[r]]]
    /\ UNCHANGED chosen

Next == \E r \in Requests : Choose(r) \/ Answer(r)

Spec == Init /\ [][Next]_<<chosen, answer>>
=============================================================================
