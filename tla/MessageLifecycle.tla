-------------------------- MODULE MessageLifecycle --------------------------
(***************************************************************************)
(* What the send flow promises about the status of a message, with no      *)
(* worker, queue or request in sight: it is claimed, then sent or failed   *)
(* for good, and only an explicit requeue starts it over.                  *)
(***************************************************************************)
CONSTANT Messages
VARIABLE status

Init == status = [m \in Messages |-> "QUEUED"]

Move(m, from, to) ==
    /\ status[m] = from
    /\ status' = [status EXCEPT ![m] = to]

Claim(m)   == Move(m, "QUEUED", "PROCESSING")
Send(m)    == Move(m, "PROCESSING", "SENT")
Exhaust(m) == Move(m, "PROCESSING", "FATAL_FAILURE")
Requeue(m) == Move(m, "FATAL_FAILURE", "QUEUED")

Next == \E m \in Messages : Claim(m) \/ Send(m) \/ Exhaust(m) \/ Requeue(m)

Spec == Init /\ [][Next]_status
=============================================================================
