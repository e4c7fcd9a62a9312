--------------------------- MODULE MCSmsDispatch ---------------------------
(* Small instances of SmsDispatch for TLC. *)
EXTENDS SmsDispatch, TLC

CONSTANTS twilio, bird, m1, m2, w1, w2, a1, a2

TwoProviders == {twilio, bird}
TwilioThenBird == <<twilio, bird>>
TwilioOnly == <<twilio>>
OnlyBirdKeyed == {bird}
NoneKeyed == {}
OneMessage == {m1}
TwoMessages == {m1, m2}
TwoWorkers == {w1, w2}
OneWorker == {w1}
TwoAdmins == {a1, a2}
OneAdmin == {a1}

(* Workers, admins and messages are interchangeable. Only used by safety runs. *)
Symmetry == Permutations(Workers) \cup Permutations(Admins) \cup Permutations(Messages)

(***************************************************************************)
(* Requeues and faults are kept apart: a behaviour has one kind or the     *)
(* other. With both, a message may have two live jobs.                     *)
(***************************************************************************)
RequeuesOrFaults == faults.requeues = 0 \/ faults.errors + faults.crashes = 0
=============================================================================
