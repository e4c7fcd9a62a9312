---------------------------- MODULE MCSmsSystem ----------------------------
(* A small instance of SmsSystem for TLC. *)
EXTENDS SmsSystem, TLC

CONSTANTS twilio, bird, m1, w1, w2, a1, h1

TwoProviders == {twilio, bird}
TwilioOnly == <<twilio>>
NoneKeyed == {}
OneMessage == {m1}
TwoWorkers == {w1, w2}
OneAdmin == {a1}
OneHandler == {h1}
TwoReports == {"DELIVERED", "FAILED"}

(* Not every fault in one behaviour: that would be millions of states more. *)
FewFaults == faults.errors + faults.falseStalls <= 2

Symmetry == Permutations(Workers)
=============================================================================
