---------------------------- MODULE MCAdvisorChat ---------------------------
(* Instances of AdvisorChat for TLC. *)
EXTENDS AdvisorChat

CONSTANTS t1, t2, t3, c1

\* Two local models for the private track, one provider for the other.
Chains == [m \in Modes |-> IF m = "private" THEN 2 ELSE 1]

\* Bound: a behaviour has a third submit, or any of a change of track, an expiry
\* and a SIGTERM.
ThirdOrOthers ==
    turn[t3].pc # "unsent" => process = "up" /\ switches = 0 /\ sweeps = 0

TurnsSpec == Init /\ [][Next /\ ThirdOrOthers']_vars /\ Fairness
=============================================================================
