---------------------------- MODULE MCAdvisorPage ---------------------------
(* Instances of AdvisorPage for TLC. *)
EXTENDS AdvisorPage

\* An ordinary message, and a pasted schedule with a name that may stay in it.
SomeTexts == {[flagged |-> FALSE, shape |-> "plain"], [flagged |-> TRUE, shape |-> "paste"]}
=============================================================================
