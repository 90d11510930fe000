---------------------------- MODULE MCTriageScan ----------------------------
(* Instances of TriageScan for TLC. *)
EXTENDS TriageScan

CONSTANTS m1, m2, r1

\* A mail whose rule makes a task and mails for the classifier.
SomeRules == [m \in Mails |-> CASE m = m1 -> "template"
                                [] OTHER -> "none"]

OneInbox == [m \in Mails |-> "outlook"]
=============================================================================
