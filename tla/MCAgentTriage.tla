---------------------------- MODULE MCAgentTriage ---------------------------
(* Instances of AgentTriage for TLC. *)
EXTENDS AgentTriage, TLC

CONSTANTS m1, m2, m3, r1, r2

\* A mail whose rule makes a task and one for the classifier.
SomeRules == [m \in Mails |-> IF m = m1 THEN "template" ELSE "none"]

AllRules == [m \in Mails |-> CASE m = m1 -> "template"
                               [] m = m2 -> "none"
                               [] OTHER -> "skip"]

Classified == [m \in Mails |-> "none"]

SomeRunners == Permutations(Runners)

OneInbox == [m \in Mails |-> "outlook"]

\* A behaviour is one of the agent's sessions with its faults, or one of a
\* session beside scans where nothing fails and nobody outlives the lock.
VARIABLE alone

mixedVars == <<allVars, alone>>

MixedInit == AgentInit /\ alone \in BOOLEAN

\* A task is made with an answer, or there was no call.
NoCallFails ==
    /\ call.pc = "create" => call'.pc = "create" \/ call'.created
    /\ \A r \in Runners : scan[r].pc = "create" => scan'[r].pc = "create" \/ scan'[r].created

MixedNext ==
    /\ AgentNext
    /\ IF alone THEN UNCHANGED scan ELSE faults' = 0 /\ NoCallFails
    /\ UNCHANGED alone

MixedSpec == MixedInit /\ [][MixedNext]_mixedVars
=============================================================================
