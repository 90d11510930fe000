------------------------------ MODULE MailDrain -----------------------------
(***************************************************************************)
(* What the email scan promises of the inbox, without its files, its lock  *)
(* and its calls: a mail that arrives is open until it is settled, no open *)
(* mail is forgotten, no settled mail opens again, and every open mail is  *)
(* settled in the end.                                                     *)
(***************************************************************************)
CONSTANT Mails

VARIABLES
    open,      \* arrived and not settled
    settled

vars == <<open, settled>>

Init == open = {} /\ settled = {}

Arrive(m) ==
    /\ m \notin open \cup settled
    /\ open' = open \cup {m}
    /\ UNCHANGED settled

\* A scan settles the mails it gives up on together.
Settle(S) ==
    /\ S # {}
    /\ S \subseteq open
    /\ open' = open \ S
    /\ settled' = settled \cup S

Next ==
    \/ \E m \in Mails : Arrive(m)
    \/ \E S \in SUBSET Mails : Settle(S)

Spec == Init /\ [][Next]_vars

\* No mail is passed over for ever.
FairSpec ==
    /\ Spec
    /\ \A m \in Mails : WF_vars(\E S \in SUBSET Mails : m \in S /\ Settle(S))
=============================================================================
