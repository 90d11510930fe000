------------------------------ MODULE SendOnce ------------------------------
(***************************************************************************)
(* What the approval gate promises of each request, without its store, its *)
(* clock or its channel: a request is decided at most once, approved or    *)
(* declined, and a mail goes out at most once, after an approval.  An      *)
(* approved request need not be delivered: a send can fail.                *)
(***************************************************************************)
EXTENDS Naturals

CONSTANT Requests

VARIABLES
    undecided,   \* requests nobody has decided
    approved,    \* approved, the mail not out
    declined,
    mails        \* how many mails went out for each request

vars == <<undecided, approved, declined, mails>>

Init ==
    /\ undecided = Requests
    /\ approved = {}
    /\ declined = {}
    /\ mails = [r \in Requests |-> 0]

Approve(r) ==
    /\ r \in undecided
    /\ undecided' = undecided \ {r}
    /\ approved' = approved \cup {r}
    /\ UNCHANGED <<declined, mails>>

Decline(r) ==
    /\ r \in undecided
    /\ undecided' = undecided \ {r}
    /\ declined' = declined \cup {r}
    /\ UNCHANGED <<approved, mails>>

Deliver(r) ==
    /\ r \in approved
    /\ approved' = approved \ {r}
    /\ mails' = [mails EXCEPT ![r] = @ + 1]
    /\ UNCHANGED <<undecided, declined>>

Next == \E r \in Requests : Approve(r) \/ Decline(r) \/ Deliver(r)

Spec == Init /\ [][Next]_vars
=============================================================================
