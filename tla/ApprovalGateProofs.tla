------------------------- MODULE ApprovalGateProofs -------------------------
(***************************************************************************)
(* What the approval gate keeps for every number of requests, taps, ticks  *)
(* and process deaths, and for stores that fail as well as stores that do  *)
(* not (the parameters are those of ApprovalGate).                         *)
(***************************************************************************)
EXTENDS ApprovalGate, FiniteSetTheorems, TLAPS

-----------------------------------------------------------------------------
(* The inductive invariant.                                                  *)

\* The receiver never gets ahead of what Telegram has.
PollInv ==
    /\ confirmed <= Len(updates)
    /\ offset <= Len(updates)
    /\ fetched <= Len(updates)

\* A dead process has no entries and awaits nothing; what was never issued has
\* left no trace.
LifeInv ==
    \A r \in Requests :
        /\ r \in posting => up /\ r \in issued
        /\ ~up => mem[r] = "absent" /\ await[r] = "no"
        /\ r \notin issued => /\ mem[r] = "absent" /\ disk[r] = "absent"
                              /\ approvals[r] = 0 /\ rejects[r] = 0

\* Every mail, out or still to go out, is accounted for by an approval.
SendOf(r) ==
    /\ mailed[r] + orphans[r] + (IF await[r] = "waiting" THEN 1 ELSE 0)
          <= approvals[r]
    /\ await[r] # "no" => approvals[r] > 0
    /\ await[r] # "no" => mem[r] \in {"sending", "failed"}
    /\ await[r] = "delivered" => mailed[r] > 0
    /\ "sent" \in {mem[r], disk[r]} => mailed[r] > 0

SendInv == \A r \in Requests : SendOf(r)

\* A decision that was written is seen in the row, and in the entry as long as
\* the process lives: this is what keeps it from being taken again.
DecisionOf(r) ==
    r \notin lost =>
        /\ approvals[r] + rejects[r] <= 1
        /\ approvals[r] = 1 =>
              /\ disk[r] \in {"sending", "sent", "failed"}
              /\ up => mem[r] \in {"sending", "sent", "failed"}
        /\ rejects[r] = 1 =>
              /\ disk[r] \in {"rejected", "failed"}
              /\ up => mem[r] \in {"rejected", "failed"}

DecisionInv == \A r \in Requests : DecisionOf(r)

\* Each approval goes back to a tap of the authorized user.
TapInv ==
    \A r \in Requests : approvals[r] > 0 =>
        \E i \in 1..Len(updates) :
            updates[i] = [verb |-> "ok", req |-> r, by |-> "owner"]

\* A settled row belongs to a settled entry.
SettledInv == \A r \in Requests : up /\ disk[r] \in Terminal => mem[r] \in Terminal

\* Writes get lost only where they may.
LostInv == lost # {} => StoreFaults

IInv ==
    /\ TypeOK
    /\ PollInv
    /\ LifeInv
    /\ SendInv
    /\ DecisionInv
    /\ TapInv
    /\ SettledInv
    /\ LostInv

-----------------------------------------------------------------------------
(* What the helpers do to the statuses.                                      *)

\* What SettledNeverReopens asks of a step.
StaySettled ==
    \A r \in Requests : disk[r] \in Terminal => disk'[r] \in Terminal

\* The effect of a step on an entry and its row when nobody decides on it, no
\* send returns and no post fails: at most it expires, and the row follows the
\* entry or stays.
Calm(r) ==
    /\ mem'[r] = mem[r] \/ (mem[r] = "pending" /\ mem'[r] = "expired")
    /\ disk'[r] = disk[r] \/ (mem'[r] # mem[r] /\ disk'[r] = mem'[r])

LEMMA SweptType ==
    ASSUME NEW status \in [Requests -> SendStatus \cup {"absent"}]
    PROVE  Swept(status) \in [Requests -> SendStatus \cup {"absent"}]
  BY DEF Swept, SendStatus

LEMMA WritesSubset ==
    ASSUME NEW entries, NEW written \in Writes(entries)
    PROVE  written \subseteq entries
  BY DEF Writes

LEMMA RowsType ==
    ASSUME NEW status \in [Requests -> SendStatus \cup {"absent"}],
           disk \in [Requests -> SendStatus \cup {"absent"}], NEW written
    PROVE  Rows(status, written) \in [Requests -> SendStatus \cup {"absent"}]
  BY DEF Rows

\* Settling keeps the types and gives each row its old or its entry's status.
LEMMA SettleEffect ==
    ASSUME TypeOK, NEW status \in [Requests -> SendStatus \cup {"absent"}],
           Settle(status)
    PROVE  /\ mem' = status
           /\ mem' \in [Requests -> SendStatus \cup {"absent"}]
           /\ disk' \in [Requests -> SendStatus \cup {"absent"}]
           /\ \A r \in Requests :
                 disk'[r] = disk[r] \/ (mem'[r] # mem[r] /\ disk'[r] = mem'[r])
  <1>1. PICK written \in Writes(Changed(status)) : disk' = Rows(status, written)
    BY DEF Settle
  <1>2. disk' \in [Requests -> SendStatus \cup {"absent"}]
    BY <1>1, RowsType DEF TypeOK
  <1>3. \A r \in Requests :
            disk'[r] = disk[r] \/ (status[r] # mem[r] /\ disk'[r] = status[r])
    BY <1>1, WritesSubset DEF Rows, Changed
  <1> QED BY <1>2, <1>3 DEF Settle

LEMMA SweepIsCalm ==
    ASSUME TypeOK, Settle(Swept(mem))
    PROVE  /\ mem' \in [Requests -> SendStatus \cup {"absent"}]
           /\ disk' \in [Requests -> SendStatus \cup {"absent"}]
           /\ \A r \in Requests : Calm(r)
  <1>1. Swept(mem) \in [Requests -> SendStatus \cup {"absent"}]
    BY SweptType DEF TypeOK
  <1>2. \A r \in Requests :
            \/ Swept(mem)[r] = mem[r]
            \/ mem[r] = "pending" /\ Swept(mem)[r] = "expired"
    BY DEF Swept, TypeOK
  <1> QED BY <1>1, <1>2, SettleEffect DEF Calm

-----------------------------------------------------------------------------
(* The invariant holds at the start and is kept by every step.               *)

LEMMA InitIInv == Init => IInv
  <1> SUFFICES ASSUME Init PROVE IInv
    OBVIOUS
  <1>1. TypeOK
    BY DEF Init, TypeOK, SendStatus, Answers
  <1>2. PollInv
    BY DEF Init, PollInv
  <1>3. LifeInv /\ SendInv /\ DecisionInv /\ TapInv /\ SettledInv /\ LostInv
    BY DEF Init, LifeInv, SendInv, SendOf, DecisionInv, DecisionOf, TapInv,
           SettledInv, LostInv, Terminal
  <1> QED BY <1>1, <1>2, <1>3 DEF IInv

\* The parts of the invariant that are about decisions and sends.
CoreInv ==
    /\ LifeInv
    /\ SendInv
    /\ DecisionInv
    /\ TapInv
    /\ SettledInv
    /\ LostInv

\* A calm step keeps what is said of a request whose counters it leaves alone.
LEMMA CalmKeepsSend ==
    ASSUME NEW r \in Requests, SendOf(r), Calm(r),
           await'[r] = await[r], orphans'[r] = orphans[r],
           mailed'[r] = mailed[r], approvals'[r] = approvals[r]
    PROVE  SendOf(r)'
  BY DEF SendOf, Calm

LEMMA CalmKeepsDecision ==
    ASSUME NEW r \in Requests, DecisionOf(r), up, Calm(r), lost \subseteq lost',
           approvals'[r] = approvals[r], rejects'[r] = rejects[r]
    PROVE  DecisionOf(r)'
  BY DEF DecisionOf, Calm

\* Steps that decide, send and fail nothing keep those parts.
LEMMA CalmKeepsCore ==
    ASSUME IInv, \A r \in Requests : Calm(r),
           posting' \subseteq posting,
           UNCHANGED <<up, issued, updates, sendVars, decideVars>>
    PROVE  CoreInv'
  <1> USE DEF IInv
  <1>1. LifeInv'
    BY DEF LifeInv, Calm, sendVars, decideVars
  <1>2. SendInv'
    BY CalmKeepsSend DEF SendInv, sendVars, decideVars
  <1>3. DecisionInv'
    <2>1. CASE up
      BY <2>1, CalmKeepsDecision DEF DecisionInv, decideVars
    <2>2. CASE ~up
      BY <2>2 DEF DecisionInv, DecisionOf, Calm, decideVars, LifeInv
    <2> QED BY <2>1, <2>2
  <1>4. TapInv'
    BY DEF TapInv, decideVars
  <1>5. SettledInv'
    BY DEF SettledInv, Calm, Terminal
  <1>6. LostInv'
    BY DEF LostInv, decideVars
  <1> QED BY <1>1, <1>2, <1>3, <1>4, <1>5, <1>6 DEF CoreInv

LEMMA NextTapType ==
    ASSUME TypeOK, PollInv, offset < fetched
    PROVE  /\ offset + 1 \in 1..Len(updates)
           /\ NextTap \in Update
           /\ NextTap.req \in Requests
  <1>1. offset + 1 \in 1..Len(updates)
    BY DEF TypeOK, PollInv
  <1>2. NextTap \in Update
    BY <1>1 DEF TypeOK, NextTap
  <1> QED BY <1>1, <1>2 DEF Update
-----------------------------------------------------------------------------
(* One lemma per step that decides, sends, fails or dies.                    *)

\* A submit, or one killed on the way, leaves no trace but a pending request.
LEMMA SubmitKeeps ==
    ASSUME IInv, NEW r \in Requests, Submit(r)
    PROVE  IInv' /\ StaySettled
  <1> DEFINE status == [Swept(mem) EXCEPT ![r] = "pending"]
  <1> USE DEF IInv
  <1>1. status \in [Requests -> SendStatus \cup {"absent"}]
    BY SweptType DEF TypeOK, SendStatus
  <1>2. Settle(status)
    BY DEF Submit
  <1>3. /\ mem' = status
        /\ mem' \in [Requests -> SendStatus \cup {"absent"}]
        /\ disk' \in [Requests -> SendStatus \cup {"absent"}]
        /\ \A q \in Requests :
              disk'[q] = disk[q] \/ (mem'[q] # mem[q] /\ disk'[q] = mem'[q])
    BY <1>1, <1>2, SettleEffect
  <1>4. \A q \in Requests \ {r} : Calm(q)
    BY <1>3 DEF Calm, Swept, TypeOK
  <1>5. mem'[r] = "pending" /\ disk[r] = "absent" /\ disk'[r] \in {"absent", "pending"}
    BY <1>3 DEF Submit, LifeInv, Swept, TypeOK
  <1>6. TypeOK' /\ PollInv'
    BY <1>3 DEF Submit, TypeOK, PollInv, clockVars, pollVars, sendVars, decideVars, Recent
  <1>7. LifeInv'
    BY <1>3, <1>4, <1>5 DEF Submit, LifeInv, Calm, clockVars, sendVars, decideVars
  <1>8. SendInv'
    <2>1. SendOf(r)'
      BY <1>5 DEF Submit, SendInv, SendOf, LifeInv, sendVars, decideVars
    <2> QED BY <1>4, <2>1, CalmKeepsSend DEF Submit, SendInv, sendVars, decideVars
  <1>9. DecisionInv'
    <2>1. DecisionOf(r)'
      BY DEF Submit, DecisionOf, LifeInv, decideVars
    <2> QED BY <1>4, <2>1, CalmKeepsDecision DEF Submit, DecisionInv, decideVars
  <1>10. TapInv'
    BY DEF Submit, TapInv, decideVars, pollVars
  <1>11. SettledInv'
    BY <1>4, <1>5 DEF Submit, SettledInv, Calm, clockVars, Terminal
  <1>12. LostInv'
    BY DEF Submit, LostInv, decideVars
  <1>13. StaySettled
    BY <1>4, <1>5 DEF StaySettled, SettledInv, Calm, Submit, Terminal
  <1> QED BY <1>13, <1>6, <1>7, <1>8, <1>9, <1>10, <1>11, <1>12

\* The step that makes a sent request failed: no promise above depends on the
\* entry, all of them on the decision.
LEMMA PostFailsKeeps ==
    ASSUME IInv, NEW r \in Requests, PostFails(r)
    PROVE  IInv' /\ StaySettled
  <1> USE DEF IInv
  <1>1. PICK written \in Writes({r}) : disk' = Rows(mem', written)
    BY DEF PostFails
  <1>2. mem' = [mem EXCEPT ![r] = "failed"] /\ disk'[r] \in {disk[r], "failed"}
    BY <1>1 DEF PostFails, Rows, TypeOK
  <1>3. \A q \in Requests \ {r} : mem'[q] = mem[q] /\ disk'[q] = disk[q]
    BY <1>1, <1>2, WritesSubset DEF Rows, TypeOK
  <1>4. mem' \in [Requests -> SendStatus \cup {"absent"}]
    BY <1>2 DEF TypeOK, SendStatus
  <1>5. disk' \in [Requests -> SendStatus \cup {"absent"}]
    BY <1>1, <1>4, RowsType DEF TypeOK
  <1>6. TypeOK' /\ PollInv'
    BY <1>4, <1>5 DEF PostFails, TypeOK, PollInv, clockVars, reqVars, rateVars,
                      pollVars, sendVars, decideVars
  <1>7. mem'[r] = "failed"
    BY <1>2 DEF TypeOK
  <1>8. LifeInv'
    BY <1>2, <1>3, <1>7 DEF PostFails, LifeInv, clockVars, reqVars, sendVars, decideVars
  <1>9. SendInv'
    BY <1>2, <1>3, <1>7 DEF PostFails, SendInv, SendOf, sendVars, decideVars
  <1>10. DecisionInv'
    BY <1>2, <1>3, <1>7 DEF PostFails, DecisionInv, DecisionOf, decideVars, clockVars
  <1>11. TapInv'
    BY DEF PostFails, TapInv, decideVars, pollVars
  <1>12. SettledInv'
    BY <1>2, <1>3, <1>7 DEF PostFails, SettledInv, clockVars, Terminal
  <1>13. LostInv'
    BY DEF PostFails, LostInv, decideVars
  <1>14. StaySettled
    BY <1>2, <1>3 DEF StaySettled, Terminal
  <1> QED BY <1>14, <1>6, <1>8, <1>9, <1>10, <1>11, <1>12, <1>13

LEMMA TapKeeps ==
    ASSUME IInv, NEW r \in Requests, NEW verb \in Verbs, NEW who \in Tappers,
           Tap(r, verb, who)
    PROVE  IInv' /\ StaySettled
  <1> USE DEF IInv
  <1> DEFINE tap == [verb |-> verb, req |-> r, by |-> who]
  <1>1. updates' = Append(updates, tap) /\ tap \in Update
    BY DEF Tap, Update
  <1>2. /\ updates' \in Seq(Update)
        /\ Len(updates') = Len(updates) + 1
        /\ \A i \in 1..Len(updates) : updates'[i] = updates[i]
    BY <1>1 DEF TypeOK
  <1>3. TypeOK' /\ PollInv'
    BY <1>2 DEF Tap, TypeOK, PollInv, clockVars, reqVars, rateVars, postVars,
                sendVars, decideVars
  <1>4. LifeInv' /\ SettledInv' /\ LostInv'
    BY DEF Tap, LifeInv, SettledInv, LostInv, clockVars, reqVars, postVars,
           sendVars, decideVars
  <1>5. SendInv' /\ DecisionInv'
    BY DEF Tap, SendInv, SendOf, DecisionInv, DecisionOf, clockVars, sendVars,
           decideVars
  <1>6. TapInv'
    <2> SUFFICES ASSUME NEW q \in Requests, approvals'[q] > 0
                 PROVE  \E i \in 1..Len(updates') :
                            updates'[i] = [verb |-> "ok", req |-> q, by |-> "owner"]
      BY DEF TapInv
    <2>1. PICK i \in 1..Len(updates) :
              updates[i] = [verb |-> "ok", req |-> q, by |-> "owner"]
      BY DEF TapInv, Tap, decideVars
    <2>2. i \in 1..Len(updates')
      BY <1>2, Len(updates) \in Nat DEF TypeOK
    <2> QED BY <1>2, <2>1, <2>2
  <1>7. StaySettled
    BY DEF Tap, StaySettled
  <1> QED BY <1>7, <1>3, <1>4, <1>5, <1>6

\* Approve and Reject change one entry from pending to the status given; the
\* others at most expire.
LEMMA DecideEffect ==
    ASSUME IInv, TakesTap, NEW verb \in Verbs, Decides(verb),
           NEW status \in {"sending", "rejected"}, Decide(NextTap.req, status)
    PROVE  \E r \in Requests :
              /\ r = NextTap.req /\ up
              /\ \E i \in 1..Len(updates) :
                    updates[i] = [verb |-> verb, req |-> r, by |-> "owner"]
              /\ mem[r] = "pending" /\ mem'[r] = status
              /\ disk'[r] \in {disk[r], status}
              /\ \A q \in Requests \ {r} : Calm(q)
              /\ mem' \in [Requests -> SendStatus \cup {"absent"}]
              /\ disk' \in [Requests -> SendStatus \cup {"absent"}]
              /\ lost' \in {lost, lost \cup {r}}
              /\ r \notin lost' => disk'[r] = status
              /\ lost' # lost => StoreFaults
  <1> USE DEF IInv
  <1>1. PICK r \in Requests : r = NextTap.req
    BY NextTapType DEF TakesTap
  <1> DEFINE after == [Swept(mem) EXCEPT ![r] = status]
  <1>0. NextTap \in Update /\ offset + 1 \in 1..Len(updates)
    BY NextTapType DEF TakesTap
  <1>2. up /\ Swept(mem)[r] = "pending"
    BY <1>1 DEF TakesTap, LoopFree, Decides
  <1>3. NextTap = [verb |-> verb, req |-> r, by |-> "owner"]
    BY <1>1, <1>0 DEF Decides, Update
  <1>4. mem[r] = "pending"
    BY <1>1, <1>2 DEF Swept
  <1>5. mem' = after
    BY <1>1 DEF Decide
  <1>6. PICK written \in Writes(Changed(after)) :
            /\ disk' = Rows(after, written)
            /\ lost' = IF r \in written THEN lost ELSE lost \cup {r}
    BY <1>1 DEF Decide
  <1>7. after \in [Requests -> SendStatus \cup {"absent"}]
    BY SweptType DEF TypeOK, SendStatus
  <1>8. disk' \in [Requests -> SendStatus \cup {"absent"}]
    BY <1>6, <1>7, RowsType DEF TypeOK
  <1>9. after[r] = status /\ r \in Changed(after)
    BY <1>1, <1>4, <1>7 DEF Changed, Swept
  <1>10. \A q \in Requests \ {r} : Calm(q)
    <2> SUFFICES ASSUME NEW q \in Requests \ {r} PROVE Calm(q)
      OBVIOUS
    <2>1. after[q] = Swept(mem)[q]
      BY DEF Swept
    <2>2. after[q] = mem[q] \/ (mem[q] = "pending" /\ after[q] = "expired")
      BY <2>1 DEF Swept
    <2>3. disk'[q] = disk[q] \/ (after[q] # mem[q] /\ disk'[q] = after[q])
      BY <1>6, WritesSubset DEF Rows, Changed
    <2> QED BY <1>5, <2>2, <2>3 DEF Calm
  <1>11. r \notin lost' => disk'[r] = status
    BY <1>1, <1>6, <1>9 DEF Rows
  <1>12. lost' # lost => StoreFaults
    BY <1>6, <1>9 DEF Writes
  <1>13. disk'[r] \in {disk[r], status}
    BY <1>1, <1>6, <1>9 DEF Rows
  <1>14. updates[offset + 1] = [verb |-> verb, req |-> r, by |-> "owner"]
    BY <1>3 DEF NextTap
  <1> QED BY <1>1, <1>2, <1>4, <1>5, <1>6, <1>7, <1>8, <1>9, <1>10, <1>11, <1>12,
             <1>13, <1>14, <1>0

LEMMA ApproveKeeps == ASSUME IInv, Approve PROVE IInv' /\ StaySettled
  <1> USE DEF IInv
  <1>1. TakesTap /\ Decides("ok") /\ Decide(NextTap.req, "sending")
    BY DEF Approve
  <1>2. PICK r \in Requests :
        /\ r = NextTap.req /\ up
        /\ \E i \in 1..Len(updates) :
              updates[i] = [verb |-> "ok", req |-> r, by |-> "owner"]
        /\ mem[r] = "pending" /\ mem'[r] = "sending"
        /\ disk'[r] \in {disk[r], "sending"}
        /\ \A q \in Requests \ {r} : Calm(q)
        /\ mem' \in [Requests -> SendStatus \cup {"absent"}]
        /\ disk' \in [Requests -> SendStatus \cup {"absent"}]
        /\ lost' \in {lost, lost \cup {r}}
        /\ r \notin lost' => disk'[r] = "sending"
        /\ lost' # lost => StoreFaults
    BY <1>1, DecideEffect, "ok" \in Verbs DEF Verbs
  <1>3. /\ approvals' = [approvals EXCEPT ![r] = @ + 1]
        /\ await' = [await EXCEPT ![r] = "waiting"]
        /\ await[r] = "no"
        /\ offset' = offset + 1 /\ offset < fetched
        /\ UNCHANGED <<clockVars, reqVars, rateVars, postVars, updates, confirmed,
                       fetched, orphans, mailed, rejects>>
    BY <1>2 DEF Approve, TakesTap, LoopFree
  <1>4. r \in issued
    BY <1>2 DEF LifeInv
  <1>5. TypeOK'
    <2>1. /\ approvals \in [Requests -> Nat] /\ await \in [Requests -> Answers]
          /\ lost \subseteq Requests /\ offset \in Nat
      BY DEF TypeOK
    <2>2. /\ approvals' \in [Requests -> Nat] /\ await' \in [Requests -> Answers]
          /\ lost' \subseteq Requests /\ offset' \in Nat
      BY <1>2, <1>3, <2>1 DEF Answers
    <2>3. /\ mem' \in [Requests -> SendStatus \cup {"absent"}]
          /\ disk' \in [Requests -> SendStatus \cup {"absent"}]
      BY <1>2
    <2> QED BY <1>3, <2>2, <2>3 DEF TypeOK, clockVars, reqVars, rateVars, postVars
  <1>6. PollInv'
    BY <1>3 DEF PollInv, TypeOK
  <1>7. LifeInv'
    BY <1>2, <1>3, <1>4 DEF LifeInv, Calm, TypeOK, clockVars, reqVars, postVars
  <1>8. SendInv'
    <2>1. /\ approvals'[r] = approvals[r] + 1 /\ await'[r] = "waiting"
          /\ mailed[r] \in Nat /\ orphans[r] \in Nat /\ approvals[r] \in Nat
          /\ mailed[r] + orphans[r] <= approvals[r]
      <3>1. /\ approvals \in [Requests -> Nat] /\ await \in [Requests -> Answers]
            /\ mailed \in [Requests -> Nat] /\ orphans \in [Requests -> Nat]
        BY DEF TypeOK
      <3>2. mailed[r] + orphans[r] + 0 <= approvals[r]
        BY <1>2, <1>3 DEF SendInv, SendOf
      <3> QED BY <1>2, <1>3, <3>1, <3>2
    <2>2. SendOf(r)'
      BY <1>2, <1>3, <2>1 DEF SendInv, SendOf
    <2>3. ASSUME NEW q \in Requests \ {r} PROVE SendOf(q)'
      BY <1>2, <1>3, CalmKeepsSend DEF SendInv, TypeOK
    <2> QED BY <2>2, <2>3 DEF SendInv
  <1>9. DecisionInv'
    <2>1. r \notin lost => approvals[r] = 0 /\ rejects[r] = 0
      <3>1. approvals[r] \in Nat /\ rejects[r] \in Nat
        BY <1>2 DEF TypeOK
      <3> QED BY <1>2, <3>1 DEF DecisionInv, DecisionOf
    <2>2. ASSUME r \notin lost'
          PROVE  /\ approvals'[r] = 1 /\ rejects'[r] = 0
                 /\ disk'[r] = "sending" /\ mem'[r] = "sending"
      BY <1>2, <1>3, <2>1, <2>2 DEF TypeOK
    <2>3. DecisionOf(r)'
      BY <2>2 DEF DecisionOf
    <2>4. ASSUME NEW q \in Requests \ {r} PROVE DecisionOf(q)'
      <3>1. approvals'[q] = approvals[q] /\ rejects'[q] = rejects[q]
        BY <1>3 DEF TypeOK
      <3> QED BY <1>2, <3>1, CalmKeepsDecision DEF DecisionInv
    <2> QED BY <2>3, <2>4 DEF DecisionInv
  <1>10. TapInv'
    BY <1>2, <1>3 DEF TapInv, TypeOK
  <1>11. SettledInv'
    BY <1>2, <1>3 DEF SettledInv, Calm, clockVars, Terminal
  <1>12. LostInv'
    BY <1>2 DEF LostInv
  <1>13. StaySettled
    BY <1>2 DEF StaySettled, SettledInv, Calm, Terminal
  <1> QED BY <1>13, <1>5, <1>6, <1>7, <1>8, <1>9, <1>10, <1>11, <1>12

LEMMA RejectKeeps == ASSUME IInv, Reject PROVE IInv' /\ StaySettled
  <1> USE DEF IInv
  <1>1. TakesTap /\ Decides("no") /\ Decide(NextTap.req, "rejected")
    BY DEF Reject
  <1>2. PICK r \in Requests :
        /\ r = NextTap.req /\ up
        /\ mem[r] = "pending" /\ mem'[r] = "rejected"
        /\ disk'[r] \in {disk[r], "rejected"}
        /\ \A q \in Requests \ {r} : Calm(q)
        /\ mem' \in [Requests -> SendStatus \cup {"absent"}]
        /\ disk' \in [Requests -> SendStatus \cup {"absent"}]
        /\ lost' \in {lost, lost \cup {r}}
        /\ r \notin lost' => disk'[r] = "rejected"
        /\ lost' # lost => StoreFaults
    BY <1>1, DecideEffect, "no" \in Verbs DEF Verbs
  <1>3. /\ rejects' = [rejects EXCEPT ![r] = @ + 1]
        /\ await[r] = "no"
        /\ offset' = offset + 1 /\ offset < fetched
        /\ UNCHANGED <<clockVars, reqVars, rateVars, postVars, updates, confirmed,
                       fetched, await, orphans, mailed, approvals>>
    BY <1>2 DEF Reject, TakesTap, LoopFree
  <1>4. r \in issued
    BY <1>2 DEF LifeInv
  <1>5. TypeOK'
    BY <1>2, <1>3 DEF TypeOK, clockVars, reqVars, rateVars, postVars
  <1>6. PollInv'
    BY <1>3 DEF PollInv, TypeOK
  <1>7. LifeInv'
    BY <1>2, <1>3, <1>4 DEF LifeInv, Calm, TypeOK, clockVars, reqVars, postVars
  <1>8. SendInv'
    <2>1. SendOf(r)'
      BY <1>2, <1>3 DEF SendInv, SendOf
    <2>2. ASSUME NEW q \in Requests \ {r} PROVE SendOf(q)'
      BY <1>2, <1>3, CalmKeepsSend DEF SendInv
    <2> QED BY <2>1, <2>2 DEF SendInv
  <1>9. DecisionInv'
    <2>1. r \notin lost => approvals[r] = 0 /\ rejects[r] = 0
      <3>1. approvals[r] \in Nat /\ rejects[r] \in Nat
        BY <1>2 DEF TypeOK
      <3> QED BY <1>2, <3>1 DEF DecisionInv, DecisionOf
    <2>2. ASSUME r \notin lost'
          PROVE  /\ approvals'[r] = 0 /\ rejects'[r] = 1
                 /\ disk'[r] = "rejected" /\ mem'[r] = "rejected"
      BY <1>2, <1>3, <2>1, <2>2 DEF TypeOK
    <2>3. DecisionOf(r)'
      BY <2>2 DEF DecisionOf
    <2>4. ASSUME NEW q \in Requests \ {r} PROVE DecisionOf(q)'
      <3>1. approvals'[q] = approvals[q] /\ rejects'[q] = rejects[q]
        BY <1>3 DEF TypeOK
      <3> QED BY <1>2, <3>1, CalmKeepsDecision DEF DecisionInv
    <2> QED BY <2>3, <2>4 DEF DecisionInv
  <1>10. TapInv'
    BY <1>3 DEF TapInv
  <1>11. SettledInv'
    BY <1>2, <1>3 DEF SettledInv, Calm, clockVars, Terminal
  <1>12. LostInv'
    BY <1>2 DEF LostInv
  <1>13. StaySettled
    BY <1>2 DEF StaySettled, SettledInv, Calm, Terminal
  <1> QED BY <1>13, <1>5, <1>6, <1>7, <1>8, <1>9, <1>10, <1>11, <1>12

\* The provider's own steps: they move a mail between `waiting', `orphans' and
\* `mailed', never adding one.
LEMMA ProviderKeeps ==
    ASSUME IInv, NEW r \in Requests,
           ProviderAccepts(r) \/ ProviderRefuses(r) \/ OrphanDelivers(r)
    PROVE  IInv' /\ StaySettled
  <1> USE DEF IInv
  <1>1. UNCHANGED <<clockVars, mem, disk, reqVars, rateVars, postVars, pollVars,
                   decideVars>>
    BY DEF ProviderAccepts, ProviderRefuses, OrphanDelivers
  <1>2. TypeOK' /\ PollInv'
    <2>0. /\ await \in [Requests -> Answers]
          /\ mailed \in [Requests -> Nat] /\ orphans \in [Requests -> Nat]
      BY DEF TypeOK
    <2>1. /\ await' \in [Requests -> Answers]
          /\ mailed' \in [Requests -> Nat] /\ orphans' \in [Requests -> Nat]
      <3>1. CASE ProviderAccepts(r)
        BY <2>0, <3>1 DEF ProviderAccepts, Answers
      <3>2. CASE ProviderRefuses(r)
        BY <2>0, <3>2 DEF ProviderRefuses, Answers
      <3>3. CASE OrphanDelivers(r)
        BY <2>0, <3>3 DEF OrphanDelivers
      <3> QED BY <3>1, <3>2, <3>3
    <2> QED BY <1>1, <2>1 DEF TypeOK, PollInv, clockVars, reqVars, rateVars,
                              postVars, pollVars, decideVars
  <1>3. LifeInv' /\ SettledInv'
    BY <1>1 DEF ProviderAccepts, ProviderRefuses, OrphanDelivers, TypeOK, LifeInv,
                SettledInv, clockVars, reqVars, postVars, decideVars
  <1>4. SendInv'
    <2>1. CASE ProviderAccepts(r)
      BY <1>1, <2>1 DEF ProviderAccepts, SendInv, SendOf, TypeOK, decideVars
    <2>2. CASE ProviderRefuses(r)
      BY <1>1, <2>2 DEF ProviderRefuses, SendInv, SendOf, TypeOK, decideVars
    <2>3. CASE OrphanDelivers(r)
      BY <1>1, <2>3 DEF OrphanDelivers, SendInv, SendOf, TypeOK, decideVars
    <2> QED BY <2>1, <2>2, <2>3
  <1>5. DecisionInv' /\ TapInv' /\ LostInv'
    BY <1>1 DEF DecisionInv, DecisionOf, TapInv, LostInv, clockVars, pollVars,
                decideVars
  <1>6. StaySettled
    BY <1>1 DEF StaySettled
  <1> QED BY <1>6, <1>2, <1>3, <1>4, <1>5

LEMMA SendReturnsKeeps ==
    ASSUME IInv, NEW r \in Requests, SendOk(r) \/ SendFails(r)
    PROVE  IInv' /\ StaySettled
  <1> USE DEF IInv
  <1>1. PICK st \in {"sent", "failed"} :
            /\ SendReturns(r, st)
            /\ await[r] # "no" /\ (st = "sent" => await[r] = "delivered")
            /\ orphans' = IF st = "sent" THEN orphans ELSE Orphaned(r)
    BY DEF SendOk, SendFails
  <1> DEFINE after == Swept([mem EXCEPT ![r] = st])
  <1>2. after \in [Requests -> SendStatus \cup {"absent"}]
    BY SweptType DEF TypeOK, SendStatus
  <1>3. /\ mem' = after
        /\ mem' \in [Requests -> SendStatus \cup {"absent"}]
        /\ disk' \in [Requests -> SendStatus \cup {"absent"}]
        /\ \A q \in Requests :
              disk'[q] = disk[q] \/ (mem'[q] # mem[q] /\ disk'[q] = mem'[q])
    BY <1>1, <1>2, SettleEffect DEF SendReturns
  <1>4. \A q \in Requests \ {r} : Calm(q)
    BY <1>3 DEF Calm, Swept, TypeOK
  <1>5. mem'[r] = st /\ disk'[r] \in {disk[r], st}
    BY <1>3 DEF Swept, TypeOK
  <1>6. /\ await' = [await EXCEPT ![r] = "no"]
        /\ UNCHANGED <<clockVars, reqVars, rateVars, postVars, pollVars, mailed,
                       decideVars>>
    BY <1>1 DEF SendReturns
  <1>7. orphans' \in [Requests -> Nat]
    BY <1>1 DEF Orphaned, TypeOK
  <1>8. TypeOK' /\ PollInv'
    BY <1>3, <1>6, <1>7 DEF TypeOK, PollInv, clockVars, reqVars, rateVars, postVars,
                            pollVars, decideVars, Answers
  <1>9. up /\ r \in issued /\ approvals[r] > 0
    BY <1>1 DEF LifeInv, SendInv, SendOf
  <1>10. LifeInv'
    BY <1>4, <1>6, <1>9 DEF LifeInv, Calm, TypeOK, clockVars, reqVars, postVars,
                            decideVars
  <1>11. SendInv'
    <2>1. ASSUME NEW q \in Requests \ {r}
          PROVE  /\ await'[q] = await[q] /\ orphans'[q] = orphans[q]
                 /\ mailed'[q] = mailed[q] /\ approvals'[q] = approvals[q]
      BY <1>1, <1>6 DEF Orphaned, TypeOK, decideVars
    <2>2. /\ mailed[r] \in Nat /\ orphans[r] \in Nat /\ approvals[r] \in Nat
          /\ orphans'[r] \in {orphans[r],
                              orphans[r] + (IF await[r] = "waiting" THEN 1 ELSE 0)}
          /\ mailed'[r] = mailed[r] /\ approvals'[r] = approvals[r]
          /\ await'[r] = "no"
      BY <1>1, <1>6 DEF Orphaned, TypeOK, decideVars
    <2>3. mailed'[r] + orphans'[r] <= approvals'[r]
      BY <2>2 DEF SendInv, SendOf
    <2>4. "sent" \in {mem'[r], disk'[r]} => mailed'[r] > 0
      BY <1>1, <1>5, <1>6 DEF SendInv, SendOf
    <2>5. orphans'[r] \in Nat /\ mailed'[r] \in Nat
      BY <1>7, <2>2
    <2>6. SendOf(r)'
      BY <2>2, <2>3, <2>4, <2>5 DEF SendOf
    <2>7. ASSUME NEW q \in Requests \ {r} PROVE SendOf(q)'
      BY <1>4, <2>1, CalmKeepsSend DEF SendInv
    <2> QED BY <2>6, <2>7 DEF SendInv
  <1>12. DecisionInv'
    <2>1. r \notin lost => approvals[r] = 1 /\ rejects[r] = 0
      <3>1. approvals[r] \in Nat /\ rejects[r] \in Nat
        BY DEF TypeOK
      <3> QED BY <1>9, <3>1 DEF DecisionInv, DecisionOf
    <2>2. DecisionOf(r)'
      BY <1>5, <1>6, <1>9, <2>1 DEF DecisionInv, DecisionOf, decideVars
    <2>3. ASSUME NEW q \in Requests \ {r} PROVE DecisionOf(q)'
      BY <1>4, <1>6, <1>9, CalmKeepsDecision DEF DecisionInv, decideVars
    <2> QED BY <2>2, <2>3 DEF DecisionInv
  <1>13. TapInv' /\ LostInv'
    BY <1>6 DEF TapInv, LostInv, decideVars, pollVars
  <1>14. SettledInv'
    BY <1>4, <1>5, <1>6 DEF SettledInv, Calm, clockVars, Terminal
  <1>15. StaySettled
    BY <1>4, <1>5, <1>9 DEF StaySettled, SettledInv, Calm, Terminal
  <1> QED BY <1>15, <1>8, <1>10, <1>11, <1>12, <1>13, <1>14

\* What dies with the process leaves the rows, and turns the send awaited into
\* one that may still be delivered.
LEMMA DeathKeeps ==
    ASSUME IInv, Dies, disk' \in [Requests -> SendStatus \cup {"absent"}],
           chat' \subseteq Requests, created' \in [Requests -> Nat],
           issued' \subseteq Requests, untimed' \subseteq Requests,
           issued \subseteq issued',
           \A q \in Requests :
              \/ disk'[q] = disk[q]
              \/ mem[q] = "pending" /\ disk'[q] = "expired"
              \/ q \in issued' \ issued /\ disk'[q] = "pending"
    PROVE  IInv' /\ StaySettled
  <1> USE DEF IInv
  <1>1. mem' \in [Requests -> SendStatus \cup {"absent"}]
    BY DEF Dies
  <1>2. /\ await' \in [Requests -> Answers]
        /\ orphans' \in [Requests -> Nat]
        /\ \A q \in Requests : mem'[q] = "absent" /\ await'[q] = "no"
    BY DEF Dies, Orphaned, TypeOK, Answers
  <1>3. TypeOK'
    <2>1. /\ up' = FALSE /\ crashes' \in Nat /\ times' = {} /\ posting' = {}
          /\ offset' = 0 /\ fetched' = 0
          /\ UNCHANGED <<now, diskTimes, updates, confirmed, mailed, decideVars>>
      BY DEF Dies, TypeOK
    <2> QED BY <1>1, <1>2, <2>1 DEF TypeOK, decideVars
  <1>4. PollInv'
    BY DEF Dies, PollInv, TypeOK
  <1>5. LifeInv'
    BY <1>2 DEF Dies, LifeInv, decideVars
  <1>6. SendInv'
    <2> SUFFICES ASSUME NEW q \in Requests
                 PROVE  /\ mailed'[q] + orphans'[q] <= approvals'[q]
                        /\ disk'[q] = "sent" => mailed'[q] > 0
      <3>1. \A q \in Requests : mailed'[q] + orphans'[q] + 0 = mailed'[q] + orphans'[q]
        BY <1>3 DEF TypeOK
      <3> QED BY <1>2, <3>1 DEF SendInv, SendOf
    <2>1. orphans'[q] = IF await[q] = "waiting" THEN orphans[q] + 1 ELSE orphans[q]
      BY DEF Dies, Orphaned, TypeOK
    <2>2. /\ mailed'[q] = mailed[q] /\ approvals'[q] = approvals[q]
          /\ mailed[q] \in Nat /\ orphans[q] \in Nat /\ approvals[q] \in Nat
      BY DEF Dies, TypeOK, decideVars
    <2>3. mailed'[q] + orphans'[q] <= approvals'[q]
      BY <2>1, <2>2 DEF SendInv, SendOf
    <2>4. disk'[q] = "sent" => mailed'[q] > 0
      BY <2>2 DEF SendInv, SendOf
    <2> QED BY <2>3, <2>4
  <1>7. DecisionInv'
    <2>0. /\ up' = FALSE /\ approvals' = approvals /\ rejects' = rejects
          /\ lost' = lost
      BY DEF Dies, decideVars
    <2> SUFFICES ASSUME NEW q \in Requests \ lost,
                        approvals[q] = 1 \/ rejects[q] = 1
                 PROVE  disk'[q] = disk[q]
      BY <2>0 DEF DecisionInv, DecisionOf
    <2>1. q \in issued
      BY DEF LifeInv
    <2>2. mem[q] # "pending"
      BY DEF Dies, DecisionInv, DecisionOf
    <2> QED BY <2>1, <2>2
  <1>8. TapInv' /\ SettledInv' /\ LostInv'
    BY DEF Dies, TapInv, SettledInv, LostInv, decideVars
  <1>9. StaySettled
    BY DEF StaySettled, SettledInv, LifeInv, Dies, Terminal
  <1> QED BY <1>9, <1>3, <1>4, <1>5, <1>6, <1>7, <1>8

LEMMA CrashKeeps == ASSUME IInv, Crash PROVE IInv' /\ StaySettled
  <1>1. /\ disk' = disk /\ created' = created
        /\ issued' = issued /\ untimed' = untimed
    BY DEF Crash, reqVars
  <1>2. chat' \subseteq Requests
    BY DEF Crash, IInv, TypeOK
  <1>3. StaySettled
    BY <1>1 DEF StaySettled
  <1> QED BY <1>3, <1>1, <1>2, DeathKeeps DEF Crash, IInv, TypeOK

LEMMA KilledInSubmitKeeps ==
    ASSUME IInv, NEW r \in Requests, KilledInSubmit(r)
    PROVE  IInv' /\ StaySettled
  <1> USE DEF IInv
  <1> DEFINE status == [Swept(mem) EXCEPT ![r] = "pending"]
  <1>1. status \in [Requests -> SendStatus \cup {"absent"}]
    BY SweptType DEF TypeOK, SendStatus
  <1>2. disk' = Rows(status, Changed(status))
    BY DEF KilledInSubmit
  <1>3. disk' \in [Requests -> SendStatus \cup {"absent"}]
    BY <1>1, <1>2, RowsType DEF TypeOK
  <1>4. ASSUME NEW q \in Requests
        PROVE  \/ disk'[q] = disk[q]
               \/ mem[q] = "pending" /\ disk'[q] = "expired"
               \/ q \in issued' \ issued /\ disk'[q] = "pending"
    <2>1. CASE q = r
      BY <1>2, <2>1 DEF KilledInSubmit, Rows, Changed, Swept, LifeInv, TypeOK
    <2>2. CASE q # r
      <3>1. disk'[q] = disk[q] \/ (mem[q] = "pending" /\ disk'[q] = "expired")
        BY <1>2, <2>2 DEF Rows, Changed, Swept
      <3> QED BY <3>1
    <2> QED BY <2>1, <2>2
  <1>5. /\ created' \in [Requests -> Nat] /\ chat' \subseteq Requests
        /\ issued' \subseteq Requests /\ untimed' \subseteq Requests
        /\ issued \subseteq issued'
    BY DEF KilledInSubmit, TypeOK
  <1> QED BY <1>3, <1>4, <1>5, DeathKeeps DEF KilledInSubmit

\* A restart reads the rows back; only what was in flight changes, to failed.
LEMMA RestartKeeps == ASSUME IInv, Restart PROVE IInv' /\ StaySettled
  <1> USE DEF IInv
  <1> DEFINE back == Swept(Hydrated)
  <1>1. Hydrated \in [Requests -> SendStatus \cup {"absent"}]
    BY DEF Hydrated, TypeOK, SendStatus
  <1>2. back \in [Requests -> SendStatus \cup {"absent"}]
    BY <1>1, SweptType
  <1>3. mem' = back
    BY DEF Restart
  <1>4. PICK written \in SUBSET Requests : disk' = Rows(back, written)
    BY WritesSubset DEF Restart
  <1>5. disk' \in [Requests -> SendStatus \cup {"absent"}]
    BY <1>2, <1>4, RowsType DEF TypeOK
  <1>6. \A q \in Requests :
            /\ \/ mem'[q] = disk[q] /\ disk[q] # "sending"
               \/ disk[q] = "sending" /\ mem'[q] = "failed"
               \/ disk[q] = "pending" /\ mem'[q] = "expired"
            /\ disk'[q] \in {disk[q], mem'[q]}
    BY <1>3, <1>4 DEF Swept, Hydrated, Rows
  <1>7. UNCHANGED <<now, crashes, reqVars, diskTimes, postVars, pollVars,
                    sendVars, decideVars>>
    BY DEF Restart
  <1>8. up' = TRUE /\ times' \subseteq Requests
    BY DEF Restart, Reloaded, TypeOK
  <1>9. TypeOK' /\ PollInv'
    BY <1>2, <1>3, <1>5, <1>7, <1>8 DEF TypeOK, PollInv, reqVars, postVars,
                                        pollVars, sendVars, decideVars
  <1>10. LifeInv'
    BY <1>6, <1>7, <1>8 DEF LifeInv, reqVars, postVars, sendVars, decideVars
  <1>11. SendInv'
    <2>1. \A q \in Requests : await[q] = "no"
      BY DEF LifeInv, Restart
    <2> QED BY <2>1, <1>6, <1>7 DEF SendInv, SendOf, sendVars, decideVars
  <1>12. DecisionInv'
    BY <1>6, <1>7, <1>8 DEF DecisionInv, DecisionOf, decideVars
  <1>13. TapInv' /\ LostInv'
    BY <1>7 DEF TapInv, LostInv, decideVars, pollVars
  <1>14. SettledInv'
    BY <1>6 DEF SettledInv, Terminal
  <1>15. StaySettled
    BY <1>6 DEF StaySettled, Terminal
  <1> QED BY <1>15, <1>9, <1>10, <1>11, <1>12, <1>13, <1>14

-----------------------------------------------------------------------------
(* The calm steps.                                                           *)

\* A refused submit, an ignored tap and a status query only sweep.
LEMMA SweepKeeps ==
    ASSUME IInv, SubmitRefused \/ IgnoreTap \/ GetStatus
    PROVE  IInv' /\ StaySettled
  <1> USE DEF IInv
  <1>1. Settle(Swept(mem))
    BY DEF SubmitRefused, IgnoreTap, GetStatus
  <1>2. /\ mem' \in [Requests -> SendStatus \cup {"absent"}]
        /\ disk' \in [Requests -> SendStatus \cup {"absent"}]
        /\ \A r \in Requests : Calm(r)
    BY <1>1, SweepIsCalm
  <1>3. UNCHANGED <<clockVars, reqVars, diskTimes, postVars, updates, confirmed,
                   fetched, sendVars, decideVars>>
    BY DEF SubmitRefused, IgnoreTap, GetStatus, TakesTap, rateVars, pollVars,
           sendVars, decideVars
  <1>4. times' \subseteq Requests
    BY DEF SubmitRefused, IgnoreTap, GetStatus, TakesTap, rateVars, Recent, TypeOK
  <1>5. offset' \in Nat /\ offset' <= Len(updates)
    BY DEF SubmitRefused, IgnoreTap, GetStatus, TakesTap, pollVars, TypeOK, PollInv
  <1>6. TypeOK' /\ PollInv'
    BY <1>2, <1>3, <1>4, <1>5 DEF TypeOK, PollInv, clockVars, reqVars, postVars,
                                  sendVars, decideVars
  <1>7. CoreInv'
    BY <1>2, <1>3, CalmKeepsCore DEF clockVars, reqVars, postVars
  <1>8. StaySettled
    BY <1>1, <1>2 DEF StaySettled, SettledInv, Calm, SubmitRefused, IgnoreTap,
                     TakesTap, LoopFree, GetStatus, Terminal
  <1> QED BY <1>8, <1>6, <1>7 DEF CoreInv

\* Steps that leave entries, rows and decisions alone.
LEMMA QuietKeeps ==
    ASSUME IInv,
           \/ Poll \/ DropBatch \/ Tick \/ UNCHANGED vars
           \/ \E r \in Requests : PostDelivered(r) \/ PostOk(r)
    PROVE  IInv' /\ StaySettled
  <1> USE DEF IInv
  <1>1. /\ mem' = mem /\ disk' = disk /\ posting' \subseteq posting
        /\ UNCHANGED <<up, issued, created, untimed, crashes, rateVars, updates,
                       sendVars, decideVars>>
    BY DEF Poll, DropBatch, Tick, PostDelivered, PostOk, vars, clockVars, reqVars,
           rateVars, postVars, pollVars, sendVars, decideVars
  <1>2. \A r \in Requests : Calm(r)
    BY <1>1 DEF Calm
  <1>3. now' \in Nat /\ chat' \subseteq Requests /\ posting' \subseteq Requests
    BY <1>1 DEF Poll, DropBatch, Tick, PostDelivered, PostOk, vars, clockVars,
                postVars, TypeOK
  <1>4. /\ confirmed' \in Nat /\ offset' \in Nat /\ fetched' \in Nat
        /\ confirmed' <= Len(updates) /\ offset' <= Len(updates)
        /\ fetched' <= Len(updates)
    BY DEF Poll, DropBatch, Tick, PostDelivered, PostOk, vars, pollVars, TypeOK,
           PollInv
  <1>5. TypeOK' /\ PollInv'
    BY <1>1, <1>3, <1>4 DEF TypeOK, PollInv, rateVars, sendVars, decideVars
  <1>6. CoreInv'
    BY <1>1, <1>2, CalmKeepsCore
  <1>7. StaySettled
    BY <1>1 DEF StaySettled
  <1> QED BY <1>7, <1>5, <1>6 DEF CoreInv

LEMMA NextKeepsIInv == IInv /\ [Next]_vars => IInv' /\ StaySettled
  <1> SUFFICES ASSUME IInv, [Next]_vars PROVE IInv' /\ StaySettled
    OBVIOUS
  <1>1. CASE SubmitRefused \/ IgnoreTap \/ GetStatus
    BY <1>1, SweepKeeps
  <1>2. CASE \/ Poll \/ DropBatch \/ Tick \/ UNCHANGED vars
             \/ \E r \in Requests : PostDelivered(r) \/ PostOk(r)
    BY <1>2, QuietKeeps
  <1>3. CASE Approve
    BY <1>3, ApproveKeeps
  <1>4. CASE Reject
    BY <1>4, RejectKeeps
  <1>5. CASE Crash
    BY <1>5, CrashKeeps
  <1>6. CASE Restart
    BY <1>6, RestartKeeps
  <1>7. ASSUME NEW r \in Requests,
               ProviderAccepts(r) \/ ProviderRefuses(r) \/ OrphanDelivers(r)
        PROVE  IInv' /\ StaySettled
    BY <1>7, ProviderKeeps
  <1>8. ASSUME NEW r \in Requests, SendOk(r) \/ SendFails(r) PROVE IInv' /\ StaySettled
    BY <1>8, SendReturnsKeeps
  <1>9. ASSUME NEW r \in Requests, Submit(r) PROVE IInv' /\ StaySettled
    BY <1>9, SubmitKeeps
  <1>10. ASSUME NEW r \in Requests, PostFails(r) PROVE IInv' /\ StaySettled
    BY <1>10, PostFailsKeeps
  <1>11. ASSUME NEW r \in Requests, KilledInSubmit(r) PROVE IInv' /\ StaySettled
    BY <1>11, KilledInSubmitKeeps
  <1>12. ASSUME NEW r \in Requests, NEW verb \in Verbs, NEW who \in Tappers,
                Tap(r, verb, who)
         PROVE  IInv' /\ StaySettled
    BY <1>12, TapKeeps
  <1> QED BY <1>1, <1>2, <1>3, <1>4, <1>5, <1>6, <1>7, <1>8, <1>9, <1>10, <1>11,
             <1>12 DEF Next

-----------------------------------------------------------------------------
(* The theorems.                                                             *)

THEOREM Invariance == Spec => []IInv
  <1> QED BY InitIInv, NextKeepsIInv, PTL DEF Spec

\* Every variable of the gate, its store and its receiver keeps its type.
THEOREM TypeCorrect == Spec => []TypeOK
  <1>1. IInv => TypeOK
    BY DEF IInv
  <1> QED BY <1>1, Invariance, PTL

\* No mail leaves without a tap of the authorized user on that request, with
\* any number of requests, taps and process deaths and whatever the store loses.
THEOREM OnlyOnApproval == Spec => []MailOnlyOnApproval
  <1>1. IInv => MailOnlyOnApproval
    <2> SUFFICES ASSUME IInv, NEW r \in Requests, mailed[r] > 0
                 PROVE  approvals[r] > 0
      BY DEF IInv, TapInv, MailOnlyOnApproval
    <2>1. /\ mailed[r] \in Nat /\ orphans[r] \in Nat /\ approvals[r] \in Nat
      BY DEF IInv, TypeOK
    <2> QED BY <2>1 DEF IInv, SendInv, SendOf
  <1> QED BY <1>1, Invariance, PTL

\* A request whose decision was written has one outcome: at most one mail, and
\* none if it was rejected.
THEOREM OneOutcomeEach == Spec => []OneOutcome
  <1>1. IInv => OneOutcome
    <2> SUFFICES ASSUME IInv, NEW r \in Requests \ lost
                 PROVE  mailed[r] + orphans[r] + rejects[r] <= 1
      BY DEF OneOutcome
    <2>1. /\ mailed[r] \in Nat /\ orphans[r] \in Nat
          /\ approvals[r] \in Nat /\ rejects[r] \in Nat
      BY DEF IInv, TypeOK
    <2>2. mailed[r] + orphans[r] <= approvals[r]
      BY <2>1 DEF IInv, SendInv, SendOf
    <2>3. approvals[r] + rejects[r] <= 1
      BY DEF IInv, DecisionInv, DecisionOf
    <2> QED BY <2>1, <2>2, <2>3
  <1> QED BY <1>1, Invariance, PTL

\* The proposer is never told of a delivery that did not happen, nor that a
\* mail that went out is pending, rejected or expired.
THEOREM HonestStatus == Spec => []StatusIsHonest
  <1>1. IInv => StatusIsHonest
    <2> SUFFICES ASSUME IInv, NEW r \in Requests \ lost,
                        mem[r] \in {"pending", "rejected", "expired"}
                 PROVE  mailed[r] + orphans[r] = 0
      BY DEF IInv, SendInv, SendOf, StatusIsHonest
    <2>1. /\ mailed[r] \in Nat /\ orphans[r] \in Nat
          /\ approvals[r] \in Nat /\ rejects[r] \in Nat
      BY DEF IInv, TypeOK
    <2>2. up
      BY DEF IInv, LifeInv
    <2>3. approvals[r] = 0
      BY <2>1, <2>2 DEF IInv, DecisionInv, DecisionOf
    <2>4. mailed[r] + orphans[r] <= 0
      BY <2>1, <2>3 DEF IInv, SendInv, SendOf
    <2> QED BY <2>1, <2>4
  <1> QED BY <1>1, Invariance, PTL

\* With a store that takes its writes, every step of the gate is a step of
\* SendOnce or leaves its state alone.
THEOREM GateKeepsPromise == ~StoreFaults => (Spec => KeepsPromise)
  <1> DEFINE und == {r \in Requests : approvals[r] + rejects[r] = 0}
             app == {r \in Requests : approvals[r] > 0 /\ mailed[r] = 0}
             dec == {r \in Requests : rejects[r] > 0}
  <1> SUFFICES ASSUME ~StoreFaults PROVE Spec => KeepsPromise
    OBVIOUS
  <1>1. Init => Promise!Init
    BY DEF Init, Promise!Init
  <1>2. IInv /\ [Next]_vars => [Promise!Next]_Promise!vars
    <2> SUFFICES ASSUME IInv, [Next]_vars
                 PROVE  Promise!Next \/ UNCHANGED Promise!vars
      BY DEF Promise!vars
    <2>1. /\ approvals \in [Requests -> Nat] /\ rejects \in [Requests -> Nat]
          /\ mailed \in [Requests -> Nat] /\ orphans \in [Requests -> Nat]
      BY DEF IInv, TypeOK
    <2>0. \A r \in Requests :
              /\ approvals[r] \in Nat /\ rejects[r] \in Nat
              /\ mailed[r] \in Nat /\ orphans[r] \in Nat
      BY <2>1
    <2>2. \A r \in Requests :
              /\ approvals[r] + rejects[r] <= 1
              /\ mailed[r] + orphans[r] + (IF await[r] = "waiting" THEN 1 ELSE 0)
                    <= approvals[r]
      BY DEF IInv, LostInv, DecisionInv, DecisionOf, SendInv, SendOf
    <2>3. CASE Approve
      <3>1. PICK r \in Requests : r = NextTap.req /\ mem[r] = "pending" /\ up
        BY <2>3, DecideEffect, "ok" \in Verbs DEF Approve, Verbs
      <3>2. approvals[r] = 0 /\ rejects[r] = 0
        BY <2>0, <3>1 DEF IInv, LostInv, DecisionInv, DecisionOf
      <3>3. mailed[r] = 0
        <4>1. mailed[r] + orphans[r] + 0 <= 0 \/ mailed[r] + orphans[r] + 1 <= 0
          BY <2>2, <3>2
        <4> QED BY <2>0, <4>1
      <3>4. /\ approvals' = [approvals EXCEPT ![r] = @ + 1]
            /\ rejects' = rejects /\ mailed' = mailed
        BY <2>3, <3>1 DEF Approve, TakesTap
      <3>5. /\ r \in und /\ und' = und \ {r} /\ app' = app \cup {r} /\ dec' = dec
        BY <2>1, <3>2, <3>3, <3>4
      <3> QED BY <3>4, <3>5 DEF Promise!Next, Promise!Approve
    <2>4. CASE Reject
      <3>1. PICK r \in Requests : r = NextTap.req /\ mem[r] = "pending" /\ up
        BY <2>4, DecideEffect, "no" \in Verbs DEF Reject, Verbs
      <3>2. approvals[r] = 0 /\ rejects[r] = 0
        BY <2>0, <3>1 DEF IInv, LostInv, DecisionInv, DecisionOf
      <3>3. /\ rejects' = [rejects EXCEPT ![r] = @ + 1]
            /\ approvals' = approvals /\ mailed' = mailed
        BY <2>4, <3>1 DEF Reject, TakesTap
      <3>4. /\ r \in und /\ und' = und \ {r} /\ dec' = dec \cup {r} /\ app' = app
        BY <2>1, <3>2, <3>3
      <3> QED BY <3>3, <3>4 DEF Promise!Next, Promise!Decline
    <2>5. ASSUME NEW r \in Requests, ProviderAccepts(r) \/ OrphanDelivers(r)
          PROVE  Promise!Next
      <3>1. approvals' = approvals /\ rejects' = rejects
        BY <2>5 DEF ProviderAccepts, OrphanDelivers, decideVars
      <3>2. mailed' = [mailed EXCEPT ![r] = @ + 1]
        BY <2>5 DEF ProviderAccepts, OrphanDelivers
      <3>3. approvals[r] > 0 /\ mailed[r] = 0
        <4>1. approvals[r] <= 1
          BY <2>0, <2>2
        <4>2. mailed[r] + 1 <= approvals[r]
          <5>1. CASE ProviderAccepts(r)
            BY <2>0, <2>2, <5>1 DEF ProviderAccepts
          <5>2. CASE OrphanDelivers(r)
            <6>1. mailed[r] + orphans[r] <= approvals[r]
              BY <2>0, <2>2
            <6> QED BY <2>0, <5>2, <6>1 DEF OrphanDelivers
          <5> QED BY <2>5, <5>1, <5>2
        <4> QED BY <2>0, <4>1, <4>2
      <3>4. /\ r \in app /\ app' = app \ {r} /\ und' = und /\ dec' = dec
        BY <2>1, <3>1, <3>2, <3>3
      <3> QED BY <3>2, <3>4 DEF Promise!Next, Promise!Deliver
    <2>6. CASE UNCHANGED <<approvals, rejects, mailed>>
      BY <2>6 DEF Promise!vars
    <2>7. ASSUME NEW r \in Requests,
                 \/ Submit(r) \/ PostDelivered(r) \/ PostOk(r) \/ PostFails(r)
                 \/ ProviderRefuses(r) \/ SendOk(r) \/ SendFails(r)
                 \/ KilledInSubmit(r)
                 \/ \E verb \in Verbs, who \in Tappers : Tap(r, verb, who)
          PROVE  UNCHANGED <<approvals, rejects, mailed>>
      BY <2>7 DEF Submit, PostDelivered, PostOk, PostFails, ProviderRefuses, SendOk,
                  SendFails, SendReturns, KilledInSubmit, Dies, Tap, sendVars,
                  decideVars
    <2>8. CASE \/ SubmitRefused \/ Poll \/ IgnoreTap \/ DropBatch \/ GetStatus
               \/ Tick \/ Crash \/ Restart \/ UNCHANGED vars
      BY <2>6, <2>8 DEF SubmitRefused, Poll, IgnoreTap, TakesTap, DropBatch,
                        GetStatus, Tick, Crash, Dies, Restart, vars, sendVars,
                        decideVars
    <2> QED BY <2>3, <2>4, <2>5, <2>6, <2>7, <2>8 DEF Next
  <1> QED BY <1>1, <1>2, Invariance, PTL DEF Spec, KeepsPromise, Promise!Spec

\* A settled row is never reopened.
THEOREM SettledForGood == Spec => SettledNeverReopens
  <1>1. IInv /\ [Next]_vars =>
           [\A r \in Requests : disk[r] \in Terminal => disk'[r] \in Terminal]_vars
    BY NextKeepsIInv DEF StaySettled
  <1> QED BY <1>1, Invariance, PTL DEF Spec, SettledNeverReopens

-----------------------------------------------------------------------------
(* The two limits of submit.                                                 *)

\* Requests issued in the hour that begins at t, of those whose time is stored.
Window(t) == {r \in issued \ untimed : t <= created[r] /\ created[r] < t + Hour}

\* What a process counts holds every stored submit of the last hour: the times
\* in memory say so while it lives, the stored times across its death.
WindowInv ==
    /\ times \cup diskTimes \subseteq issued
    /\ issued \ untimed \subseteq diskTimes
    /\ \A r \in issued : created[r] <= now
    /\ up => \A r \in issued \ untimed : now < created[r] + Hour => r \in times
    /\ \A t \in 0..now : Cardinality(Window(t)) <= RateLimit

\* A store that takes its writes has the rows of the entries.
MirrorInv ==
    ~StoreFaults =>
        /\ up => disk = mem
        /\ Cardinality(Outstanding(disk)) <= MaxOutstanding

LimitInv == IsFiniteSet(issued) /\ WindowInv /\ MirrorInv

LEMMA SubsetIs ==
    ASSUME NEW T, IsFiniteSet(T), NEW S \in SUBSET T
    PROVE  /\ IsFiniteSet(S) /\ Cardinality(S) \in Nat /\ Cardinality(T) \in Nat
           /\ Cardinality(S) <= Cardinality(T)
  BY FS_Subset, FS_CardinalityType

\* Steps that issue nothing: what has been counted is counted until it is old.
LEMMA WindowStays ==
    ASSUME IInv, WindowInv, UNCHANGED <<issued, untimed, created, diskTimes>>,
           now' \in {now, now + 1}, times' \subseteq issued,
           up' => \A r \in issued \ untimed : now' < created[r] + Hour => r \in times'
    PROVE  WindowInv'
  <1>1. now \in Nat /\ now' \in Nat /\ created \in [Requests -> Nat] /\ issued \subseteq Requests
    BY DEF IInv, TypeOK
  <1>2. \A r \in issued : created[r] <= now'
    BY <1>1 DEF WindowInv
  <1>3. ASSUME NEW t \in 0..now' PROVE Cardinality(Window(t)') <= RateLimit
    <2>1. Window(t)' = Window(t)
      BY DEF Window
    <2>2. CASE t \in 0..now
      BY <2>1, <2>2 DEF WindowInv
    <2>3. CASE t \notin 0..now
      <3>1. \A r \in issued : ~(t <= created[r])
        BY <1>1, <2>3 DEF WindowInv
      <3>2. Window(t) = {}
        BY <3>1 DEF Window
      <3> QED BY <2>1, <3>2, FS_EmptySet, GateAssumption
    <2> QED BY <2>2, <2>3
  <1> QED BY <1>2, <1>3 DEF WindowInv

\* A submit that is admitted leaves room for itself in every hour it is part of.
LEMMA WindowGrows ==
    ASSUME IInv, WindowInv, IsFiniteSet(issued), NEW r \in Requests, r \notin issued,
           up, Admits, issued' = issued \cup {r}, created' = [created EXCEPT ![r] = now],
           now' = now,
           \/ diskTimes' = diskTimes \cup {r} /\ untimed' = untimed
           \/ diskTimes' = diskTimes /\ untimed' = untimed \cup {r},
           times' \subseteq issued', up' => times' = Recent \cup {r}
    PROVE  WindowInv'
  <1>1. /\ now \in Nat /\ created \in [Requests -> Nat] /\ issued \subseteq Requests
        /\ times \subseteq issued /\ Hour \in Nat /\ RateLimit \in Nat
    BY GateAssumption DEF IInv, TypeOK, WindowInv
  <1>2. /\ created' \in [Requests -> Nat] /\ created'[r] = now
        /\ \A q \in issued : created'[q] = created[q] /\ q # r
    BY <1>1
  <1>3. times' \cup diskTimes' \subseteq issued' /\ issued' \ untimed' \subseteq diskTimes'
    BY DEF WindowInv
  <1>4. \A q \in issued' : created'[q] <= now'
    BY <1>1, <1>2 DEF WindowInv
  <1>5. up' => \A q \in issued' \ untimed' : now' < created'[q] + Hour => q \in times'
    BY <1>1, <1>2 DEF WindowInv, Recent
  <1>6. ASSUME NEW t \in 0..now PROVE Cardinality(Window(t)') <= RateLimit
    <2>1. PICK W, R : W = Window(t) /\ R = Recent
      OBVIOUS
    <2>2. W \subseteq issued /\ R \subseteq issued /\ r \notin W
      BY <1>1, <2>1 DEF Window, Recent
    <2>3. IsFiniteSet(W) /\ Cardinality(W) \in Nat /\ Cardinality(W) <= RateLimit
      BY <2>1, <2>2, SubsetIs DEF WindowInv
    <2>4. \/ Window(t)' = W
          \/ Window(t)' = W \cup {r} /\ now < t + Hour
      <3>1. Window(t)' = {q \in issued' \ untimed' :
                             t <= created'[q] /\ created'[q] < t + Hour}
        BY DEF Window
      <3>2. W \subseteq Window(t)' /\ Window(t)' \subseteq W \cup {r}
        BY <1>2, <2>1, <3>1 DEF Window
      <3>3. r \in Window(t)' => now < t + Hour
        BY <1>2, <3>1
      <3> QED BY <3>2, <3>3
    <2>5. CASE now < t + Hour
      <3>1. ASSUME NEW q \in W PROVE q \in R
        <4>1. q \in issued \ untimed /\ t <= created[q] /\ created[q] \in Nat
          BY <1>1, <2>1 DEF Window
        <4>2. now < created[q] + Hour
          BY <1>1, <2>5, <4>1
        <4> QED BY <2>1, <4>1, <4>2 DEF WindowInv, Recent
      <3>2. IsFiniteSet(R) /\ Cardinality(R) < RateLimit
        BY <2>1, <2>2, SubsetIs DEF Admits
      <3>3. Cardinality(W) <= Cardinality(R) /\ Cardinality(R) \in Nat
        BY <3>1, <3>2, SubsetIs
      <3>4. Cardinality(W \cup {r}) = Cardinality(W) + 1
        BY <2>2, <2>3, FS_AddElement
      <3>5. Cardinality(W) + 1 <= RateLimit
        BY <1>1, <2>3, <3>2, <3>3
      <3> QED BY <2>3, <2>4, <3>4, <3>5
    <2>6. CASE ~(now < t + Hour)
      BY <2>3, <2>4, <2>6
    <2> QED BY <2>5, <2>6
  <1> QED BY <1>3, <1>4, <1>5, <1>6 DEF WindowInv

LEMMA RateStep == ASSUME IInv, LimitInv, [Next]_vars PROVE WindowInv' /\ IsFiniteSet(issued')
  <1>1. /\ WindowInv /\ IsFiniteSet(issued) /\ now \in Nat /\ created \in [Requests -> Nat]
        /\ times \subseteq issued /\ diskTimes \subseteq issued /\ issued \subseteq Requests
        /\ Hour \in Nat
    BY GateAssumption DEF LimitInv, IInv, TypeOK, WindowInv
  <1>2. ASSUME NEW r \in Requests, Submit(r) \/ KilledInSubmit(r)
        PROVE  WindowInv' /\ IsFiniteSet(issued')
    <2>1. /\ r \notin issued /\ up /\ Admits /\ issued' = issued \cup {r}
          /\ created' = [created EXCEPT ![r] = now]
      BY <1>2 DEF Submit, KilledInSubmit, Dies
    <2>2. now' = now
      BY <1>2 DEF Submit, KilledInSubmit, Dies, clockVars
    <2>3. \/ diskTimes' = diskTimes \cup {r} /\ untimed' = untimed
          \/ diskTimes' = diskTimes /\ untimed' = untimed \cup {r}
      BY <1>2 DEF Submit, KilledInSubmit, Dies
    <2>4. times' \subseteq issued' /\ (up' => times' = Recent \cup {r})
      BY <1>1, <1>2, <2>1 DEF Submit, KilledInSubmit, Dies, Recent
    <2>5. IsFiniteSet(issued')
      BY <1>1, <2>1, FS_AddElement
    <2> QED BY <1>1, <2>1, <2>2, <2>3, <2>4, <2>5, WindowGrows
  <1>3. ASSUME UNCHANGED <<issued, untimed, created, diskTimes>>,
               now' \in {now, now + 1}, times' \subseteq issued,
               up' => \A r \in issued \ untimed : now' < created[r] + Hour => r \in times'
        PROVE  WindowInv' /\ IsFiniteSet(issued')
    BY <1>1, <1>3, WindowStays
  <1>4. CASE Restart
    <2>1. \A r \in issued \ untimed : now < created[r] + Hour => r \in Reloaded
      BY <1>1 DEF Reloaded, WindowInv
    <2> QED BY <1>1, <1>3, <1>4, <2>1 DEF Restart, Reloaded, reqVars
  <1>5. CASE Crash
    BY <1>3, <1>5 DEF Crash, Dies, reqVars
  <1>6. CASE SubmitRefused
    <2>1. \A r \in issued \ untimed : up /\ now < created[r] + Hour => r \in Recent
      BY <1>1 DEF Recent, WindowInv
    <2> QED BY <1>1, <1>3, <1>6, <2>1 DEF SubmitRefused, Recent, reqVars, clockVars
  <1>7. CASE Tick
    <2>1. \A r \in issued : now + 1 < created[r] + Hour => now < created[r] + Hour
      BY <1>1
    <2> QED BY <1>1, <1>3, <1>7, <2>1 DEF Tick, reqVars, rateVars, WindowInv
  <1>8. ASSUME UNCHANGED <<now, up, issued, untimed, created, diskTimes, times>>
        PROVE  WindowInv' /\ IsFiniteSet(issued')
    BY <1>1, <1>3, <1>8 DEF WindowInv
  <1>9. ASSUME NEW r \in Requests,
               \/ PostDelivered(r) \/ PostOk(r) \/ PostFails(r)
               \/ ProviderAccepts(r) \/ ProviderRefuses(r)
               \/ SendOk(r) \/ SendFails(r) \/ OrphanDelivers(r)
               \/ \E verb \in Verbs, who \in Tappers : Tap(r, verb, who)
        PROVE  WindowInv' /\ IsFiniteSet(issued')
    BY <1>8, <1>9 DEF PostDelivered, PostOk, PostFails, ProviderAccepts, ProviderRefuses,
                      SendOk, SendFails, SendReturns, OrphanDelivers, Tap, clockVars,
                      reqVars, rateVars
  <1>10. CASE \/ Poll \/ Approve \/ Reject \/ IgnoreTap \/ DropBatch \/ GetStatus
              \/ UNCHANGED vars
    BY <1>8, <1>10 DEF Poll, Approve, Reject, IgnoreTap, TakesTap, DropBatch, GetStatus,
                       vars, clockVars, reqVars, rateVars
  <1> QED BY <1>2, <1>4, <1>5, <1>6, <1>7, <1>9, <1>10 DEF Next

\* A write that is not lost makes the rows what the entries are.
LEMMA RowsAreWhole ==
    ASSUME ~StoreFaults, NEW status \in [Requests -> SendStatus \cup {"absent"}],
           disk \in [Requests -> SendStatus \cup {"absent"}], NEW entries,
           \A r \in Requests : status[r] # disk[r] => r \in entries,
           NEW written \in Writes(entries)
    PROVE  Rows(status, written) = status
  <1>1. \A r \in Requests : Rows(status, written)[r] = status[r]
    BY DEF Rows, Writes
  <1>2. DOMAIN Rows(status, written) = Requests /\ DOMAIN status = Requests
    BY DEF Rows
  <1> QED BY <1>1, <1>2, RowsType

LEMMA SettleIsWhole ==
    ASSUME ~StoreFaults, TypeOK, disk = mem,
           NEW status \in [Requests -> SendStatus \cup {"absent"}], Settle(status)
    PROVE  mem' = status /\ disk' = status
  <1>1. PICK written \in Writes(Changed(status)) : disk' = Rows(status, written)
    BY DEF Settle
  <1>2. \A r \in Requests : status[r] # disk[r] => r \in Changed(status)
    BY DEF Changed
  <1> QED BY <1>1, <1>2, RowsAreWhole DEF TypeOK, Settle

\* No step but a submit makes an entry pending.
LEMMA MirrorStays ==
    ASSUME IInv, LimitInv,
           ~StoreFaults =>
              /\ up' => disk' = mem'
              /\ \A r \in Requests : disk'[r] = "pending" => disk[r] = "pending"
    PROVE  MirrorInv'
  <1>1. Outstanding(disk) \subseteq issued
    BY DEF IInv, LifeInv, Outstanding
  <1>2. ASSUME ~StoreFaults PROVE Cardinality(Outstanding(disk')) <= MaxOutstanding
    <2>1. PICK S, T : S = Outstanding(disk') /\ T = Outstanding(disk)
      OBVIOUS
    <2>2. S \subseteq T
      BY <1>2, <2>1 DEF Outstanding
    <2>3. IsFiniteSet(T) /\ Cardinality(T) <= MaxOutstanding
      BY <1>1, <1>2, <2>1, SubsetIs DEF LimitInv, MirrorInv
    <2>4. Cardinality(S) <= Cardinality(T) /\ Cardinality(S) \in Nat /\ Cardinality(T) \in Nat
      BY <2>2, <2>3, SubsetIs
    <2> QED BY <2>1, <2>3, <2>4, GateAssumption
  <1> QED BY <1>2 DEF MirrorInv, Outstanding

LEMMA MirrorGrows ==
    ASSUME IInv, LimitInv, up, Admits, NEW r \in Requests,
           ~StoreFaults =>
              /\ disk' = [Swept(mem) EXCEPT ![r] = "pending"]
              /\ up' => mem' = disk'
    PROVE  MirrorInv'
  <1> SUFFICES ASSUME ~StoreFaults
               PROVE  /\ up' => disk' = mem'
                      /\ Cardinality(Outstanding(disk')) <= MaxOutstanding
    BY DEF MirrorInv, Outstanding
  <1>1. PICK S, T : S = Outstanding(disk') /\ T = Outstanding(Swept(mem))
    OBVIOUS
  <1>2. Swept(mem) \in [Requests -> SendStatus \cup {"absent"}]
    BY SweptType DEF IInv, TypeOK
  <1>3. T \subseteq issued
    BY <1>1 DEF IInv, LifeInv, TypeOK, Outstanding, Swept
  <1>4. IsFiniteSet(T) /\ Cardinality(T) \in Nat /\ Cardinality(T) < MaxOutstanding
    BY <1>1, <1>3, SubsetIs DEF LimitInv, Admits
  <1>5. S \subseteq T \cup {r}
    BY <1>1, <1>2 DEF Outstanding
  <1>6. IsFiniteSet(T \cup {r}) /\ Cardinality(T \cup {r}) <= Cardinality(T) + 1
    <2>1. /\ IsFiniteSet(T \cup {r})
          /\ Cardinality(T \cup {r}) = IF r \in T THEN Cardinality(T) ELSE Cardinality(T) + 1
      BY <1>4, FS_AddElement, Zenon
    <2> QED BY <1>4, <2>1
  <1>7. /\ Cardinality(S) <= Cardinality(T \cup {r})
        /\ Cardinality(S) \in Nat /\ Cardinality(T \cup {r}) \in Nat
    BY <1>5, <1>6, SubsetIs
  <1> QED BY <1>1, <1>4, <1>6, <1>7, GateAssumption

LEMMA MirrorStep == ASSUME IInv, LimitInv, [Next]_vars PROVE MirrorInv'
  <1>1. /\ TypeOK /\ MirrorInv
        /\ mem \in [Requests -> SendStatus \cup {"absent"}]
        /\ disk \in [Requests -> SendStatus \cup {"absent"}]
    BY DEF IInv, TypeOK, LimitInv
  <1>2. Swept(mem) \in [Requests -> SendStatus \cup {"absent"}]
    BY <1>1, SweptType
  <1>3. \A r \in Requests : Swept(mem)[r] = "pending" => mem[r] = "pending"
    BY DEF Swept
  \* What a step settles that makes nothing pending.
  <1>4. ASSUME NEW status \in [Requests -> SendStatus \cup {"absent"}], up,
               Settle(status), \A r \in Requests : status[r] = "pending" => mem[r] = "pending"
        PROVE  MirrorInv'
    BY <1>1, <1>4, SettleIsWhole, MirrorStays DEF MirrorInv
  <1>5. CASE SubmitRefused \/ IgnoreTap \/ GetStatus
    BY <1>2, <1>3, <1>4, <1>5 DEF SubmitRefused, IgnoreTap, TakesTap, LoopFree, GetStatus
  <1>6. ASSUME NEW q \in Requests, NEW st \in SendStatus \ {"pending"}, up, Decide(q, st)
        PROVE  MirrorInv'
    <2>1. PICK after : after = [Swept(mem) EXCEPT ![q] = st]
      OBVIOUS
    <2>2. after \in [Requests -> SendStatus \cup {"absent"}]
      BY <1>2, <2>1
    <2>3. Settle(after)
      BY <1>6, <2>1 DEF Decide, Settle
    <2>4. \A r \in Requests : after[r] = "pending" => mem[r] = "pending"
      BY <1>2, <1>3, <2>1
    <2> QED BY <1>4, <1>6, <2>2, <2>3, <2>4
  <1>7. CASE Approve \/ Reject
    <2>1. up /\ NextTap.req \in Requests
      BY <1>7, NextTapType DEF Approve, Reject, TakesTap, LoopFree, IInv
    <2>2. Decide(NextTap.req, "sending") \/ Decide(NextTap.req, "rejected")
      BY <1>7 DEF Approve, Reject
    <2> QED BY <1>6, <2>1, <2>2 DEF SendStatus
  <1>8. ASSUME NEW r \in Requests, SendOk(r) \/ SendFails(r)
        PROVE  MirrorInv'
    <2>1. PICK st \in {"sent", "failed"} : SendReturns(r, st)
      BY <1>8 DEF SendOk, SendFails
    <2>2. up
      BY <1>8 DEF SendOk, SendFails, IInv, LifeInv
    <2>3. PICK status : status = [mem EXCEPT ![r] = st]
      OBVIOUS
    <2>4. status \in [Requests -> SendStatus \cup {"absent"}]
      BY <1>1, <2>3 DEF SendStatus
    <2>5. Swept(status) \in [Requests -> SendStatus \cup {"absent"}]
      BY <2>4, SweptType
    <2>6. \A q \in Requests : Swept(status)[q] = "pending" => mem[q] = "pending"
      BY <1>1, <2>3 DEF Swept
    <2>7. Settle(Swept(status))
      BY <2>1, <2>3 DEF SendReturns
    <2> QED BY <1>4, <2>2, <2>5, <2>6, <2>7
  <1>9. ASSUME NEW r \in Requests, PostFails(r)
        PROVE  MirrorInv'
    <2>1. up /\ mem' = [mem EXCEPT ![r] = "failed"]
      BY <1>9 DEF PostFails, IInv, LifeInv
    <2>2. PICK written \in Writes({r}) : disk' = Rows(mem', written)
      BY <1>9 DEF PostFails
    <2>3. mem' \in [Requests -> SendStatus \cup {"absent"}]
      BY <1>1, <2>1 DEF SendStatus
    <2>4. ~StoreFaults => \A q \in Requests : mem'[q] # disk[q] => q \in {r}
      BY <1>1, <2>1 DEF MirrorInv
    <2>5. ~StoreFaults => disk' = mem'
      BY <1>1, <2>2, <2>3, <2>4, RowsAreWhole
    <2> QED BY <1>1, <2>1, <2>5, MirrorStays DEF MirrorInv
  <1>10. CASE Restart
    <2>1. Hydrated \in [Requests -> SendStatus \cup {"absent"}]
      BY <1>1 DEF Hydrated, SendStatus
    <2>2. PICK status : status = Swept(Hydrated)
      OBVIOUS
    <2>3. status \in [Requests -> SendStatus \cup {"absent"}]
      BY <2>1, <2>2, SweptType
    <2>4. PICK written \in Writes({r \in Requests : status[r] # disk[r]}) :
             disk' = Rows(status, written)
      BY <1>10, <2>2 DEF Restart
    <2>5. ~StoreFaults => disk' = status
      BY <1>1, <2>3, <2>4, RowsAreWhole
    <2>6. \A r \in Requests : status[r] = "pending" => disk[r] = "pending"
      BY <2>2 DEF Swept, Hydrated
    <2> QED BY <1>10, <2>2, <2>5, <2>6, MirrorStays DEF Restart
  <1>11. ASSUME NEW r \in Requests, Submit(r) \/ KilledInSubmit(r)
         PROVE  MirrorInv'
    <2>1. PICK status : status = [Swept(mem) EXCEPT ![r] = "pending"]
      OBVIOUS
    <2>2. status \in [Requests -> SendStatus \cup {"absent"}]
      BY <1>2, <2>1 DEF SendStatus
    <2>3. up /\ Admits
      BY <1>11 DEF Submit, KilledInSubmit, Dies
    <2>4. \/ Settle(status)
          \/ ~up' /\ \E written \in {Changed(status)} : disk' = Rows(status, written)
      BY <1>11, <2>1 DEF Submit, KilledInSubmit, Dies
    <2>5. ~StoreFaults => /\ \A q \in Requests : status[q] # disk[q] => q \in Changed(status)
                          /\ Writes(Changed(status)) = {Changed(status)}
      BY <1>1, <2>3 DEF Changed, MirrorInv, Writes
    <2>6. ~StoreFaults => /\ disk' = status
                          /\ up' => mem' = disk'
      BY <1>1, <2>2, <2>4, <2>5, RowsAreWhole DEF Settle
    <2> QED BY <2>1, <2>3, <2>6, MirrorGrows
  <1>12. ASSUME \/ UNCHANGED <<mem, disk>> /\ (up' => up)
                \/ ~up' /\ disk' = disk
         PROVE  MirrorInv'
    BY <1>1, <1>12, MirrorStays DEF MirrorInv
  <1>13. CASE Crash
    BY <1>12, <1>13 DEF Crash, Dies
  <1>14. ASSUME NEW r \in Requests,
                \/ PostDelivered(r) \/ PostOk(r)
                \/ ProviderAccepts(r) \/ ProviderRefuses(r) \/ OrphanDelivers(r)
                \/ \E verb \in Verbs, who \in Tappers : Tap(r, verb, who)
         PROVE  MirrorInv'
    BY <1>12, <1>14 DEF PostDelivered, PostOk, ProviderAccepts, ProviderRefuses,
                        OrphanDelivers, Tap, clockVars
  <1>15. CASE Poll \/ DropBatch \/ Tick \/ UNCHANGED vars
    BY <1>12, <1>15 DEF Poll, DropBatch, Tick, vars, clockVars
  <1> QED BY <1>5, <1>7, <1>8, <1>9, <1>10, <1>11, <1>13, <1>14, <1>15 DEF Next

\* No hour has more submits than its limit allows, and no more requests are open
\* than theirs, through kills and restarts: what submit counts in memory is never
\* less than what the store knows.
THEOREM LimitsHold == Spec => []WithinLimits
  <1>1. Init => LimitInv
    <2> SUFFICES ASSUME Init PROVE LimitInv
      OBVIOUS
    <2>1. /\ issued = {} /\ untimed = {} /\ times = {} /\ diskTimes = {} /\ now = 0 /\ up
          /\ disk = mem /\ \A r \in Requests : disk[r] = "absent"
      BY DEF Init
    <2>2. Outstanding(disk) = {} /\ \A t \in 0..now : Window(t) = {}
      BY <2>1 DEF Outstanding, Window
    <2> QED BY <2>1, <2>2, FS_EmptySet, GateAssumption DEF LimitInv, WindowInv, MirrorInv
  <1>2. IInv /\ LimitInv /\ [Next]_vars => LimitInv'
    BY RateStep, MirrorStep DEF LimitInv
  <1>3. IInv /\ LimitInv => WithinLimits
    <2> SUFFICES ASSUME IInv, LimitInv PROVE WithinLimits
      OBVIOUS
    <2>1. ASSUME ~StoreFaults PROVE Cardinality(Outstanding(mem)) <= MaxOutstanding
      <3>1. CASE up
        BY <2>1, <3>1 DEF LimitInv, MirrorInv
      <3>2. CASE ~up
        <4>1. Outstanding(mem) = {}
          BY <3>2 DEF IInv, LifeInv, Outstanding
        <4> QED BY <4>1, FS_EmptySet, GateAssumption
      <3> QED BY <3>1, <3>2
    <2> QED BY <2>1 DEF LimitInv, WindowInv, Window, WithinLimits
  <1> QED BY <1>1, <1>2, <1>3, Invariance, PTL DEF Spec

\* An approval counts only before the request expires: decide sweeps first.
THEOREM NoLateSend == Spec => NoSendAfterExpiry
  <1>1. IInv /\ [Next]_vars =>
          \A r \in Requests : approvals'[r] > approvals[r] => now < created[r] + TTL
    <2> SUFFICES ASSUME IInv, [Next]_vars, NEW r \in Requests, approvals'[r] > approvals[r]
                 PROVE  now < created[r] + TTL
      OBVIOUS
    <2>1. /\ approvals \in [Requests -> Nat] /\ created \in [Requests -> Nat] /\ now \in Nat
          /\ TTL \in Nat
      BY GateAssumption DEF IInv, TypeOK
    <2>2. CASE Approve
      <3>1. NextTap.req = r /\ Swept(mem)[r] = "pending"
        BY <2>1, <2>2 DEF Approve, Decides
      <3>2. ~(now >= created[r] + TTL)
        BY <3>1 DEF Swept
      <3> QED BY <2>1, <3>2
    <2>3. CASE approvals' = approvals
      BY <2>1, <2>3
    <2>4. ASSUME NEW q \in Requests,
                 \/ PostDelivered(q) \/ PostOk(q) \/ PostFails(q) \/ Submit(q)
                 \/ ProviderAccepts(q) \/ ProviderRefuses(q) \/ KilledInSubmit(q)
                 \/ SendOk(q) \/ SendFails(q) \/ OrphanDelivers(q)
                 \/ \E verb \in Verbs, who \in Tappers : Tap(q, verb, who)
          PROVE  approvals' = approvals
      BY <2>4 DEF PostDelivered, PostOk, PostFails, Submit, ProviderAccepts, ProviderRefuses,
                  KilledInSubmit, Dies, SendOk, SendFails, SendReturns, OrphanDelivers, Tap,
                  decideVars
    <2>5. CASE \/ SubmitRefused \/ Poll \/ Reject \/ IgnoreTap \/ DropBatch \/ GetStatus
               \/ Tick \/ Crash \/ Restart \/ UNCHANGED vars
      BY <2>3, <2>5 DEF SubmitRefused, Poll, Reject, IgnoreTap, DropBatch, GetStatus, Tick,
                        Crash, Dies, Restart, vars, decideVars
    <2> QED BY <2>2, <2>3, <2>4, <2>5 DEF Next
  <1> QED BY <1>1, Invariance, PTL DEF Spec, NoSendAfterExpiry
=============================================================================
