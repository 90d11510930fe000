-------------------------- MODULE AdvisorPageProofs -------------------------
(***************************************************************************)
(* Proofs about AdvisorPage, for any messages and any number of            *)
(* submissions, changes of track, clears, stops and lost connections: what *)
(* the page shows, and that flagged text leaves the university only with   *)
(* the advisor's consent.                                                  *)
(***************************************************************************)
EXTENDS AdvisorPage, FiniteSetTheorems, TLAPS

-----------------------------------------------------------------------------
(* The inductive invariant. *)

\* The host has decided to run the text.
Begun == {"waits", "runs", "answered", "aborted", "failed"}

Consented(c) ==
    c.pc \in Begun /\ c.session[1] = "openai" /\ c.text.flagged => c.consent

\* A message that is waited for has a request, dots belong to such a message,
\* answers to one that is over, and the buttons ask for a message that is waited for.
Waits ==
    /\ \A n \in Submissions : chat[n].heard => chat[n].pc \notin {"unsent", "over"}
    /\ \A a \in pane : /\ a.kind = "thinking" => chat[a.of].heard
                       /\ a.kind = "answer" => chat[a.of].pc = "over"
    /\ sendOn \/ Waiting # {}
    /\ stopOn => Waiting # {}

Echo(n, kind) == [of |-> n, kind |-> kind, track |-> banner]

\* A clear or a change of track has been asked for alone.
Alone(requests, i, others_) ==
    /\ Open(chat) = {} /\ stops = 0
    /\ Open(others_) = {} /\ Open(requests) = {i}

\* The host has cleared the track, the page has not heard of it.
Cleared(m) == m = banner /\ \E i \in 1 .. Clears : clear[i].pc = "cleared"

Pending(m) == {n \in Submissions : m = banner /\ chat[n].pc = "answered"}

\* Each submission under way is shown, and runs in the session the page shows.
ChatsShown ==
    \A n \in Open(chat) :
        /\ chat[n].heard
        /\ Echo(n, "you") \in pane /\ Echo(n, "thinking") \in pane
        /\ chat[n].pc \in Begun => chat[n].session = Session(banner)

ControlsAlone ==
    /\ \A i \in Open(switch) : Alone(switch, i, clear)
    /\ \A i \in Open(clear) : Alone(clear, i, switch)

TracksAgree ==
    /\ \A i \in 1 .. Switches : switch[i].pc = "switched" => active = switch[i].to
    /\ (\A i \in 1 .. Switches : switch[i].pc # "switched") => banner = active

HistoryShown ==
    \A m \in Modes :
        /\ history[m] \subseteq Shown("you", m)
        /\ history[m] = IF Cleared(m) THEN {} ELSE Shown("answer", m) \cup Pending(m)

\* What holds of the page while the advisor waits and no connection is lost.
Settled == ChatsShown /\ ControlsAlone /\ TracksAgree /\ HistoryShown

\* The clears still to come.
Left == {i \in 1 .. Clears : clear[i].pc \in {"unsent", "net", "waits"}}

Counted == cleared["private"] + cleared["openai"] + Cardinality(Left) <= Clears

\* A change of track that is under way leads somewhere.
Bound == \A i \in 1 .. Switches : switch[i].pc \in {"net", "switched"} => switch[i].to \in Modes

\* A stop was counted when it was sent.
Tallied == stops <= others

Typed == TypeOK /\ Counted /\ Bound /\ Tallied

PageInv ==
    /\ Typed
    /\ \A n \in Submissions : Consented(chat[n])
    /\ Waits
    /\ calm => Settled

-----------------------------------------------------------------------------
(* Types *)

Text == [flagged : BOOLEAN, shape : TextShape]

LEMMA Constants ==
    /\ Submits \in Nat /\ Switches \in Nat /\ Clears \in Nat /\ Others \in Nat
    /\ Texts \subseteq Text /\ Nil \notin Text
    /\ \A n \in Submissions : n \in Nat /\ n # 0
BY PageAssumption DEF Text, Submissions

LEMMA NothingLeft ==
    /\ \A pc \in {"unsent", "over"} : NoChat(pc) \in ChatState
    /\ \A pc \in {"unsent", "cleared", "over"} : NoClear(pc) \in ClearState
    /\ \A pc \in {"unsent", "over"} : [pc |-> pc, to |-> Nil] \in SwitchState
BY DEF NoChat, NoClear, ChatState, ClearState, SwitchState

\* One submission's request changes.
LEMMA ChatUpdate ==
    ASSUME TypeOK, NEW n \in Submissions, NEW c \in ChatState,
           chat' = [chat EXCEPT ![n] = c]
    PROVE  /\ chat' \in [Submissions -> ChatState]
           /\ chat'[n] = c
           /\ \A k \in Submissions \ {n} : chat'[k] = chat[k]
BY DEF TypeOK

\* Nothing of a request but its abort flag changes.
Alike(c, d) ==
    /\ c.pc = d.pc /\ c.heard = d.heard /\ c.text = d.text
    /\ c.consent = d.consent /\ c.session = d.session

LEMMA AbortIs ==
    ASSUME TypeOK, NEW n \in Submissions
    PROVE  /\ Abort(n) \in [Submissions -> ChatState]
           /\ \A k \in Submissions : Alike(chat[k], Abort(n)[k])
<1>1. chat \in [Submissions -> ChatState]
  BY DEF TypeOK
<1>2. ASSUME NEW c \in ChatState
      PROVE  [c EXCEPT !.aborted = TRUE] \in ChatState /\ Alike(c, [c EXCEPT !.aborted = TRUE])
  BY DEF ChatState, Alike
<1>3. Abort(n) = [chat EXCEPT ![n] = [chat[n] EXCEPT !.aborted = TRUE]]
  BY DEF Abort
<1>4. \A c \in ChatState : Alike(c, c)
  BY DEF Alike
<1> HIDE DEF ChatState
<1> QED
  BY <1>1, <1>2, <1>3, <1>4

LEMMA SessionType ==
    ASSUME TypeOK
    PROVE  \A m \in Modes : Session(m) \in Sessions /\ Session(m)[1] = m
BY DEF TypeOK, Session, Sessions

LEMMA InitType == Init => Typed
<1> SUFFICES ASSUME Init
             PROVE  Typed
  OBVIOUS
<1>1. TypeOK
  <2>1. /\ banner \in Modes /\ active \in Modes /\ pane \subseteq Article /\ box = Nil
        /\ history \in [Modes -> SUBSET Submissions]
        /\ inFlight \in [Sessions -> Submissions \cup {0}]
    BY DEF Init, Modes
  <2>2. {acked, sendOn, stopOn, calm} \subseteq BOOLEAN
    BY DEF Init
  <2>3. /\ chat \in [Submissions -> ChatState]
        /\ switch \in [1 .. Switches -> SwitchState]
        /\ clear \in [1 .. Clears -> ClearState]
    BY NothingLeft DEF Init
  <2>4. 0 \in 0 .. Others /\ 0 \in 0 .. Clears
    BY Constants
  <2>5. stops \in 0 .. Others /\ others \in 0 .. Others /\ cleared \in [Modes -> 0 .. Clears]
    BY <2>4 DEF Init
  <2> QED
    BY <2>1, <2>2, <2>3, <2>5 DEF TypeOK
<1>2. Left = 1 .. Clears
  BY DEF Init, Left, NoClear
<1>3. Cardinality(Left) = Clears
  BY <1>2, Constants, FS_Interval
<1>4. Counted
  BY <1>3, Constants DEF Init, Counted, Modes
<1>5. Bound
  BY DEF Init, Bound
<1>6. Tallied
  BY DEF Init, Tallied
<1> QED
  BY <1>1, <1>4, <1>5, <1>6 DEF Typed

-----------------------------------------------------------------------------
(* What the steps of a submission do to the requests *)

\* The request of submission n becomes c; another turn may be aborted meanwhile.
Turns(n, c) ==
    /\ chat' \in [Submissions -> ChatState]
    /\ chat'[n] = c
    /\ \A k \in Submissions \ {n} : Alike(chat[k], chat'[k])

\* The request has left the page, its text stays what it is.
Carries(c, d) == d.heard = c.heard /\ d.text = c.text /\ d.consent = c.consent

LEMMA OneTurns ==
    ASSUME TypeOK, NEW n \in Submissions, NEW c \in ChatState,
           chat' = [chat EXCEPT ![n] = c]
    PROVE  Turns(n, c)
BY ChatUpdate DEF Turns, Alike

LEMMA SubmitMoves ==
    ASSUME TypeOK, NEW n \in Submissions, Submit(n)
    PROVE  \E c \in ChatState :
             /\ Turns(n, c)
             /\ c.pc = "net" /\ c.heard /\ c.text = box /\ chat[n].pc = "unsent"
<1> DEFINE c == [chat[n] EXCEPT !.pc = "net", !.heard = TRUE, !.text = box]
<1>1. chat[n] \in ChatState /\ box \in [flagged : BOOLEAN, shape : TextShape]
  BY DEF TypeOK, Submit
<1>2. c \in ChatState /\ c.pc = "net" /\ c.heard /\ c.text = box
  BY <1>1 DEF ChatState
<1>3. chat' = [chat EXCEPT ![n] = c] /\ chat[n].pc = "unsent"
  BY DEF Submit, Next1
<1> HIDE DEF c
<1> QED
  BY <1>2, <1>3, OneTurns

LEMMA ArrivesMoves ==
    ASSUME TypeOK, NEW n \in Submissions, ChatArrives(n)
    PROVE  /\ inFlight' \in [Sessions -> Submissions \cup {0}]
           /\ chat[n].pc = "net"
           /\ \E c \in ChatState :
                /\ Turns(n, c) /\ Carries(chat[n], c)
                /\ c.pc \in {"asked", "waits", "runs"}
                /\ c.pc # "asked" =>
                     /\ c.session = Session(active)
                     /\ ~Refused(chat[n].text, active, chat[n].consent)
<1> DEFINE s == Session(active)
           prior == inFlight[s]
           asked == [chat[n] EXCEPT !.pc = "asked"]
           runs == [chat[n] EXCEPT !.pc = "runs", !.session = s]
           waits == [chat[n] EXCEPT !.pc = "waits", !.session = s, !.prior = prior]
<1>1. /\ chat[n] \in ChatState /\ s \in Sessions /\ prior \in Submissions \cup {0}
      /\ chat \in [Submissions -> ChatState] /\ inFlight \in [Sessions -> Submissions \cup {0}]
      /\ chat[n].pc = "net"
  BY SessionType DEF TypeOK, ChatArrives
<1>2. /\ asked \in ChatState /\ Carries(chat[n], asked) /\ asked.pc = "asked"
      /\ runs \in ChatState /\ Carries(chat[n], runs) /\ runs.pc = "runs" /\ runs.session = s
      /\ waits \in ChatState /\ Carries(chat[n], waits) /\ waits.pc = "waits"
      /\ waits.session = s
  BY <1>1 DEF ChatState, Carries, Replies
<1>3. CASE Refused(chat[n].text, active, chat[n].consent)
  <2>1. chat' = [chat EXCEPT ![n] = asked] /\ inFlight' = inFlight
    BY <1>3 DEF ChatArrives
  <2> HIDE DEF asked
  <2> QED
    BY <1>1, <1>2, <2>1, OneTurns
<1>4. CASE ~Refused(chat[n].text, active, chat[n].consent) /\ prior = 0
  <2>1. chat' = [chat EXCEPT ![n] = runs] /\ inFlight' = [inFlight EXCEPT ![s] = n]
    BY <1>4 DEF ChatArrives, StartTurn
  <2> HIDE DEF runs, s
  <2>2. inFlight' \in [Sessions -> Submissions \cup {0}]
    BY <1>1, <2>1
  <2> QED
    BY <1>1, <1>2, <1>4, <2>1, <2>2, OneTurns DEF s
<1>5. CASE ~Refused(chat[n].text, active, chat[n].consent) /\ prior # 0
  <2>1. /\ chat' = [Abort(prior) EXCEPT ![n].pc = "waits", ![n].session = s, ![n].prior = prior]
        /\ inFlight' = inFlight
    BY <1>5 DEF ChatArrives
  <2> HIDE DEF s, prior
  <2> DEFINE w == [Abort(prior)[n] EXCEPT !.pc = "waits", !.session = s, !.prior = prior]
  <2>2. /\ Abort(prior) \in [Submissions -> ChatState] /\ prior \in Submissions
        /\ \A k \in Submissions : Alike(chat[k], Abort(prior)[k])
    BY <1>1, <1>5, AbortIs
  <2>3. chat' = [Abort(prior) EXCEPT ![n] = w]
    BY <2>1
  <2>4. /\ w \in ChatState /\ Carries(chat[n], w) /\ w.pc = "waits" /\ w.session = s
    BY <1>1, <2>2 DEF ChatState, Carries, Alike
  <2> HIDE DEF w
  <2>5. Turns(n, w)
    BY <2>2, <2>3, <2>4 DEF Turns
  <2> QED
    BY <1>1, <1>5, <2>1, <2>4, <2>5 DEF s
<1> QED
  BY <1>3, <1>4, <1>5

LEMMA WakesMoves ==
    ASSUME TypeOK, NEW n \in Submissions, ChatWakes(n)
    PROVE  /\ inFlight' \in [Sessions -> Submissions \cup {0}]
           /\ chat[n].pc = "waits"
           /\ \E c \in ChatState :
                /\ Turns(n, c) /\ Carries(chat[n], c)
                /\ c.pc = "runs" /\ c.session = chat[n].session
<1> DEFINE c == [chat[n] EXCEPT !.pc = "runs", !.session = chat[n].session]
<1>1. /\ chat[n] \in ChatState /\ inFlight \in [Sessions -> Submissions \cup {0}]
      /\ chat[n].pc = "waits"
  BY DEF TypeOK, ChatWakes
<1>2. /\ c \in ChatState /\ Carries(chat[n], c) /\ c.pc = "runs"
      /\ c.session = chat[n].session
  BY <1>1 DEF ChatState, Carries
<1>3. /\ chat' = [chat EXCEPT ![n] = c]
      /\ inFlight' = [inFlight EXCEPT ![chat[n].session] = n]
  BY DEF ChatWakes, StartTurn
<1> HIDE DEF c
<1>4. inFlight' \in [Sessions -> Submissions \cup {0}]
  BY <1>1, <1>3
<1> QED
  BY <1>1, <1>2, <1>3, <1>4, OneTurns

LEMMA EndMoves ==
    ASSUME TypeOK, NEW n \in Submissions, EndTurn(n)
    PROVE  /\ inFlight' \in [Sessions -> Submissions \cup {0}]
           /\ chat[n].pc = "runs"
           /\ \E c \in ChatState, outcome \in {"answered", "failed", "aborted"} :
                /\ Turns(n, c)
                /\ IF chat[n].heard
                     THEN /\ Carries(chat[n], c) /\ c.pc = outcome
                          /\ c.session = chat[n].session
                     ELSE c.pc = "over" /\ ~c.heard
                /\ LET m == chat[n].session[1] IN
                   history' = IF outcome = "answered" /\ chat[n].session = Session(m)
                                THEN [history EXCEPT ![m] = @ \cup {n}] ELSE history
<1>1. /\ chat[n] \in ChatState /\ inFlight \in [Sessions -> Submissions \cup {0}]
      /\ chat[n].pc = "runs"
  BY DEF TypeOK, EndTurn
<1>2. PICK outcome \in {"answered", "failed", "aborted"} :
        /\ chat' = [chat EXCEPT ![n] = IF chat[n].heard THEN [chat[n] EXCEPT !.pc = outcome]
                                                        ELSE NoChat("over")]
        /\ history' = IF /\ outcome = "answered"
                         /\ chat[n].session = Session(chat[n].session[1])
                        THEN [history EXCEPT ![chat[n].session[1]] = @ \cup {n}] ELSE history
  BY DEF EndTurn
<1>3. inFlight' \in [Sessions -> Submissions \cup {0}]
  <2>1. inFlight' = inFlight \/ inFlight' = [inFlight EXCEPT ![chat[n].session] = 0]
    BY DEF EndTurn
  <2> QED
    BY <1>1, <2>1
<1>4. CASE chat[n].heard
  <2> DEFINE c == [chat[n] EXCEPT !.pc = outcome]
  <2>1. c \in ChatState /\ Carries(chat[n], c) /\ c.pc = outcome /\ c.session = chat[n].session
    BY <1>1 DEF ChatState, Carries, Replies
  <2>2. chat' = [chat EXCEPT ![n] = c]
    BY <1>2, <1>4
  <2> HIDE DEF c
  <2> QED
    BY <1>1, <1>2, <1>3, <1>4, <2>1, <2>2, OneTurns
<1>5. CASE ~chat[n].heard
  <2>1. /\ NoChat("over") \in ChatState
        /\ NoChat("over").pc = "over" /\ ~NoChat("over").heard
    BY NothingLeft DEF NoChat
  <2>2. chat' = [chat EXCEPT ![n] = NoChat("over")]
    BY <1>2, <1>5
  <2> QED
    BY <1>1, <1>2, <1>3, <1>5, <2>1, <2>2, OneTurns
<1> QED
  BY <1>4, <1>5

\* The page has the answer, or takes the message back.
LEMMA OverMoves ==
    ASSUME TypeOK, NEW n \in Submissions, Over(n)
    PROVE  \E c \in ChatState : Turns(n, c) /\ c.pc = "over" /\ ~c.heard
<1>1. NoChat("over") \in ChatState /\ NoChat("over").pc = "over" /\ ~NoChat("over").heard
  BY NothingLeft DEF NoChat
<1> QED
  BY <1>1, OneTurns DEF Over

LEMMA ConfirmMoves ==
    ASSUME TypeOK, NEW n \in Submissions, Confirm(n)
    PROVE  \E c \in ChatState :
             Turns(n, c) /\ c.pc = "net" /\ c.heard = chat[n].heard /\ chat[n].pc = "asked"
<1> DEFINE c == [chat[n] EXCEPT !.pc = "net", !.consent = TRUE]
<1>1. chat[n] \in ChatState
  BY DEF TypeOK
<1>2. c \in ChatState /\ c.pc = "net" /\ c.heard = chat[n].heard
  BY <1>1 DEF ChatState
<1>3. chat' = [chat EXCEPT ![n] = c] /\ chat[n].pc = "asked"
  BY DEF Confirm
<1> HIDE DEF c
<1> QED
  BY <1>2, <1>3, OneTurns

LEMMA LoseMoves ==
    ASSUME TypeOK, NEW n \in Submissions, Lose(n)
    PROVE  \E c \in ChatState :
             /\ Turns(n, c) /\ ~c.heard
             /\ \/ c.pc = "over"
                \/ /\ c.pc = chat[n].pc /\ c.text = chat[n].text
                   /\ c.consent = chat[n].consent /\ c.session = chat[n].session
<1>1. chat[n] \in ChatState
  BY DEF TypeOK
<1>2. CASE Over(n)
  BY <1>2, OverMoves
<1>3. CASE ~Over(n)
  <2> DEFINE c == [chat[n] EXCEPT !.heard = FALSE,
                                  !.aborted = chat[n].aborted \/ chat[n].pc = "runs"]
  <2>1. /\ c \in ChatState /\ ~c.heard /\ c.pc = chat[n].pc /\ c.text = chat[n].text
        /\ c.consent = chat[n].consent /\ c.session = chat[n].session
    BY <1>1 DEF ChatState
  <2>2. chat' = [chat EXCEPT ![n] = c]
    BY <1>3 DEF Lose
  <2> HIDE DEF c
  <2> QED
    BY <2>1, <2>2, OneTurns
<1> QED
  BY <1>2, <1>3

-----------------------------------------------------------------------------
(* What the steps of a clear do *)

LEMMA LeftFinite ==
    /\ IsFiniteSet(Left) /\ Cardinality(Left) \in Nat
    /\ Left \subseteq 1 .. Clears
<1>1. IsFiniteSet(1 .. Clears) /\ Left \subseteq 1 .. Clears
  BY Constants, FS_Interval DEF Left
<1> QED
  BY <1>1, FS_Subset, FS_CardinalityType

\* Clear i becomes d.
ClearBecomes(i, d) ==
    /\ clear' \in [1 .. Clears -> ClearState]
    /\ clear'[i] = d
    /\ \A j \in (1 .. Clears) \ {i} : clear'[j] = clear[j]

LEMMA ClearUpdate ==
    ASSUME TypeOK, NEW i \in 1 .. Clears, NEW d \in ClearState,
           clear' = [clear EXCEPT ![i] = d]
    PROVE  ClearBecomes(i, d)
BY DEF TypeOK, ClearBecomes

\* A clear that does not clear leaves the count as it is, or smaller.
LEMMA CountStays ==
    ASSUME TypeOK, Counted, cleared' = cleared, Left' \subseteq Left
    PROVE  Counted'
<1>1. Cardinality(Left') <= Cardinality(Left) /\ Cardinality(Left') \in Nat
  BY LeftFinite, FS_Subset, FS_CardinalityType
<1>2. /\ cleared["private"] \in Nat /\ cleared["openai"] \in Nat /\ Clears \in Nat
      /\ Cardinality(Left) \in Nat
  BY LeftFinite, Constants DEF TypeOK, Modes
<1> QED
  BY <1>1, <1>2 DEF Counted

LEMMA ClearActiveMoves ==
    ASSUME TypeOK, Counted, NEW i \in Left, ClearActive(i)
    PROVE  /\ cleared' \in [Modes -> 0 .. Clears] /\ Counted'
           /\ cleared' = [cleared EXCEPT ![active] = @ + 1]
           /\ history' = [history EXCEPT ![active] = {}]
           /\ history' \in [Modes -> SUBSET Submissions]
           /\ \E d \in ClearState : ClearBecomes(i, d) /\ d.pc = "cleared"
<1>1. /\ i \in 1 .. Clears /\ active \in Modes /\ Clears \in Nat
      /\ cleared \in [Modes -> 0 .. Clears] /\ history \in [Modes -> SUBSET Submissions]
  BY LeftFinite, Constants DEF TypeOK
<1>2. /\ NoClear("cleared") \in ClearState /\ NoClear("cleared").pc = "cleared"
      /\ ClearBecomes(i, NoClear("cleared"))
  BY <1>1, NothingLeft, ClearUpdate DEF ClearActive, NoClear
<1>3. /\ cleared' = [cleared EXCEPT ![active] = @ + 1]
      /\ history' = [history EXCEPT ![active] = {}]
  BY DEF ClearActive
<1>4. Left' = Left \ {i}
  BY <1>1, <1>2 DEF Left, ClearBecomes
<1>5. /\ Cardinality(Left') = Cardinality(Left) - 1
      /\ Cardinality(Left) \in Nat /\ Cardinality(Left') \in Nat
  BY <1>4, LeftFinite, FS_RemoveElement, FS_CardinalityType
<1>6. /\ cleared["private"] \in Nat /\ cleared["openai"] \in Nat
      /\ cleared["private"] + cleared["openai"] + Cardinality(Left) <= Clears
  BY <1>1 DEF Counted, Modes
<1>7. cleared[active] + 1 \in 0 .. Clears
  <2>1. active = "private" \/ active = "openai"
    BY <1>1 DEF Modes
  <2> QED
    BY <1>1, <1>5, <1>6, <2>1
<1>8. cleared' \in [Modes -> 0 .. Clears]
  BY <1>1, <1>3, <1>7
<1>9. cleared'["private"] + cleared'["openai"] = cleared["private"] + cleared["openai"] + 1
  <2>1. active = "private" \/ active = "openai"
    BY <1>1 DEF Modes
  <2> QED
    BY <1>1, <1>3, <1>6, <2>1 DEF Modes
<1>10. Counted'
  BY <1>1, <1>5, <1>6, <1>9 DEF Counted
<1>11. history' \in [Modes -> SUBSET Submissions]
  BY <1>1, <1>3
<1> QED
  BY <1>2, <1>3, <1>8, <1>10, <1>11

LEMMA ClearMoves ==
    ASSUME TypeOK, NEW i \in 1 .. Clears, Clear(i)
    PROVE  /\ clear[i].pc = "unsent"
           /\ \E d \in ClearState : ClearBecomes(i, d) /\ d.pc = "net"
<1> DEFINE d == [clear[i] EXCEPT !.pc = "net"]
<1>1. clear[i] \in ClearState /\ clear[i].pc = "unsent" /\ clear' = [clear EXCEPT ![i] = d]
  BY DEF TypeOK, Clear, Next1
<1>2. d \in ClearState /\ d.pc = "net"
  BY <1>1 DEF ClearState
<1> HIDE DEF d
<1> QED
  BY <1>1, <1>2, ClearUpdate

\* The host has the clear: it clears at once or waits for the turn it aborted.
LEMMA ClearArrivesMoves ==
    ASSUME TypeOK, Counted, NEW i \in 1 .. Clears, ClearArrives(i)
    PROVE  /\ clear[i].pc = "net" /\ i \in Left
           /\ \/ ClearActive(i) /\ chat' = chat
              \/ /\ chat' \in [Submissions -> ChatState]
                 /\ \A k \in Submissions : Alike(chat[k], chat'[k])
                 /\ \E d \in ClearState : ClearBecomes(i, d) /\ d.pc = "waits"
                 /\ UNCHANGED <<cleared, history>>
<1> DEFINE s == Session(active)
           prior == inFlight[s]
           d == [pc |-> "waits", session |-> s, prior |-> prior]
<1>1. s \in Sessions /\ prior \in Submissions \cup {0} /\ clear[i].pc = "net"
  BY SessionType DEF TypeOK, ClearArrives
<1>2. d \in ClearState /\ d.pc = "waits"
  BY <1>1 DEF ClearState
<1>3. CASE prior = 0
  BY <1>1, <1>3 DEF ClearArrives, Left
<1>4. CASE prior # 0
  <2>1. /\ chat' = Abort(prior) /\ clear' = [clear EXCEPT ![i] = d]
        /\ UNCHANGED <<cleared, history>>
    BY <1>4 DEF ClearArrives
  <2> HIDE DEF d
  <2>2. ClearBecomes(i, d)
    BY <1>2, <2>1, ClearUpdate
  <2> HIDE DEF prior
  <2> QED
    BY <1>1, <1>2, <1>4, <2>1, <2>2, AbortIs DEF Left
<1> QED
  BY <1>3, <1>4

LEMMA ClearOver ==
    ASSUME TypeOK, NEW i \in 1 .. Clears, clear' = [clear EXCEPT ![i] = NoClear("over")]
    PROVE  \E d \in ClearState : ClearBecomes(i, d) /\ d.pc = "over"
BY NothingLeft, ClearUpdate DEF NoClear

-----------------------------------------------------------------------------
(* What the steps of a change of track do *)

SwitchBecomes(i, d) ==
    /\ switch' \in [1 .. Switches -> SwitchState]
    /\ switch'[i] = d
    /\ \A j \in (1 .. Switches) \ {i} : switch'[j] = switch[j]

LEMMA SwitchUpdate ==
    ASSUME TypeOK, NEW i \in 1 .. Switches, NEW d \in SwitchState,
           switch' = [switch EXCEPT ![i] = d]
    PROVE  SwitchBecomes(i, d)
BY DEF TypeOK, SwitchBecomes

LEMMA SwitchMoves ==
    ASSUME TypeOK, NEW i \in 1 .. Switches, NEW m \in Modes, SwitchMode(i, m)
    PROVE  /\ switch[i].pc = "unsent"
           /\ \E d \in SwitchState : SwitchBecomes(i, d) /\ d.pc = "net" /\ d.to = m
<1>1. [pc |-> "net", to |-> m] \in SwitchState
  BY DEF SwitchState
<1> QED
  BY <1>1, SwitchUpdate DEF SwitchMode, Next1

LEMMA SwitchOver ==
    ASSUME TypeOK, NEW i \in 1 .. Switches,
           switch' = [switch EXCEPT ![i] = [pc |-> "over", to |-> Nil]]
    PROVE  \E d \in SwitchState : SwitchBecomes(i, d) /\ d.pc = "over"
BY NothingLeft, SwitchUpdate

LEMMA ModeMoves ==
    ASSUME Typed, NEW i \in 1 .. Switches, ModeArrives(i)
    PROVE  /\ switch[i].pc = "net" /\ active' \in Modes /\ active' = switch[i].to
           /\ \E d \in SwitchState :
                SwitchBecomes(i, d) /\ d.pc = "switched" /\ d.to = switch[i].to
<1> DEFINE d == [switch[i] EXCEPT !.pc = "switched"]
<1>1. /\ TypeOK /\ switch[i] \in SwitchState /\ switch[i].pc = "net"
      /\ switch' = [switch EXCEPT ![i] = d] /\ active' = switch[i].to
  BY DEF Typed, TypeOK, ModeArrives
<1>2. d \in SwitchState /\ d.pc = "switched" /\ d.to = switch[i].to
  BY <1>1 DEF SwitchState
<1>3. switch[i].to \in Modes
  BY <1>1 DEF Typed, Bound
<1> HIDE DEF d
<1> QED
  BY <1>1, <1>2, <1>3, SwitchUpdate

-----------------------------------------------------------------------------
(* The types are kept. *)

LEMMA BoundStays ==
    ASSUME Bound, NEW i \in 1 .. Switches, NEW d \in SwitchState, SwitchBecomes(i, d),
           d.pc \in {"net", "switched"} => d.to \in Modes
    PROVE  Bound'
BY DEF Bound, SwitchBecomes

LEMMA TypeStep ==
    ASSUME Typed, [Next]_vars
    PROVE  Typed'
<1>1. /\ TypeOK /\ Counted /\ Bound /\ Tallied
      /\ banner \in Modes /\ active \in Modes
      /\ {acked, sendOn, stopOn, calm} \subseteq BOOLEAN
      /\ box = Nil \/ box \in [flagged : BOOLEAN, shape : TextShape]
      /\ pane \subseteq Article
      /\ chat \in [Submissions -> ChatState]
      /\ switch \in [1 .. Switches -> SwitchState]
      /\ clear \in [1 .. Clears -> ClearState]
      /\ stops \in 0 .. Others
      /\ cleared \in [Modes -> 0 .. Clears]
      /\ history \in [Modes -> SUBSET Submissions]
      /\ inFlight \in [Sessions -> Submissions \cup {0}]
      /\ others \in 0 .. Others /\ Others \in Nat
  BY Constants DEF Typed, TypeOK
<1>2. (UNCHANGED <<cleared, clear>>) => Counted'
  BY <1>1, CountStays DEF Left
<1>3. /\ (UNCHANGED switch) => Bound'
      /\ (UNCHANGED <<stops, others>>) => Tallied'
  BY <1>1 DEF Bound, Tallied
<1>4. CASE Write \/ Dictate \/ Format
  <2>1. box' = Nil \/ box' \in [flagged : BOOLEAN, shape : TextShape]
    <3>1. CASE Write
      BY <3>1, Constants DEF Write, Text
    <3>2. CASE Dictate
      <4>1. (IF box = Nil THEN "plain" ELSE box.shape) \in TextShape
        BY <1>1 DEF TextShape
      <4>2. box' = [flagged |-> TRUE, shape |-> IF box = Nil THEN "plain" ELSE box.shape]
        BY <3>2 DEF Dictate
      <4> QED
        BY <4>1, <4>2
    <3>3. CASE Format
      <4>1. PICK f \in {FALSE, box.flagged} : box' = [flagged |-> f, shape |-> "plain"]
        BY <3>3 DEF Format
      <4>2. f \in BOOLEAN
        BY <1>1, <3>3 DEF Format
      <4> QED
        BY <4>1, <4>2 DEF TextShape
    <3> QED
      BY <1>4, <3>1, <3>2, <3>3
  <2>2. UNCHANGED <<banner, acked, pane, sendOn, stopOn, chat, switch, clear, stops, hostVars,
                    others, calm>>
    BY <1>4 DEF Write, Dictate, Format
  <2> QED
    BY <1>1, <1>2, <1>3, <2>1, <2>2 DEF Typed, TypeOK, hostVars
<1>5. ASSUME NEW n \in Submissions, Submit(n)
      PROVE  Typed'
  <2>1. chat' \in [Submissions -> ChatState]
    BY <1>1, <1>5, SubmitMoves DEF Turns
  <2>2. [of : {n}, kind : {"you", "thinking"}, track : {banner}] \subseteq Article
    BY <1>1 DEF Article
  <2>3. pane' \subseteq Article
    BY <1>1, <1>5, <2>2 DEF Submit
  <2>4. /\ box' = Nil /\ sendOn' = FALSE /\ stopOn' = TRUE /\ calm' \in BOOLEAN
        /\ UNCHANGED <<banner, acked, switch, clear, stops, hostVars, others>>
    BY <1>5 DEF Submit
  <2> QED
    BY <1>1, <1>2, <1>3, <2>1, <2>3, <2>4 DEF Typed, TypeOK, hostVars
<1>6. ASSUME NEW n \in Submissions, ChatArrives(n) \/ ChatWakes(n)
      PROVE  Typed'
  <2>1. chat' \in [Submissions -> ChatState] /\ inFlight' \in [Sessions -> Submissions \cup {0}]
    BY <1>1, <1>6, ArrivesMoves, WakesMoves DEF Turns
  <2>2. UNCHANGED <<pageVars, switch, clear, stops, active, cleared, history, others, calm>>
    BY <1>6 DEF ChatArrives, ChatWakes
  <2> QED
    BY <1>1, <1>2, <1>3, <2>1, <2>2 DEF Typed, TypeOK, pageVars
<1>7. ASSUME NEW n \in Submissions, EndTurn(n)
      PROVE  Typed'
  <2>1. chat' \in [Submissions -> ChatState] /\ inFlight' \in [Sessions -> Submissions \cup {0}]
    BY <1>1, <1>7, EndMoves DEF Turns
  <2>2. history' \in [Modes -> SUBSET Submissions]
    <3>1. PICK m \in {chat[n].session[1]} :
            history' = history \/ history' = [history EXCEPT ![m] = @ \cup {n}]
      BY <1>1, <1>7, EndMoves
    <3> QED
      BY <1>1, <3>1
  <2>3. UNCHANGED <<pageVars, switch, clear, stops, active, cleared, others, calm>>
    BY <1>7 DEF EndTurn
  <2> QED
    BY <1>1, <1>2, <1>3, <2>1, <2>2, <2>3 DEF Typed, TypeOK, pageVars
<1>8. ASSUME NEW n \in Submissions, ChatReply(n)
      PROVE  Typed'
  <2>1. chat' \in [Submissions -> ChatState]
    BY <1>1, <1>8, OverMoves DEF ChatReply, Turns
  <2>2. pane' \subseteq Article
    <3>1. \A kind \in {"answer", "stopped"} :
            [of |-> n, kind |-> kind, track |-> banner] \in Article
      BY <1>1 DEF Article
    <3>2. PICK new \in {{}, {[of |-> n, kind |-> "answer", track |-> banner]},
                        {[of |-> n, kind |-> "stopped", track |-> banner]}} :
            pane' = (pane \ Thinking(n)) \cup new
      BY <1>8 DEF ChatReply
    <3> QED
      BY <1>1, <3>1, <3>2
  <2>3. /\ sendOn' = TRUE /\ stopOn' = FALSE
        /\ UNCHANGED <<banner, acked, box, switch, clear, stops, hostVars, others, calm>>
    BY <1>8 DEF ChatReply, Finally
  <2> QED
    BY <1>1, <1>2, <1>3, <2>1, <2>2, <2>3 DEF Typed, TypeOK, hostVars
<1>9. ASSUME NEW n \in Submissions, Confirm(n)
      PROVE  Typed'
  <2>1. chat' \in [Submissions -> ChatState]
    BY <1>1, <1>9, ConfirmMoves DEF Turns
  <2> QED
    BY <1>1, <1>2, <1>3, <1>9, <2>1 DEF Typed, TypeOK, Confirm, pageVars, hostVars
<1>10. ASSUME NEW n \in Submissions, Cancel(n)
       PROVE  Typed'
  <2>1. chat' \in [Submissions -> ChatState]
    BY <1>1, <1>10, OverMoves DEF Cancel, Turns
  <2>2. box' = Nil \/ box' \in [flagged : BOOLEAN, shape : TextShape]
    BY <1>1, <1>10 DEF Cancel, ChatState
  <2>3. /\ pane' \subseteq pane /\ sendOn' = TRUE /\ stopOn' = FALSE
        /\ UNCHANGED <<banner, acked, switch, clear, stops, hostVars, others, calm>>
    BY <1>10 DEF Cancel, Finally
  <2> QED
    BY <1>1, <1>2, <1>3, <2>1, <2>2, <2>3 DEF Typed, TypeOK, hostVars
<1>11. ASSUME NEW n \in Submissions, Lose(n)
       PROVE  Typed'
  <2>1. chat' \in [Submissions -> ChatState]
    BY <1>1, <1>11, LoseMoves DEF Turns
  <2>2. /\ pane' \subseteq pane /\ sendOn' = TRUE /\ stopOn' = FALSE /\ calm' = FALSE
        /\ others < Others /\ others' = others + 1
        /\ UNCHANGED <<banner, acked, box, switch, clear, stops, hostVars>>
    BY <1>11 DEF Lose, Finally, Another
  <2>3. others' \in 0 .. Others /\ Tallied'
    BY <1>1, <2>2 DEF Tallied
  <2> QED
    BY <1>1, <1>2, <1>3, <2>1, <2>2, <2>3 DEF Typed, TypeOK, hostVars
<1>12. ASSUME Stop
       PROVE  Typed'
  <2>1. /\ others < Others /\ others' = others + 1
        /\ stops' = stops + 1 /\ stopOn' = FALSE
        /\ UNCHANGED <<banner, acked, box, pane, sendOn, chat, switch, clear, hostVars, calm>>
    BY <1>12 DEF Stop, Another
  <2>2. others' \in 0 .. Others /\ stops' \in 0 .. Others /\ Tallied'
    BY <1>1, <2>1 DEF Tallied
  <2> QED
    BY <1>1, <1>2, <1>3, <2>1, <2>2 DEF Typed, TypeOK, hostVars
<1>13. ASSUME StopArrives
       PROVE  Typed'
  <2>1. chat' \in [Submissions -> ChatState]
    <3>1. inFlight[Session(active)] \in Submissions \cup {0}
      BY <1>1, SessionType
    <3> QED
      BY <1>1, <1>13, <3>1, AbortIs DEF StopArrives
  <2>2. /\ stops > 0 /\ stops' = stops - 1
        /\ UNCHANGED <<pageVars, switch, clear, hostVars, others, calm>>
    BY <1>13 DEF StopArrives
  <2>3. stops' \in 0 .. Others /\ stops' <= others
    BY <1>1, <2>2 DEF Tallied
  <2> QED
    BY <1>1, <1>2, <1>3, <2>1, <2>2, <2>3 DEF Typed, TypeOK, Tallied, pageVars, hostVars
<1>14. ASSUME NEW i \in 1 .. Clears, Clear(i)
       PROVE  Typed'
  <2>1. PICK d \in ClearState : ClearBecomes(i, d) /\ d.pc = "net" /\ clear[i].pc = "unsent"
    BY <1>1, <1>14, ClearMoves
  <2>2. Left' \subseteq Left /\ clear' \in [1 .. Clears -> ClearState]
    BY <2>1 DEF Left, ClearBecomes
  <2>3. /\ others < Others /\ others' = others + 1 /\ calm' \in BOOLEAN
        /\ UNCHANGED <<pageVars, chat, switch, stops, hostVars>>
    BY <1>14 DEF Clear, Another
  <2>4. others' \in 0 .. Others /\ Tallied'
    BY <1>1, <2>3 DEF Tallied
  <2>5. Counted'
    BY <1>1, <2>2, <2>3, CountStays DEF hostVars
  <2> QED
    BY <1>1, <1>3, <2>2, <2>3, <2>4, <2>5 DEF Typed, TypeOK, pageVars, hostVars
<1>15. ASSUME NEW i \in 1 .. Clears, ClearArrives(i)
       PROVE  Typed'
  <2>1. UNCHANGED <<pageVars, switch, stops, active, inFlight, others, calm>>
    BY <1>15 DEF ClearArrives
  <2>2. CASE ClearActive(i) /\ chat' = chat
    <3>1. /\ cleared' \in [Modes -> 0 .. Clears] /\ Counted'
          /\ history' \in [Modes -> SUBSET Submissions]
          /\ clear' \in [1 .. Clears -> ClearState]
      BY <1>1, <1>15, <2>2, ClearActiveMoves, ClearArrivesMoves DEF ClearBecomes
    <3> QED
      BY <1>1, <1>3, <2>1, <2>2, <3>1 DEF Typed, TypeOK, pageVars
  <2>3. CASE /\ chat' \in [Submissions -> ChatState]
             /\ \E d \in ClearState : ClearBecomes(i, d) /\ d.pc = "waits"
             /\ UNCHANGED <<cleared, history>>
    <3>1. PICK d \in ClearState : ClearBecomes(i, d) /\ d.pc = "waits"
      BY <2>3
    <3>2. clear' \in [1 .. Clears -> ClearState] /\ Left' \subseteq Left
      BY <1>1, <1>15, <3>1, ClearArrivesMoves DEF ClearBecomes, Left
    <3>3. Counted'
      BY <1>1, <2>3, <3>2, CountStays
    <3> QED
      BY <1>1, <1>3, <2>1, <2>3, <3>2, <3>3 DEF Typed, TypeOK, pageVars
  <2> QED
    BY <1>1, <1>15, <2>2, <2>3, ClearArrivesMoves
<1>16. ASSUME NEW i \in 1 .. Clears, ClearWakes(i)
       PROVE  Typed'
  <2>1. i \in Left /\ ClearActive(i)
    BY <1>16 DEF ClearWakes, Left
  <2>2. /\ cleared' \in [Modes -> 0 .. Clears] /\ Counted'
        /\ history' \in [Modes -> SUBSET Submissions]
        /\ clear' \in [1 .. Clears -> ClearState]
    BY <1>1, <2>1, ClearActiveMoves DEF ClearBecomes
  <2>3. /\ inFlight' = [inFlight EXCEPT ![clear[i].session] = 0]
        /\ UNCHANGED <<pageVars, chat, switch, stops, active, others, calm>>
    BY <1>16 DEF ClearWakes
  <2>4. inFlight' \in [Sessions -> Submissions \cup {0}]
    BY <1>1, <2>3
  <2> QED
    BY <1>1, <1>3, <2>2, <2>3, <2>4 DEF Typed, TypeOK, pageVars
<1>17. ASSUME NEW i \in 1 .. Clears, clear' = [clear EXCEPT ![i] = NoClear("over")],
              UNCHANGED cleared
       PROVE  clear' \in [1 .. Clears -> ClearState] /\ Counted'
  <2>1. PICK d \in ClearState : ClearBecomes(i, d) /\ d.pc = "over"
    BY <1>1, <1>17, ClearOver
  <2>2. clear' \in [1 .. Clears -> ClearState] /\ Left' \subseteq Left
    BY <2>1 DEF Left, ClearBecomes
  <2> QED
    BY <1>1, <1>17, <2>2, CountStays
<1>18. ASSUME NEW i \in 1 .. Clears, ClearReply(i)
       PROVE  Typed'
  <2>1. /\ clear' = [clear EXCEPT ![i] = NoClear("over")] /\ pane' \subseteq pane
        /\ UNCHANGED <<banner, acked, box, sendOn, stopOn, chat, switch, stops, hostVars,
                       others, calm>>
    BY <1>18 DEF ClearReply
  <2>2. clear' \in [1 .. Clears -> ClearState] /\ Counted'
    BY <1>17, <2>1 DEF hostVars
  <2> QED
    BY <1>1, <1>3, <2>1, <2>2 DEF Typed, TypeOK, hostVars
<1>19. ASSUME NEW i \in 1 .. Switches, switch' = [switch EXCEPT ![i] = [pc |-> "over", to |-> Nil]]
       PROVE  switch' \in [1 .. Switches -> SwitchState] /\ Bound'
  <2>1. PICK d \in SwitchState : SwitchBecomes(i, d) /\ d.pc = "over"
    BY <1>1, <1>19, SwitchOver
  <2> QED
    BY <1>1, <2>1, BoundStays DEF SwitchBecomes
<1>20. ASSUME NEW i \in 1 .. Switches, NEW m \in Modes, SwitchMode(i, m)
       PROVE  Typed'
  <2>1. PICK d \in SwitchState : SwitchBecomes(i, d) /\ d.pc = "net" /\ d.to = m
    BY <1>1, <1>20, SwitchMoves
  <2>2. switch' \in [1 .. Switches -> SwitchState] /\ Bound'
    BY <1>1, <2>1, BoundStays DEF SwitchBecomes
  <2>3. /\ others < Others /\ others' = others + 1
        /\ acked' \in BOOLEAN /\ calm' \in BOOLEAN
        /\ UNCHANGED <<banner, box, pane, sendOn, stopOn, chat, clear, stops, hostVars>>
    BY <1>20 DEF SwitchMode, Another
  <2>4. others' \in 0 .. Others /\ Tallied'
    BY <1>1, <2>3 DEF Tallied
  <2> QED
    BY <1>1, <1>2, <2>2, <2>3, <2>4 DEF Typed, TypeOK, hostVars
<1>21. ASSUME NEW i \in 1 .. Switches, ModeArrives(i)
       PROVE  Typed'
  <2>1. PICK d \in SwitchState :
          SwitchBecomes(i, d) /\ d.to = switch[i].to /\ switch[i].to \in Modes
    BY <1>21, ModeMoves
  <2>2. switch' \in [1 .. Switches -> SwitchState] /\ Bound'
    BY <1>1, <2>1, BoundStays DEF SwitchBecomes
  <2>3. /\ active' \in Modes
        /\ UNCHANGED <<pageVars, chat, clear, stops, cleared, history, inFlight, others, calm>>
    BY <1>21, <2>1 DEF ModeArrives
  <2> QED
    BY <1>1, <1>2, <1>3, <2>2, <2>3 DEF Typed, TypeOK, pageVars
<1>22. ASSUME NEW i \in 1 .. Switches, ModeReply(i)
       PROVE  Typed'
  <2>1. /\ switch' = [switch EXCEPT ![i] = [pc |-> "over", to |-> Nil]]
        /\ banner' = switch[i].to /\ switch[i].pc = "switched"
        /\ UNCHANGED <<acked, box, pane, sendOn, stopOn, chat, clear, stops, hostVars,
                       others, calm>>
    BY <1>22 DEF ModeReply
  <2>2. banner' \in Modes
    BY <1>1, <2>1 DEF Bound
  <2> QED
    BY <1>1, <1>2, <1>3, <1>19, <2>1, <2>2 DEF Typed, TypeOK, hostVars
<1>23. ASSUME LoseControl
       PROVE  Typed'
  <2>1. /\ others < Others /\ others' = others + 1 /\ calm' = FALSE
        /\ UNCHANGED <<pageVars, chat, stops, hostVars>>
    BY <1>23 DEF LoseControl, Another
  <2>2. others' \in 0 .. Others /\ Tallied'
    BY <1>1, <2>1 DEF Tallied
  <2>3. CASE UNCHANGED clear /\ \E i \in Open(switch) :
                 switch' = [switch EXCEPT ![i] = [pc |-> "over", to |-> Nil]]
    <3>1. switch' \in [1 .. Switches -> SwitchState] /\ Bound'
      BY <1>1, <1>19, <2>3 DEF Open
    <3> QED
      BY <1>1, <1>2, <2>1, <2>2, <2>3, <3>1 DEF Typed, TypeOK, pageVars, hostVars
  <2>4. CASE UNCHANGED switch /\ \E i \in Open(clear) :
                 clear' = [clear EXCEPT ![i] = NoClear("over")]
    <3>1. clear' \in [1 .. Clears -> ClearState] /\ Counted'
      BY <1>1, <1>17, <2>1, <2>4 DEF Open, hostVars
    <3> QED
      BY <1>1, <1>3, <2>1, <2>2, <2>4, <3>1 DEF Typed, TypeOK, pageVars, hostVars
  <2> QED
    BY <1>23, <2>3, <2>4 DEF LoseControl
<1>24. CASE UNCHANGED vars
  BY <1>1, <1>2, <1>3, <1>24 DEF Typed, TypeOK, vars, pageVars, hostVars
<1> QED
  BY <1>4, <1>5, <1>6, <1>7, <1>8, <1>9, <1>10, <1>11, <1>12, <1>13, <1>14, <1>15, <1>16,
     <1>18, <1>20, <1>21, <1>22, <1>23, <1>24
  DEF Next, HostStep, PageStep, AdvisorStep

-----------------------------------------------------------------------------
(* Consent *)

\* The steps of everything but /chat leave each request as it is, or abort it.
LEMMA OthersAbort ==
    ASSUME Typed,
           \/ Write \/ Dictate \/ Format \/ Stop \/ StopArrives
           \/ \E i \in 1 .. Clears : Clear(i) \/ ClearArrives(i) \/ ClearWakes(i) \/ ClearReply(i)
           \/ \E i \in 1 .. Switches :
                ModeArrives(i) \/ ModeReply(i) \/ \E m \in Modes : SwitchMode(i, m)
           \/ LoseControl \/ UNCHANGED vars
    PROVE  \A k \in Submissions : Alike(chat[k], chat'[k])
<1>1. TypeOK /\ Counted
  BY DEF Typed
<1>2. (UNCHANGED chat) => \A k \in Submissions : Alike(chat[k], chat'[k])
  BY DEF Alike
<1>3. CASE StopArrives
  <2>1. inFlight[Session(active)] \in Submissions \cup {0}
    BY <1>1, SessionType DEF TypeOK
  <2> QED
    BY <1>1, <1>2, <1>3, <2>1, AbortIs DEF StopArrives
<1>4. ASSUME NEW i \in 1 .. Clears, ClearArrives(i)
      PROVE  \A k \in Submissions : Alike(chat[k], chat'[k])
  BY <1>1, <1>2, <1>4, ClearArrivesMoves
<1>5. CASE Write \/ Dictate \/ Format \/ Stop
  BY <1>2, <1>5 DEF Write, Dictate, Format, Stop
<1>6. CASE \E i \in 1 .. Clears : Clear(i) \/ ClearWakes(i) \/ ClearReply(i)
  BY <1>2, <1>6 DEF Clear, ClearWakes, ClearReply
<1>7. CASE \E i \in 1 .. Switches :
             ModeArrives(i) \/ ModeReply(i) \/ \E m \in Modes : SwitchMode(i, m)
  BY <1>2, <1>7 DEF ModeArrives, ModeReply, SwitchMode
<1>8. CASE LoseControl \/ UNCHANGED vars
  BY <1>2, <1>8 DEF LoseControl, vars
<1> QED
  BY <1>3, <1>4, <1>5, <1>6, <1>7, <1>8

LEMMA ConsentStep ==
    ASSUME Typed, \A k \in Submissions : Consented(chat[k]), [Next]_vars
    PROVE  \A k \in Submissions : Consented(chat'[k])
<1>1. TypeOK
  BY DEF Typed
<1>2. (\A k \in Submissions : Alike(chat[k], chat'[k]))
        => \A k \in Submissions : Consented(chat'[k])
  BY DEF Alike, Consented
<1>3. ASSUME NEW n \in Submissions, NEW c \in ChatState, Turns(n, c), Consented(c)
      PROVE  \A k \in Submissions : Consented(chat'[k])
  BY <1>3 DEF Turns, Alike, Consented
<1>4. ASSUME NEW n \in Submissions, Submit(n)
      PROVE  \A k \in Submissions : Consented(chat'[k])
  <2>1. PICK c \in ChatState : Turns(n, c) /\ c.pc = "net"
    BY <1>1, <1>4, SubmitMoves
  <2> QED
    BY <1>3, <2>1 DEF Consented, Begun
<1>5. ASSUME NEW n \in Submissions, ChatArrives(n)
      PROVE  \A k \in Submissions : Consented(chat'[k])
  <2>1. PICK c \in ChatState :
          /\ Turns(n, c) /\ Carries(chat[n], c)
          /\ c.pc \in {"asked", "waits", "runs"}
          /\ c.pc # "asked" => /\ c.session = Session(active)
                               /\ ~Refused(chat[n].text, active, chat[n].consent)
    BY <1>1, <1>5, ArrivesMoves
  <2>2. active \in Modes /\ Session(active)[1] = active
    BY <1>1, SessionType DEF TypeOK
  <2>3. Consented(c)
    BY <2>1, <2>2 DEF Consented, Begun, Carries, Refused
  <2> QED
    BY <1>3, <2>1, <2>3
<1>6. ASSUME NEW n \in Submissions, ChatWakes(n)
      PROVE  \A k \in Submissions : Consented(chat'[k])
  <2>1. PICK c \in ChatState : /\ Turns(n, c) /\ Carries(chat[n], c)
                               /\ c.session = chat[n].session /\ chat[n].pc = "waits"
    BY <1>1, <1>6, WakesMoves
  <2>2. Consented(c)
    BY <2>1 DEF Consented, Begun, Carries
  <2> QED
    BY <1>3, <2>1, <2>2
<1>7. ASSUME NEW n \in Submissions, EndTurn(n)
      PROVE  \A k \in Submissions : Consented(chat'[k])
  <2>1. PICK c \in ChatState :
          /\ Turns(n, c) /\ chat[n].pc = "runs"
          /\ \/ Carries(chat[n], c) /\ c.session = chat[n].session
             \/ c.pc = "over"
    BY <1>1, <1>7, EndMoves
  <2>2. Consented(c)
    BY <2>1 DEF Consented, Begun, Carries
  <2> QED
    BY <1>3, <2>1, <2>2
<1>8. ASSUME NEW n \in Submissions, ChatReply(n) \/ Cancel(n)
      PROVE  \A k \in Submissions : Consented(chat'[k])
  <2>1. PICK c \in ChatState : Turns(n, c) /\ c.pc = "over"
    BY <1>1, <1>8, OverMoves DEF ChatReply, Cancel
  <2> QED
    BY <1>3, <2>1 DEF Consented, Begun
<1>9. ASSUME NEW n \in Submissions, Confirm(n)
      PROVE  \A k \in Submissions : Consented(chat'[k])
  <2>1. PICK c \in ChatState : Turns(n, c) /\ c.pc = "net"
    BY <1>1, <1>9, ConfirmMoves
  <2> QED
    BY <1>3, <2>1 DEF Consented, Begun
<1>10. ASSUME NEW n \in Submissions, Lose(n)
       PROVE  \A k \in Submissions : Consented(chat'[k])
  <2>1. PICK c \in ChatState :
          /\ Turns(n, c)
          /\ \/ c.pc = "over"
             \/ /\ c.pc = chat[n].pc /\ c.text = chat[n].text
                /\ c.consent = chat[n].consent /\ c.session = chat[n].session
    BY <1>1, <1>10, LoseMoves
  <2>2. Consented(c)
    BY <2>1 DEF Consented, Begun
  <2> QED
    BY <1>3, <2>1, <2>2
<1> QED
  BY <1>2, <1>4, <1>5, <1>6, <1>7, <1>8, <1>9, <1>10, OthersAbort
  DEF Next, HostStep, PageStep, AdvisorStep

-----------------------------------------------------------------------------
(* What the page shows while it waits *)

\* The messages that are waited for are the same, and the page shows no more.
WaitsOn ==
    /\ \A k \in Submissions : chat'[k].heard = chat[k].heard
    /\ \A k \in Submissions : chat[k].heard => chat'[k].pc \notin {"unsent", "over"}
    /\ \A k \in Submissions : chat[k].pc = "over" => chat'[k].pc = "over"
    /\ pane' \subseteq pane /\ sendOn' = sendOn /\ (stopOn' => stopOn)

LEMMA WaitsOnStays ==
    ASSUME Typed, Waits, WaitsOn
    PROVE  Waits'
<1>1. pane \subseteq Article /\ \A a \in Article : a.of \in Submissions
  BY DEF Typed, TypeOK, Article
<1>2. Waiting' = Waiting
  BY DEF Waiting, WaitsOn
<1> QED
  BY <1>1, <1>2 DEF Waits, WaitsOn

\* What an article says of its submission.
LEMMA ArticleOf ==
    ASSUME Typed, Waits, NEW a \in pane
    PROVE  /\ a.of \in Submissions
           /\ a.kind = "thinking" => chat[a.of].heard
           /\ a.kind = "answer" => chat[a.of].pc = "over"
<1>1. a \in Article
  BY DEF Typed, TypeOK
<1>2. a.of \in Submissions
  BY <1>1 DEF Article
<1> QED
  BY <1>2 DEF Waits

\* A message is not waited for any longer: the buttons come back.
LEMMA NoLongerWaits ==
    ASSUME Typed, Waits, NEW n \in Submissions, NEW c \in ChatState, Turns(n, c),
           ~c.heard, chat[n].heard, chat[n].pc = "over" => c.pc = "over",
           pane' \subseteq (pane \ Thinking(n)) \cup
               (IF c.pc = "over" THEN [of : {n}, kind : {"answer", "stopped"}, track : {banner}]
                                 ELSE {}),
           sendOn' = TRUE, stopOn' = FALSE
    PROVE  Waits'
<1>1. pane \subseteq Article /\ \A a \in Article : a.of \in Submissions
  BY DEF Typed, TypeOK, Article
<1>2. \A k \in Submissions : chat'[k].heard => chat'[k].pc \notin {"unsent", "over"}
  BY DEF Waits, Turns, Alike
<1>3. ASSUME NEW a \in pane'
      PROVE  /\ a.kind = "thinking" => chat'[a.of].heard
             /\ a.kind = "answer" => chat'[a.of].pc = "over"
  <2>1. CASE a \in pane \ Thinking(n)
    <3>1. /\ a.of \in Submissions
          /\ a.kind = "thinking" => chat[a.of].heard
          /\ a.kind = "answer" => chat[a.of].pc = "over"
      BY <2>1, ArticleOf
    <3>2. a.of = n => a.kind # "thinking"
      BY <2>1 DEF Thinking
    <3>3. \A k \in Submissions \ {n} : Alike(chat[k], chat'[k]) /\ chat'[n] = c
      BY DEF Turns
    <3> QED
      BY <3>1, <3>2, <3>3 DEF Alike, Turns
  <2>2. CASE a \notin pane \ Thinking(n)
    <3>1. /\ c.pc = "over"
          /\ a \in [of : {n}, kind : {"answer", "stopped"}, track : {banner}]
      BY <1>3, <2>2
    <3>2. a.of = n /\ a.kind # "thinking"
      BY <3>1
    <3> QED
      BY <3>1, <3>2 DEF Turns
  <2> QED
    BY <2>1, <2>2
<1> QED
  BY <1>2, <1>3 DEF Waits

LEMMA WaitsStep ==
    ASSUME Typed, Waits, [Next]_vars
    PROVE  Waits'
<1>1. TypeOK /\ chat \in [Submissions -> ChatState]
  BY DEF Typed, TypeOK
<1>2. ASSUME NEW n \in Submissions, Submit(n)
      PROVE  Waits'
  <2>1. PICK c \in ChatState :
          /\ Turns(n, c) /\ c.pc = "net" /\ c.heard /\ chat[n].pc = "unsent"
    BY <1>1, <1>2, SubmitMoves
  <2>2. pane' = pane \cup [of : {n}, kind : {"you", "thinking"}, track : {banner}]
    BY <1>2 DEF Submit
  <2>3. pane \subseteq Article /\ \A a \in Article : a.of \in Submissions
    BY <1>1 DEF TypeOK, Article
  <2>4. \A k \in Submissions : chat'[k].heard => chat'[k].pc \notin {"unsent", "over"}
    BY <2>1 DEF Waits, Turns, Alike
  <2>5. ASSUME NEW a \in pane'
        PROVE  /\ a.kind = "thinking" => chat'[a.of].heard
               /\ a.kind = "answer" => chat'[a.of].pc = "over"
    <3>1. CASE a \in pane
      <4>1. /\ a.of \in Submissions
            /\ a.kind = "thinking" => chat[a.of].heard
            /\ a.kind = "answer" => chat[a.of].pc = "over"
        BY <3>1, ArticleOf
      <4>2. \A k \in Submissions \ {n} : Alike(chat[k], chat'[k])
        BY <2>1 DEF Turns
      <4> QED
        BY <2>1, <4>1, <4>2 DEF Alike, Turns
    <3>2. CASE a \notin pane
      <4>1. a \in [of : {n}, kind : {"you", "thinking"}, track : {banner}]
        BY <2>2, <2>5, <3>2
      <4>2. a.of = n /\ a.kind # "answer"
        BY <4>1
      <4> QED
        BY <2>1, <4>2 DEF Turns
    <3> QED
      BY <3>1, <3>2
  <2>6. n \in Waiting'
    BY <2>1 DEF Waiting, Turns
  <2> QED
    BY <2>4, <2>5, <2>6 DEF Waits
<1>3. ASSUME NEW n \in Submissions, ChatArrives(n) \/ ChatWakes(n)
      PROVE  Waits'
  <2>1. PICK c \in ChatState : /\ Turns(n, c) /\ Carries(chat[n], c)
                               /\ c.pc \in {"asked", "waits", "runs"} /\ chat[n].pc # "over"
    BY <1>1, <1>3, ArrivesMoves, WakesMoves
  <2>2. UNCHANGED pageVars
    BY <1>3 DEF ChatArrives, ChatWakes
  <2> QED
    BY <2>1, <2>2, WaitsOnStays DEF Waits, WaitsOn, Turns, Carries, Alike, pageVars
<1>4. ASSUME NEW n \in Submissions, EndTurn(n)
      PROVE  Waits'
  <2>1. PICK c \in ChatState, outcome \in {"answered", "failed", "aborted"} :
          /\ Turns(n, c)
          /\ IF chat[n].heard THEN Carries(chat[n], c) /\ c.pc = outcome
                              ELSE c.pc = "over" /\ ~c.heard
          /\ chat[n].pc = "runs"
    BY <1>1, <1>4, EndMoves
  <2>2. UNCHANGED pageVars
    BY <1>4 DEF EndTurn
  <2>3. c.heard = chat[n].heard
    BY <1>1, <2>1 DEF Carries, ChatState
  <2> QED
    BY <2>1, <2>2, <2>3, WaitsOnStays DEF Waits, WaitsOn, Turns, Alike, pageVars
<1>5. ASSUME NEW n \in Submissions, ChatReply(n) \/ Cancel(n)
      PROVE  Waits'
  <2>1. PICK c \in ChatState : Turns(n, c) /\ c.pc = "over" /\ ~c.heard
    BY <1>1, <1>5, OverMoves DEF ChatReply, Cancel
  <2>2. /\ chat[n].heard /\ sendOn' = TRUE /\ stopOn' = FALSE
    BY <1>5 DEF ChatReply, Cancel, Finally
  <2>3. pane' \subseteq (pane \ Thinking(n))
                        \cup [of : {n}, kind : {"answer", "stopped"}, track : {banner}]
    <3>1. CASE ChatReply(n)
      BY <3>1 DEF ChatReply
    <3>2. CASE Cancel(n)
      BY <3>2 DEF Cancel, Thinking
    <3> QED
      BY <1>5, <3>1, <3>2
  <2> QED
    BY <2>1, <2>2, <2>3, NoLongerWaits
<1>6. ASSUME NEW n \in Submissions, Confirm(n)
      PROVE  Waits'
  <2>1. PICK c \in ChatState : /\ Turns(n, c) /\ c.pc = "net" /\ c.heard = chat[n].heard
                               /\ chat[n].pc = "asked"
    BY <1>1, <1>6, ConfirmMoves
  <2>2. UNCHANGED pageVars
    BY <1>6 DEF Confirm
  <2> QED
    BY <2>1, <2>2, WaitsOnStays DEF Waits, WaitsOn, Turns, Alike, pageVars
<1>7. ASSUME NEW n \in Submissions, Lose(n)
      PROVE  Waits'
  <2>1. PICK c \in ChatState : Turns(n, c) /\ ~c.heard /\ c.pc \in {"over", chat[n].pc}
    BY <1>1, <1>7, LoseMoves
  <2>2. /\ chat[n].heard /\ pane' = pane \ Thinking(n)
        /\ sendOn' = TRUE /\ stopOn' = FALSE
    BY <1>7 DEF Lose, Finally
  <2> QED
    BY <2>1, <2>2, NoLongerWaits
<1>8. ASSUME \A k \in Submissions : Alike(chat[k], chat'[k]),
             pane' \subseteq pane, sendOn' = sendOn, stopOn' => stopOn
      PROVE  Waits'
  BY <1>8, WaitsOnStays DEF WaitsOn, Waits, Alike
<1>9. CASE \/ Write \/ Dictate \/ Format \/ Stop \/ StopArrives
           \/ LoseControl \/ UNCHANGED vars
  <2>1. UNCHANGED <<pane, sendOn>> /\ (stopOn' => stopOn)
    BY <1>9 DEF Write, Dictate, Format, Stop, StopArrives, LoseControl, vars, pageVars
  <2> QED
    BY <1>8, <1>9, <2>1, OthersAbort
<1>10. ASSUME NEW i \in 1 .. Clears,
              Clear(i) \/ ClearArrives(i) \/ ClearWakes(i) \/ ClearReply(i)
       PROVE  Waits'
  <2>1. pane' \subseteq pane /\ UNCHANGED <<sendOn, stopOn>>
    BY <1>10 DEF Clear, ClearArrives, ClearWakes, ClearReply, pageVars
  <2> QED
    BY <1>8, <1>10, <2>1, OthersAbort
<1>11. ASSUME NEW i \in 1 .. Switches,
              ModeArrives(i) \/ ModeReply(i) \/ \E m \in Modes : SwitchMode(i, m)
       PROVE  Waits'
  <2>1. UNCHANGED <<pane, sendOn, stopOn>>
    BY <1>11 DEF ModeArrives, ModeReply, SwitchMode, pageVars
  <2> QED
    BY <1>8, <1>11, <2>1, OthersAbort
<1> QED
  BY <1>2, <1>3, <1>4, <1>5, <1>6, <1>7, <1>9, <1>10, <1>11
  DEF Next, HostStep, PageStep, AdvisorStep

-----------------------------------------------------------------------------
(* The page of an advisor who waits *)

\* While a submission is under way, no control is, and the tracks agree.
LEMMA ChatsGoAlone ==
    ASSUME Typed, Settled, NEW n \in Open(chat)
    PROVE  /\ Open(switch) = {} /\ Open(clear) = {}
           /\ banner = active
           /\ \A m \in Modes : ~Cleared(m)
<1>1. Open(switch) = {} /\ Open(clear) = {}
  BY DEF Settled, ControlsAlone, Alone
<1>2. /\ DOMAIN switch = 1 .. Switches /\ DOMAIN clear = 1 .. Clears
      /\ \A i \in 1 .. Switches : switch[i].pc \in {"unsent", "over"}
      /\ \A i \in 1 .. Clears : clear[i].pc \in {"unsent", "over"}
  BY <1>1 DEF Typed, TypeOK, Open
<1>3. banner = active
  BY <1>2 DEF Settled, TracksAgree
<1> QED
  BY <1>1, <1>2, <1>3 DEF Cleared

LEMMA OpenIs ==
    ASSUME Typed
    PROVE  /\ Open(chat) = {n \in Submissions : chat[n].pc \notin {"unsent", "over"}}
           /\ Open(switch) = {i \in 1 .. Switches : switch[i].pc \notin {"unsent", "over"}}
           /\ Open(clear) = {i \in 1 .. Clears : clear[i].pc \notin {"unsent", "over"}}
BY DEF Typed, TypeOK, Open

\* A submission's request moves, the host's tracks and the controls do not.
LEMMA SettledChat ==
    ASSUME Typed, Typed', Settled, NEW n \in Submissions, NEW c \in ChatState, Turns(n, c),
           UNCHANGED <<banner, active, switch, clear, stops, cleared>>,
           c.pc \notin {"unsent", "over"} =>
               /\ c.heard
               /\ Echo(n, "you") \in pane' /\ Echo(n, "thinking") \in pane'
               /\ c.pc \in Begun => c.session = Session(banner),
           \A k \in Open(chat) \ {n} :
               \A kind \in {"you", "thinking"} : Echo(k, kind) \in pane => Echo(k, kind) \in pane',
           n \in Open(chat) \/ (Open(switch) = {} /\ Open(clear) = {}),
           HistoryShown'
    PROVE  Settled'
<1>1. /\ Open(chat)' \subseteq Open(chat) \cup {n}
      /\ Open(switch)' = Open(switch) /\ Open(clear)' = Open(clear)
  BY OpenIs DEF Turns, Alike, Open
<1>2. Session(banner)' = Session(banner) /\ \A k, kind : Echo(k, kind)' = Echo(k, kind)
  BY DEF Session, Echo
<1>3. ChatsShown'
  <2>1. ASSUME NEW k \in Open(chat)'
        PROVE  /\ chat'[k].heard
               /\ Echo(k, "you")' \in pane' /\ Echo(k, "thinking")' \in pane'
               /\ chat'[k].pc \in Begun => chat'[k].session = Session(banner)'
    <3>1. k \in Submissions /\ chat'[k].pc \notin {"unsent", "over"}
      BY OpenIs, <2>1, <1>1 DEF Open
    <3>2. CASE k = n
      BY <1>2, <3>1, <3>2 DEF Turns
    <3>3. CASE k # n
      BY <1>1, <1>2, <2>1, <3>1, <3>3 DEF Settled, ChatsShown, Turns, Alike
    <3> QED
      BY <3>2, <3>3
  <2> QED
    BY <2>1 DEF ChatsShown
<1>4. Open(switch) = {} /\ Open(clear) = {}
  BY ChatsGoAlone
<1>5. ControlsAlone'
  BY <1>1, <1>4 DEF ControlsAlone
<1>6. TracksAgree'
  BY DEF Settled, TracksAgree
<1> QED
  BY <1>3, <1>5, <1>6 DEF Settled

\* No answer is given or shown.
LEMMA HistoryStays ==
    ASSUME Typed, Typed', HistoryShown, UNCHANGED <<banner, history, clear>>,
           \A k \in Submissions : chat'[k].pc = "answered" <=> chat[k].pc = "answered",
           \A a \in Article : a.kind = "answer" => (a \in pane' <=> a \in pane),
           \A m \in Modes : history[m] \subseteq Shown("you", m)'
    PROVE  HistoryShown'
<1>1. pane \subseteq Article /\ pane' \subseteq Article
  BY DEF Typed, TypeOK
<1>2. \A m \in Modes : Shown("answer", m)' = Shown("answer", m)
  BY <1>1 DEF Shown
<1>3. \A m \in Modes : Pending(m)' = Pending(m) /\ (Cleared(m)' <=> Cleared(m))
  BY DEF Pending, Cleared
<1> QED
  BY <1>2, <1>3 DEF HistoryShown

LEMMA QuestionsStay ==
    ASSUME HistoryShown, \A a \in pane : a.kind = "you" => a \in pane'
    PROVE  \A m \in Modes : history[m] \subseteq Shown("you", m)'
<1> SUFFICES ASSUME NEW m \in Modes, NEW k \in history[m]
             PROVE  k \in Shown("you", m)'
  OBVIOUS
<1>1. k \in Shown("you", m)
  BY DEF HistoryShown
<1>2. PICK a \in pane : a.kind = "you" /\ a.track = m /\ a.of = k
  BY <1>1 DEF Shown
<1>3. a \in pane'
  BY <1>2
<1> QED
  BY <1>2, <1>3 DEF Shown

\* Every request of a submission, and every abort.
LEMMA SettledArrives ==
    ASSUME Typed, Typed', Settled, NEW n \in Submissions,
           Submit(n) \/ ChatArrives(n) \/ ChatWakes(n) \/ Confirm(n), calm'
    PROVE  Settled'
<1>1. TypeOK /\ HistoryShown
  BY DEF Typed, Settled
<1>2. CASE Submit(n)
  <2>1. PICK c \in ChatState :
          /\ Turns(n, c) /\ c.pc = "net" /\ c.heard /\ chat[n].pc = "unsent"
    BY <1>1, <1>2, SubmitMoves
  <2>2. /\ pane' = pane \cup [of : {n}, kind : {"you", "thinking"}, track : {banner}]
        /\ Open(switch) = {} /\ Open(clear) = {}
        /\ UNCHANGED <<banner, active, switch, clear, stops, cleared, history>>
    BY <1>2 DEF Submit, hostVars
  <2>3. Echo(n, "you") \in pane' /\ Echo(n, "thinking") \in pane'
    BY <2>2 DEF Echo
  <2>4. HistoryShown'
    <3>1. \A k \in Submissions : chat'[k].pc = "answered" <=> chat[k].pc = "answered"
      BY <2>1 DEF Turns, Alike
    <3>2. \A a \in Article : a.kind = "answer" => (a \in pane' <=> a \in pane)
      BY <2>2
    <3> QED
      BY <1>1, <2>2, <3>1, <3>2, HistoryStays, QuestionsStay
  <2> QED
    BY <2>1, <2>2, <2>3, <2>4, SettledChat DEF Begun
<1>3. CASE ChatArrives(n) \/ ChatWakes(n) \/ Confirm(n)
  <2>1. /\ UNCHANGED <<pageVars, active, switch, clear, stops, cleared, history>>
        /\ chat[n].pc \in {"net", "waits", "asked"}
    BY <1>3 DEF ChatArrives, ChatWakes, Confirm, hostVars
  <2>2. /\ n \in Open(chat) /\ chat[n].heard
        /\ Echo(n, "you") \in pane /\ Echo(n, "thinking") \in pane
        /\ chat[n].pc \in Begun => chat[n].session = Session(banner)
    BY <2>1, OpenIs DEF Settled, ChatsShown
  <2>3. banner = active
    BY <2>2, ChatsGoAlone
  <2>4. PICK c \in ChatState :
          /\ Turns(n, c) /\ c.heard = chat[n].heard
          /\ c.pc \notin {"answered", "unsent", "over"}
          /\ c.pc \in Begun => c.session = Session(banner)
    <3>1. CASE ChatArrives(n)
      BY <1>1, <2>3, <3>1, ArrivesMoves DEF Carries, Begun
    <3>2. CASE ChatWakes(n)
      <4>1. chat[n].pc = "waits"
        BY <3>2 DEF ChatWakes
      <4> QED
        BY <1>1, <2>2, <3>2, <4>1, WakesMoves DEF Carries, Begun
    <3>3. CASE Confirm(n)
      BY <1>1, <3>3, ConfirmMoves DEF Begun
    <3> QED
      BY <1>3, <3>1, <3>2, <3>3
  <2>5. HistoryShown'
    <3>1. \A k \in Submissions : chat'[k].pc = "answered" <=> chat[k].pc = "answered"
      BY <2>1, <2>4 DEF Turns, Alike
    <3> QED
      BY <1>1, <2>1, <3>1, HistoryStays, QuestionsStay DEF pageVars
  <2> QED
    BY <2>1, <2>2, <2>4, <2>5, SettledChat DEF pageVars
<1> QED
  BY <1>2, <1>3

\* An answer joins the history before the page has it.
LEMMA SettledEnds ==
    ASSUME Typed, Typed', Settled, NEW n \in Submissions, EndTurn(n)
    PROVE  Settled'
<1>1. /\ TypeOK /\ HistoryShown /\ banner \in Modes
      /\ history \in [Modes -> SUBSET Submissions]
  BY DEF Typed, TypeOK, Settled
<1>2. /\ UNCHANGED <<pageVars, active, switch, clear, stops, cleared>>
      /\ chat[n].pc = "runs"
  BY DEF EndTurn
<1>3. /\ n \in Open(chat) /\ chat[n].heard
      /\ Echo(n, "you") \in pane /\ Echo(n, "thinking") \in pane
      /\ chat[n].session = Session(banner)
  BY <1>2, OpenIs DEF Settled, ChatsShown, Begun
<1>4. chat[n].session[1] = banner
  BY <1>1, <1>3, SessionType
<1>5. PICK c \in ChatState, outcome \in {"answered", "failed", "aborted"} :
        /\ Turns(n, c) /\ Carries(chat[n], c)
        /\ c.pc = outcome /\ c.session = chat[n].session
        /\ history' = IF outcome = "answered" THEN [history EXCEPT ![banner] = @ \cup {n}]
                                              ELSE history
  BY <1>1, <1>3, <1>4, EndMoves
<1>6. HistoryShown'
  <2> PICK b \in Modes : b = banner
    BY <1>1
  <2>1. CASE outcome = "answered"
    <3>1. \A m \in Modes : ~Cleared(m) /\ ~Cleared(m)'
      BY <1>2, <1>3, ChatsGoAlone DEF Cleared, pageVars
    <3>2. \A m \in Modes : Shown("you", m)' = Shown("you", m) /\ Shown("answer", m)' = Shown("answer", m)
      BY <1>2 DEF Shown, pageVars
    <3>3. Pending(b)' = Pending(b) \cup {n}
      BY <1>2, <1>5, <2>1 DEF Pending, Turns, Alike, pageVars
    <3>4. \A m \in Modes \ {b} : Pending(m)' = {} /\ Pending(m) = {}
      BY <1>2 DEF Pending, pageVars
    <3>5. n \in Shown("you", b)
      BY <1>3 DEF Shown, Echo
    <3>6. /\ history'[b] = history[b] \cup {n}
          /\ \A m \in Modes \ {b} : history'[m] = history[m]
      BY <1>1, <1>5, <2>1
    <3>7. /\ history'[b] \subseteq Shown("you", b)'
          /\ history'[b] = Shown("answer", b)' \cup Pending(b)'
      BY <1>1, <3>1, <3>2, <3>3, <3>5, <3>6 DEF HistoryShown
    <3>8. ASSUME NEW m \in Modes \ {b}
          PROVE  /\ history'[m] \subseteq Shown("you", m)'
                 /\ history'[m] = Shown("answer", m)' \cup Pending(m)'
      BY <1>1, <3>1, <3>2, <3>4, <3>6 DEF HistoryShown
    <3> QED
      BY <3>1, <3>7, <3>8 DEF HistoryShown
  <2>2. CASE outcome # "answered"
    <3>1. \A k \in Submissions : chat'[k].pc = "answered" <=> chat[k].pc = "answered"
      BY <1>2, <1>5, <2>2 DEF Turns, Alike
    <3> QED
      BY <1>1, <1>2, <1>5, <2>2, <3>1, HistoryStays, QuestionsStay DEF pageVars
  <2> QED
    BY <2>1, <2>2
<1> QED
  BY <1>2, <1>3, <1>5, <1>6, SettledChat DEF Carries, Begun, pageVars

\* The page takes the answer, and the submission is over.
LEMMA SettledReply ==
    ASSUME Typed, Typed', Waits, Settled, NEW n \in Submissions, ChatReply(n)
    PROVE  Settled'
<1>1. /\ TypeOK /\ HistoryShown /\ pane \subseteq Article
      /\ UNCHANGED <<banner, active, switch, clear, stops, cleared, history>>
      /\ chat[n].pc \in {"answered", "aborted", "failed"}
  BY DEF Typed, TypeOK, Settled, ChatReply, hostVars
<1>2. PICK c \in ChatState : Turns(n, c) /\ c.pc = "over"
  BY <1>1, OverMoves DEF ChatReply
<1>3. n \in Open(chat)
  BY <1>1, OpenIs
<1>4. PICK b \in Modes : b = banner
  BY DEF Typed, TypeOK
<1>5. /\ \A a \in pane : a.of # n \/ a.kind # "thinking" => a \in pane'
      /\ \A a \in pane' : a \in pane \/ (a.of = n /\ a.track = b /\ a.kind \in {"answer", "stopped"})
      /\ \A a \in pane' : a.of = n /\ a.kind = "answer" /\ a \notin pane => chat[n].pc = "answered"
      /\ chat[n].pc = "answered" => [of |-> n, kind |-> "answer", track |-> b] \in pane'
  <2>1. CASE chat[n].pc = "answered"
    <3>1. pane' = (pane \ Thinking(n)) \cup {[of |-> n, kind |-> "answer", track |-> b]}
      BY <1>4, <2>1 DEF ChatReply
    <3> QED
      BY <2>1, <3>1 DEF Thinking
  <2>2. CASE chat[n].pc = "aborted"
    <3>1. pane' = (pane \ Thinking(n)) \cup {[of |-> n, kind |-> "stopped", track |-> b]}
      BY <1>4, <2>2 DEF ChatReply
    <3> QED
      BY <2>2, <3>1 DEF Thinking
  <2>3. CASE chat[n].pc = "failed"
    <3>1. pane' = pane \ Thinking(n)
      BY <2>3 DEF ChatReply
    <3> QED
      BY <2>3, <3>1 DEF Thinking
  <2> QED
    BY <1>1, <2>1, <2>2, <2>3
<1>6. \A k \in Open(chat) \ {n} :
        \A kind \in {"you", "thinking"} : Echo(k, kind) \in pane => Echo(k, kind) \in pane'
  BY <1>5 DEF Echo
<1>7. \A m \in Modes : history[m] \subseteq Shown("you", m)'
  BY <1>1, <1>5, QuestionsStay
<1>8. \A m \in Modes : ~Cleared(m) /\ ~Cleared(m)'
  BY <1>1, <1>3, ChatsGoAlone DEF Cleared
<1>9. \A m \in Modes \ {b} : /\ Pending(m) = {} /\ Pending(m)' = {}
                             /\ Shown("answer", m)' = Shown("answer", m)
  <2>1. ASSUME NEW m \in Modes \ {b}
        PROVE  Shown("answer", m)' = Shown("answer", m)
    <3>1. \A a \in Article : a.kind = "answer" /\ a.track = m => (a \in pane' <=> a \in pane)
      BY <1>5
    <3> QED
      BY <1>1, <3>1 DEF Shown, Typed, TypeOK
  <2> QED
    BY <1>1, <1>4, <2>1 DEF Pending
<1>10. Shown("answer", b)' \cup Pending(b)' = Shown("answer", b) \cup Pending(b)
  <2>1. CASE chat[n].pc = "answered"
    <3>1. Pending(b)' = Pending(b) \ {n} /\ n \in Pending(b)
      BY <1>1, <1>2, <1>4, <2>1 DEF Pending, Turns, Alike
    <3>2. Shown("answer", b)' = Shown("answer", b) \cup {n}
      <4>1. Shown("answer", b) \subseteq Shown("answer", b)'
        BY <1>5 DEF Shown
      <4>2. n \in Shown("answer", b)'
        BY <1>5, <2>1 DEF Shown
      <4>3. Shown("answer", b)' \subseteq Shown("answer", b) \cup {n}
        BY <1>5 DEF Shown
      <4> QED
        BY <4>1, <4>2, <4>3
    <3> QED
      BY <3>1, <3>2
  <2>2. CASE chat[n].pc # "answered"
    <3>1. Pending(b)' = Pending(b)
      BY <1>1, <1>2, <1>4, <2>2 DEF Pending, Turns, Alike
    <3>2. \A a \in Article : a.kind = "answer" => (a \in pane' <=> a \in pane)
      BY <1>5, <2>2
    <3>3. Shown("answer", b)' = Shown("answer", b)
      BY <1>1, <3>2 DEF Shown, Typed, TypeOK
    <3> QED
      BY <3>1, <3>3
  <2> QED
    BY <2>1, <2>2
<1>11. HistoryShown'
  <2>1. ASSUME NEW m \in Modes
        PROVE  history'[m] = Shown("answer", m)' \cup Pending(m)'
    BY <1>1, <1>8, <1>9, <1>10 DEF HistoryShown
  <2> QED
    BY <1>1, <1>7, <1>8, <2>1 DEF HistoryShown
<1> QED
  BY <1>1, <1>2, <1>3, <1>6, <1>11, SettledChat

\* The advisor takes a message back: it is in no history.
LEMMA SettledCancel ==
    ASSUME Typed, Typed', Waits, Settled, NEW n \in Submissions, Cancel(n)
    PROVE  Settled'
<1>1. /\ TypeOK /\ HistoryShown /\ pane \subseteq Article
      /\ UNCHANGED <<banner, active, switch, clear, stops, cleared, history>>
      /\ chat[n].pc = "asked"
      /\ pane' = {a \in pane : a.of # n \/ a.kind \notin {"you", "thinking"}}
  BY DEF Typed, TypeOK, Settled, Cancel, hostVars
<1>2. PICK c \in ChatState : Turns(n, c) /\ c.pc = "over"
  BY <1>1, OverMoves DEF Cancel
<1>3. n \in Open(chat)
  BY <1>1, OpenIs
<1>4. \A k \in Open(chat) \ {n} :
        \A kind \in {"you", "thinking"} : Echo(k, kind) \in pane => Echo(k, kind) \in pane'
  BY <1>1 DEF Echo
<1>5. \A m \in Modes : n \notin history[m]
  <2>1. ASSUME NEW m \in Modes, n \in Shown("answer", m)
        PROVE  FALSE
    <3>1. PICK a \in pane : a.kind = "answer" /\ a.of = n
      BY <2>1 DEF Shown
    <3> QED
      BY <1>1, <3>1, ArticleOf
  <2>2. \A m \in Modes : n \notin Pending(m)
    BY <1>1 DEF Pending
  <2>3. \A m \in Modes : ~Cleared(m)
    BY <1>3, ChatsGoAlone
  <2> QED
    BY <1>1, <2>1, <2>2, <2>3 DEF HistoryShown
<1>6. \A m \in Modes : history[m] \subseteq Shown("you", m)'
  <2> SUFFICES ASSUME NEW m \in Modes, NEW k \in history[m]
               PROVE  k \in Shown("you", m)'
    OBVIOUS
  <2>1. k \in Shown("you", m) /\ k # n
    BY <1>1, <1>5 DEF HistoryShown
  <2>2. PICK a \in pane : a.kind = "you" /\ a.track = m /\ a.of = k
    BY <2>1 DEF Shown
  <2>3. a \in pane'
    BY <1>1, <2>1, <2>2
  <2> QED
    BY <2>2, <2>3 DEF Shown
<1>7. \A k \in Submissions : chat'[k].pc = "answered" <=> chat[k].pc = "answered"
  BY <1>1, <1>2 DEF Turns, Alike
<1>8. HistoryShown'
  BY <1>1, <1>6, <1>7, HistoryStays
<1> QED
  BY <1>1, <1>2, <1>3, <1>4, <1>8, SettledChat

\* Nothing that the page shows, the tracks or the controls changes.
LEMMA SettledAlike ==
    ASSUME Typed, Typed', Settled, \A k \in Submissions : Alike(chat[k], chat'[k]),
           UNCHANGED <<banner, active, pane, switch, clear, cleared, history>>,
           stops' = stops \/ (Open(switch) = {} /\ Open(clear) = {})
    PROVE  Settled'
<1>1. /\ Open(chat)' = Open(chat)
      /\ Open(switch)' = Open(switch) /\ Open(clear)' = Open(clear)
  <2>1. Open(chat)' = {n \in Submissions : chat'[n].pc \notin {"unsent", "over"}}
    BY DEF Typed, TypeOK, Open
  <2>2. Open(switch)' = Open(switch) /\ Open(clear)' = Open(clear)
    BY DEF Open
  <2> QED
    BY <2>1, <2>2, OpenIs DEF Alike
<1>2. Session(banner)' = Session(banner) /\ \A k, kind : Echo(k, kind)' = Echo(k, kind)
  BY DEF Session, Echo
<1>3. Open(chat) \subseteq Submissions
  BY OpenIs
<1>4. ChatsShown'
  <2>1. ASSUME NEW k \in Open(chat)
        PROVE  /\ chat'[k].heard
               /\ Echo(k, "you")' \in pane' /\ Echo(k, "thinking")' \in pane'
               /\ chat'[k].pc \in Begun => chat'[k].session = Session(banner)'
    BY <1>2, <1>3, <2>1 DEF Settled, ChatsShown, Alike
  <2> QED
    BY <1>1, <2>1 DEF ChatsShown
<1>5. ControlsAlone'
  BY <1>1 DEF Settled, ControlsAlone, Alone
<1>6. TracksAgree'
  BY DEF Settled, TracksAgree
<1>7. HistoryShown'
  <2>1. \A k \in Submissions : chat'[k].pc = "answered" <=> chat[k].pc = "answered"
    BY DEF Alike
  <2>2. HistoryShown
    BY DEF Settled
  <2>3. \A m \in Modes : history[m] \subseteq Shown("you", m)'
    BY <2>2, QuestionsStay
  <2> QED
    BY <2>1, <2>2, <2>3, HistoryStays
<1> QED
  BY <1>4, <1>5, <1>6, <1>7 DEF Settled

LEMMA SettledStops ==
    ASSUME Typed, Typed', Waits, Settled, Stop \/ StopArrives
    PROVE  Settled'
<1>1. UNCHANGED <<banner, active, pane, switch, clear, cleared, history>>
  BY DEF Stop, StopArrives, pageVars, hostVars
<1>2. \A k \in Submissions : Alike(chat[k], chat'[k])
  BY OthersAbort
<1>3. CASE Stop
  <2>1. PICK n \in Submissions : chat[n].heard /\ chat[n].pc \notin {"unsent", "over"}
    BY <1>3 DEF Stop, Waits, Waiting
  <2>2. n \in Open(chat)
    BY <2>1, OpenIs
  <2> QED
    BY <1>1, <1>2, <2>2, ChatsGoAlone, SettledAlike
<1>4. CASE StopArrives
  <2>1. stops # 0
    BY <1>4 DEF StopArrives
  <2>2. Open(switch) = {} /\ Open(clear) = {}
    BY <2>1 DEF Settled, ControlsAlone, Alone
  <2> QED
    BY <1>1, <1>2, <2>2, SettledAlike
<1> QED
  BY <1>3, <1>4

\* A control is under way: no submission is.
LEMMA SettledAlone ==
    ASSUME Open(chat)' = {}, ControlsAlone', TracksAgree', HistoryShown'
    PROVE  Settled'
BY DEF Settled, ChatsShown

\* A control is asked for when nothing else is under way.
LEMMA SettledAsks ==
    ASSUME Typed, Typed', Settled, calm',
           \/ \E i \in 1 .. Clears : Clear(i)
           \/ \E i \in 1 .. Switches, m \in Modes : SwitchMode(i, m)
    PROVE  Settled'
<1>1. /\ NoneOpen /\ TypeOK /\ HistoryShown /\ TracksAgree
      /\ UNCHANGED <<banner, active, pane, chat, stops, cleared, history>>
  BY DEF Clear, SwitchMode, Typed, Settled, pageVars, hostVars
<1>2. Open(chat)' = {} /\ stops' = 0
  BY <1>1 DEF NoneOpen, Open
<1>3. \A m \in Modes : history[m] \subseteq Shown("you", m)'
  BY <1>1, QuestionsStay
<1>4. ASSUME NEW i \in 1 .. Clears, Clear(i)
      PROVE  Settled'
  <2>1. PICK d \in ClearState : ClearBecomes(i, d) /\ d.pc = "net"
    BY <1>1, <1>4, ClearMoves
  <2>2. switch' = switch
    BY <1>4 DEF Clear
  <2>3. Open(switch)' = {} /\ Open(clear)' = {i}
    <3>1. Open(switch)' = {}
      BY <1>1, <2>2 DEF Open, NoneOpen
    <3>2. Open(clear)' = {j \in 1 .. Clears : clear'[j].pc \notin {"unsent", "over"}}
      BY OpenIs DEF Typed, TypeOK, Open
    <3>3. \A j \in 1 .. Clears : clear[j].pc \in {"unsent", "over"}
      BY <1>1, OpenIs DEF NoneOpen
    <3> QED
      BY <2>1, <3>1, <3>2, <3>3 DEF ClearBecomes
  <2>4. ControlsAlone'
    BY <1>2, <2>3 DEF ControlsAlone, Alone
  <2>5. TracksAgree'
    BY <1>1, <2>2 DEF TracksAgree
  <2>6. \A m \in Modes : /\ Shown("answer", m)' = Shown("answer", m) /\ Pending(m)' = Pending(m)
                         /\ ~Cleared(m) /\ ~Cleared(m)'
    <3>1. \A j \in 1 .. Clears : clear[j].pc # "cleared"
      BY <1>1, OpenIs DEF NoneOpen
    <3>2. \A j \in 1 .. Clears : clear'[j].pc # "cleared"
      BY <2>1, <3>1 DEF ClearBecomes
    <3> QED
      BY <1>1, <3>1, <3>2 DEF Shown, Pending, Cleared
  <2>7. HistoryShown'
    BY <1>1, <1>3, <2>6 DEF HistoryShown
  <2> QED
    BY <1>2, <2>4, <2>5, <2>7, SettledAlone
<1>5. ASSUME NEW i \in 1 .. Switches, NEW m \in Modes, SwitchMode(i, m)
      PROVE  Settled'
  <2>1. PICK d \in SwitchState : SwitchBecomes(i, d) /\ d.pc = "net" /\ switch[i].pc = "unsent"
    BY <1>1, <1>5, SwitchMoves
  <2>2. clear' = clear
    BY <1>5 DEF SwitchMode
  <2>3. \A j \in 1 .. Switches : switch[j].pc \in {"unsent", "over"}
    BY <1>1, OpenIs DEF NoneOpen
  <2>4. Open(clear)' = {} /\ Open(switch)' = {i}
    <3>1. Open(clear)' = {}
      BY <1>1, <2>2 DEF Open, NoneOpen
    <3>2. Open(switch)' = {j \in 1 .. Switches : switch'[j].pc \notin {"unsent", "over"}}
      BY OpenIs DEF Typed, TypeOK, Open
    <3> QED
      BY <2>1, <2>3, <3>1, <3>2 DEF SwitchBecomes
  <2>5. ControlsAlone'
    BY <1>2, <2>4 DEF ControlsAlone, Alone
  <2>6. TracksAgree'
    BY <1>1, <2>1, <2>3 DEF TracksAgree, SwitchBecomes
  <2>7. HistoryShown'
    BY <1>1, <1>3, <2>2, HistoryStays
  <2> QED
    BY <1>2, <2>5, <2>6, <2>7, SettledAlone
<1> QED
  BY <1>4, <1>5

\* The host clears the session of the track that the page shows.
LEMMA SettledClears ==
    ASSUME Typed, Typed', Settled, NEW i \in 1 .. Clears, ClearActive(i),
           clear[i].pc \in {"net", "waits"},
           UNCHANGED <<banner, active, pane, chat, switch, stops>>
    PROVE  Settled'
<1>1. /\ i \in Left /\ i \in Open(clear) /\ TypeOK /\ Counted
      /\ history \in [Modes -> SUBSET Submissions] /\ active \in Modes
  BY OpenIs DEF Left, Typed, TypeOK
<1>2. PICK d \in ClearState : ClearBecomes(i, d) /\ d.pc = "cleared"
  BY <1>1, ClearActiveMoves
<1>3. history' = [history EXCEPT ![active] = {}]
  BY DEF ClearActive
<1>4. /\ Open(chat) = {} /\ stops = 0 /\ Open(switch) = {} /\ Open(clear) = {i}
      /\ TracksAgree /\ HistoryShown
  BY <1>1 DEF Settled, ControlsAlone, Alone
<1>5. banner = active
  BY <1>4, OpenIs DEF TracksAgree
<1>6. Open(chat)' = {} /\ Open(switch)' = {} /\ Open(clear)' = {i} /\ stops' = 0
  <2>1. Open(clear)' = {j \in 1 .. Clears : clear'[j].pc \notin {"unsent", "over"}}
    BY OpenIs DEF Typed, TypeOK, Open
  <2>2. \A j \in (1 .. Clears) \ {i} : clear[j].pc \in {"unsent", "over"}
    BY <1>4, OpenIs
  <2>3. Open(clear)' = {i}
    BY <1>2, <2>1, <2>2 DEF ClearBecomes
  <2> QED
    BY <1>4, <2>3 DEF Open
<1>7. ControlsAlone'
  BY <1>6 DEF ControlsAlone, Alone
<1>8. TracksAgree'
  BY <1>4 DEF TracksAgree
<1>9. HistoryShown'
  <2> SUFFICES ASSUME NEW m \in Modes
               PROVE  /\ history'[m] \subseteq Shown("you", m)'
                      /\ history'[m] = IF Cleared(m)' THEN {} ELSE Shown("answer", m)' \cup Pending(m)'
    BY DEF HistoryShown
  <2>1. /\ Shown("you", m)' = Shown("you", m) /\ Shown("answer", m)' = Shown("answer", m)
        /\ Pending(m)' = Pending(m)
    BY DEF Shown, Pending
  <2>2. CASE m = active
    <3>1. Cleared(m)' /\ history'[m] = {}
      BY <1>1, <1>2, <1>3, <1>5, <2>2 DEF Cleared, ClearBecomes
    <3> QED
      BY <3>1
  <2>3. CASE m # active
    <3>1. ~Cleared(m) /\ ~Cleared(m)' /\ history'[m] = history[m]
      BY <1>1, <1>3, <1>5, <2>3 DEF Cleared
    <3> QED
      BY <1>4, <2>1, <3>1 DEF HistoryShown
  <2> QED
    BY <2>2, <2>3
<1> QED
  BY <1>6, <1>7, <1>8, <1>9, SettledAlone

LEMMA SettledClearing ==
    ASSUME Typed, Typed', Settled, NEW i \in 1 .. Clears, ClearArrives(i) \/ ClearWakes(i)
    PROVE  Settled'
<1>1. /\ TypeOK /\ Counted
      /\ UNCHANGED <<banner, active, pane, switch, stops>>
      /\ clear[i].pc \in {"net", "waits"}
  BY DEF Typed, ClearArrives, ClearWakes, pageVars
<1>2. CASE ClearActive(i) /\ chat' = chat
  BY <1>1, <1>2, SettledClears
<1>3. CASE ClearWakes(i)
  BY <1>2, <1>3 DEF ClearWakes
<1>4. CASE /\ ClearArrives(i)
           /\ \A k \in Submissions : Alike(chat[k], chat'[k])
           /\ \E d \in ClearState : ClearBecomes(i, d) /\ d.pc = "waits"
           /\ UNCHANGED <<cleared, history>>
  <2>1. PICK d \in ClearState : ClearBecomes(i, d) /\ d.pc = "waits"
    BY <1>4
  <2>2. i \in Open(clear)
    BY <1>1, OpenIs
  <2>3. /\ Open(chat) = {} /\ stops = 0 /\ Open(switch) = {} /\ Open(clear) = {i}
        /\ TracksAgree /\ HistoryShown
    BY <2>2 DEF Settled, ControlsAlone, Alone
  <2>4. Open(chat)' = {} /\ Open(switch)' = {} /\ Open(clear)' = {i} /\ stops' = 0
    <3>1. Open(clear)' = {j \in 1 .. Clears : clear'[j].pc \notin {"unsent", "over"}}
      BY OpenIs DEF Typed, TypeOK, Open
    <3>2. \A j \in (1 .. Clears) \ {i} : clear[j].pc \in {"unsent", "over"}
      BY <2>3, OpenIs
    <3>3. Open(clear)' = {i}
      BY <2>1, <3>1, <3>2 DEF ClearBecomes
    <3>4. Open(chat)' = {j \in Submissions : chat'[j].pc \notin {"unsent", "over"}}
      BY OpenIs DEF Typed, TypeOK, Open
    <3>5. Open(chat)' = {}
      BY <1>4, <2>3, <3>4, OpenIs DEF Alike
    <3> QED
      BY <1>1, <2>3, <3>3, <3>5 DEF Open
  <2>5. ControlsAlone' /\ TracksAgree'
    BY <1>1, <2>3, <2>4 DEF ControlsAlone, Alone, TracksAgree
  <2>6. HistoryShown'
    <3>1. \A m \in Modes : /\ Shown("you", m)' = Shown("you", m)
                           /\ Shown("answer", m)' = Shown("answer", m)
                           /\ Pending(m)' = Pending(m)
      BY <1>1, <1>4 DEF Shown, Pending, Alike
    <3>2. \A j \in 1 .. Clears : clear[j].pc # "cleared" /\ clear'[j].pc # "cleared"
      BY <1>1, <2>1, <2>3, OpenIs DEF ClearBecomes
    <3> QED
      BY <1>4, <2>3, <3>1, <3>2 DEF HistoryShown, Cleared
  <2> QED
    BY <2>4, <2>5, <2>6, SettledAlone
<1>5. CASE ClearArrives(i)
  BY <1>1, <1>2, <1>4, <1>5, ClearArrivesMoves
<1> QED
  BY <1>3, <1>5

\* The page hears of the clear, and forgets the track it shows.
LEMMA SettledForgets ==
    ASSUME Typed, Typed', Settled, NEW i \in 1 .. Clears, ClearReply(i)
    PROVE  Settled'
<1>1. /\ TypeOK
      /\ UNCHANGED <<banner, active, chat, switch, stops, cleared, history>>
      /\ clear[i].pc = "cleared" /\ clear' = [clear EXCEPT ![i] = NoClear("over")]
      /\ pane' = {a \in pane : a.track # banner}
  BY DEF Typed, ClearReply, hostVars
<1>2. PICK d \in ClearState : ClearBecomes(i, d) /\ d.pc = "over"
  BY <1>1, ClearOver
<1>3. i \in Open(clear)
  BY <1>1, OpenIs
<1>4. /\ Open(chat) = {} /\ stops = 0 /\ Open(switch) = {} /\ Open(clear) = {i}
      /\ TracksAgree /\ HistoryShown
  BY <1>3 DEF Settled, ControlsAlone, Alone
<1>5. \A j \in 1 .. Clears : clear'[j].pc \in {"unsent", "over"}
  BY <1>2, <1>4, OpenIs DEF ClearBecomes
<1>6. Open(chat)' = {} /\ Open(switch)' = {} /\ Open(clear)' = {}
  <2>1. Open(clear)' = {j \in 1 .. Clears : clear'[j].pc \notin {"unsent", "over"}}
    BY OpenIs DEF Typed, TypeOK, Open
  <2> QED
    BY <1>1, <1>4, <1>5, <2>1 DEF Open
<1>7. ControlsAlone' /\ TracksAgree'
  BY <1>1, <1>4, <1>6 DEF ControlsAlone, TracksAgree
<1>8. HistoryShown'
  <2> SUFFICES ASSUME NEW m \in Modes
               PROVE  /\ history'[m] \subseteq Shown("you", m)'
                      /\ history'[m] = IF Cleared(m)' THEN {} ELSE Shown("answer", m)' \cup Pending(m)'
    BY DEF HistoryShown
  <2>1. ~Cleared(m)' /\ Pending(m)' = {} /\ Pending(m) = {}
    BY <1>1, <1>4, <1>5, OpenIs DEF Cleared, Pending
  <2>2. CASE m = banner
    <3>1. Cleared(m)
      BY <1>1, <2>2 DEF Cleared
    <3>2. history'[m] = {}
      BY <1>1, <1>4, <3>1 DEF HistoryShown
    <3>3. Shown("answer", m)' = {}
      BY <1>1, <2>2 DEF Shown
    <3> QED
      BY <2>1, <3>2, <3>3
  <2>3. CASE m # banner
    <3>1. ~Cleared(m)
      BY <2>3 DEF Cleared
    <3>2. Shown("you", m)' = Shown("you", m) /\ Shown("answer", m)' = Shown("answer", m)
      BY <1>1, <2>3 DEF Shown
    <3> QED
      BY <1>1, <1>4, <2>1, <3>1, <3>2 DEF HistoryShown
  <2> QED
    BY <2>2, <2>3
<1> QED
  BY <1>6, <1>7, <1>8, SettledAlone

\* The host changes tracks, then the page.
LEMMA SettledSwitches ==
    ASSUME Typed, Typed', Settled, NEW i \in 1 .. Switches, ModeArrives(i) \/ ModeReply(i)
    PROVE  Settled'
<1>1. /\ TypeOK
      /\ UNCHANGED <<pane, chat, clear, stops, cleared, history>>
      /\ switch[i].pc \in {"net", "switched"}
  BY DEF Typed, ModeArrives, ModeReply, pageVars, hostVars
<1>2. i \in Open(switch)
  BY <1>1, OpenIs
<1>3. /\ Open(chat) = {} /\ stops = 0 /\ Open(clear) = {} /\ Open(switch) = {i}
      /\ TracksAgree /\ HistoryShown
  BY <1>2 DEF Settled, ControlsAlone, Alone
<1>4. \A j \in (1 .. Switches) \ {i} : switch[j].pc \in {"unsent", "over"}
  BY <1>3, OpenIs
<1>5. Open(chat)' = {} /\ Open(clear)' = {} /\ stops' = 0
  BY <1>1, <1>3 DEF Open
<1>6. Open(switch)' = {j \in 1 .. Switches : switch'[j].pc \notin {"unsent", "over"}}
  BY OpenIs DEF Typed, TypeOK, Open
<1>7. HistoryShown'
  <2>1. \A m \in Modes : /\ Shown("you", m)' = Shown("you", m)
                         /\ Shown("answer", m)' = Shown("answer", m)
    BY <1>1 DEF Shown
  <2>2. \A m \in Modes : /\ Pending(m) = {} /\ Pending(m)' = {}
                         /\ ~Cleared(m) /\ ~Cleared(m)'
    <3>1. \A j \in 1 .. Clears : clear[j].pc # "cleared"
      BY <1>3, OpenIs
    <3>2. \A k \in Submissions : chat[k].pc # "answered"
      BY <1>3, OpenIs
    <3> QED
      BY <1>1, <3>1, <3>2 DEF Pending, Cleared
  <2> QED
    BY <1>1, <1>3, <2>1, <2>2 DEF HistoryShown
<1>8. CASE ModeArrives(i)
  <2>1. PICK d \in SwitchState :
          SwitchBecomes(i, d) /\ d.pc = "switched" /\ d.to = switch[i].to
    BY <1>8, ModeMoves
  <2>2. active' = switch[i].to /\ banner' = banner
    BY <1>8 DEF ModeArrives, pageVars
  <2>3. Open(switch)' = {i}
    BY <1>4, <1>6, <2>1 DEF SwitchBecomes
  <2>4. ControlsAlone'
    BY <1>5, <2>3 DEF ControlsAlone, Alone
  <2>5. TracksAgree'
    BY <1>4, <2>1, <2>2 DEF TracksAgree, SwitchBecomes
  <2> QED
    BY <1>5, <1>7, <2>4, <2>5, SettledAlone
<1>9. CASE ModeReply(i)
  <2>1. PICK d \in SwitchState : SwitchBecomes(i, d) /\ d.pc = "over"
    BY <1>1, <1>9, SwitchOver DEF ModeReply
  <2>2. banner' = active /\ active' = active
    BY <1>3, <1>9 DEF ModeReply, TracksAgree, hostVars
  <2>3. \A j \in 1 .. Switches : switch'[j].pc \in {"unsent", "over"}
    BY <1>4, <2>1 DEF SwitchBecomes
  <2>4. ControlsAlone' /\ TracksAgree'
    BY <1>5, <1>6, <2>2, <2>3 DEF ControlsAlone, TracksAgree
  <2> QED
    BY <1>5, <1>7, <2>4, SettledAlone
<1> QED
  BY <1>8, <1>9

LEMMA SettledStep ==
    ASSUME Typed, Typed', Waits, Settled, [Next]_vars, calm'
    PROVE  Settled'
<1>1. CASE Write \/ Dictate \/ Format \/ UNCHANGED vars
  <2>1. UNCHANGED <<banner, active, pane, switch, clear, stops, cleared, history>>
    BY <1>1 DEF Write, Dictate, Format, vars, pageVars, hostVars
  <2>2. \A k \in Submissions : Alike(chat[k], chat'[k])
    BY <1>1, OthersAbort
  <2> QED
    BY <2>1, <2>2, SettledAlike
<1>2. CASE Stop \/ StopArrives
  BY <1>2, SettledStops
<1>3. ~LoseControl /\ \A n \in Submissions : ~Lose(n)
  BY DEF LoseControl, Lose
<1>4. CASE HostStep
  BY <1>2, <1>4, SettledArrives, SettledEnds, SettledClearing, SettledSwitches DEF HostStep
<1>5. CASE PageStep
  BY <1>5, SettledArrives, SettledReply, SettledCancel, SettledForgets, SettledSwitches
  DEF PageStep
<1>6. CASE AdvisorStep
  BY <1>1, <1>2, <1>6, SettledArrives, SettledAsks DEF AdvisorStep
<1> QED
  BY <1>1, <1>3, <1>4, <1>5, <1>6 DEF Next

-----------------------------------------------------------------------------
(* Theorems *)

LEMMA InitPage == Init => PageInv
<1> SUFFICES ASSUME Init
             PROVE  PageInv
  OBVIOUS
<1>1. Typed
  BY InitType
<1>2. /\ pane = {} /\ sendOn = TRUE /\ stopOn = FALSE /\ stops = 0
      /\ banner = "private" /\ active = "private" /\ history = [m \in Modes |-> {}]
      /\ \A n \in Submissions : chat[n].pc = "unsent" /\ chat[n].heard = FALSE
      /\ \A i \in 1 .. Switches : switch[i].pc = "unsent"
      /\ \A i \in 1 .. Clears : clear[i].pc = "unsent"
  BY DEF Init, NoChat, NoClear
<1>3. Open(chat) = {} /\ Open(switch) = {} /\ Open(clear) = {}
  BY <1>1, <1>2, OpenIs
<1>4. \A n \in Submissions : Consented(chat[n])
  BY <1>2 DEF Consented, Begun
<1>5. Waits
  BY <1>2 DEF Waits
<1>6. ChatsShown /\ ControlsAlone
  BY <1>3 DEF ChatsShown, ControlsAlone
<1>7. TracksAgree
  BY <1>2 DEF TracksAgree
<1>8. HistoryShown
  BY <1>2 DEF HistoryShown, Shown, Pending, Cleared
<1> QED
  BY <1>1, <1>4, <1>5, <1>6, <1>7, <1>8 DEF PageInv, Settled

LEMMA PageStepInv == PageInv /\ [Next]_vars => PageInv'
<1> SUFFICES ASSUME PageInv, [Next]_vars
             PROVE  PageInv'
  OBVIOUS
<1>1. Typed /\ Waits /\ \A n \in Submissions : Consented(chat[n])
  BY DEF PageInv
<1>2. Typed'
  BY <1>1, TypeStep
<1>3. Waits' /\ \A n \in Submissions : Consented(chat'[n])
  BY <1>1, WaitsStep, ConsentStep
<1>4. calm' => calm
  BY DEF Next, HostStep, PageStep, AdvisorStep, Write, Dictate, Format, Submit, ChatArrives,
     ChatWakes, EndTurn, ChatReply, Confirm, Cancel, Lose, Stop, StopArrives, Clear,
     ClearArrives, ClearWakes, ClearReply, SwitchMode, ModeArrives, ModeReply, LoseControl, vars
<1>5. calm' => Settled'
  BY <1>1, <1>2, <1>4, SettledStep DEF PageInv
<1>6. (\A n \in Submissions : Consented(chat[n]))'
  BY <1>3
<1> QED
  BY <1>2, <1>3, <1>5, <1>6 DEF PageInv

\* The page, its requests and the host's sessions keep their types: no track is
\* cleared more often than clears were asked for, no more stops are on their way
\* than were sent, and a change of track leads to one of the two tracks.
THEOREM PageTyping == Spec => []TypeOK
<1>1. PageInv => TypeOK
  BY DEF PageInv, Typed
<1> QED
  BY <1>1, InitPage, PageStepInv, PTL DEF Spec

\* What PageInv says is what the page promises.
LEMMA PageInvTells == PageInv => PageIsTrue
<1> SUFFICES ASSUME PageInv
             PROVE  PageIsTrue
  OBVIOUS
<1>1. /\ Typed /\ Waits /\ \A n \in Submissions : Consented(chat[n])
      /\ calm => Settled
      /\ pane \subseteq Article /\ banner \in Modes
  BY DEF PageInv, Typed, TypeOK
<1>2. ConsentIsAsked
  BY <1>1 DEF ConsentIsAsked, Consented, Begun
<1>3. PageIsHistory
  <2> SUFFICES ASSUME calm, NoneOpen
               PROVE  /\ banner = active
                      /\ \A m \in Modes : /\ Shown("answer", m) = history[m]
                                          /\ history[m] \subseteq Shown("you", m)
    BY DEF PageIsHistory
  <2>1. /\ \A n \in Submissions : chat[n].pc # "answered"
        /\ \A i \in 1 .. Switches : switch[i].pc # "switched"
        /\ \A i \in 1 .. Clears : clear[i].pc # "cleared"
    BY <1>1, OpenIs DEF NoneOpen
  <2>2. banner = active
    BY <1>1, <2>1 DEF Settled, TracksAgree
  <2>3. \A m \in Modes : ~Cleared(m) /\ Pending(m) = {}
    BY <2>1 DEF Cleared, Pending
  <2> QED
    BY <1>1, <2>2, <2>3 DEF Settled, HistoryShown
<1>4. WaitingIsShown
  <2>1. ASSUME NEW m \in Modes, NEW n \in Shown("thinking", m)
        PROVE  n \in Waiting
    <3>1. PICK a \in pane : a.kind = "thinking" /\ a.of = n
      BY <2>1 DEF Shown
    <3> QED
      BY <1>1, <3>1, ArticleOf DEF Waiting
  <2>2. ASSUME calm, NEW n \in Waiting
        PROVE  n \in Shown("thinking", "private") \cup Shown("thinking", "openai")
    <3>1. n \in Open(chat)
      BY <1>1, <2>2, OpenIs DEF Waiting, Waits
    <3>2. Echo(n, "thinking") \in pane
      BY <1>1, <2>2, <3>1 DEF Settled, ChatsShown
    <3>3. n \in Shown("thinking", banner)
      BY <3>2 DEF Shown, Echo
    <3> QED
      BY <1>1, <3>3 DEF Modes
  <2>3. sendOn \/ Waiting # {}
    BY <1>1 DEF Waits
  <2> QED
    BY <2>1, <2>2, <2>3 DEF WaitingIsShown
<1> QED
  BY <1>2, <1>3, <1>4 DEF PageIsTrue

\* Flagged text runs on the OpenAI track only with the advisor's consent to this
\* very text.  An advisor who waits for tracks and clears and loses no connection
\* sees, when nothing is under way, the active track and in each track the answers
\* its session remembers, each under its question.  Dots stand for messages that
\* are waited for, and Send is disabled only while there is one.
THEOREM PageTellsTheTruth == Spec => []PageIsTrue
<1> QED
  BY InitPage, PageStepInv, PageInvTells, PTL DEF Spec

\* Stop is offered only while a message is waited for.  After the first of two
\* answers it is not offered although the second is waited for, so the converse
\* does not hold.
StopStopsSomething == stopOn => Waiting # {}

THEOREM StopIsOfferedForATurn == Spec => []StopStopsSomething
<1>1. PageInv => StopStopsSomething
  BY DEF PageInv, Waits, StopStopsSomething
<1> QED
  BY <1>1, InitPage, PageStepInv, PTL DEF Spec
=============================================================================
