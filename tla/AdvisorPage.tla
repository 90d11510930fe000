----------------------------- MODULE AdvisorPage ----------------------------
(***************************************************************************)
(* The advisor's chat page (the script in src/advisor-ui.ts) and the       *)
(* handlers it calls (/chat, /stop, /clear and /mode in                    *)
(* src/advisor-server.ts).  The page's handlers run until they await an    *)
(* answer; meanwhile the advisor goes on typing, presses Enter again (it   *)
(* does not ask whether Send is enabled), stops, clears or changes tracks. *)
(* Requests and answers travel on connections of their own, in any order,  *)
(* and can be lost.  confirm() stops the page, so asking and answering is  *)
(* one step.  What a turn does is in AdvisorTurn, how transcripts are      *)
(* committed in AdvisorChat.                                               *)
(***************************************************************************)
EXTENDS Naturals, FiniteSets

CONSTANTS
    Texts,          \* what the advisor writes: [flagged, shape], see TextShape
    Submits,        \* bound on submitted messages
    Switches,       \* bound on /mode requests
    Clears,         \* bound on /clear requests
    Others,         \* bound on /mode, /clear and /stop requests and lost connections
    Nil

Modes == {"private", "openai"}
TextShape == {"plain", "paste"}    \* a formatted schedule is plain
Submissions == 1 .. Submits
Sessions == Modes \X (0 .. Clears)      \* a track and how often it was cleared

ASSUME PageAssumption ==
    /\ \A n \in {Submits, Switches, Clears, Others} : n \in Nat
    /\ Submits > 0
    /\ Texts \subseteq [flagged : BOOLEAN, shape : TextShape]
    /\ Nil \notin [flagged : BOOLEAN, shape : TextShape] \cup Sessions \cup Modes

VARIABLES
    banner,     \* uiMode
    acked,      \* localStorage "advisor.openaiAck"
    box,        \* the text in the message box
    pane,       \* the articles
    sendOn, stopOn,     \* the buttons
    chat,       \* each submission's request
    switch,     \* each /mode request
    clear,      \* each /clear request
    stops,      \* the number of /stop requests on their way
    active,     \* client.active
    cleared,    \* how often each track was cleared: its session
    history,    \* the submissions in session.history of each track
    inFlight,   \* the map inFlight: the submission of each session's turn
    others,     \* counts what Others bounds
    calm        \* has the advisor waited for /mode and /clear, and nothing been lost?

pageVars == <<banner, acked, box, pane, sendOn, stopOn>>
hostVars == <<active, cleared, history, inFlight>>
vars == <<pageVars, chat, switch, clear, stops, hostVars, others, calm>>

\* A request is on its way ("net"), or the host is at it, or its answer is on
\* its way, until the page has the answer or knows that the connection is lost.
Replies == {"asked", "answered", "aborted", "failed"}
ChatState ==
    [pc : {"unsent", "net", "waits", "runs", "over"} \cup Replies,
     heard : BOOLEAN,               \* does the page still wait for the answer?
     text : [flagged : BOOLEAN, shape : TextShape] \cup {Nil},
     consent : BOOLEAN,
     session : Sessions \cup {Nil},
     prior : Submissions \cup {0},
     aborted : BOOLEAN]
ClearState == [pc : {"unsent", "net", "waits", "cleared", "over"},
               session : Sessions \cup {Nil}, prior : Submissions \cup {0}]
SwitchState == [pc : {"unsent", "net", "switched", "over"}, to : Modes \cup {Nil}]
Article == [of : Submissions, kind : {"you", "thinking", "answer", "stopped"}, track : Modes]

TypeOK ==
    /\ banner \in Modes /\ active \in Modes
    /\ {acked, sendOn, stopOn, calm} \subseteq BOOLEAN
    /\ box = Nil \/ box \in [flagged : BOOLEAN, shape : TextShape]
    /\ pane \subseteq Article
    /\ chat \in [Submissions -> ChatState]
    /\ switch \in [1 .. Switches -> SwitchState]
    /\ clear \in [1 .. Clears -> ClearState]
    /\ stops \in 0 .. Others
    /\ cleared \in [Modes -> 0 .. Clears]
    /\ history \in [Modes -> SUBSET Submissions]
    /\ inFlight \in [Sessions -> Submissions \cup {0}]
    /\ others \in 0 .. Others

\* What is left of a request that is not made yet, or over.
NoChat(pc) == [pc |-> pc, heard |-> FALSE, text |-> Nil, consent |-> FALSE,
               session |-> Nil, prior |-> 0, aborted |-> FALSE]
NoClear(pc) == [pc |-> pc, session |-> Nil, prior |-> 0]

Init ==
    /\ banner = "private" /\ active = "private" /\ acked = FALSE
    /\ box = Nil /\ pane = {} /\ sendOn = TRUE /\ stopOn = FALSE
    /\ chat = [n \in Submissions |-> NoChat("unsent")]
    /\ switch = [i \in 1 .. Switches |-> [pc |-> "unsent", to |-> Nil]]
    /\ clear = [i \in 1 .. Clears |-> NoClear("unsent")]
    /\ stops = 0
    /\ cleared = [m \in Modes |-> 0] /\ history = [m \in Modes |-> {}]
    /\ inFlight = [s \in Sessions |-> 0]
    /\ others = 0 /\ calm = TRUE

Open(requests) == {i \in DOMAIN requests : requests[i].pc \notin {"unsent", "over"}}
Waiting == {n \in Submissions : chat[n].heard}      \* send() has not returned
NoneOpen == Open(chat) = {} /\ Open(switch) = {} /\ Open(clear) = {} /\ stops = 0

\* The next request of a kind is the first one not made yet.
Next1(requests, i) ==
    /\ requests[i].pc = "unsent"
    /\ \A j \in DOMAIN requests : j < i => requests[j].pc # "unsent"

Another == others < Others /\ others' = others + 1
-----------------------------------------------------------------------------
(* The message box. *)

\* The advisor writes a message.
Write ==
    /\ box = Nil /\ \E n \in Submissions : chat[n].pc = "unsent"
    /\ box' \in Texts
    /\ UNCHANGED <<banner, acked, pane, sendOn, stopOn, chat, switch, clear, stops,
                   hostVars, others, calm>>

\* Speech that is recorded, transcribed on the host and looks private is added
\* to what the box holds.
Dictate ==
    /\ \E n \in Submissions : chat[n].pc = "unsent"
    /\ box' = [flagged |-> TRUE, shape |-> IF box = Nil THEN "plain" ELSE box.shape]
    /\ UNCHANGED <<banner, acked, pane, sendOn, stopOn, chat, switch, clear, stops,
                   hostVars, others, calm>>

\* A pasted schedule is formatted in place and waits for the next submit.  What
\* the cleaner keeps of it can still look private.
Format ==
    /\ box # Nil /\ box.shape = "paste"
    /\ \E f \in {FALSE, box.flagged} : box' = [flagged |-> f, shape |-> "plain"]
    /\ UNCHANGED <<banner, acked, pane, sendOn, stopOn, chat, switch, clear, stops,
                   hostVars, others, calm>>

\* Echo the message, show that it is thought about, and send it.
Submit(n) ==
    /\ Next1(chat, n) /\ box # Nil /\ box.shape = "plain"
    /\ box' = Nil /\ sendOn' = FALSE /\ stopOn' = TRUE
    /\ pane' = pane \cup [of : {n}, kind : {"you", "thinking"}, track : {banner}]
    /\ chat' = [chat EXCEPT ![n].pc = "net", ![n].heard = TRUE, ![n].text = box]
    /\ calm' = (calm /\ Open(switch) = {} /\ Open(clear) = {})
    /\ UNCHANGED <<banner, acked, switch, clear, stops, hostVars, others>>
-----------------------------------------------------------------------------
(* /chat on the host. *)

Session(m) == <<m, cleared[m]>>

\* Faulty: the host asks for consent when the page shows the OpenAI track.
RefusedByBanner(text, m, consent) == banner = "openai" /\ text.flagged /\ ~consent

Refused(text, m, consent) == m = "openai" /\ text.flagged /\ ~consent

Abort(n) == [chat EXCEPT ![n].aborted = TRUE]

\* The handler calls runTurn; only now does a lost connection abort it.
StartTurn(n, s) ==
    /\ inFlight' = [inFlight EXCEPT ![s] = n]
    /\ chat' = [chat EXCEPT ![n].pc = "runs", ![n].session = s]

ChatArrives(n) ==
    /\ chat[n].pc = "net"
    /\ LET s == Session(active) prior == inFlight[s] IN
       IF Refused(chat[n].text, active, chat[n].consent)
       THEN chat' = [chat EXCEPT ![n].pc = "asked"] /\ UNCHANGED inFlight
       ELSE IF prior = 0 THEN StartTurn(n, s)
       ELSE /\ chat' = [Abort(prior) EXCEPT ![n].pc = "waits", ![n].session = s, ![n].prior = prior]
            /\ UNCHANGED inFlight
    /\ UNCHANGED <<pageVars, switch, clear, stops, active, cleared, history, others, calm>>

Ended(n) == chat[n].pc \notin {"net", "waits", "runs"}

ChatWakes(n) ==
    /\ chat[n].pc = "waits" /\ Ended(chat[n].prior)
    /\ StartTurn(n, chat[n].session)
    /\ UNCHANGED <<pageVars, switch, clear, stops, active, cleared, history, others, calm>>

\* A turn that is aborted may be past the point where it looks.  One that is
\* not aborted is pushed to the history of its session, cleared or not.
EndTurn(n) ==
    /\ chat[n].pc = "runs"
    /\ \E outcome \in {"answered", "failed"} \cup (IF chat[n].aborted THEN {"aborted"} ELSE {}) :
         LET s == chat[n].session IN
         /\ chat' = [chat EXCEPT ![n] = IF @.heard THEN [@ EXCEPT !.pc = outcome]
                                                   ELSE NoChat("over")]
         /\ inFlight' = IF inFlight[s] = n THEN [inFlight EXCEPT ![s] = 0] ELSE inFlight
         /\ history' = IF outcome = "answered" /\ s = Session(s[1])
                       THEN [history EXCEPT ![s[1]] = @ \cup {n}] ELSE history
    /\ UNCHANGED <<pageVars, switch, clear, stops, active, cleared, others, calm>>
-----------------------------------------------------------------------------
(* The page gets its answer. *)

Thinking(n) == {a \in pane : a.of = n /\ a.kind = "thinking"}

\* The finally of the submit handler, whatever other submissions there are.
Finally == sendOn' = TRUE /\ stopOn' = FALSE

Over(n) == chat' = [chat EXCEPT ![n] = NoChat("over")]

ChatReply(n) ==
    /\ chat[n].heard /\ chat[n].pc \in {"answered", "aborted", "failed"}
    /\ pane' = (pane \ Thinking(n)) \cup
               (CASE chat[n].pc = "answered" -> {[of |-> n, kind |-> "answer", track |-> banner]}
                  [] chat[n].pc = "aborted" -> {[of |-> n, kind |-> "stopped", track |-> banner]}
                  [] chat[n].pc = "failed" -> {})
    /\ Finally /\ Over(n)
    /\ UNCHANGED <<banner, acked, box, switch, clear, stops, hostVars, others, calm>>

\* 409: the advisor says that the text is not private, and it is sent again.
Confirm(n) ==
    /\ chat[n].heard /\ chat[n].pc = "asked"
    /\ chat' = [chat EXCEPT ![n].pc = "net", ![n].consent = TRUE]
    /\ UNCHANGED <<pageVars, switch, clear, stops, hostVars, others, calm>>

\* Or takes it back: the echo goes and the box has the text again, in the
\* place of what was written since.
Cancel(n) ==
    /\ chat[n].heard /\ chat[n].pc = "asked"
    /\ box' = chat[n].text
    /\ pane' = {a \in pane : a.of # n \/ a.kind \notin {"you", "thinking"}}
    /\ Finally /\ Over(n)
    /\ UNCHANGED <<banner, acked, switch, clear, stops, hostVars, others, calm>>

\* Faulty: the handler has a catch but no finally.
LoseWithoutFinally(n) ==
    /\ chat[n].heard /\ Another
    /\ pane' = pane \ Thinking(n)
    /\ IF Ended(n) \/ chat[n].pc = "net" THEN Over(n)
       ELSE chat' = [chat EXCEPT ![n].heard = FALSE, ![n].aborted = @ \/ chat[n].pc = "runs"]
    /\ calm' = FALSE
    /\ UNCHANGED <<banner, acked, box, sendOn, stopOn, switch, clear, stops, hostVars>>

\* A connection is lost.  A request on its way never arrives, a turn that runs
\* is aborted, one that still waits for the prior turn is not.
Lose(n) ==
    /\ chat[n].heard /\ Another
    /\ pane' = pane \ Thinking(n)
    /\ Finally
    /\ IF Ended(n) \/ chat[n].pc = "net" THEN Over(n)
       ELSE chat' = [chat EXCEPT ![n].heard = FALSE, ![n].aborted = @ \/ chat[n].pc = "runs"]
    /\ calm' = FALSE
    /\ UNCHANGED <<banner, acked, box, switch, clear, stops, hostVars>>
-----------------------------------------------------------------------------
(* Stop, Clear and the two tracks. *)

Stop ==
    /\ stopOn /\ Another
    /\ stopOn' = FALSE /\ stops' = stops + 1
    /\ UNCHANGED <<banner, acked, box, pane, sendOn, chat, switch, clear, hostVars, calm>>

StopArrives ==
    /\ stops > 0 /\ stops' = stops - 1
    /\ LET n == inFlight[Session(active)] IN chat' = IF n = 0 THEN chat ELSE Abort(n)
    /\ UNCHANGED <<pageVars, switch, clear, hostVars, others, calm>>

Clear(i) ==
    /\ Next1(clear, i) /\ Another
    /\ clear' = [clear EXCEPT ![i].pc = "net"]
    /\ calm' = (calm /\ NoneOpen)
    /\ UNCHANGED <<pageVars, chat, switch, stops, hostVars>>

\* clearActive: the track that is active now gets a new session.
ClearActive(i) ==
    /\ clear' = [clear EXCEPT ![i] = NoClear("cleared")]
    /\ cleared' = [cleared EXCEPT ![active] = @ + 1]
    /\ history' = [history EXCEPT ![active] = {}]

\* The turn of the session that was active is aborted and waited for.
ClearArrives(i) ==
    /\ clear[i].pc = "net"
    /\ LET s == Session(active) prior == inFlight[s] IN
       IF prior = 0 THEN ClearActive(i) /\ UNCHANGED chat
       ELSE /\ chat' = Abort(prior)
            /\ clear' = [clear EXCEPT ![i] = [pc |-> "waits", session |-> s, prior |-> prior]]
            /\ UNCHANGED <<cleared, history>>
    /\ UNCHANGED <<pageVars, switch, stops, active, inFlight, others, calm>>

ClearWakes(i) ==
    /\ clear[i].pc = "waits" /\ Ended(clear[i].prior)
    /\ inFlight' = [inFlight EXCEPT ![clear[i].session] = 0]
    /\ ClearActive(i)
    /\ UNCHANGED <<pageVars, chat, switch, stops, active, others, calm>>

\* The page drops the articles of the track it shows.
ClearReply(i) ==
    /\ clear[i].pc = "cleared" /\ clear' = [clear EXCEPT ![i] = NoClear("over")]
    /\ pane' = {a \in pane : a.track # banner}
    /\ UNCHANGED <<banner, acked, box, sendOn, stopOn, chat, switch, stops, hostVars,
                   others, calm>>

\* The first change to OpenAI asks; refusing changes nothing.
SwitchMode(i, m) ==
    /\ m # banner /\ Next1(switch, i) /\ Another
    /\ acked' = (acked \/ m = "openai")
    /\ switch' = [switch EXCEPT ![i] = [pc |-> "net", to |-> m]]
    /\ calm' = (calm /\ NoneOpen)
    /\ UNCHANGED <<banner, box, pane, sendOn, stopOn, chat, clear, stops, hostVars>>

ModeArrives(i) ==
    /\ switch[i].pc = "net" /\ switch' = [switch EXCEPT ![i].pc = "switched"]
    /\ active' = switch[i].to
    /\ UNCHANGED <<pageVars, chat, clear, stops, cleared, history, inFlight, others, calm>>

ModeReply(i) ==
    /\ switch[i].pc = "switched" /\ switch' = [switch EXCEPT ![i] = [pc |-> "over", to |-> Nil]]
    /\ banner' = switch[i].to
    /\ UNCHANGED <<acked, box, pane, sendOn, stopOn, chat, clear, stops, hostVars,
                   others, calm>>

\* /mode or /clear fails: the page stays as it is, whatever the host has done.
LoseControl ==
    /\ Another /\ calm' = FALSE
    /\ \/ /\ \E i \in Open(switch) : switch' = [switch EXCEPT ![i] = [pc |-> "over", to |-> Nil]]
          /\ UNCHANGED clear
       \/ /\ \E i \in Open(clear) : clear[i].pc # "waits" /\ clear' = [clear EXCEPT ![i] = NoClear("over")]
          /\ UNCHANGED switch
    /\ UNCHANGED <<pageVars, chat, stops, hostVars>>
-----------------------------------------------------------------------------
HostStep ==
    \/ \E n \in Submissions : ChatArrives(n) \/ ChatWakes(n) \/ EndTurn(n)
    \/ StopArrives
    \/ \E i \in 1 .. Clears : ClearArrives(i) \/ ClearWakes(i)
    \/ \E i \in 1 .. Switches : ModeArrives(i)

PageStep ==
    \/ \E n \in Submissions : ChatReply(n) \/ Confirm(n) \/ Cancel(n)
    \/ \E i \in 1 .. Clears : ClearReply(i)
    \/ \E i \in 1 .. Switches : ModeReply(i)

AdvisorStep ==
    \/ Write \/ Dictate \/ Format \/ Stop
    \/ \E n \in Submissions : Submit(n)
    \/ \E i \in 1 .. Clears : Clear(i)
    \/ \E i \in 1 .. Switches, m \in Modes : SwitchMode(i, m)

Next == HostStep \/ PageStep \/ AdvisorStep \/ LoseControl \/ \E n \in Submissions : Lose(n)

Spec == Init /\ [][Next]_vars

\* Requests arrive, turns end (AdvisorTurn) and confirm() is answered: nothing
\* else on the page works until it is.
FairSpec == Spec /\ WF_vars(HostStep) /\ WF_vars(PageStep)
-----------------------------------------------------------------------------
(* Properties. *)

\* Flagged text runs on the OpenAI track only if the advisor was shown its
\* flags and confirmed this very text, whatever track the page shows.
ConsentIsAsked ==
    \A n \in Submissions :
        /\ chat[n].pc \in {"runs", "answered", "aborted"}
        /\ chat[n].session[1] = "openai" /\ chat[n].text.flagged
        => chat[n].consent

Shown(kind, m) == {a.of : a \in {b \in pane : b.kind = kind /\ b.track = m}}

\* An advisor who waits for a change of tracks and a clear, and loses no
\* connection, sees, when nothing is under way, the track that is active and in
\* each track the answers that its session remembers, each under its question.
PageIsHistory ==
    calm /\ NoneOpen =>
        /\ banner = active
        /\ \A m \in Modes : Shown("answer", m) = history[m] /\ history[m] \subseteq Shown("you", m)

\* Dots are shown for a message that is being waited for and for no other, and
\* Send is disabled only while a message is waited for.
WaitingIsShown ==
    /\ \A m \in Modes : Shown("thinking", m) \subseteq Waiting
    /\ calm => Waiting \subseteq Shown("thinking", "private") \cup Shown("thinking", "openai")
    /\ sendOn \/ Waiting # {}

PageIsTrue == ConsentIsAsked /\ PageIsHistory /\ WaitingIsShown

\* However submissions, stops, clears, changes of track and lost connections
\* mix, in the end the page is ready again: no dots, Send enabled, Stop not.
EverythingComesBack == <>[](sendOn /\ ~stopOn /\ ~\E a \in pane : a.kind = "thinking")
=============================================================================
