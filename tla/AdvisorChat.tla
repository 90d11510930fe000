----------------------------- MODULE AdvisorChat ----------------------------
(***************************************************************************)
(* The advisor's chat server for one signed-in client: the handlers of     *)
(* /chat, /stop, /clear and /mode (src/advisor-server.ts), the sessions    *)
(* they act on (src/advisor-session.ts) and the commit of a turn           *)
(* (runAttempt and runAdvisorTurn in src/advisor-agent.ts).                *)
(*                                                                         *)
(* A handler runs until it awaits.  The handlers that await one turn's end *)
(* continue as microtasks, before any file operation or request completes: *)
(* `Quiet' says that none of them is left.  A transcript, the content of a *)
(* piSessionRoot, is the sequence of the turns committed to it.            *)
(***************************************************************************)
EXTENDS Naturals, Sequences, FiniteSets

CONSTANTS
    Turns,      \* /chat requests
    Clears,     \* /clear requests
    MaxSessions,\* bound on the sessions createSession makes
    None,
    NoDir,      \* a directory that does not exist
    Providers,  \* length of MODE_CHAINS[mode], in each mode
    Flagged,    \* turns with flagged text and no consent
    Switches,   \* bound on /mode requests
    Settled,    \* does the advisor switch tracks only when no /clear waits?
    Sweeps,     \* bound on sessions that expire
    Signals     \* does the process get a SIGTERM?

Modes == {"private", "openai"}
Sessions == 1 .. MaxSessions    \* session ids, in the order of creation

ASSUME AdvisorAssumption ==
    /\ MaxSessions \in Nat \ {0}
    /\ None \notin Turns \cup Nat \cup Modes
    /\ NoDir \notin Seq(Turns)
    /\ Turns \cap Clears = {}
    /\ Providers \in [Modes -> Nat \ {0}]
    /\ Flagged \subseteq Turns
    /\ Switches \in Nat /\ Sweeps \in Nat
    /\ Signals \in BOOLEAN /\ Settled \in BOOLEAN

VARIABLES
    process,    \* "up", "stopping" (between the signal and exit) or "down"
    active,     \* client.active
    track,      \* client.ids
    live,       \* the keys of the map `sessions'
    modeOf,     \* mode of each session handed out; None: not yet
    root,       \* piSessionRoot of each session
    history,    \* session.history, the turns that are in it
    schedule,   \* session.lastSchedule: the turn that proposed it, or None
    inFlight,   \* the map inFlight
    turn,       \* the state of each /chat
    clear,      \* the state of each /clear
    shared,     \* sessions in which two requests have awaited one turn
    switches, sweeps

sessionVars == <<active, track, live, modeOf, root>>
auxiliary == <<shared, switches, sweeps>>
vars == <<process, sessionVars, history, schedule, inFlight, turn, clear, auxiliary>>

TurnPc == {"unsent", "reading", "waiting", "woken", "copy", "run", "remove",
           "copy_back", "clean_up", "done"}
Outcome == {"none", "answered", "malformed", "aborted", "error", "refused"}

TurnState ==
    [pc       : TurnPc,
     session  : Sessions \cup {None},
     prior    : Turns \cup {None},
     aborted  : BOOLEAN,                 \* controller.signal.aborted
     left     : Nat,                     \* providers of the chain not tried yet
     attempt  : Seq(Turns),              \* transcript in attemptRoot
     before   : Turns \cup {None},       \* scheduleBefore
     outcome  : Outcome]

ClearState ==
    [pc : {"unsent", "waiting", "woken", "done"},
     session : Sessions \cup {None},
     prior : Turns \cup {None}]

NewTurn  == [pc |-> "unsent", session |-> None, prior |-> None,
             aborted |-> FALSE, left |-> 0, attempt |-> <<>>,
             before |-> None, outcome |-> "none"]
NewClear == [pc |-> "unsent", session |-> None, prior |-> None]

TypeOK ==
    /\ process \in {"up", "stopping", "down"}
    /\ active \in Modes
    /\ track \in [Modes -> Sessions \cup {None}]
    /\ live \subseteq Sessions
    /\ modeOf \in [Sessions -> Modes \cup {None}]
    /\ root \in [Sessions -> {NoDir} \cup Seq(Turns)]
    /\ history \in [Sessions -> Seq(Turns)]
    /\ schedule \in [Sessions -> Turns \cup {None}]
    /\ inFlight \in [Sessions -> Turns \cup {None}]
    /\ turn \in [Turns -> TurnState]
    /\ clear \in [Clears -> ClearState]
    /\ shared \subseteq Sessions
    /\ switches \in 0 .. Switches
    /\ sweeps \in 0 .. Sweeps

\* The client has signed in and has its first session.
Init ==
    /\ process = "up"
    /\ active = "private"
    /\ track = [m \in Modes |-> IF m = "private" THEN 1 ELSE None]
    /\ live = {1}
    /\ modeOf = [s \in Sessions |-> IF s = 1 THEN "private" ELSE None]
    /\ root = [s \in Sessions |-> IF s = 1 THEN <<>> ELSE NoDir]
    /\ history = [s \in Sessions |-> <<>>]
    /\ schedule = [s \in Sessions |-> None]
    /\ inFlight = [s \in Sessions |-> None]
    /\ turn = [t \in Turns |-> NewTurn]
    /\ clear = [c \in Clears |-> NewClear]
    /\ shared = {}
    /\ switches = 0
    /\ sweeps = 0

Serving == process # "down"
Quiet ==
    /\ \A t \in Turns : turn[t].pc # "woken"
    /\ \A c \in Clears : clear[c].pc # "woken"

NextId == 1 + Cardinality({s \in Sessions : modeOf[s] # None})

\* createSession for a track, after `gone' have been disposed.
Create(mode, s, gone) ==
    /\ s = NextId
    /\ live' = (live \ gone) \cup {s}
    /\ modeOf' = [modeOf EXCEPT ![s] = mode]
    /\ root' = [q \in Sessions |-> IF q = s THEN <<>>
                                   ELSE IF q \in gone THEN NoDir ELSE root[q]]
    /\ track' = [track EXCEPT ![mode] = s]

\* resolveTrack: the session of a track, made anew if it is gone.
Resolve(mode, s) ==
    IF track[mode] \in live
      THEN s = track[mode] /\ UNCHANGED <<track, live, modeOf, root>>
      ELSE Create(mode, s, {})

\* Every request of the browser first looks up its session; one that is gone
\* is replaced.  A /clear of such a track is Visit and then Clear.
Visit ==
    /\ Serving /\ Quiet
    /\ track[active] \notin live
    /\ \E s \in Sessions : Create(active, s, {})
    /\ UNCHANGED <<process, active, history, schedule, inFlight, turn, clear, auxiliary>>

-----------------------------------------------------------------------------
(* /chat *)

\* The session is looked up when the request arrives, before its body is read.
Chat(t) ==
    /\ Serving /\ Quiet
    /\ turn[t].pc = "unsent"
    /\ \E s \in Sessions :
         /\ Resolve(active, s)
         /\ turn' = [turn EXCEPT ![t].pc = "reading", ![t].session = s]
    /\ UNCHANGED <<process, active, history, schedule, inFlight, clear, auxiliary>>

\* runTurn, up to the first await of runAttempt: the turn is in flight.
Begins(t) ==
    [turn[t] EXCEPT
       !.pc = "copy", !.prior = None,
       !.left = Providers[modeOf[turn[t].session]] - 1,
       !.before = schedule[turn[t].session]]

\* Faulty: a turn in flight is aborted but not awaited.
BodyReadEager(t) ==
    /\ Serving /\ Quiet
    /\ turn[t].pc = "reading"
    /\ LET s == turn[t].session
           prior == inFlight[s]
       IN /\ turn' = IF prior = None THEN [turn EXCEPT ![t] = Begins(t)]
                    ELSE [turn EXCEPT ![t] = Begins(t), ![prior].aborted = TRUE]
          /\ inFlight' = [inFlight EXCEPT ![s] = t]
    /\ UNCHANGED <<process, sessionVars, history, schedule, clear, auxiliary>>

\* A request awaits turn prior of session s, beside any that do already.
IsAwaited(prior) ==
    \/ \E t \in Turns : turn[t].pc = "waiting" /\ turn[t].prior = prior
    \/ \E c \in Clears : clear[c].pc = "waiting" /\ clear[c].prior = prior

Awaits(s, prior) ==
    shared' = IF IsAwaited(prior) THEN shared \cup {s} ELSE shared

\* The body is read: a turn in flight is aborted and awaited.
BodyRead(t) ==
    /\ Serving /\ Quiet
    /\ turn[t].pc = "reading"
    /\ LET s == turn[t].session
           prior == inFlight[s]
       IN \/ /\ modeOf[s] = "openai" /\ t \in Flagged
             /\ turn' = [turn EXCEPT ![t].pc = "done",
                                     ![t].outcome = "refused"]
             /\ UNCHANGED <<inFlight, shared>>
          \/ /\ ~(modeOf[s] = "openai" /\ t \in Flagged)
             /\ prior # None
             /\ turn' = [turn EXCEPT ![t].pc = "waiting", ![t].prior = prior,
                                     ![prior].aborted = TRUE]
             /\ Awaits(s, prior)
             /\ UNCHANGED inFlight
          \/ /\ ~(modeOf[s] = "openai" /\ t \in Flagged)
             /\ prior = None
             /\ turn' = [turn EXCEPT ![t] = Begins(t)]
             /\ inFlight' = [inFlight EXCEPT ![s] = t]
             /\ UNCHANGED shared
    /\ UNCHANGED <<process, sessionVars, history, schedule, clear, switches, sweeps>>

\* The turn awaited has ended.
Awaited(t) ==
    /\ Serving
    /\ turn[t].pc = "woken"
    /\ turn' = [turn EXCEPT ![t] = Begins(t)]
    /\ inFlight' = [inFlight EXCEPT ![turn[t].session] = t]
    /\ UNCHANGED <<process, sessionVars, history, schedule, clear, auxiliary>>

\* An attempt that does not commit gives back the schedule it found.
Restored(t) == [schedule EXCEPT ![turn[t].session] = turn[t].before]

\* cp(piSessionRoot, attemptRoot), which fails if there is no root.
CopyOut(t) ==
    /\ Serving /\ Quiet
    /\ turn[t].pc = "copy"
    /\ LET from == root[turn[t].session] IN
         \/ /\ from = NoDir
            /\ turn' = [turn EXCEPT ![t].pc = "clean_up", ![t].outcome = "error"]
            /\ schedule' = Restored(t)
         \/ /\ from # NoDir
            /\ turn' = [turn EXCEPT ![t].pc = "run", ![t].attempt = from]
            /\ UNCHANGED schedule
    /\ UNCHANGED <<process, sessionVars, history, inFlight, clear, auxiliary>>

\* The agent calls propose_schedule.
Propose(t) ==
    /\ Serving /\ Quiet
    /\ turn[t].pc = "run"
    /\ schedule[turn[t].session] # t
    /\ schedule' = [schedule EXCEPT ![turn[t].session] = t]
    /\ UNCHANGED <<process, sessionVars, history, inFlight, turn, clear, auxiliary>>

\* Faulty: an abort that was not seen in time commits what there is.
AnswersLate(t) ==
    /\ Serving /\ Quiet
    /\ turn[t].pc = "run"
    /\ \E out \in {"error", "answered", "aborted"} :
         turn' = [turn EXCEPT
           ![t].outcome = out,
           ![t].pc = IF out = "error" THEN "clean_up" ELSE "remove"]
    /\ UNCHANGED <<process, sessionVars, history, schedule, inFlight, clear, auxiliary>>

\* runWithProvider answers: an abort it has seen outranks what the model said.
Answers(t) ==
    /\ Serving /\ Quiet
    /\ turn[t].pc = "run"
    /\ \E out \in {"error"} \cup (IF turn[t].aborted THEN {"aborted"}
                                  ELSE {"answered", "malformed"}) :
         /\ turn' = [turn EXCEPT
           ![t].outcome = out,
           ![t].pc = IF out = "answered" THEN "remove" ELSE "clean_up"]
         /\ schedule' = IF out = "answered" THEN schedule ELSE Restored(t)
    /\ UNCHANGED <<process, sessionVars, history, inFlight, clear, auxiliary>>

\* The commit: rm(piSessionRoot), then cp(attemptRoot, piSessionRoot).
RemoveRoot(t) ==
    /\ Serving /\ Quiet
    /\ turn[t].pc = "remove"
    /\ root' = [root EXCEPT ![turn[t].session] = NoDir]
    /\ turn' = [turn EXCEPT ![t].pc = "copy_back"]
    /\ UNCHANGED <<process, active, track, live, modeOf, history, schedule,
                   inFlight, clear, auxiliary>>

CopyBack(t) ==
    /\ Serving /\ Quiet
    /\ turn[t].pc = "copy_back"
    /\ root' = [root EXCEPT ![turn[t].session] = Append(turn[t].attempt, t)]
    /\ turn' = [turn EXCEPT ![t].pc = "clean_up"]
    /\ UNCHANGED <<process, active, track, live, modeOf, history, schedule,
                   inFlight, clear, auxiliary>>

\* Faulty: `done' is not settled when the turn has thrown.
WokenOnSuccess(f, t) ==
    [x \in DOMAIN f |->
       IF f[x].pc = "waiting" /\ f[x].prior = t /\ turn[t].outcome # "error"
         THEN [f[x] EXCEPT !.pc = "woken"] ELSE f[x]]

\* Whoever awaits the turn goes on as soon as it has ended.
Woken(f, t) ==
    [x \in DOMAIN f |-> IF f[x].pc = "waiting" /\ f[x].prior = t
                          THEN [f[x] EXCEPT !.pc = "woken"] ELSE f[x]]

\* The attempt's files are removed and the next provider is tried.
NextProvider(t) ==
    /\ Serving /\ Quiet
    /\ turn[t].pc = "clean_up"
    /\ turn[t].outcome = "error" /\ ~turn[t].aborted /\ turn[t].left > 0
    /\ turn' = [turn EXCEPT ![t].pc = "copy", ![t].left = @ - 1,
                            ![t].attempt = <<>>, ![t].outcome = "none",
                            ![t].before = schedule[turn[t].session]]
    /\ UNCHANGED <<process, sessionVars, history, schedule, inFlight, clear, auxiliary>>

\* Of a request that was answered its session and its outcome matter.
Ended(t) == [NewTurn EXCEPT !.pc = "done", !.session = turn[t].session,
                            !.outcome = turn[t].outcome]

\* The attempt's files are removed and the request is answered: with the
\* turn's text, which joins the history unless the turn was aborted, or with
\* an error.
Finish(t) ==
    /\ Serving /\ Quiet
    /\ turn[t].pc = "clean_up"
    /\ turn[t].outcome # "error" \/ turn[t].aborted \/ turn[t].left = 0
    /\ LET s == turn[t].session IN
         /\ inFlight' = [inFlight EXCEPT ![s] = IF @ = t THEN None ELSE @]
         /\ history' = [history EXCEPT ![s] =
              IF turn[t].outcome \in {"answered", "malformed"}
                THEN Append(@, t) ELSE @]
    /\ turn' = Woken([turn EXCEPT ![t] = Ended(t)], t)
    /\ clear' = Woken(clear, t)
    /\ UNCHANGED <<process, sessionVars, schedule, auxiliary>>

\* /stop, or the browser closing the connection of a turn that has begun.
Stop(t) ==
    /\ Serving /\ Quiet
    /\ turn[t].pc \in {"copy", "run", "remove", "copy_back"}
    /\ ~turn[t].aborted
    /\ turn' = [turn EXCEPT ![t].aborted = TRUE]
    /\ UNCHANGED <<process, sessionVars, history, schedule, inFlight, clear, auxiliary>>

-----------------------------------------------------------------------------
(* /clear, /mode *)

\* clearActive disposes the session that is active by now.
ClearActive == \E s \in Sessions : Create(active, s, {track[active]} \cap live)

\* Faulty: the turn in flight is aborted but not awaited.
ClearEager(c) ==
    /\ Serving /\ Quiet
    /\ clear[c].pc = "unsent"
    /\ track[active] \in live
    /\ turn' = [t \in Turns |-> IF t = inFlight[track[active]]
                                 THEN [turn[t] EXCEPT !.aborted = TRUE] ELSE turn[t]]
    /\ clear' = [clear EXCEPT ![c] =
         [pc |-> "done", session |-> track[active], prior |-> None]]
    /\ ClearActive
    /\ UNCHANGED <<process, active, history, schedule, inFlight, auxiliary>>

Clear(c) ==
    /\ Serving /\ Quiet
    /\ clear[c].pc = "unsent"
    /\ track[active] \in live
    /\ LET s == track[active]
           entry == inFlight[s]
       IN \/ /\ entry # None
             /\ turn' = [turn EXCEPT ![entry].aborted = TRUE]
             /\ clear' = [clear EXCEPT ![c] =
                  [pc |-> "waiting", session |-> s, prior |-> entry]]
             /\ Awaits(s, entry)
             /\ UNCHANGED <<track, live, modeOf, root>>
          \/ /\ entry = None
             /\ ClearActive
             /\ clear' = [clear EXCEPT ![c] =
                  [pc |-> "done", session |-> s, prior |-> None]]
             /\ UNCHANGED <<turn, shared>>
    /\ UNCHANGED <<process, active, history, schedule, inFlight, switches, sweeps>>

ClearAwaited(c) ==
    /\ Serving
    /\ clear[c].pc = "woken"
    /\ inFlight' = [inFlight EXCEPT ![clear[c].session] = None]
    /\ ClearActive
    /\ clear' = [clear EXCEPT ![c].pc = "done", ![c].prior = None]
    /\ UNCHANGED <<process, active, history, schedule, turn, auxiliary>>

Mode(next) ==
    /\ Serving /\ Quiet
    /\ switches < Switches
    /\ Settled => \A c \in Clears : clear[c].pc \in {"unsent", "done"}
    /\ next # active
    /\ active' = next
    /\ \E s \in Sessions : Resolve(next, s)
    /\ switches' = switches + 1
    /\ UNCHANGED <<process, history, schedule, inFlight, turn, clear,
                   shared, sweeps>>

-----------------------------------------------------------------------------
\* A turn ends long before a session expires.
Sweep(s) ==
    /\ Serving /\ Quiet
    /\ sweeps < Sweeps
    /\ s \in live
    /\ \A t \in Turns : turn[t].session = s => turn[t].pc = "done"
    /\ live' = live \ {s}
    /\ root' = [root EXCEPT ![s] = NoDir]
    /\ sweeps' = sweeps + 1
    /\ UNCHANGED <<process, active, track, modeOf, history, schedule, inFlight,
                   turn, clear, shared, switches>>

\* SIGTERM: every session is disposed at once, and the process goes on for
\* half a second.
Signal ==
    /\ Signals
    /\ process = "up" /\ Quiet
    /\ process' = "stopping"
    /\ live' = {}
    /\ root' = [s \in Sessions |-> IF s \in live THEN NoDir ELSE root[s]]
    /\ UNCHANGED <<active, track, modeOf, history, schedule, inFlight, turn,
                   clear, auxiliary>>

Exit ==
    /\ process = "stopping"
    /\ process' = "down"
    /\ UNCHANGED <<sessionVars, history, schedule, inFlight, turn, clear, auxiliary>>

Runs(t) ==
    \/ BodyRead(t) \/ Awaited(t) \/ CopyOut(t) \/ Answers(t)
    \/ RemoveRoot(t) \/ CopyBack(t) \/ NextProvider(t) \/ Finish(t)

Next ==
    \/ \E t \in Turns : Chat(t) \/ Runs(t) \/ Propose(t) \/ Stop(t)
    \/ \E c \in Clears : Clear(c) \/ ClearAwaited(c)
    \/ \E m \in Modes : Mode(m)
    \/ Visit
    \/ \E s \in Sessions : Sweep(s)
    \/ Signal \/ Exit

Spec == Init /\ [][Next]_vars

\* Requests that have arrived go on; a provider answers or times out; after a
\* SIGTERM the timer that ends the process fires.
Fairness ==
    /\ WF_vars(Exit)
    /\ \A t \in Turns : WF_vars(Runs(t))
    /\ \A c \in Clears : WF_vars(ClearAwaited(c))

FairSpec == Spec /\ Fairness

-----------------------------------------------------------------------------
(* Properties *)

HasAttempt(t) == turn[t].pc \in {"copy", "run", "remove", "copy_back", "clean_up"}

\* A session has two turns under way only after two requests, submits or a
\* /clear, have awaited one turn of it: each submit that finds a turn in flight
\* waits for it, but the one that waits with it does not wait for this one.
OneTurnPerSession ==
    \A t, u \in Turns :
        HasAttempt(t) /\ HasAttempt(u) /\ turn[t].session = turn[u].session
          => t = u \/ turn[t].session \in shared

\* As long as no SIGTERM has come, no transcript is on disk for a session that
\* was cleared or swept, unless two requests have awaited one turn of it.
NothingLeftBehind ==
    process = "up" => \A s \in Sessions \ shared : root[s] # NoDir => s \in live

\* A transcript holds the turns of a history that were answered and not
\* malformed, each once, in the order they were answered in.
Follows(transcript, hist) ==
    /\ \A i \in DOMAIN transcript : \E p \in DOMAIN hist : hist[p] = transcript[i]
    /\ \A p \in DOMAIN hist :
         turn[hist[p]].outcome = "answered" <=>
            \E i \in DOMAIN transcript : transcript[i] = hist[p]
    /\ \A i, j \in DOMAIN transcript, p, q \in DOMAIN hist :
         hist[p] = transcript[i] /\ hist[q] = transcript[j] => (i < j <=> p < q)

\* A turn of the transcript proposed the schedule, if there is one.
Proposed(t, transcript) == t = None \/ \E i \in DOMAIN transcript : transcript[i] = t

\* Between turns, the transcript on disk that later turns build on is the
\* history the advisor sees, without the turns whose answer was malformed: no
\* answer is missing, aborted and failed turns left no trace.  The schedule
\* offered for download is one that such a turn proposed.
TranscriptIsHistory ==
    \A s \in live \ shared :
        (\A t \in Turns : turn[t].session = s => ~HasAttempt(t)) =>
            /\ root[s] # NoDir /\ Follows(root[s], history[s])
            /\ Proposed(schedule[s], root[s])

\* When /clear is answered, the session it was asked about is gone, and no
\* session of the other track went with it, if the advisor does not switch
\* tracks while it waits.
ClearsItsOwn ==
    \A c \in Clears : clear[c].pc # "done" /\ clear'[c].pc = "done" =>
         /\ clear'[c].session \notin live'
         /\ \A s \in live \ live' : modeOf[s] = modeOf[clear'[c].session]

\* /clear ends the session it was asked about, that one only, and nothing
\* leaves a transcript of a session that has ended.
ClearLeavesNothing == [][NothingLeftBehind' /\ ClearsItsOwn]_vars

\* In the end every chat that arrived is answered, and so is every clear,
\* whoever aborts or awaits whom, unless the process exits.
EveryRequestAnswered ==
    <>[](\/ process = "down"
         \/ /\ \A t \in Turns : turn[t].pc \in {"unsent", "done"}
            /\ \A c \in Clears : clear[c].pc \in {"unsent", "done"})
=============================================================================
