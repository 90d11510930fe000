--------------------------- MODULE AdvisorChatProofs --------------------------
(***************************************************************************)
(* Proofs about AdvisorChat, for any number of submits, clears, switches   *)
(* of track, expiries and fallback models.                                 *)
(***************************************************************************)
EXTENDS AdvisorChat, FiniteSetTheorems, TLAPS

-----------------------------------------------------------------------------
(* Transcripts *)

\* The outcomes of a history's turns are settled.
LEMMA FollowsStays ==
    ASSUME NEW a, NEW h, Follows(a, h),
           \A p \in DOMAIN h : turn'[h[p]].outcome = turn[h[p]].outcome
    PROVE  Follows(a, h)'
BY DEF Follows

LEMMA AppendIs ==
    ASSUME NEW a \in Seq(Turns), NEW t \in Turns
    PROVE  /\ Append(a, t) \in Seq(Turns)
           /\ DOMAIN a \subseteq Nat \ {0}
           /\ DOMAIN Append(a, t) = DOMAIN a \cup {Len(a) + 1}
           /\ Append(a, t)[Len(a) + 1] = t
           /\ \A i \in DOMAIN a : i <= Len(a) /\ Append(a, t)[i] = a[i] /\ a[i] \in Turns
OBVIOUS

\* A turn that was answered joins both, and one that was malformed the history.
LEMMA FollowsBoth ==
    ASSUME NEW a \in Seq(Turns), NEW h \in Seq(Turns), NEW t \in Turns, Follows(a, h),
           \A p \in DOMAIN h : h[p] # t /\ turn'[h[p]].outcome = turn[h[p]].outcome,
           turn'[t].outcome = "answered"
    PROVE  Follows(Append(a, t), Append(h, t))'
<1>1. PICK b, k : b = Append(a, t) /\ k = Append(h, t)
  OBVIOUS
<1>2. PICK m, n : m = Len(a) + 1 /\ n = Len(h) + 1
  OBVIOUS
<1>3. /\ DOMAIN b = DOMAIN a \cup {m} /\ b[m] = t
      /\ DOMAIN k = DOMAIN h \cup {n} /\ k[n] = t
      /\ \A i \in DOMAIN a : i \in Nat /\ i < m /\ b[i] = a[i]
      /\ \A p \in DOMAIN h : p \in Nat /\ p < n /\ k[p] = h[p] /\ k[p] # t
      /\ m \in Nat /\ n \in Nat
  BY <1>1, <1>2, AppendIs
<1>4. \A i \in DOMAIN a : a[i] # t
  BY <1>3 DEF Follows
<1>5. \A i \in DOMAIN b : \E p \in DOMAIN k : k[p] = b[i]
  BY <1>3 DEF Follows
<1>6. \A p \in DOMAIN k :
        turn'[k[p]].outcome = "answered" <=> \E i \in DOMAIN b : b[i] = k[p]
  BY <1>3, <1>4 DEF Follows
<1>7. \A i, j \in DOMAIN b, p, q \in DOMAIN k :
        k[p] = b[i] /\ k[q] = b[j] => (i < j <=> p < q)
  <2> SUFFICES ASSUME NEW i \in DOMAIN b, NEW j \in DOMAIN b,
                      NEW p \in DOMAIN k, NEW q \in DOMAIN k,
                      k[p] = b[i], k[q] = b[j]
               PROVE  i < j <=> p < q
    OBVIOUS
  <2>1. (i = m <=> p = n) /\ (j = m <=> q = n)
    BY <1>3, <1>4
  <2>2. CASE i # m /\ j # m
    <3>1. i \in DOMAIN a /\ j \in DOMAIN a /\ p \in DOMAIN h /\ q \in DOMAIN h
      BY <1>3, <2>1, <2>2
    <3>2. h[p] = a[i] /\ h[q] = a[j]
      BY <1>3, <3>1
    <3> QED
      BY <3>1, <3>2 DEF Follows
  <2>3. CASE i = m \/ j = m
    BY <1>3, <2>1, <2>3
  <2> QED
    BY <2>2, <2>3
<1> QED
  BY <1>1, <1>5, <1>6, <1>7 DEF Follows

LEMMA FollowsHistory ==
    ASSUME NEW a \in Seq(Turns), NEW h \in Seq(Turns), NEW t \in Turns, Follows(a, h),
           \A p \in DOMAIN h : h[p] # t /\ turn'[h[p]].outcome = turn[h[p]].outcome,
           turn'[t].outcome # "answered"
    PROVE  Follows(a, Append(h, t))'
<1>1. PICK k : k = Append(h, t)
  OBVIOUS
<1>2. PICK n : n = Len(h) + 1
  OBVIOUS
<1>3. /\ DOMAIN k = DOMAIN h \cup {n} /\ k[n] = t
      /\ \A p \in DOMAIN h : p \in Nat /\ p < n /\ k[p] = h[p] /\ k[p] # t
      /\ n \in Nat
  BY <1>1, <1>2, AppendIs
<1>4. \A i \in DOMAIN a : a[i] # t
  BY DEF Follows
<1>5. \A i \in DOMAIN a : \E p \in DOMAIN k : k[p] = a[i]
  BY <1>3 DEF Follows
<1>6. \A p \in DOMAIN k :
        turn'[k[p]].outcome = "answered" <=> \E i \in DOMAIN a : a[i] = k[p]
  BY <1>3, <1>4 DEF Follows
<1>7. \A i, j \in DOMAIN a, p, q \in DOMAIN k :
        k[p] = a[i] /\ k[q] = a[j] => (i < j <=> p < q)
  <2> SUFFICES ASSUME NEW i \in DOMAIN a, NEW j \in DOMAIN a,
                      NEW p \in DOMAIN k, NEW q \in DOMAIN k,
                      k[p] = a[i], k[q] = a[j]
               PROVE  i < j <=> p < q
    OBVIOUS
  <2>1. p \in DOMAIN h /\ q \in DOMAIN h /\ h[p] = a[i] /\ h[q] = a[j]
    BY <1>3, <1>4
  <2> QED
    BY <2>1 DEF Follows
<1> QED
  BY <1>1, <1>5, <1>6, <1>7 DEF Follows

-----------------------------------------------------------------------------
(* The invariant *)

\* A request, a submit or a clear.
Requests == Turns \cup Clears
Of(x) == IF x \in Turns THEN turn[x] ELSE clear[x]
Awaiting == {"waiting", "woken"}

\* The ids handed out are the first ones, and nothing is known of the others.
Unused(s) ==
    /\ s \notin live /\ root[s] = NoDir /\ history[s] = <<>>
    /\ schedule[s] = None /\ inFlight[s] = None

Numbered ==
    /\ \E k \in 0 .. MaxSessions : \A s \in Sessions : modeOf[s] # None <=> s <= k
    /\ \A s \in Sessions : modeOf[s] = None => Unused(s)
    /\ \A m \in Modes : track[m] # None => modeOf[track[m]] = m
    /\ \A t \in Turns : turn[t].pc # "unsent" =>
         turn[t].session \in Sessions /\ modeOf[turn[t].session] # None
    /\ \A c \in Clears : clear[c].pc # "unsent" =>
         clear[c].session \in Sessions /\ modeOf[clear[c].session] # None

Attempting == {"copy", "run", "remove", "copy_back", "clean_up"}

\* The map inFlight names a turn that is under way, and all those that are but in
\* sessions in which two requests have awaited one turn.
Flights ==
    /\ \A s \in Sessions : inFlight[s] # None =>
         /\ turn[inFlight[s]].pc \in Attempting
         /\ turn[inFlight[s]].session = s
    /\ \A t \in Turns : turn[t].pc \in Attempting =>
         inFlight[turn[t].session] = t \/ turn[t].session \in shared

\* Whoever waits does so for the turn the map names.  While those whom a turn has
\* woken go on, nobody waits in its session; there is one of them, who finds the
\* session free, unless two have awaited one turn.
Waiting ==
    /\ \A x \in Requests : Of(x).pc = "waiting" =>
         Of(x).prior # None /\ Of(x).prior = inFlight[Of(x).session]
    /\ \A x, y \in Requests : Of(x).pc = "woken" =>
         /\ Of(y).pc = "waiting" => Of(y).session # Of(x).session
         /\ Of(y).pc = "woken" => Of(y).session = Of(x).session
    /\ \A x \in Requests : Of(x).pc = "woken" =>
         inFlight[Of(x).session] = None \/ Of(x).session \in shared
    /\ \A x, y \in Requests :
         Of(x).pc \in Awaiting /\ Of(y).pc \in Awaiting /\ Of(x).session = Of(y).session
           => x = y \/ Of(x).session \in shared

\* A history holds turns of its session that have ended.
Remembered ==
    \A s \in Sessions : \A p \in DOMAIN history[s] :
        turn[history[s][p]].pc = "done" /\ turn[history[s][p]].session = s

\* A session's transcript and schedule when no attempt has touched them.
Still(s) ==
    /\ root[s] \in Seq(Turns)
    /\ Follows(root[s], history[s])
    /\ Proposed(schedule[s], root[s])

\* What turn t, whose state is r, has made of them so far.
Commits(r) == r.pc = "clean_up" /\ r.outcome = "answered"

Going(s, t, r) ==
    /\ r.pc = "copy" \/ (r.pc = "clean_up" /\ r.outcome # "answered") => Still(s)
    /\ r.pc = "copy" => r.before = schedule[s]
    /\ r.pc \in {"run", "remove"} => root[s] = r.attempt
    /\ r.pc \in {"run", "remove", "copy_back"} \/ Commits(r) =>
         /\ Follows(r.attempt, history[s])
         /\ schedule[s] = t \/ Proposed(schedule[s], r.attempt)
    /\ r.pc = "run" => Proposed(r.before, r.attempt)
    /\ r.pc \in {"remove", "copy_back"} => r.outcome = "answered"
    /\ Commits(r) => root[s] = Append(r.attempt, t)

Kept(s) ==
    s \in live \ shared =>
        /\ inFlight[s] = None => Still(s)
        /\ \A t \in Turns : inFlight[s] = t => Going(s, t, turn[t])

\* What /clear waits for is the session that is active, if the advisor stays on
\* its track; if another clear has ended it, it finds one that is new.
Fresh(s) == \A t \in Turns : turn[t].pc # "unsent" => turn[t].session # s

Staying ==
    \A c \in Clears : clear[c].pc \in Awaiting =>
        /\ modeOf[clear[c].session] = active
        /\ clear[c].session \in live => clear[c].session = track[active]
        /\ process = "up" =>
             \/ clear[c].session \in live
             \/ clear[c].pc = "woken" /\ clear[c].session \in shared /\ Fresh(track[active])

\* No transcript outlives its session.
Tidy ==
    process = "up" =>
        /\ \A s \in Sessions \ shared : root[s] # NoDir => s \in live
        /\ \A t \in Turns : turn[t].pc \in {"run", "remove", "copy_back"} =>
             turn[t].session \in live \cup shared

ChatInv ==
    /\ TypeOK /\ Numbered /\ Flights /\ Waiting /\ Remembered
    /\ \A s \in Sessions : Kept(s)
    /\ Settled => Staying /\ Tidy

-----------------------------------------------------------------------------
(* Sessions *)

LEMMA NoneIs ==
    /\ None \notin Turns /\ None \notin Sessions /\ None \notin Modes
    /\ NoDir \notin Seq(Turns)
    /\ MaxSessions \in Nat \ {0} /\ Sessions = 1 .. MaxSessions
    /\ Providers \in [Modes -> Nat \ {0}]
    /\ Flagged \subseteq Turns /\ Switches \in Nat /\ Sweeps \in Nat
    /\ Turns \cap Clears = {}
BY AdvisorAssumption DEF Sessions

\* The id handed out next has not been handed out.
LEMMA NextIdIs ==
    ASSUME Numbered, NextId \in Sessions
    PROVE  /\ modeOf[NextId] = None
           /\ \E k \in 0 .. MaxSessions : \A s \in Sessions :
                modeOf[s] # None \/ s = NextId <=> s <= k
<1>1. PICK k \in 0 .. MaxSessions : \A s \in Sessions : modeOf[s] # None <=> s <= k
  BY DEF Numbered
<1>2. {s \in Sessions : modeOf[s] # None} = 1 .. k
  BY <1>1, NoneIs
<1>3. Cardinality(1 .. k) = k
  <2>1. 1 \in Int /\ k \in Int /\ k \in Nat
    BY <1>1, NoneIs
  <2>2. Cardinality(1 .. k) = IF 1 > k THEN 0 ELSE k - 1 + 1
    BY <2>1, FS_Interval
  <2> QED
    BY <2>1, <2>2
<1>4. NextId = k + 1
  <2>1. NextId = 1 + k
    BY <1>2, <1>3, Zenon DEF NextId
  <2> QED
    BY <1>1, <2>1, NoneIs
<1>5. k + 1 \in 0 .. MaxSessions /\ ~(k + 1 <= k)
  BY <1>1, <1>4, NoneIs
<1>6. modeOf[NextId] = None
  BY <1>1, <1>4, <1>5
<1>7. \A s \in Sessions : modeOf[s] # None \/ s = NextId <=> s <= k + 1
  BY <1>1, <1>4, <1>5, NoneIs
<1> QED
  BY <1>5, <1>6, <1>7

\* What createSession does to the sessions that were there, and to the one that
\* was not.
Creates(mode, s, gone) ==
    /\ s \in Sessions /\ modeOf[s] = None /\ Unused(s)
    /\ live' = (live \ gone) \cup {s}
    /\ root'[s] = <<>> /\ \A q \in Sessions \ {s} : root'[q] = IF q \in gone THEN NoDir ELSE root[q]
    /\ modeOf'[s] = mode /\ \A q \in Sessions \ {s} : modeOf'[q] = modeOf[q]
    /\ track'[mode] = s /\ \A m \in Modes \ {mode} : track'[m] = track[m]

\* The parts of the type invariant that are about sessions.
SessionsOK ==
    /\ track \in [Modes -> Sessions \cup {None}]
    /\ live \subseteq Sessions
    /\ modeOf \in [Sessions -> Modes \cup {None}]
    /\ root \in [Sessions -> {NoDir} \cup Seq(Turns)]

RequestsOK ==
    /\ \A t \in Turns : turn[t].pc # "unsent" =>
         turn[t].session \in Sessions /\ modeOf[turn[t].session] # None
    /\ \A c \in Clears : clear[c].pc # "unsent" =>
         clear[c].session \in Sessions /\ modeOf[clear[c].session] # None

LEMMA CreateIs ==
    ASSUME TypeOK, Numbered, NEW mode \in Modes, NEW s \in Sessions, NEW gone \in SUBSET live,
           Create(mode, s, gone)
    PROVE  Creates(mode, s, gone) /\ SessionsOK'
<1>1. /\ s = NextId
      /\ live' = (live \ gone) \cup {s}
      /\ modeOf' = [modeOf EXCEPT ![s] = mode]
      /\ root' = [q \in Sessions |-> IF q = s THEN <<>>
                                     ELSE IF q \in gone THEN NoDir ELSE root[q]]
      /\ track' = [track EXCEPT ![mode] = s]
  BY DEF Create
<1>2. /\ track \in [Modes -> Sessions \cup {None}] /\ live \subseteq Sessions
      /\ modeOf \in [Sessions -> Modes \cup {None}]
      /\ root \in [Sessions -> {NoDir} \cup Seq(Turns)]
  BY DEF TypeOK
<1>3. modeOf[s] = None /\ Unused(s)
  BY <1>1, NextIdIs DEF Numbered
<1>4. <<>> \in Seq(Turns)
  OBVIOUS
<1>5. Creates(mode, s, gone)
  BY <1>1, <1>2, <1>3 DEF Creates
<1>6. SessionsOK'
  <2>1. /\ track' \in [Modes -> Sessions \cup {None}] /\ live' \subseteq Sessions
        /\ modeOf' \in [Sessions -> Modes \cup {None}]
    BY <1>1, <1>2
  <2>2. root' \in [Sessions -> {NoDir} \cup Seq(Turns)]
    BY <1>1, <1>2, <1>4
  <2> QED
    BY <2>1, <2>2 DEF SessionsOK
<1> QED
  BY <1>5, <1>6

\* Of the numbering nothing else depends on what was created.
LEMMA CreateNumbers ==
    ASSUME TypeOK, Numbered, NEW mode \in Modes, NEW s \in Sessions, NEW gone \in SUBSET live,
           Create(mode, s, gone), UNCHANGED <<history, schedule>>,
           inFlight' = inFlight \/ (\A q \in Sessions : inFlight'[q] # None => inFlight[q] # None),
           RequestsOK'
    PROVE  Numbered'
<1>1. Creates(mode, s, gone) /\ s = NextId
  BY CreateIs DEF Create
<1>2. /\ track \in [Modes -> Sessions \cup {None}]
      /\ modeOf \in [Sessions -> Modes \cup {None}]
  BY DEF TypeOK
<1>3. modeOf'[s] # None /\ \A q \in Sessions \ {s} : modeOf'[q] = modeOf[q]
  BY <1>1, NoneIs DEF Creates
<1>4. \E k \in 0 .. MaxSessions : \A q \in Sessions : modeOf'[q] # None <=> q <= k
  BY <1>1, <1>3, NextIdIs
<1>5. \A q \in Sessions : modeOf'[q] = None => Unused(q)'
  <2> SUFFICES ASSUME NEW q \in Sessions, modeOf'[q] = None
               PROVE  Unused(q)'
    OBVIOUS
  <2>1. q # s /\ Unused(q)
    BY <1>3 DEF Numbered
  <2> QED
    BY <1>1, <2>1 DEF Creates, Unused
<1>6. \A m \in Modes : track'[m] # None => modeOf'[track'[m]] = m
  <2> SUFFICES ASSUME NEW m \in Modes, track'[m] # None
               PROVE  modeOf'[track'[m]] = m
    OBVIOUS
  <2>1. CASE m = mode
    BY <1>1, <2>1 DEF Creates
  <2>2. CASE m # mode
    <3>1. track'[m] = track[m] /\ modeOf[track[m]] = m /\ track[m] \in Sessions
      BY <1>1, <1>2, <2>2 DEF Creates, Numbered
    <3>2. track[m] # s
      BY <1>1, <3>1, NoneIs DEF Creates
    <3> QED
      BY <1>1, <3>1, <3>2 DEF Creates
  <2> QED
    BY <2>1, <2>2
<1> QED
  BY <1>4, <1>5, <1>6 DEF Numbered, RequestsOK

-----------------------------------------------------------------------------
(* What a step leaves alone *)

\* A request's turn is where it was, for the others.
Alike(a, b) ==
    /\ a.pc \in Attempting <=> b.pc \in Attempting
    /\ a.pc \in Attempting => b.session = a.session
    /\ b.pc \in {"waiting", "woken"} =>
         b.pc = a.pc /\ b.prior = a.prior /\ b.session = a.session
    /\ a.pc = "done" => b.pc = "done" /\ b.session = a.session /\ b.outcome = a.outcome

ClearsAlike ==
    \A c \in Clears : clear'[c].pc \in {"waiting", "woken"} => clear'[c] = clear[c]

WaitersAlike ==
    \A x \in Requests : Of(x)'.pc \in Awaiting =>
        Of(x)'.pc = Of(x).pc /\ Of(x)'.prior = Of(x).prior /\ Of(x)'.session = Of(x).session

\* The same but for who waits for it.
InPlace(a, b) ==
    /\ a.pc \in Attempting <=> b.pc \in Attempting
    /\ a.pc \in Attempting => b.session = a.session
    /\ a.pc = "done" => b.pc = "done" /\ b.session = a.session /\ b.outcome = a.outcome

\* The map loses at most an entry nobody relies on.
FlightsKept ==
    /\ inFlight' \in [Sessions -> Turns \cup {None}]
    /\ \A q \in Sessions : inFlight'[q] # inFlight[q] =>
         /\ inFlight'[q] = None /\ q \in shared
         /\ \A x \in Requests : Of(x).pc = "waiting" => Of(x).session # q

LEMMA FlightsKeep == TypeOK /\ inFlight' = inFlight => FlightsKept
BY DEF TypeOK, FlightsKept

LEMMA OfIs ==
    /\ \A t \in Turns : t \in Requests /\ Of(t) = turn[t] /\ Of(t)' = turn'[t]
    /\ \A c \in Clears : c \in Requests /\ Of(c) = clear[c] /\ Of(c)' = clear'[c]
    /\ \A x \in Requests : x \in Turns \/ x \in Clears
BY NoneIs DEF Requests, Of

LEMMA SessionOf ==
    ASSUME Numbered
    PROVE  \A x \in Requests : Of(x).pc \in Awaiting =>
             Of(x).session \in Sessions /\ modeOf[Of(x).session] # None
BY OfIs DEF Numbered, Awaiting

LEMMA WaitersAre ==
    ASSUME \A t \in Turns : Alike(turn[t], turn'[t]), ClearsAlike
    PROVE  WaitersAlike
<1> SUFFICES ASSUME NEW x \in Requests, Of(x)'.pc \in Awaiting
             PROVE  /\ Of(x)'.pc = Of(x).pc /\ Of(x)'.prior = Of(x).prior
                    /\ Of(x)'.session = Of(x).session
  BY DEF WaitersAlike
<1>1. CASE x \in Turns
  <2>1. Of(x) = turn[x] /\ Of(x)' = turn'[x]
    BY <1>1, OfIs
  <2> QED
    BY <1>1, <2>1 DEF Alike, Awaiting
<1>2. CASE x \in Clears
  <2>1. Of(x) = clear[x] /\ Of(x)' = clear'[x]
    BY <1>2, OfIs
  <2> QED
    BY <1>2, <2>1 DEF ClearsAlike, Awaiting
<1> QED
  BY <1>1, <1>2, OfIs

LEMMA FlightsStay ==
    ASSUME TypeOK, Numbered, Flights, Remembered, FlightsKept, history' = history,
           shared \subseteq shared', \A t \in Turns : InPlace(turn[t], turn'[t])
    PROVE  Flights' /\ Remembered'
<1>1. /\ inFlight \in [Sessions -> Turns \cup {None}] /\ history \in [Sessions -> Seq(Turns)]
      /\ \A q \in Sessions : inFlight'[q] = inFlight[q] \/ (inFlight'[q] = None /\ q \in shared)
  BY DEF TypeOK, FlightsKept
<1>2. Flights'
  <2>1. ASSUME NEW s \in Sessions, inFlight'[s] # None
        PROVE  turn'[inFlight'[s]].pc \in Attempting /\ turn'[inFlight'[s]].session = s
    BY <1>1, <2>1 DEF Flights, InPlace
  <2>2. ASSUME NEW t \in Turns, turn'[t].pc \in Attempting
        PROVE  inFlight'[turn'[t].session] = t \/ turn'[t].session \in shared'
    <3>1. turn[t].pc \in Attempting /\ turn'[t].session = turn[t].session
      BY <2>2 DEF InPlace
    <3>2. turn[t].session \in Sessions
      BY <3>1 DEF Numbered, Attempting
    <3> QED
      BY <1>1, <3>1, <3>2 DEF Flights
  <2> QED
    BY <2>1, <2>2 DEF Flights
<1>3. Remembered'
  <2>1. ASSUME NEW s \in Sessions, NEW p \in DOMAIN history[s]
        PROVE  turn'[history[s][p]].pc = "done" /\ turn'[history[s][p]].session = s
    <3>1. history[s][p] \in Turns
      BY <1>1
    <3> QED
      BY <3>1 DEF Remembered, InPlace
  <2> QED
    BY <2>1 DEF Remembered
<1> QED
  BY <1>2, <1>3

LEMMA WaitingStays ==
    ASSUME Numbered, Waiting, FlightsKept, shared \subseteq shared', WaitersAlike
    PROVE  Waiting'
<1>1. \A x \in Requests : Of(x)'.pc \in Awaiting =>
        /\ Of(x)'.pc = Of(x).pc /\ Of(x)'.prior = Of(x).prior /\ Of(x)'.session = Of(x).session
        /\ Of(x).session \in Sessions
  BY SessionOf DEF WaitersAlike
<1>2. ASSUME NEW x \in Requests, Of(x)'.pc = "waiting"
      PROVE  Of(x)'.prior # None /\ Of(x)'.prior = inFlight'[Of(x)'.session]
  <2>1. /\ Of(x).pc = "waiting" /\ Of(x)'.prior = Of(x).prior /\ Of(x)'.session = Of(x).session
        /\ Of(x).session \in Sessions
    BY <1>1, <1>2 DEF Awaiting
  <2>2. Of(x).prior # None /\ Of(x).prior = inFlight[Of(x).session]
    BY <2>1 DEF Waiting
  <2>3. inFlight'[Of(x).session] = inFlight[Of(x).session]
    BY <2>1 DEF FlightsKept
  <2> QED
    BY <2>1, <2>2, <2>3
<1>3. ASSUME NEW x \in Requests, NEW y \in Requests, Of(x)'.pc = "woken"
      PROVE  /\ Of(y)'.pc = "waiting" => Of(y)'.session # Of(x)'.session
             /\ Of(y)'.pc = "woken" => Of(y)'.session = Of(x)'.session
  BY <1>1, <1>3 DEF Waiting, Awaiting
<1>4. ASSUME NEW x \in Requests, Of(x)'.pc = "woken"
      PROVE  inFlight'[Of(x)'.session] = None \/ Of(x)'.session \in shared'
  <2>1. Of(x).pc = "woken" /\ Of(x)'.session = Of(x).session /\ Of(x).session \in Sessions
    BY <1>1, <1>4 DEF Awaiting
  <2>2. inFlight[Of(x).session] = None \/ Of(x).session \in shared
    BY <2>1 DEF Waiting
  <2> QED
    BY <2>1, <2>2 DEF FlightsKept
<1>5. ASSUME NEW x \in Requests, NEW y \in Requests,
             Of(x)'.pc \in Awaiting, Of(y)'.pc \in Awaiting, Of(x)'.session = Of(y)'.session
      PROVE  x = y \/ Of(x)'.session \in shared'
  BY <1>1, <1>5 DEF Waiting
<1> QED
  BY <1>2, <1>3, <1>4, <1>5 DEF Waiting

LEMMA FrameTurns ==
    ASSUME TypeOK, Numbered, Flights, Waiting, Remembered, FlightsKept, history' = history,
           shared \subseteq shared', \A t \in Turns : Alike(turn[t], turn'[t]), ClearsAlike
    PROVE  Flights' /\ Waiting' /\ Remembered'
<1>1. \A t \in Turns : InPlace(turn[t], turn'[t])
  BY DEF Alike, InPlace
<1> QED
  BY <1>1, FlightsStay, WaitingStays, WaitersAre

\* An attempt is where it was; it may have been aborted.
SameAttempt(a, b) ==
    b.pc = a.pc /\ b.outcome = a.outcome /\ b.attempt = a.attempt /\ b.before = a.before

\* The turns in a session's history keep their outcomes.
LEMMA HistoryIs ==
    ASSUME TypeOK, Remembered, NEW s \in Sessions, NEW p \in DOMAIN history[s]
    PROVE  /\ history[s] \in Seq(Turns) /\ history[s][p] \in Turns
           /\ turn[history[s][p]].pc = "done" /\ turn[history[s][p]].session = s
BY DEF TypeOK, Remembered

LEMMA KeptStays ==
    ASSUME TypeOK, Remembered, NEW s \in Sessions, Kept(s),
           s \in live' => s \in live /\ root'[s] = root[s],
           history'[s] = history[s], schedule'[s] = schedule[s], shared \subseteq shared',
           s \notin shared => inFlight'[s] = inFlight[s],
           \A t \in Turns : inFlight[s] = t => SameAttempt(turn[t], turn'[t]),
           \A t \in Turns : turn[t].pc = "done" => turn'[t].outcome = turn[t].outcome
    PROVE  Kept(s)'
<1> SUFFICES ASSUME s \in live' \ shared', s \in live \ shared, inFlight'[s] = inFlight[s]
             PROVE  /\ inFlight[s] = None => Still(s)'
                    /\ \A t \in Turns : inFlight[s] = t => Going(s, t, turn[t])'
  BY DEF Kept
<1>1. s \in live /\ root'[s] = root[s]
  OBVIOUS
<1>2. PICK h : h = history[s]
  OBVIOUS
<1>3. \A a : Follows(a, h) => Follows(a, h)'
  <2>1. \A p \in DOMAIN h : turn'[h[p]].outcome = turn[h[p]].outcome
    BY <1>2, HistoryIs
  <2> QED
    BY <2>1, FollowsStays
<1>4. Still(s) => Still(s)'
  <2>1. PICK x : x = root[s]
    OBVIOUS
  <2>2. Follows(x, h) => Follows(x, h)'
    BY <1>3
  <2>3. root'[s] = x /\ history'[s] = h
    BY <1>1, <1>2, <2>1
  <2> QED
    BY <1>1, <1>2, <2>1, <2>2, <2>3 DEF Still, Proposed, Follows
<1>5. inFlight[s] = None => Still(s)'
  BY <1>1, <1>4 DEF Kept
<1>6. ASSUME NEW t \in Turns, inFlight[s] = t
      PROVE  Going(s, t, turn[t])'
  <2>1. PICK r, q : r = turn[t] /\ q = turn'[t]
    OBVIOUS
  <2>2. Going(s, t, r) /\ SameAttempt(r, q)
    BY <1>1, <1>6, <2>1 DEF Kept
  <2>3. Follows(q.attempt, h) => Follows(q.attempt, h)'
    BY <1>3
  <2>4. /\ q.pc = "copy" \/ (q.pc = "clean_up" /\ q.outcome # "answered") => Still(s)'
        /\ q.pc = "copy" => q.before = schedule'[s]
        /\ q.pc \in {"run", "remove"} => root'[s] = q.attempt
        /\ q.pc = "run" => Proposed(q.before, q.attempt)
        /\ q.pc \in {"remove", "copy_back"} => q.outcome = "answered"
        /\ Commits(q) => root'[s] = Append(q.attempt, t)
    BY <1>1, <1>4, <2>2 DEF Going, SameAttempt, Commits
  <2>5. q.pc \in {"run", "remove", "copy_back"} \/ Commits(q) =>
          /\ Follows(q.attempt, h)'
          /\ schedule'[s] = t \/ Proposed(schedule'[s], q.attempt)
    BY <1>2, <2>2, <2>3 DEF Going, SameAttempt, Commits
  <2>6. history'[s] = h
    BY <1>2
  <2>7. Going(s, t, q)'
    BY <2>4, <2>5, <2>6 DEF Going, Commits, Proposed, Follows
  <2> QED
    BY <2>1, <2>7 DEF Going, Commits, Proposed, Follows, Still
<1> QED
  BY <1>5, <1>6

LEMMA KeptNew ==
    ASSUME TypeOK, NEW s \in Sessions, Unused(s), root'[s] = <<>>,
           history'[s] = history[s], schedule'[s] = schedule[s], inFlight'[s] = None
    PROVE  Kept(s)'
<1>1. history'[s] = <<>> /\ schedule'[s] = None /\ inFlight'[s] = None
  BY DEF Unused
<1>2. Still(s)'
  BY <1>1 DEF Still, Follows, Proposed
<1>3. \A t \in Turns : inFlight'[s] # t
  BY <1>1, NoneIs
<1> QED
  BY <1>2, <1>3 DEF Kept

-----------------------------------------------------------------------------
(* The steps that make a session *)

LEMMA CreateStep ==
    ASSUME ChatInv, NEW mode \in Modes, NEW s \in Sessions, NEW gone \in SUBSET live,
           Create(mode, s, gone), UNCHANGED <<process, history, schedule, shared>>, FlightsKept,
           \A t \in Turns : Alike(turn[t], turn'[t]),
           \A t \in Turns : turn[t].pc \in Attempting => turn'[t] = turn[t],
           ClearsAlike, RequestsOK',
           Settled =>
             \/ \A c \in Clears : clear'[c].pc \notin Awaiting
             \/ /\ active' = active /\ mode = active /\ gone = {track[active]} \cap live
                /\ process = "up" =>
                     /\ turn' = turn
                     /\ \A c \in Clears : clear'[c].pc \in Awaiting =>
                          clear[c].pc = "woken" /\ clear[c].session \in shared,
           Settled /\ process = "up" =>
             \A q \in gone \ shared, t \in Turns : turn[t].pc \in Attempting => turn[t].session # q
    PROVE  /\ SessionsOK' /\ Numbered' /\ Flights' /\ Waiting' /\ Remembered'
           /\ \A q \in Sessions : Kept(q)'
           /\ Settled => Staying' /\ Tidy'
<1>1. /\ TypeOK /\ Numbered /\ Flights /\ Waiting /\ Remembered
      /\ \A q \in Sessions : Kept(q)
  BY DEF ChatInv
<1>2. Creates(mode, s, gone) /\ SessionsOK'
  BY <1>1, CreateIs
<1>3. Numbered'
  BY <1>1, CreateNumbers DEF FlightsKept
<1>4. Flights' /\ Waiting' /\ Remembered'
  BY <1>1, FrameTurns
<1>5. inFlight \in [Sessions -> Turns \cup {None}]
  BY <1>1 DEF TypeOK
<1>6. ASSUME NEW q \in Sessions
      PROVE  Kept(q)'
  <2>1. CASE q = s
    BY <1>1, <1>2, <2>1, KeptNew DEF Creates, Unused, FlightsKept
  <2>2. CASE q # s
    <3>1. q \in live' => q \in live /\ root'[q] = root[q]
      BY <1>2, <2>2 DEF Creates
    <3>2. \A t \in Turns : inFlight[q] = t => SameAttempt(turn[t], turn'[t])
      BY <1>1, NoneIs DEF Flights, SameAttempt
    <3>3. \A t \in Turns : turn[t].pc = "done" => turn'[t].outcome = turn[t].outcome
      BY DEF Alike
    <3> QED
      BY <1>1, <3>1, <3>2, <3>3, KeptStays DEF FlightsKept
  <2> QED
    BY <2>1, <2>2
<1>7. ASSUME Settled
      PROVE  Staying'
  <2>1. Staying
    BY <1>7 DEF ChatInv
  <2> SUFFICES ASSUME NEW c \in Clears, clear'[c].pc \in Awaiting
               PROVE  /\ modeOf'[clear'[c].session] = active'
                      /\ clear'[c].session \in live' => clear'[c].session = track'[active']
                      /\ process' = "up" =>
                           \/ clear'[c].session \in live'
                           \/ /\ clear'[c].pc = "woken" /\ clear'[c].session \in shared'
                              /\ Fresh(track[active])'
    BY DEF Staying
  <2>2. /\ active' = active /\ mode = active /\ gone = {track[active]} \cap live
        /\ process = "up" => /\ turn' = turn
                             /\ clear[c].pc = "woken" /\ clear[c].session \in shared
    BY <1>7
  <2>3. PICK q : q = clear[c].session
    OBVIOUS
  <2>4. /\ clear'[c].session = q /\ clear'[c].pc = clear[c].pc
        /\ q \in Sessions /\ modeOf[q] # None /\ modeOf[q] = active
        /\ (q \in live => q = track[active])
    BY <1>1, <2>1, <2>3 DEF ClearsAlike, Numbered, Staying, Awaiting
  <2>5. q # s /\ q \notin live' /\ track'[active'] = s
    BY <1>2, <2>2, <2>4 DEF Creates
  <2>6. process = "up" => Fresh(s)'
    BY <1>1, <1>2, <2>2 DEF Creates, Fresh, Numbered
  <2> QED
    BY <1>2, <2>2, <2>3, <2>4, <2>5, <2>6 DEF Creates, Fresh
<1>8. ASSUME Settled, process = "up"
      PROVE  /\ \A q \in Sessions \ shared : root'[q] # NoDir => q \in live'
             /\ \A t \in Turns : turn'[t].pc \in {"run", "remove", "copy_back"} =>
                  turn'[t].session \in live' \cup shared
  <2>1. /\ \A q \in Sessions \ shared : root[q] # NoDir => q \in live
        /\ \A t \in Turns : turn[t].pc \in {"run", "remove", "copy_back"} =>
             turn[t].session \in live \cup shared
    BY <1>8 DEF ChatInv, Tidy
  <2>2. \A q \in Sessions \ shared : root'[q] # NoDir => q \in live'
    BY <1>2, <2>1 DEF Creates
  <2>3. ASSUME NEW t \in Turns, turn'[t].pc \in {"run", "remove", "copy_back"}
        PROVE  turn'[t].session \in live' \cup shared
    <3>1. turn[t].pc \in Attempting /\ turn'[t] = turn[t]
      BY <2>3 DEF Alike, Attempting
    <3>2. turn[t].session \in live \cup shared
      BY <2>1, <2>3, <3>1
    <3>3. turn[t].session \notin gone \ shared
      BY <1>8, <3>1
    <3> QED
      BY <1>2, <3>1, <3>2, <3>3 DEF Creates
  <2> QED
    BY <2>2, <2>3
<1>9. Settled => Tidy'
  BY <1>8 DEF Tidy
<1> QED
  BY <1>2, <1>3, <1>4, <1>6, <1>7, <1>9

\* Who is open to a request has a session.
LEMMA RequestsStay ==
    ASSUME Numbered, \A s \in Sessions : modeOf[s] # None => modeOf'[s] # None,
           \A t \in Turns : turn'[t].pc # "unsent" =>
             \/ turn[t].pc # "unsent" /\ turn'[t].session = turn[t].session
             \/ turn'[t].session \in Sessions /\ modeOf'[turn'[t].session] # None,
           \A c \in Clears : clear'[c].pc # "unsent" =>
             \/ clear[c].pc # "unsent" /\ clear'[c].session = clear[c].session
             \/ clear'[c].session \in Sessions /\ modeOf'[clear'[c].session] # None
    PROVE  RequestsOK'
BY DEF Numbered, RequestsOK

LEMMA ModesStay ==
    ASSUME TypeOK, Numbered, NEW mode \in Modes, NEW s \in Sessions, NEW gone \in SUBSET live,
           Create(mode, s, gone)
    PROVE  modeOf'[s] # None /\ \A q \in Sessions : modeOf[q] # None => modeOf'[q] # None
BY CreateIs, NoneIs DEF Creates

\* No clear waits for a session that is gone before its time.
LEMMA StayingIs ==
    ASSUME Settled => Staying, track[active] \notin live, Quiet
    PROVE  Settled /\ process = "up" =>
             \A c \in Clears : clear[c].pc \notin Awaiting
BY DEF Staying, Quiet, Awaiting

LEMMA VisitStep == ChatInv /\ Visit => ChatInv'
<1> SUFFICES ASSUME ChatInv, Visit
             PROVE  ChatInv'
  OBVIOUS
<1>1. /\ TypeOK /\ Numbered /\ Quiet /\ track[active] \notin live /\ active \in Modes
      /\ UNCHANGED <<process, active, history, schedule, inFlight, turn, clear, auxiliary>>
  BY DEF ChatInv, TypeOK, Visit
<1>2. PICK s \in Sessions : Create(active, s, {})
  BY DEF Visit
<1>3. \A t \in Turns : Alike(turn[t], turn'[t])
  BY <1>1 DEF Alike
<1>4. ClearsAlike
  BY <1>1 DEF ClearsAlike
<1>5. RequestsOK'
  BY <1>1, <1>2, ModesStay, RequestsStay
<1>6. Settled => \/ \A c \in Clears : clear'[c].pc \notin Awaiting
                 \/ process # "up" /\ active' = active /\ {} = {track[active]} \cap live
  BY <1>1, StayingIs DEF ChatInv
<1>7. /\ SessionsOK' /\ Numbered' /\ Flights' /\ Waiting' /\ Remembered'
      /\ \A q \in Sessions : Kept(q)'
      /\ Settled => Staying' /\ Tidy'
  BY <1>1, <1>2, <1>3, <1>4, <1>5, <1>6, CreateStep, FlightsKeep DEF auxiliary
<1>8. TypeOK'
  BY <1>1, <1>7 DEF TypeOK, SessionsOK, auxiliary
<1> QED
  BY <1>7, <1>8 DEF ChatInv

\* A step that makes no session.
LEMMA SameSessions ==
    ASSUME ChatInv, UNCHANGED <<track, modeOf, history, inFlight, shared>>, live' \subseteq live,
           \A s \in Sessions : modeOf[s] = None => root'[s] = root[s] /\ schedule'[s] = schedule[s],
           \A t \in Turns : Alike(turn[t], turn'[t]), ClearsAlike, RequestsOK'
    PROVE  Numbered' /\ Flights' /\ Waiting' /\ Remembered'
<1>1. TypeOK /\ Numbered /\ Flights /\ Waiting /\ Remembered
  BY DEF ChatInv
<1>2. Flights' /\ Waiting' /\ Remembered'
  BY <1>1, FrameTurns, FlightsKeep
<1>3. \A s \in Sessions : modeOf'[s] = None => Unused(s)'
  BY <1>1 DEF Numbered, Unused
<1>4. Numbered'
  BY <1>1, <1>3 DEF Numbered, RequestsOK
<1> QED
  BY <1>2, <1>4

LEMMA ChatStep == ASSUME ChatInv, NEW t \in Turns, Chat(t) PROVE ChatInv'
<1>1. /\ TypeOK /\ Numbered /\ Quiet /\ active \in Modes /\ turn \in [Turns -> TurnState]
      /\ turn[t].pc = "unsent" /\ turn[t] \in TurnState
      /\ UNCHANGED <<process, active, history, schedule, inFlight, clear, auxiliary>>
  BY DEF ChatInv, TypeOK, Chat
<1>2. PICK s \in Sessions :
        /\ Resolve(active, s)
        /\ turn' = [turn EXCEPT ![t].pc = "reading", ![t].session = s]
  BY DEF Chat
<1>3. PICK r : r = [turn[t] EXCEPT !.pc = "reading", !.session = s]
  OBVIOUS
<1>4. r \in TurnState /\ r.pc = "reading" /\ r.session = s
  BY <1>1, <1>2, <1>3 DEF TurnState, TurnPc
<1>5. turn' \in [Turns -> TurnState] /\ turn'[t] = r /\ \A u \in Turns \ {t} : turn'[u] = turn[u]
  BY <1>1, <1>2, <1>3, <1>4
<1>6. \A u \in Turns : Alike(turn[u], turn'[u])
  BY <1>1, <1>4, <1>5 DEF Alike, Attempting
<1>7. \A u \in Turns : turn[u].pc \in Attempting => turn'[u] = turn[u]
  BY <1>1, <1>5 DEF Attempting
<1>8. ClearsAlike
  BY <1>1 DEF ClearsAlike
<1>9. /\ SessionsOK' /\ Numbered' /\ Flights' /\ Waiting' /\ Remembered'
      /\ \A q \in Sessions : Kept(q)'
      /\ Settled => Staying' /\ Tidy'
  <2>1. CASE track[active] \in live
    <3>1. s = track[active] /\ UNCHANGED <<track, live, modeOf, root>>
      BY <1>2, <2>1 DEF Resolve
    <3>2. modeOf[s] # None
      BY <1>1, <1>2, <3>1, NoneIs DEF Numbered
    <3>3. RequestsOK'
      BY <1>1, <1>2, <1>4, <1>5, <3>1, <3>2, RequestsStay
    <3>4. Numbered' /\ Flights' /\ Waiting' /\ Remembered'
      BY <1>1, <1>6, <1>8, <3>1, <3>3, SameSessions DEF auxiliary
    <3>5. SessionsOK'
      BY <1>1, <3>1 DEF TypeOK, SessionsOK
    <3>6. ASSUME NEW q \in Sessions
          PROVE  Kept(q)'
      <4>1. \A u \in Turns : inFlight[q] = u => SameAttempt(turn[u], turn'[u])
        BY <1>7, NoneIs DEF ChatInv, Flights, SameAttempt
      <4>2. \A u \in Turns : turn[u].pc = "done" => turn'[u].outcome = turn[u].outcome
        BY <1>6 DEF Alike
      <4> QED
        BY <1>1, <3>1, <4>1, <4>2, KeptStays DEF ChatInv, auxiliary
    <3>7. Settled => Staying'
      BY <1>1, <3>1 DEF ChatInv, Staying, Quiet, Awaiting
    <3>8. Settled => Tidy'
      BY <1>1, <1>4, <1>5, <3>1 DEF ChatInv, Tidy, auxiliary
    <3> QED
      BY <3>4, <3>5, <3>6, <3>7, <3>8
  <2>2. CASE track[active] \notin live
    <3>1. Create(active, s, {})
      BY <1>2, <2>2 DEF Resolve
    <3>2. modeOf'[s] # None /\ \A q \in Sessions : modeOf[q] # None => modeOf'[q] # None
      BY <1>1, <3>1, ModesStay
    <3>3. RequestsOK'
      BY <1>1, <1>2, <1>4, <1>5, <3>2, RequestsStay
    <3>4. Settled => \/ \A c \in Clears : clear'[c].pc \notin Awaiting
                     \/ process # "up" /\ active' = active /\ {} = {track[active]} \cap live
      BY <1>1, <2>2, StayingIs DEF ChatInv
    <3> QED
      BY <1>1, <1>6, <1>7, <1>8, <3>1, <3>3, <3>4, CreateStep, FlightsKeep DEF auxiliary
  <2> QED
    BY <2>1, <2>2
<1>10. TypeOK'
  BY <1>1, <1>5, <1>9 DEF TypeOK, SessionsOK, auxiliary
<1> QED
  BY <1>9, <1>10 DEF ChatInv

LEMMA ModeStep == ASSUME ChatInv, NEW next \in Modes, Mode(next) PROVE ChatInv'
<1>1. /\ TypeOK /\ Numbered /\ switches \in 0 .. Switches
      /\ Settled => \A c \in Clears : clear[c].pc \in {"unsent", "done"}
      /\ active' = next /\ switches < Switches /\ switches' = switches + 1
      /\ UNCHANGED <<process, history, schedule, inFlight, turn, clear, shared, sweeps>>
  BY DEF ChatInv, TypeOK, Mode
<1>2. PICK s \in Sessions : Resolve(next, s)
  BY DEF Mode
<1>3. \A t \in Turns : Alike(turn[t], turn'[t])
  BY <1>1 DEF Alike
<1>4. ClearsAlike
  BY <1>1 DEF ClearsAlike
<1>5. /\ SessionsOK' /\ Numbered' /\ Flights' /\ Waiting' /\ Remembered'
      /\ \A q \in Sessions : Kept(q)'
      /\ Settled => Staying' /\ Tidy'
  <2>1. CASE track[next] \in live
    <3>1. UNCHANGED <<track, live, modeOf, root>>
      BY <1>2, <2>1 DEF Resolve
    <3>2. RequestsOK'
      BY <1>1, <3>1, RequestsStay
    <3>3. Numbered' /\ Flights' /\ Waiting' /\ Remembered'
      BY <1>1, <1>3, <1>4, <3>1, <3>2, SameSessions
    <3>4. SessionsOK'
      BY <1>1, <3>1 DEF TypeOK, SessionsOK
    <3>5. \A q \in Sessions : Kept(q)'
      BY <1>1, <3>1, KeptStays DEF ChatInv, SameAttempt
    <3>6. Settled => Staying' /\ Tidy'
      BY <1>1, <3>1 DEF ChatInv, Staying, Tidy, Awaiting
    <3> QED
      BY <3>3, <3>4, <3>5, <3>6
  <2>2. CASE track[next] \notin live
    <3>1. Create(next, s, {})
      BY <1>2, <2>2 DEF Resolve
    <3>2. RequestsOK'
      BY <1>1, <3>1, ModesStay, RequestsStay
    <3>3. Settled => \A c \in Clears : clear'[c].pc \notin Awaiting
      BY <1>1 DEF Awaiting
    <3> QED
      BY <1>1, <1>3, <1>4, <3>1, <3>2, <3>3, CreateStep, FlightsKeep
  <2> QED
    BY <2>1, <2>2
<1>6. switches' \in 0 .. Switches
  BY <1>1, NoneIs
<1>7. TypeOK'
  BY <1>1, <1>5, <1>6 DEF TypeOK, SessionsOK
<1> QED
  BY <1>5, <1>7 DEF ChatInv

-----------------------------------------------------------------------------
(* Sessions end *)

\* Sessions leave the map, and their transcripts with them.
LEMMA EndsStep ==
    ASSUME ChatInv, UNCHANGED <<active, track, modeOf, history, schedule, inFlight, turn, clear,
                                shared>>,
           live' \subseteq live, sweeps' \in 0 .. Sweeps, switches' = switches,
           process' \in {"up", "stopping", "down"}, root' \in [Sessions -> {NoDir} \cup Seq(Turns)],
           \A s \in Sessions : s \in live' => root'[s] = root[s],
           \A s \in Sessions : s \notin live' => root'[s] = root[s] \/ root'[s] = NoDir,
           process' = "up" => process = "up" /\ Quiet /\ \A s \in live \ live' :
             root'[s] = NoDir /\ \A t \in Turns : turn[t].session = s => turn[t].pc = "done"
    PROVE  ChatInv'
<1>1. TypeOK /\ Numbered /\ RequestsOK'
  BY DEF ChatInv, Numbered, RequestsOK
<1>2. ClearsAlike /\ \A t \in Turns : Alike(turn[t], turn'[t])
  BY DEF ClearsAlike, Alike
<1>3. \A s \in Sessions : modeOf[s] = None => root'[s] = root[s]
  BY <1>1 DEF Numbered, Unused
<1>4. Numbered' /\ Flights' /\ Waiting' /\ Remembered'
  BY <1>1, <1>2, <1>3, SameSessions
<1>5. \A s \in Sessions : Kept(s)'
  BY <1>1, KeptStays DEF ChatInv, SameAttempt
<1>6. ASSUME Settled
      PROVE  Staying'
  <2>1. Staying /\ Waiting /\ Flights /\ inFlight \in [Sessions -> Turns \cup {None}]
    BY <1>6 DEF ChatInv, TypeOK
  <2>2. ASSUME NEW c \in Clears, clear[c].pc \in Awaiting, process' = "up"
        PROVE  clear[c].session \in live'
    <3>1. /\ clear[c].session \in live /\ clear[c].session \in Sessions
          /\ clear[c].pc = "waiting"
      BY <1>1, <2>1, <2>2 DEF Staying, Numbered, Quiet, Awaiting
    <3>2. PICK t \in Turns : t = inFlight[clear[c].session]
      BY <2>1, <3>1, OfIs DEF Waiting
    <3>3. turn[t].session = clear[c].session /\ turn[t].pc # "done"
      BY <2>1, <3>1, <3>2, NoneIs DEF Flights, Attempting
    <3> QED
      BY <2>2, <3>1, <3>3
  <2> QED
    BY <2>1, <2>2 DEF Staying
<1>7. Settled => Tidy'
  BY DEF ChatInv, Tidy
<1>8. TypeOK'
  BY <1>1 DEF TypeOK
<1> QED
  BY <1>4, <1>5, <1>6, <1>7, <1>8 DEF ChatInv

LEMMA SweepStep == ASSUME ChatInv, NEW s \in Sessions, Sweep(s) PROVE ChatInv'
<1>1. /\ live' = live \ {s} /\ root' = [root EXCEPT ![s] = NoDir]
      /\ sweeps < Sweeps /\ sweeps' = sweeps + 1 /\ sweeps \in 0 .. Sweeps
      /\ process \in {"up", "stopping", "down"} /\ Quiet
      /\ \A t \in Turns : turn[t].session = s => turn[t].pc = "done"
      /\ UNCHANGED <<process, active, track, modeOf, history, schedule, inFlight,
                     turn, clear, shared, switches>>
  BY DEF ChatInv, TypeOK, Sweep
<1>2. sweeps' \in 0 .. Sweeps
  BY <1>1, NoneIs
<1>3. root \in [Sessions -> {NoDir} \cup Seq(Turns)]
  BY DEF ChatInv, TypeOK
<1>4. root'[s] = NoDir /\ \A q \in Sessions \ {s} : root'[q] = root[q]
  BY <1>1, <1>3
<1>5. root' \in [Sessions -> {NoDir} \cup Seq(Turns)]
  BY <1>1, <1>3
<1> QED
  BY <1>1, <1>2, <1>4, <1>5, EndsStep

LEMMA SignalStep == ChatInv /\ Signal => ChatInv'
<1> SUFFICES ASSUME ChatInv, Signal
             PROVE  ChatInv'
  OBVIOUS
<1>1. /\ process' = "stopping" /\ live' = {}
      /\ root' = [s \in Sessions |-> IF s \in live THEN NoDir ELSE root[s]]
      /\ UNCHANGED <<active, track, modeOf, history, schedule, inFlight, turn, clear,
                     shared, switches, sweeps>>
  BY DEF Signal, auxiliary
<1>2. sweeps \in 0 .. Sweeps /\ root \in [Sessions -> {NoDir} \cup Seq(Turns)]
  BY DEF ChatInv, TypeOK
<1>3. root' \in [Sessions -> {NoDir} \cup Seq(Turns)]
  BY <1>1, <1>2
<1> QED
  BY <1>1, <1>2, <1>3, EndsStep

LEMMA ExitStep == ChatInv /\ (Exit \/ UNCHANGED vars) => ChatInv'
<1> SUFFICES ASSUME ChatInv, Exit \/ UNCHANGED vars
             PROVE  ChatInv'
  OBVIOUS
<1>1. /\ TypeOK /\ Numbered /\ RequestsOK'
      /\ process' \in {"up", "stopping", "down"} /\ (process' = "up" => process = "up")
      /\ UNCHANGED <<active, track, live, modeOf, root, history, schedule, inFlight, turn,
                     clear, shared, switches, sweeps>>
  BY DEF ChatInv, TypeOK, Numbered, RequestsOK, Exit, vars, sessionVars, auxiliary
<1>2. ClearsAlike /\ \A t \in Turns : Alike(turn[t], turn'[t])
  BY <1>1 DEF ClearsAlike, Alike
<1>3. Numbered' /\ Flights' /\ Waiting' /\ Remembered'
  BY <1>1, <1>2, SameSessions
<1>4. \A s \in Sessions : Kept(s)'
  BY <1>1, KeptStays DEF ChatInv, SameAttempt
<1>5. Settled => Staying' /\ Tidy'
  BY <1>1 DEF ChatInv, Staying, Fresh, Tidy
<1>6. TypeOK'
  BY <1>1 DEF TypeOK
<1> QED
  BY <1>3, <1>4, <1>5, <1>6 DEF ChatInv

-----------------------------------------------------------------------------
(* A turn goes on *)

LEMMA TurnStep ==
    ASSUME ChatInv, NEW t \in Turns, NEW r \in TurnState, turn' = [turn EXCEPT ![t] = r],
           turn[t].pc \in Attempting, r.pc \in Attempting,
           NEW s \in Sessions, s = turn[t].session, r.session = s,
           UNCHANGED <<process, active, track, live, modeOf, history, inFlight, clear,
                       shared, switches, sweeps>>,
           root' \in [Sessions -> {NoDir} \cup Seq(Turns)],
           schedule' \in [Sessions -> Turns \cup {None}],
           \A q \in Sessions \ {s} : root'[q] = root[q] /\ schedule'[q] = schedule[q],
           s \in live \ shared => Going(s, t, r)',
           Settled /\ process = "up" /\ s \notin shared =>
             /\ root'[s] # NoDir => s \in live
             /\ r.pc \in {"run", "remove", "copy_back"} => s \in live
    PROVE  ChatInv'
<1>1. /\ TypeOK /\ Numbered /\ turn \in [Turns -> TurnState]
      /\ Flights /\ (s \notin shared => inFlight[s] = t)
  BY DEF ChatInv, TypeOK, Flights
<1>2. turn' \in [Turns -> TurnState] /\ turn'[t] = r /\ \A u \in Turns \ {t} : turn'[u] = turn[u]
  BY <1>1
<1>3. \A u \in Turns : Alike(turn[u], turn'[u])
  BY <1>1, <1>2 DEF Alike, Attempting
<1>4. ClearsAlike
  BY DEF ClearsAlike
<1>5. RequestsOK'
  BY <1>1, <1>2, RequestsStay DEF Attempting
<1>6. modeOf[s] # None
  BY <1>1 DEF Numbered, Attempting
<1>7. Numbered' /\ Flights' /\ Waiting' /\ Remembered'
  BY <1>3, <1>4, <1>5, <1>6, SameSessions
<1>8. ASSUME NEW q \in Sessions
      PROVE  Kept(q)'
  <2>1. CASE q = s
    <3>1. s \notin shared => inFlight'[q] # None /\ \A u \in Turns : inFlight'[q] = u => u = t
      BY <1>1, <2>1, NoneIs
    <3>2. PICK k : k = turn'[t]
      OBVIOUS
    <3>3. s \in live \ shared => Going(s, t, k)'
      BY <1>2, <3>2
    <3>4. s \in live \ shared => Going(s, t, turn[t])'
      BY <3>2, <3>3 DEF Going, Commits, Still
    <3> QED
      BY <2>1, <3>1, <3>4 DEF Kept
  <2>2. CASE q # s
    <3>1. \A u \in Turns : inFlight[q] = u => SameAttempt(turn[u], turn'[u])
      BY <1>1, <1>2, <2>2, NoneIs DEF Flights, SameAttempt
    <3>2. \A u \in Turns : turn[u].pc = "done" => turn'[u].outcome = turn[u].outcome
      BY <1>3 DEF Alike
    <3> QED
      BY <1>1, <2>2, <3>1, <3>2, KeptStays DEF ChatInv
  <2> QED
    BY <2>1, <2>2
<1>9. Settled => Staying'
  BY <1>2 DEF ChatInv, Staying, Fresh, Attempting
<1>10. Settled => Tidy'
  BY <1>2 DEF ChatInv, Tidy
<1>11. TypeOK'
  BY <1>1, <1>2 DEF TypeOK
<1> QED
  BY <1>7, <1>8, <1>9, <1>10, <1>11 DEF ChatInv

\* A turn under way: what it has made of its session, and that the transcripts
\* do not depend on where it is.
LEMMA Underway ==
    ASSUME ChatInv, NEW t \in Turns, turn[t].pc \in Attempting, NEW s, s = turn[t].session
    PROVE  /\ turn[t] \in TurnState /\ s \in Sessions /\ modeOf[s] \in Modes
           /\ (s \notin shared => inFlight[s] = t) /\ schedule[s] \in Turns \cup {None}
           /\ root \in [Sessions -> {NoDir} \cup Seq(Turns)]
           /\ schedule \in [Sessions -> Turns \cup {None}]
           /\ s \in live \ shared => Going(s, t, turn[t])
           /\ Settled /\ process = "up" /\ s \notin shared =>
                /\ root[s] # NoDir => s \in live
                /\ turn[t].pc \in {"run", "remove", "copy_back"} => s \in live
<1>1. /\ TypeOK /\ Numbered /\ Flights /\ (Settled => Tidy) /\ \A q \in Sessions : Kept(q)
  BY DEF ChatInv
<1>2. s \in Sessions /\ modeOf[s] # None
  BY <1>1 DEF Numbered, Attempting
<1> QED
  BY <1>1, <1>2 DEF TypeOK, Flights, Kept, Tidy

LEMMA FollowsOn ==
    ASSUME ChatInv, NEW t \in Turns, turn[t].pc # "done",
           \A u \in Turns \ {t} : turn'[u] = turn[u],
           NEW s \in Sessions, NEW h, h = history[s], NEW a, Follows(a, h)
    PROVE  Follows(a, h)'
<1>1. \A p \in DOMAIN h : turn'[h[p]].outcome = turn[h[p]].outcome
  BY HistoryIs DEF ChatInv
<1> QED
  BY <1>1, FollowsStays

LEMMA CopyOutStep == ASSUME ChatInv, NEW t \in Turns, CopyOut(t) PROVE ChatInv'
<1>1. PICK s, h, from : s = turn[t].session /\ h = history[s] /\ from = root[s]
  OBVIOUS
<1>2. turn[t].pc = "copy" /\ turn[t].pc \in Attempting
  BY DEF CopyOut, Attempting
<1>3. /\ turn[t] \in TurnState /\ s \in Sessions /\ modeOf[s] \in Modes
      /\ (s \notin shared => inFlight[s] = t) /\ schedule[s] \in Turns \cup {None}
      /\ root \in [Sessions -> {NoDir} \cup Seq(Turns)]
      /\ schedule \in [Sessions -> Turns \cup {None}]
      /\ s \in live \ shared => Going(s, t, turn[t])
      /\ Settled /\ process = "up" /\ s \notin shared => (root[s] # NoDir => s \in live)
  BY <1>1, <1>2, Underway
<1>4. UNCHANGED <<process, active, track, live, modeOf, root, history, inFlight, clear,
                  shared, switches, sweeps>>
  BY DEF CopyOut, sessionVars, auxiliary
<1>5. s \in live \ shared => Still(s) /\ turn[t].before = schedule[s] /\ from \in Seq(Turns)
  BY <1>1, <1>2, <1>3 DEF Going, Still
<1>6. CASE from = NoDir
  <2>1. PICK r : r = [turn[t] EXCEPT !.pc = "clean_up", !.outcome = "error"]
    OBVIOUS
  <2>2. r \in TurnState /\ r.pc = "clean_up" /\ r.session = s
    BY <1>1, <1>3, <2>1 DEF TurnState, TurnPc, Outcome
  <2>3. turn' = [turn EXCEPT ![t] = r] /\ schedule' = [schedule EXCEPT ![s] = turn[t].before]
    BY <1>1, <1>6, <2>1 DEF CopyOut, Restored
  <2>4. /\ schedule' \in [Sessions -> Turns \cup {None}]
        /\ \A q \in Sessions \ {s} : schedule'[q] = schedule[q]
    BY <1>3, <2>3 DEF TurnState
  <2>5. s \notin live \ shared
    BY <1>5, <1>6, NoneIs
  <2> QED
    BY <1>1, <1>2, <1>3, <1>4, <1>6, <2>2, <2>3, <2>4, <2>5, TurnStep DEF Attempting
<1>7. CASE from # NoDir
  <2>1. PICK r : r = [turn[t] EXCEPT !.pc = "run", !.attempt = from]
    OBVIOUS
  <2>2. /\ r \in TurnState /\ r.pc = "run" /\ r.session = s /\ r.attempt = from
        /\ r.before = turn[t].before
    BY <1>1, <1>3, <1>7, <2>1 DEF TurnState, TurnPc
  <2>3. turn' = [turn EXCEPT ![t] = r] /\ schedule' = schedule
    BY <1>1, <1>7, <2>1 DEF CopyOut
  <2>4. s \in live \ shared => Going(s, t, r)'
    <3> SUFFICES ASSUME s \in live \ shared
                 PROVE  Going(s, t, r)'
      OBVIOUS
    <3>1. Follows(from, h) /\ Proposed(schedule[s], from)
      BY <1>1, <1>5 DEF Still
    <3>2. Follows(from, h)'
      <4>1. \A u \in Turns \ {t} : turn'[u] = turn[u]
        BY <2>3 DEF ChatInv, TypeOK
      <4> QED
        BY <1>1, <1>2, <1>3, <3>1, <4>1, FollowsOn
    <3>3. history'[s] = h /\ root'[s] = from /\ schedule'[s] = schedule[s]
      BY <1>1, <1>4, <2>3
    <3> QED
      BY <1>5, <2>2, <3>1, <3>2, <3>3 DEF Going, Commits, Follows, Proposed
  <2> QED
    BY <1>1, <1>2, <1>3, <1>4, <1>7, <2>2, <2>3, <2>4, TurnStep DEF Attempting
<1> QED
  BY <1>6, <1>7

\* The facts that each of the next steps starts from.
Starting(t, s) ==
    /\ turn[t] \in TurnState /\ s \in Sessions /\ modeOf[s] \in Modes
    /\ (s \notin shared => inFlight[s] = t) /\ schedule[s] \in Turns \cup {None}
    /\ root \in [Sessions -> {NoDir} \cup Seq(Turns)]
    /\ schedule \in [Sessions -> Turns \cup {None}]
    /\ s \in live \ shared => Going(s, t, turn[t])
    /\ Settled /\ process = "up" /\ s \notin shared =>
         /\ root[s] # NoDir => s \in live
         /\ turn[t].pc \in {"run", "remove", "copy_back"} => s \in live

LEMMA StartingIs ==
    ASSUME ChatInv, NEW t \in Turns, turn[t].pc \in Attempting, NEW s, s = turn[t].session
    PROVE  Starting(t, s)
BY Underway DEF Starting

LEMMA ProposeStep == ASSUME ChatInv, NEW t \in Turns, Propose(t) PROVE ChatInv'
<1>1. PICK s, h, r : s = turn[t].session /\ h = history[s] /\ r = turn[t]
  OBVIOUS
<1>2. /\ r.pc = "run" /\ schedule' = [schedule EXCEPT ![s] = t] /\ turn' = turn
      /\ UNCHANGED <<process, active, track, live, modeOf, root, history, inFlight, clear,
                     shared, switches, sweeps>>
  BY <1>1 DEF Propose, sessionVars, auxiliary
<1>3. Starting(t, s)
  BY <1>1, <1>2, StartingIs DEF Attempting
<1>4. turn' = [turn EXCEPT ![t] = r] /\ r \in TurnState
  BY <1>1, <1>2, <1>3 DEF ChatInv, TypeOK, Starting
<1>5. /\ schedule' \in [Sessions -> Turns \cup {None}]
      /\ schedule'[s] = t /\ \A q \in Sessions \ {s} : schedule'[q] = schedule[q]
  BY <1>2, <1>3 DEF Starting
<1>6. s \in live \ shared => Going(s, t, r)'
  BY <1>1, <1>2, <1>3, <1>5 DEF Starting, Going, Commits, Follows, Proposed
<1> QED
  BY <1>1, <1>2, <1>3, <1>4, <1>5, <1>6, TurnStep DEF Starting, Attempting

LEMMA AnswersStep == ASSUME ChatInv, NEW t \in Turns, Answers(t) PROVE ChatInv'
<1>1. PICK s, h : s = turn[t].session /\ h = history[s]
  OBVIOUS
<1>2. PICK out \in {"error", "aborted", "answered", "malformed"} :
        /\ turn' = [turn EXCEPT ![t].outcome = out,
                                ![t].pc = IF out = "answered" THEN "remove" ELSE "clean_up"]
        /\ schedule' = IF out = "answered" THEN schedule ELSE Restored(t)
  BY DEF Answers
<1>3. /\ turn[t].pc = "run"
      /\ UNCHANGED <<process, active, track, live, modeOf, root, history, inFlight, clear,
                     shared, switches, sweeps>>
  BY DEF Answers, sessionVars, auxiliary
<1>4. Starting(t, s)
  BY <1>1, <1>3, StartingIs DEF Attempting
<1>5. PICK r : r = [turn[t] EXCEPT !.outcome = out,
                                   !.pc = IF out = "answered" THEN "remove" ELSE "clean_up"]
  OBVIOUS
<1>6. /\ r \in TurnState /\ r.session = s /\ r.attempt = turn[t].attempt /\ r.outcome = out
      /\ r.pc = IF out = "answered" THEN "remove" ELSE "clean_up"
  BY <1>1, <1>4, <1>5 DEF Starting, TurnState, TurnPc, Outcome
<1>7. turn' = [turn EXCEPT ![t] = r] /\ \A u \in Turns \ {t} : turn'[u] = turn[u]
  BY <1>2, <1>5 DEF ChatInv, TypeOK
<1>8. /\ schedule' \in [Sessions -> Turns \cup {None}]
      /\ \A q \in Sessions \ {s} : schedule'[q] = schedule[q]
      /\ schedule'[s] = IF out = "answered" THEN schedule[s] ELSE turn[t].before
  BY <1>1, <1>2, <1>4 DEF Starting, Restored, TurnState
<1>9. s \in live \ shared => Going(s, t, r)'
  <2> SUFFICES ASSUME s \in live \ shared
               PROVE  Going(s, t, r)'
    OBVIOUS
  <2>1. PICK a : a = turn[t].attempt
    OBVIOUS
  <2>2. /\ root[s] = a /\ Follows(a, h) /\ Proposed(turn[t].before, a)
        /\ schedule[s] = t \/ Proposed(schedule[s], a)
    BY <1>1, <1>3, <1>4, <2>1 DEF Starting, Going
  <2>3. Follows(a, h)'
    BY <1>1, <1>3, <1>4, <1>7, <2>2, FollowsOn DEF Starting
  <2>4. history'[s] = h /\ root'[s] = a /\ a \in Seq(Turns)
    BY <1>1, <1>3, <1>4, <2>1, <2>2 DEF Starting, TurnState
  <2>5. CASE out = "answered"
    BY <1>6, <1>8, <2>1, <2>2, <2>3, <2>4, <2>5 DEF Going, Commits, Follows, Proposed
  <2>6. CASE out # "answered"
    <3>1. Still(s)'
      BY <1>8, <2>2, <2>3, <2>4, <2>6 DEF Still, Follows, Proposed
    <3> QED
      BY <1>6, <2>6, <3>1 DEF Going, Commits, Follows, Proposed, Still
  <2> QED
    BY <2>5, <2>6
<1> QED
  BY <1>1, <1>3, <1>4, <1>6, <1>7, <1>8, <1>9, TurnStep DEF Starting, Attempting

LEMMA RemoveRootStep == ASSUME ChatInv, NEW t \in Turns, RemoveRoot(t) PROVE ChatInv'
<1>1. PICK s, h : s = turn[t].session /\ h = history[s]
  OBVIOUS
<1>2. /\ turn[t].pc = "remove" /\ root' = [root EXCEPT ![s] = NoDir]
      /\ UNCHANGED <<process, active, track, live, modeOf, history, schedule, inFlight, clear,
                     shared, switches, sweeps>>
  BY <1>1 DEF RemoveRoot, auxiliary
<1>3. Starting(t, s)
  BY <1>1, <1>2, StartingIs DEF Attempting
<1>4. PICK r : r = [turn[t] EXCEPT !.pc = "copy_back"]
  OBVIOUS
<1>5. /\ r \in TurnState /\ r.session = s /\ r.attempt = turn[t].attempt
      /\ r.outcome = turn[t].outcome /\ r.pc = "copy_back"
  BY <1>1, <1>3, <1>4 DEF Starting, TurnState, TurnPc
<1>6. turn' = [turn EXCEPT ![t] = r] /\ \A u \in Turns \ {t} : turn'[u] = turn[u]
  BY <1>4 DEF RemoveRoot, ChatInv, TypeOK
<1>7. /\ root' \in [Sessions -> {NoDir} \cup Seq(Turns)] /\ root'[s] = NoDir
      /\ \A q \in Sessions \ {s} : root'[q] = root[q]
  BY <1>2, <1>3 DEF Starting
<1>8. s \in live \ shared => Going(s, t, r)'
  <2> SUFFICES ASSUME s \in live \ shared
               PROVE  Going(s, t, r)'
    OBVIOUS
  <2>1. PICK a : a = turn[t].attempt
    OBVIOUS
  <2>2. /\ Follows(a, h) /\ turn[t].outcome = "answered"
        /\ schedule[s] = t \/ Proposed(schedule[s], a)
    BY <1>1, <1>2, <1>3, <2>1 DEF Starting, Going
  <2>3. Follows(a, h)'
    BY <1>1, <1>2, <1>3, <1>6, <2>2, FollowsOn DEF Starting
  <2>4. history'[s] = h /\ schedule'[s] = schedule[s]
    BY <1>1, <1>2
  <2> QED
    BY <1>5, <2>1, <2>2, <2>3, <2>4 DEF Going, Commits, Follows, Proposed
<1> QED
  BY <1>1, <1>2, <1>3, <1>5, <1>6, <1>7, <1>8, TurnStep DEF Starting, Attempting

LEMMA CopyBackStep == ASSUME ChatInv, NEW t \in Turns, CopyBack(t) PROVE ChatInv'
<1>1. PICK s, h, a : s = turn[t].session /\ h = history[s] /\ a = turn[t].attempt
  OBVIOUS
<1>2. /\ turn[t].pc = "copy_back" /\ root' = [root EXCEPT ![s] = Append(a, t)]
      /\ UNCHANGED <<process, active, track, live, modeOf, history, schedule, inFlight, clear,
                     shared, switches, sweeps>>
  BY <1>1 DEF CopyBack, auxiliary
<1>3. Starting(t, s)
  BY <1>1, <1>2, StartingIs DEF Attempting
<1>4. PICK r : r = [turn[t] EXCEPT !.pc = "clean_up"]
  OBVIOUS
<1>5. /\ r \in TurnState /\ r.session = s /\ r.attempt = a
      /\ r.outcome = turn[t].outcome /\ r.pc = "clean_up"
  BY <1>1, <1>3, <1>4 DEF Starting, TurnState, TurnPc
<1>6. turn' = [turn EXCEPT ![t] = r] /\ \A u \in Turns \ {t} : turn'[u] = turn[u]
  BY <1>4 DEF CopyBack, ChatInv, TypeOK
<1>7. a \in Seq(Turns) /\ Append(a, t) \in Seq(Turns)
  BY <1>1, <1>3 DEF Starting, TurnState
<1>8. /\ root' \in [Sessions -> {NoDir} \cup Seq(Turns)] /\ root'[s] = Append(a, t)
      /\ \A q \in Sessions \ {s} : root'[q] = root[q]
  BY <1>2, <1>3, <1>7 DEF Starting
<1>9. s \in live \ shared => Going(s, t, r)'
  <2> SUFFICES ASSUME s \in live \ shared
               PROVE  Going(s, t, r)'
    OBVIOUS
  <2>1. /\ Follows(a, h) /\ turn[t].outcome = "answered"
        /\ schedule[s] = t \/ Proposed(schedule[s], a)
    BY <1>1, <1>2, <1>3 DEF Starting, Going
  <2>2. Follows(a, h)'
    BY <1>1, <1>2, <1>3, <1>6, <2>1, FollowsOn DEF Starting
  <2>3. history'[s] = h /\ schedule'[s] = schedule[s]
    BY <1>1, <1>2
  <2> QED
    BY <1>5, <1>8, <2>1, <2>2, <2>3 DEF Going, Commits, Follows, Proposed
<1> QED
  BY <1>1, <1>2, <1>3, <1>5, <1>6, <1>8, <1>9, TurnStep DEF Starting, Attempting

LEMMA NextProviderStep == ASSUME ChatInv, NEW t \in Turns, NextProvider(t) PROVE ChatInv'
<1>1. PICK s, h : s = turn[t].session /\ h = history[s]
  OBVIOUS
<1>2. /\ turn[t].pc = "clean_up" /\ turn[t].outcome = "error" /\ turn[t].left > 0
      /\ UNCHANGED <<process, active, track, live, modeOf, root, history, schedule, inFlight,
                     clear, shared, switches, sweeps>>
  BY DEF NextProvider, sessionVars, auxiliary
<1>3. Starting(t, s)
  BY <1>1, <1>2, StartingIs DEF Attempting
<1>4. PICK left, none : left = turn[t].left - 1 /\ none = <<>>
  OBVIOUS
<1>5. left \in Nat /\ none \in Seq(Turns)
  BY <1>2, <1>3, <1>4 DEF Starting, TurnState
<1>6. PICK r : r = [turn[t] EXCEPT !.pc = "copy", !.left = left, !.attempt = none,
                                    !.outcome = "none", !.before = schedule[s]]
  OBVIOUS
<1>7. /\ r \in TurnState /\ r.session = s /\ r.pc = "copy" /\ r.before = schedule[s]
  BY <1>1, <1>3, <1>5, <1>6 DEF Starting, TurnState, TurnPc, Outcome
<1>8. turn' = [turn EXCEPT ![t] = r]
  BY <1>1, <1>4, <1>6 DEF NextProvider
<1>9. \A u \in Turns \ {t} : turn'[u] = turn[u]
  BY <1>8 DEF ChatInv, TypeOK
<1>10. s \in live \ shared => Going(s, t, r)'
  <2> SUFFICES ASSUME s \in live \ shared
               PROVE  Going(s, t, r)'
    OBVIOUS
  <2>1. PICK a : a = root[s]
    OBVIOUS
  <2>2. a \in Seq(Turns) /\ Follows(a, h) /\ Proposed(schedule[s], a)
    BY <1>1, <1>2, <1>3, <2>1 DEF Starting, Going, Still
  <2>3. Follows(a, h)'
    BY <1>1, <1>2, <1>3, <1>9, <2>2, FollowsOn DEF Starting
  <2>4. history'[s] = h /\ root'[s] = a /\ schedule'[s] = schedule[s]
    BY <1>1, <1>2, <2>1
  <2>5. Still(s)'
    BY <2>2, <2>3, <2>4 DEF Still, Follows, Proposed
  <2> QED
    BY <1>7, <2>4, <2>5 DEF Going, Commits, Still
<1> QED
  BY <1>1, <1>2, <1>3, <1>7, <1>8, <1>10, TurnStep DEF Starting, Attempting

\* An abort changes nothing of an attempt until the model has answered.
LEMMA StopStep == ASSUME ChatInv, NEW t \in Turns, Stop(t) PROVE ChatInv'
<1>1. PICK s, h : s = turn[t].session /\ h = history[s]
  OBVIOUS
<1>2. /\ turn[t].pc \in {"copy", "run", "remove", "copy_back"}
      /\ UNCHANGED <<process, active, track, live, modeOf, root, history, schedule, inFlight,
                     clear, shared, switches, sweeps>>
  BY DEF Stop, sessionVars, auxiliary
<1>3. Starting(t, s)
  BY <1>1, <1>2, StartingIs DEF Attempting
<1>4. PICK r : r = [turn[t] EXCEPT !.aborted = TRUE]
  OBVIOUS
<1>5. /\ r \in TurnState /\ r.session = s /\ r.pc = turn[t].pc
      /\ SameAttempt(turn[t], r)
  BY <1>1, <1>3, <1>4 DEF Starting, TurnState, SameAttempt
<1>6. turn' = [turn EXCEPT ![t] = r]
  BY <1>4 DEF Stop
<1>7. turn'[t] = r /\ \A u \in Turns \ {t} : turn'[u] = turn[u]
  BY <1>6 DEF ChatInv, TypeOK
<1>8. Kept(s)'
  BY <1>2, <1>3, <1>5, <1>7, KeptStays DEF ChatInv, Starting, SameAttempt
<1>9. s \in live \ shared => Going(s, t, r)'
  <2>1. PICK k : k = turn'[t]
    OBVIOUS
  <2>2. s \in live \ shared => Going(s, t, turn[t])'
    BY <1>2, <1>3, <1>8 DEF Kept, Starting
  <2>3. s \in live \ shared => Going(s, t, k)'
    BY <2>1, <2>2 DEF Going, Commits, Still, Follows, Proposed
  <2> QED
    BY <1>7, <2>1, <2>3
<1> QED
  BY <1>1, <1>2, <1>3, <1>5, <1>6, <1>9, TurnStep DEF Starting, Attempting

-----------------------------------------------------------------------------
(* Turns are submitted, await each other and begin *)

\* A step that touches nothing but requests, and attempts only by an abort.
LEMMA RequestStep ==
    ASSUME ChatInv,
           UNCHANGED <<process, active, track, live, modeOf, root, history, schedule,
                       inFlight, switches, sweeps>>,
           shared \subseteq shared', shared' \subseteq Sessions,
           turn' \in [Turns -> TurnState], clear' \in [Clears -> ClearState], RequestsOK',
           \A u \in Turns : InPlace(turn[u], turn'[u]),
           \A u \in Turns : turn[u].pc \in Attempting => SameAttempt(turn[u], turn'[u]),
           Waiting', Settled => Staying'
    PROVE  ChatInv'
<1>1. TypeOK /\ Numbered /\ Flights /\ Remembered
  BY DEF ChatInv
<1>2. Flights' /\ Remembered'
  BY <1>1, FlightsStay, FlightsKeep
<1>3. Numbered'
  BY <1>1 DEF Numbered, RequestsOK, Unused
<1>4. ASSUME NEW q \in Sessions
      PROVE  Kept(q)'
  <2>1. \A u \in Turns : inFlight[q] = u => SameAttempt(turn[u], turn'[u])
    BY <1>1, NoneIs DEF Flights
  <2>2. \A u \in Turns : turn[u].pc = "done" => turn'[u].outcome = turn[u].outcome
    BY DEF InPlace
  <2> QED
    BY <1>1, <2>1, <2>2, KeptStays DEF ChatInv
<1>5. Settled => Tidy'
  <2> SUFFICES ASSUME Settled, process = "up"
               PROVE  /\ \A q \in Sessions \ shared : root[q] # NoDir => q \in live
                      /\ \A u \in Turns : turn'[u].pc \in {"run", "remove", "copy_back"} =>
                           turn'[u].session \in live \cup shared
    BY DEF Tidy
  <2>1. Tidy
    BY DEF ChatInv
  <2>2. ASSUME NEW u \in Turns, turn'[u].pc \in {"run", "remove", "copy_back"}
        PROVE  turn'[u].session \in live \cup shared
    <3>1. turn[u].pc \in Attempting
      BY <2>2 DEF InPlace, Attempting
    <3>2. turn[u].pc = turn'[u].pc /\ turn[u].session = turn'[u].session
      BY <3>1 DEF InPlace, SameAttempt
    <3> QED
      BY <2>1, <2>2, <3>2 DEF Tidy
  <2> QED
    BY <2>1, <2>2 DEF Tidy
<1>6. TypeOK'
  BY <1>1 DEF TypeOK
<1> QED
  BY <1>2, <1>3, <1>4, <1>5, <1>6 DEF ChatInv

\* A request waits for the turn the map names, alone or from now on beside another.
LEMMA WaitsStep ==
    ASSUME ChatInv, Quiet, NEW x \in Requests, NEW s \in Sessions, inFlight[s] # None,
           Of(x)'.pc = "waiting", Of(x)'.prior = inFlight[s], Of(x)'.session = s,
           \A y \in Requests \ {x} : Of(y)'.pc \in Awaiting =>
             /\ Of(y)'.pc = Of(y).pc /\ Of(y)'.prior = Of(y).prior
             /\ Of(y)'.session = Of(y).session,
           inFlight' = inFlight, Awaits(s, inFlight[s])
    PROVE  Waiting' /\ shared \subseteq shared' /\ shared' \subseteq Sessions
<1>1. Waiting /\ shared \subseteq Sessions
  BY DEF ChatInv, TypeOK
<1>2. \A y \in Requests : Of(y).pc # "woken"
  BY OfIs DEF Quiet
<1>3. \A y \in Requests : Of(y)'.pc \in Awaiting =>
        /\ Of(y)'.pc = "waiting" /\ Of(y)'.prior # None
        /\ Of(y)'.prior = inFlight[Of(y)'.session]
        /\ y # x => Of(y).pc = "waiting" /\ Of(y).prior = Of(y)'.prior
  BY <1>1, <1>2 DEF Waiting, Awaiting
<1>4. /\ shared \subseteq shared' /\ shared' \subseteq Sessions
      /\ (\E y \in Requests : Of(y).pc = "waiting" /\ Of(y).prior = inFlight[s]) => s \in shared'
  <2>1. (\E y \in Requests : Of(y).pc = "waiting" /\ Of(y).prior = inFlight[s])
          => IsAwaited(inFlight[s])
    BY OfIs DEF IsAwaited
  <2> QED
    BY <1>1, <2>1 DEF Awaits
<1>5. ASSUME NEW y \in Requests, NEW z \in Requests,
             Of(y)'.pc \in Awaiting, Of(z)'.pc \in Awaiting, Of(y)'.session = Of(z)'.session
      PROVE  y = z \/ Of(y)'.session \in shared'
  <2>1. CASE y = x \/ z = x
    BY <1>3, <1>4, <1>5, <2>1
  <2>2. CASE y # x /\ z # x
    BY <1>1, <1>3, <1>4, <1>5, <2>2 DEF Waiting, Awaiting
  <2> QED
    BY <2>1, <2>2
<1>6. Waiting'
  BY <1>3, <1>5 DEF Waiting, Awaiting
<1> QED
  BY <1>4, <1>6

\* Turn t begins while nobody waits in its session; unless two requests have
\* awaited one turn the session is free and t is the only one that has waited.
LEMMA BeginStep ==
    ASSUME ChatInv, NEW t \in Turns, turn[t].pc \in {"reading", "woken"},
           NEW s \in Sessions, s = turn[t].session, s \notin shared => inFlight[s] = None,
           turn' = [turn EXCEPT ![t] = Begins(t)], inFlight' = [inFlight EXCEPT ![s] = t],
           \A y \in Requests : Of(y).pc = "waiting" => Of(y).session # s,
           \A y \in Requests \ {t} :
             Of(y).pc = "woken" => Of(y).session # s \/ Of(y).session \in shared,
           UNCHANGED <<process, active, track, live, modeOf, root, history, schedule, clear,
                       shared, switches, sweeps>>
    PROVE  ChatInv'
<1>1. /\ TypeOK /\ Numbered /\ Flights /\ Waiting /\ Remembered
      /\ turn \in [Turns -> TurnState] /\ turn[t] \in TurnState
      /\ inFlight \in [Sessions -> Turns \cup {None}] /\ modeOf[s] \in Modes
      /\ schedule[s] \in Turns \cup {None}
  BY DEF ChatInv, TypeOK, Numbered
<1>2. PICK left : left = Providers[modeOf[s]] - 1
  OBVIOUS
<1>3. Providers[modeOf[s]] \in Nat \ {0}
  BY <1>1, NoneIs
<1>4. left \in Nat
  BY <1>2, <1>3
<1>5. PICK r : r = [turn[t] EXCEPT !.pc = "copy", !.prior = None, !.left = left,
                                   !.before = schedule[s]]
  OBVIOUS
<1>6. r \in TurnState /\ r.pc = "copy" /\ r.session = s /\ r.before = schedule[s]
  BY <1>1, <1>4, <1>5 DEF TurnState, TurnPc
<1>7. turn' = [turn EXCEPT ![t] = r]
  BY <1>2, <1>5 DEF Begins
<1>8. /\ turn' \in [Turns -> TurnState] /\ turn'[t] = r
      /\ \A u \in Turns \ {t} : turn'[u] = turn[u]
      /\ inFlight' \in [Sessions -> Turns \cup {None}] /\ inFlight'[s] = t
      /\ \A q \in Sessions \ {s} : inFlight'[q] = inFlight[q]
  BY <1>1, <1>6, <1>7
<1>9. s \in shared \/ \A u \in Turns \ {t} : turn[u].pc \in Attempting => turn[u].session # s
  BY <1>1, NoneIs DEF Flights
<1>10. Flights'
  <2>1. ASSUME NEW q \in Sessions, inFlight'[q] # None
        PROVE  turn'[inFlight'[q]].pc \in Attempting /\ turn'[inFlight'[q]].session = q
    <3>1. CASE q = s
      BY <1>6, <1>8, <3>1 DEF Attempting
    <3>2. CASE q # s
      <4>1. inFlight[q] \in Turns \ {t}
        BY <1>1, <1>8, <2>1, <3>2 DEF Flights
      <4> QED
        BY <1>1, <1>8, <2>1, <3>2, <4>1 DEF Flights
    <3> QED
      BY <3>1, <3>2
  <2>2. ASSUME NEW u \in Turns, turn'[u].pc \in Attempting
        PROVE  inFlight'[turn'[u].session] = u \/ turn'[u].session \in shared
    <3>1. CASE u = t
      BY <1>6, <1>8, <3>1
    <3>2. CASE u # t
      <4>1. turn[u].session \in Sessions
        BY <1>1, <1>8, <2>2, <3>2 DEF Numbered, Attempting
      <4> QED
        BY <1>1, <1>8, <1>9, <2>2, <3>2, <4>1 DEF Flights
    <3> QED
      BY <3>1, <3>2
  <2> QED
    BY <2>1, <2>2 DEF Flights
<1>11. Waiting'
  <2>1. \A y \in Requests : Of(y)'.pc \in Awaiting =>
          /\ y # t /\ Of(y)' = Of(y) /\ Of(y).session \in Sessions
    <3> SUFFICES ASSUME NEW y \in Requests, Of(y)'.pc \in Awaiting
                 PROVE  y # t /\ Of(y)' = Of(y) /\ Of(y).session \in Sessions
      OBVIOUS
    <3>1. y # t
      <4>1. Of(t)' = r
        BY <1>8, OfIs
      <4> QED
        BY <1>6, <4>1 DEF Awaiting
    <3>2. Of(y)' = Of(y)
      <4>1. CASE y \in Turns
        BY <1>8, <3>1, <4>1, OfIs
      <4>2. CASE y \in Clears
        BY <4>2, OfIs
      <4> QED
        BY <4>1, <4>2, OfIs
    <3> QED
      BY <1>1, <3>1, <3>2, SessionOf
  <2>2. ASSUME NEW y \in Requests, Of(y)'.pc = "waiting"
        PROVE  Of(y)'.prior # None /\ Of(y)'.prior = inFlight'[Of(y)'.session]
    <3>1. Of(y)' = Of(y) /\ Of(y).session \in Sessions \ {s}
      BY <2>1, <2>2 DEF Awaiting
    <3> QED
      BY <1>1, <1>8, <2>2, <3>1 DEF Waiting
  <2>3. ASSUME NEW y \in Requests, Of(y)'.pc = "woken"
        PROVE  inFlight'[Of(y)'.session] = None \/ Of(y)'.session \in shared
    <3>1. Of(y)' = Of(y) /\ Of(y).session \in Sessions /\ (Of(y).session # s \/ s \in shared)
      BY <2>1, <2>3 DEF Awaiting
    <3> QED
      BY <1>1, <1>8, <2>3, <3>1 DEF Waiting
  <2>4. ASSUME NEW y \in Requests, NEW z \in Requests, Of(y)'.pc = "woken"
        PROVE  /\ Of(z)'.pc = "waiting" => Of(z)'.session # Of(y)'.session
               /\ Of(z)'.pc = "woken" => Of(z)'.session = Of(y)'.session
    BY <1>1, <2>1, <2>4 DEF Waiting, Awaiting
  <2>5. ASSUME NEW y \in Requests, NEW z \in Requests,
               Of(y)'.pc \in Awaiting, Of(z)'.pc \in Awaiting, Of(y)'.session = Of(z)'.session
        PROVE  y = z \/ Of(y)'.session \in shared
    BY <1>1, <2>1, <2>5 DEF Waiting
  <2> QED
    BY <2>2, <2>3, <2>4, <2>5 DEF Waiting
<1>12. Remembered'
  BY <1>1, <1>8, HistoryIs DEF Remembered
<1>13. RequestsOK'
  BY <1>1, <1>6, <1>8, RequestsStay
<1>14. Numbered'
  <2>1. \A q \in Sessions : modeOf[q] = None => q # s
    BY <1>1, NoneIs
  <2>2. \A q \in Sessions : modeOf'[q] = None => Unused(q)'
    BY <1>1, <1>8, <2>1 DEF Numbered, Unused
  <2> QED
    BY <1>1, <1>13, <2>2 DEF Numbered, RequestsOK
<1>15. ASSUME NEW q \in Sessions
       PROVE  Kept(q)'
  <2>1. CASE q = s
    <3>1. inFlight'[q] # None /\ \A u \in Turns : inFlight'[q] = u => u = t
      BY <1>8, <2>1, NoneIs
    <3>2. s \in live \ shared => Going(s, t, r)'
      <4> SUFFICES ASSUME s \in live \ shared
                   PROVE  Going(s, t, r)'
        OBVIOUS
      <4>1. PICK h, a : h = history[s] /\ a = root[s]
        OBVIOUS
      <4>2. a \in Seq(Turns) /\ Follows(a, h) /\ Proposed(schedule[s], a)
        BY <4>1 DEF ChatInv, Kept, Still
      <4>3. Follows(a, h)'
        BY <1>8, <4>1, <4>2, FollowsOn
      <4>4. history'[s] = h /\ root'[s] = a
        BY <4>1
      <4>5. Still(s)'
        BY <4>2, <4>3, <4>4 DEF Still, Follows, Proposed
      <4> QED
        BY <1>6, <4>5 DEF Going, Commits, Still
    <3>3. PICK k : k = turn'[t]
      OBVIOUS
    <3>4. s \in live \ shared => Going(s, t, k)'
      BY <1>8, <3>2, <3>3
    <3>5. s \in live \ shared => Going(s, t, turn[t])'
      BY <3>3, <3>4 DEF Going, Commits, Still
    <3> QED
      BY <2>1, <3>1, <3>5 DEF Kept
  <2>2. CASE q # s
    <3>1. \A u \in Turns : inFlight[q] = u => SameAttempt(turn[u], turn'[u])
      BY <1>1, <1>8, NoneIs DEF Flights, SameAttempt, Attempting
    <3>2. \A u \in Turns : turn[u].pc = "done" => turn'[u].outcome = turn[u].outcome
      BY <1>8
    <3> QED
      BY <1>1, <1>8, <2>2, <3>1, <3>2, KeptStays DEF ChatInv
  <2> QED
    BY <2>1, <2>2
<1>16. Settled => Staying' /\ Tidy'
  BY <1>6, <1>8 DEF ChatInv, Staying, Fresh, Tidy
<1>17. TypeOK'
  BY <1>1, <1>8 DEF TypeOK
<1> QED
  BY <1>10, <1>11, <1>12, <1>14, <1>15, <1>16, <1>17 DEF ChatInv

LEMMA BodyReadStep == ASSUME ChatInv, NEW t \in Turns, BodyRead(t) PROVE ChatInv'
<1>1. PICK s, prior : s = turn[t].session /\ prior = inFlight[s]
  OBVIOUS
<1>2. /\ TypeOK /\ Numbered /\ Flights /\ Waiting /\ Quiet
      /\ turn \in [Turns -> TurnState] /\ turn[t] \in TurnState /\ turn[t].pc = "reading"
      /\ inFlight \in [Sessions -> Turns \cup {None}] /\ clear \in [Clears -> ClearState]
      /\ UNCHANGED <<process, active, track, live, modeOf, root, history, schedule, clear,
                     switches, sweeps>>
  BY DEF ChatInv, TypeOK, BodyRead, sessionVars, auxiliary
<1>3. s \in Sessions
  BY <1>1, <1>2 DEF Numbered
<1>4. CASE /\ turn' = [turn EXCEPT ![t].pc = "done", ![t].outcome = "refused"]
           /\ inFlight' = inFlight
           /\ shared' = shared
  <2>1. PICK r : r = [turn[t] EXCEPT !.pc = "done", !.outcome = "refused"]
    OBVIOUS
  <2>2. r \in TurnState /\ r.pc = "done" /\ r.session = s
    BY <1>1, <1>2, <2>1 DEF TurnState, TurnPc, Outcome
  <2>3. turn' = [turn EXCEPT ![t] = r]
    BY <1>4, <2>1
  <2>4. turn' \in [Turns -> TurnState] /\ turn'[t] = r /\ \A u \in Turns \ {t} : turn'[u] = turn[u]
    BY <1>2, <2>2, <2>3
  <2>5. \A u \in Turns : InPlace(turn[u], turn'[u]) /\ Alike(turn[u], turn'[u])
    BY <1>2, <2>2, <2>4 DEF InPlace, Alike, Attempting
  <2>6. \A u \in Turns : turn[u].pc \in Attempting => SameAttempt(turn[u], turn'[u])
    BY <1>2, <2>4 DEF SameAttempt, Attempting
  <2>7. Waiting'
    <3>1. ClearsAlike
      BY <1>2 DEF ClearsAlike
    <3> QED
      BY <1>2, <1>4, <2>5, <3>1, FrameTurns, FlightsKeep DEF ChatInv
  <2>8. RequestsOK'
    BY <1>1, <1>2, <2>2, <2>4, RequestsStay
  <2>9. Settled => Staying'
    BY <1>2, <1>4 DEF ChatInv, Staying, Quiet, Awaiting
  <2>10. shared \subseteq shared' /\ shared' \subseteq Sessions
    BY <1>2, <1>4 DEF TypeOK
  <2> QED
    BY <1>2, <1>4, <2>4, <2>5, <2>6, <2>7, <2>8, <2>9, <2>10, RequestStep
<1>5. CASE /\ prior # None
           /\ turn' = [turn EXCEPT ![t].pc = "waiting", ![t].prior = prior,
                                   ![prior].aborted = TRUE]
           /\ inFlight' = inFlight /\ Awaits(s, prior)
  <2>1. PICK r, k : /\ r = [turn[t] EXCEPT !.pc = "waiting", !.prior = prior]
                    /\ k = [turn[prior] EXCEPT !.aborted = TRUE]
    OBVIOUS
  <2>2. /\ prior \in Turns /\ turn[prior] \in TurnState /\ turn[prior].pc \in Attempting
        /\ turn[prior].session = s /\ prior # t
    BY <1>1, <1>2, <1>3, <1>5 DEF Flights, Attempting
  <2>3. /\ r \in TurnState /\ r.pc = "waiting" /\ r.session = s /\ r.prior = prior
        /\ k \in TurnState /\ k.pc = turn[prior].pc /\ k.session = s
        /\ SameAttempt(turn[prior], k)
    BY <1>1, <1>2, <2>1, <2>2 DEF TurnState, TurnPc, SameAttempt
  <2>4. turn' = [turn EXCEPT ![t] = r, ![prior] = k]
    BY <1>5, <2>1, <2>2
  <2>5. /\ turn' \in [Turns -> TurnState] /\ turn'[t] = r /\ turn'[prior] = k
        /\ \A u \in Turns \ {t, prior} : turn'[u] = turn[u]
    BY <1>2, <2>2, <2>3, <2>4
  <2>6. \A u \in Turns : InPlace(turn[u], turn'[u])
    BY <1>1, <1>2, <2>2, <2>3, <2>5 DEF InPlace, Attempting
  <2>7. \A u \in Turns : turn[u].pc \in Attempting => SameAttempt(turn[u], turn'[u])
    BY <1>2, <2>3, <2>5 DEF SameAttempt, Attempting
  <2>8. Waiting' /\ shared \subseteq shared' /\ shared' \subseteq Sessions
    <3>1. t \in Requests /\ Of(t)' = r
      BY <2>5, OfIs
    <3>2. ASSUME NEW y \in Requests \ {t}, Of(y)'.pc \in Awaiting
          PROVE  Of(y)' = Of(y)
      <4>1. CASE y \in Turns
        BY <2>2, <2>3, <2>5, <3>2, <4>1, OfIs DEF Awaiting, Attempting
      <4>2. CASE y \in Clears
        BY <1>2, <4>2, OfIs
      <4> QED
        BY <4>1, <4>2, OfIs
    <3> QED
      BY <1>1, <1>2, <1>3, <1>5, <2>3, <3>1, <3>2, WaitsStep
  <2>9. RequestsOK'
    BY <1>1, <1>2, <2>2, <2>3, <2>5, RequestsStay DEF Attempting
  <2>10. Settled => Staying'
    BY <1>2, <2>8 DEF ChatInv, Staying, Quiet, Awaiting
  <2> QED
    BY <1>2, <1>5, <2>5, <2>6, <2>7, <2>8, <2>9, <2>10, RequestStep
<1>6. CASE /\ prior = None /\ turn' = [turn EXCEPT ![t] = Begins(t)]
           /\ inFlight' = [inFlight EXCEPT ![s] = t] /\ shared' = shared
  <2>1. \A y \in Requests : Of(y).pc # "woken"
    BY <1>2, OfIs DEF Quiet
  <2>2. \A y \in Requests : Of(y).pc = "waiting" => Of(y).session # s
    BY <1>1, <1>2, <1>6 DEF Waiting
  <2> QED
    BY <1>1, <1>2, <1>3, <1>6, <2>1, <2>2, BeginStep
<1> QED
  BY <1>1, <1>4, <1>5, <1>6 DEF BodyRead

LEMMA AwaitedStep == ASSUME ChatInv, NEW t \in Turns, Awaited(t) PROVE ChatInv'
<1>1. PICK s : s = turn[t].session
  OBVIOUS
<1>2. /\ Numbered /\ Waiting /\ turn[t].pc = "woken"
      /\ turn' = [turn EXCEPT ![t] = Begins(t)] /\ inFlight' = [inFlight EXCEPT ![s] = t]
      /\ UNCHANGED <<process, active, track, live, modeOf, root, history, schedule, clear,
                     shared, switches, sweeps>>
  BY <1>1 DEF ChatInv, Awaited, sessionVars, auxiliary
<1>3. t \in Requests /\ Of(t).pc = "woken" /\ Of(t).session = s
  BY <1>1, <1>2, OfIs
<1>4. /\ s \in Sessions /\ (s \notin shared => inFlight[s] = None)
      /\ \A y \in Requests : Of(y).pc = "waiting" => Of(y).session # s
      /\ \A y \in Requests \ {t} :
           Of(y).pc = "woken" => Of(y).session # s \/ Of(y).session \in shared
  BY <1>1, <1>2, <1>3, SessionOf DEF Waiting, Awaiting
<1> QED
  BY <1>1, <1>2, <1>3, <1>4, BeginStep

-----------------------------------------------------------------------------
(* /clear *)

LEMMA ClearStep == ASSUME ChatInv, NEW c \in Clears, Clear(c) PROVE ChatInv'
<1>1. PICK s, entry : s = track[active] /\ entry = inFlight[s]
  OBVIOUS
<1>2. /\ TypeOK /\ Numbered /\ Flights /\ Waiting /\ Quiet
      /\ turn \in [Turns -> TurnState] /\ clear \in [Clears -> ClearState]
      /\ clear[c].pc = "unsent" /\ s \in live /\ s \in Sessions /\ active \in Modes
      /\ inFlight \in [Sessions -> Turns \cup {None}]
      /\ UNCHANGED <<process, active, history, schedule, inFlight, switches, sweeps>>
  BY <1>1 DEF ChatInv, TypeOK, Clear, auxiliary
<1>3. modeOf[s] = active /\ modeOf[s] # None
  BY <1>1, <1>2, NoneIs DEF Numbered
<1>4. CASE /\ entry # None
           /\ turn' = [turn EXCEPT ![entry].aborted = TRUE]
           /\ clear' = [clear EXCEPT ![c] = [pc |-> "waiting", session |-> s, prior |-> entry]]
           /\ Awaits(s, entry)
           /\ UNCHANGED <<track, live, modeOf, root>>
  <2>1. PICK r, k : /\ r = [pc |-> "waiting", session |-> s, prior |-> entry]
                    /\ k = [turn[entry] EXCEPT !.aborted = TRUE]
    OBVIOUS
  <2>2. entry \in Turns /\ turn[entry] \in TurnState /\ turn[entry].pc \in Attempting
    BY <1>1, <1>2, <1>4 DEF Flights
  <2>3. /\ r \in ClearState /\ r.pc = "waiting" /\ r.session = s /\ r.prior = entry
        /\ k \in TurnState /\ k.pc = turn[entry].pc /\ k.session = turn[entry].session
        /\ SameAttempt(turn[entry], k)
    BY <1>2, <2>1, <2>2 DEF ClearState, TurnState, SameAttempt
  <2>4. /\ turn' \in [Turns -> TurnState] /\ turn'[entry] = k
        /\ \A u \in Turns \ {entry} : turn'[u] = turn[u]
        /\ clear' \in [Clears -> ClearState] /\ clear'[c] = r
        /\ \A d \in Clears \ {c} : clear'[d] = clear[d]
    BY <1>2, <1>4, <2>1, <2>2, <2>3
  <2>5. \A u \in Turns : InPlace(turn[u], turn'[u])
    BY <2>2, <2>3, <2>4 DEF InPlace, Attempting
  <2>6. \A u \in Turns : turn[u].pc \in Attempting => SameAttempt(turn[u], turn'[u])
    BY <2>3, <2>4 DEF SameAttempt
  <2>7. Waiting' /\ shared \subseteq shared' /\ shared' \subseteq Sessions
    <3>1. c \in Requests /\ Of(c)' = r
      BY <2>4, OfIs
    <3>2. ASSUME NEW y \in Requests \ {c}, Of(y)'.pc \in Awaiting
          PROVE  Of(y)' = Of(y)
      <4>1. CASE y \in Turns
        BY <2>2, <2>3, <2>4, <3>2, <4>1, OfIs DEF Awaiting, Attempting
      <4>2. CASE y \in Clears
        BY <2>4, <4>2, OfIs
      <4> QED
        BY <4>1, <4>2, OfIs
    <3> QED
      BY <1>1, <1>2, <1>4, <2>3, <3>1, <3>2, WaitsStep
  <2>8. RequestsOK'
    BY <1>2, <1>3, <1>4, <2>2, <2>3, <2>4, RequestsStay
  <2>9. Settled => Staying'
    BY <1>1, <1>2, <1>3, <1>4, <2>3, <2>4 DEF ChatInv, Staying, Quiet, Awaiting
  <2> QED
    BY <1>2, <1>4, <2>4, <2>5, <2>6, <2>7, <2>8, <2>9, RequestStep
<1>5. CASE /\ entry = None /\ ClearActive
           /\ clear' = [clear EXCEPT ![c] = [pc |-> "done", session |-> s, prior |-> None]]
           /\ UNCHANGED <<turn, shared>>
  <2>1. PICK n \in Sessions : Create(active, n, {s} \cap live)
    BY <1>1, <1>5 DEF ClearActive
  <2>2. PICK r : r = [pc |-> "done", session |-> s, prior |-> None]
    OBVIOUS
  <2>3. r \in ClearState /\ r.pc = "done" /\ r.session = s
    BY <1>2, <2>2 DEF ClearState
  <2>4. /\ clear' \in [Clears -> ClearState] /\ clear'[c] = r
        /\ \A d \in Clears \ {c} : clear'[d] = clear[d]
    BY <1>2, <1>5, <2>2, <2>3
  <2>5. ClearsAlike /\ \A u \in Turns : Alike(turn[u], turn'[u])
    BY <1>5, <2>3, <2>4 DEF ClearsAlike, Alike
  <2>6. RequestsOK'
    BY <1>2, <1>3, <1>5, <2>1, <2>3, <2>4, ModesStay, RequestsStay
  <2>7. Settled /\ process = "up" => \A d \in Clears : clear'[d].pc \notin Awaiting
    <3> SUFFICES ASSUME Settled, process = "up", NEW d \in Clears, clear'[d].pc \in Awaiting
                 PROVE  FALSE
      OBVIOUS
    <3>1. d # c /\ clear[d].pc = "waiting" /\ clear[d].session = s
      BY <1>1, <1>2, <2>3, <2>4 DEF ChatInv, Staying, Quiet, Awaiting
    <3>2. d \in Requests /\ Of(d).pc = "waiting" /\ Of(d).session = s
      BY <3>1, OfIs
    <3> QED
      BY <1>1, <1>2, <1>5, <3>2 DEF Waiting
  <2>8. \A q \in ({s} \cap live) \ shared, u \in Turns :
          turn[u].pc \in Attempting => turn[u].session # q
    <3> SUFFICES ASSUME s \notin shared, NEW u \in Turns, turn[u].pc \in Attempting,
                        turn[u].session = s
                 PROVE  FALSE
      OBVIOUS
    <3>1. inFlight[s] = u
      BY <1>2 DEF Flights
    <3> QED
      BY <1>1, <1>5, <3>1, NoneIs
  <2>9. /\ SessionsOK' /\ Numbered' /\ Flights' /\ Waiting' /\ Remembered'
        /\ \A q \in Sessions : Kept(q)'
        /\ Settled => Staying' /\ Tidy'
    <3>1. {s} \cap live \in SUBSET live
      OBVIOUS
    <3> QED
      BY <1>1, <1>2, <1>5, <2>1, <2>5, <2>6, <2>7, <2>8, <3>1, CreateStep, FlightsKeep
  <2>10. TypeOK'
    BY <1>2, <1>5, <2>4, <2>9 DEF TypeOK, SessionsOK
  <2> QED
    BY <2>9, <2>10 DEF ChatInv
<1> QED
  BY <1>1, <1>4, <1>5 DEF Clear

LEMMA ClearAwaitedStep == ASSUME ChatInv, NEW c \in Clears, ClearAwaited(c) PROVE ChatInv'
<1>1. PICK s, gone : s = clear[c].session /\ gone = {track[active]} \cap live
  OBVIOUS
<1>2. /\ TypeOK /\ Numbered /\ Flights /\ Waiting
      /\ turn \in [Turns -> TurnState] /\ clear \in [Clears -> ClearState]
      /\ clear[c].pc = "woken" /\ clear[c] \in ClearState /\ active \in Modes
      /\ inFlight \in [Sessions -> Turns \cup {None}] /\ gone \in SUBSET live
      /\ UNCHANGED <<process, active, history, schedule, turn, shared, switches, sweeps>>
  BY <1>1 DEF ChatInv, TypeOK, ClearAwaited, auxiliary
<1>3. /\ c \in Requests /\ Of(c).pc = "woken" /\ Of(c).session = s
      /\ s \in Sessions /\ modeOf[s] # None /\ (s \notin shared => inFlight[s] = None)
      /\ \A y \in Requests : Of(y).pc = "waiting" => Of(y).session # s
  BY <1>1, <1>2, OfIs, SessionOf DEF Waiting, Awaiting
<1>4. FlightsKept
  <2>1. inFlight' = [inFlight EXCEPT ![s] = None]
    BY <1>1 DEF ClearAwaited
  <2> QED
    BY <1>2, <1>3, <2>1 DEF FlightsKept
<1>5. PICK n \in Sessions : Create(active, n, gone)
  BY <1>1 DEF ClearAwaited, ClearActive
<1>6. PICK r : r = [clear[c] EXCEPT !.pc = "done", !.prior = None]
  OBVIOUS
<1>7. r \in ClearState /\ r.pc = "done" /\ r.session = s
  BY <1>1, <1>2, <1>6 DEF ClearState
<1>8. clear' = [clear EXCEPT ![c] = r]
  BY <1>6 DEF ClearAwaited
<1>9. /\ clear' \in [Clears -> ClearState] /\ clear'[c] = r
      /\ \A d \in Clears \ {c} : clear'[d] = clear[d]
  BY <1>2, <1>7, <1>8
<1>10. ClearsAlike /\ \A u \in Turns : Alike(turn[u], turn'[u])
  BY <1>2, <1>7, <1>9 DEF ClearsAlike, Alike
<1>11. RequestsOK'
  BY <1>1, <1>2, <1>3, <1>5, <1>7, <1>9, ModesStay, RequestsStay
<1>12. Settled =>
         \/ \A d \in Clears : clear'[d].pc \notin Awaiting
         \/ /\ active' = active /\ gone = {track[active]} \cap live
            /\ process = "up" =>
                 /\ turn' = turn
                 /\ \A d \in Clears : clear'[d].pc \in Awaiting =>
                      clear[d].pc = "woken" /\ clear[d].session \in shared
  <2> SUFFICES ASSUME Settled, process = "up", NEW d \in Clears, clear'[d].pc \in Awaiting
               PROVE  clear[d].pc = "woken" /\ clear[d].session \in shared
    BY <1>1, <1>2
  <2>1. d # c /\ clear[d].pc \in Awaiting /\ Staying
    BY <1>2, <1>7, <1>9 DEF ChatInv, Awaiting
  <2>2. d \in Requests /\ Of(d) = clear[d]
    BY OfIs
  <2>3. clear[d].pc = "woken"
    <3> SUFFICES ASSUME clear[d].pc = "waiting"
                 PROVE  FALSE
      BY <2>1 DEF Awaiting
    <3>1. clear[d].session \in live /\ clear[d].session = track[active]
      BY <2>1 DEF Staying
    <3>2. s # track[active]
      BY <1>3, <2>2, <3>1
    <3>3. s \notin live /\ Fresh(track[active])
      BY <1>1, <1>2, <2>1, <3>2 DEF Staying, Awaiting
    <3>4. clear[d].session \in Sessions
      BY <1>2, <2>1 DEF Numbered, Awaiting
    <3>5. PICK u \in Turns : u = inFlight[clear[d].session]
      BY <1>2, <2>2, <3>4 DEF Waiting
    <3>6. turn[u].pc \in Attempting /\ turn[u].session = clear[d].session
      BY <1>2, <3>4, <3>5, NoneIs DEF Flights
    <3> QED
      BY <3>1, <3>3, <3>6 DEF Fresh, Attempting
  <2> QED
    BY <1>2, <1>3, <2>1, <2>2, <2>3 DEF Waiting, Awaiting
<1>14. Settled /\ process = "up" =>
         \A q \in gone \ shared, u \in Turns : turn[u].pc \in Attempting => turn[u].session # q
  <2> SUFFICES ASSUME Settled, process = "up", NEW q \in gone \ shared, NEW u \in Turns,
                      turn[u].pc \in Attempting, turn[u].session = q
               PROVE  FALSE
    OBVIOUS
  <2>1. Staying /\ q = track[active] /\ q \in live /\ inFlight[q] = u
    BY <1>1, <1>2 DEF ChatInv, Flights
  <2>2. CASE s = q
    BY <1>3, <2>1, <2>2, NoneIs
  <2>3. CASE s # q
    BY <1>1, <1>2, <2>1, <2>3 DEF Staying, Fresh, Awaiting, Attempting
  <2> QED
    BY <2>2, <2>3
<1>15. /\ SessionsOK' /\ Numbered' /\ Flights' /\ Waiting' /\ Remembered'
       /\ \A q \in Sessions : Kept(q)'
       /\ Settled => Staying' /\ Tidy'
  <2>1. UNCHANGED <<process, history, schedule, shared>>
    BY <1>2
  <2>2. \A u \in Turns : turn[u].pc \in Attempting => turn'[u] = turn[u]
    BY <1>2
  <2> QED
    BY <1>2, <1>4, <1>5, <1>10, <1>11, <1>12, <1>14, <2>1, <2>2, CreateStep
<1>16. TypeOK'
  BY <1>2, <1>4, <1>9, <1>15 DEF TypeOK, SessionsOK, FlightsKept
<1> QED
  BY <1>15, <1>16 DEF ChatInv

-----------------------------------------------------------------------------
(* A turn ends *)

LEMMA FinishStep == ASSUME ChatInv, NEW t \in Turns, Finish(t) PROVE ChatInv'
<1>1. PICK s, h : s = turn[t].session /\ h = history[s]
  OBVIOUS
<1>2. /\ TypeOK /\ Numbered /\ Flights /\ Waiting /\ Remembered /\ Quiet
      /\ turn[t].pc = "clean_up" /\ turn[t].pc \in Attempting
      /\ turn \in [Turns -> TurnState] /\ clear \in [Clears -> ClearState]
      /\ inFlight \in [Sessions -> Turns \cup {None}] /\ history \in [Sessions -> Seq(Turns)]
      /\ UNCHANGED <<process, active, track, live, modeOf, root, schedule, shared, switches, sweeps>>
  BY DEF ChatInv, TypeOK, Finish, sessionVars, auxiliary, Attempting
<1>3. Starting(t, s)
  BY <1>1, <1>2, StartingIs
<1>4. s \in Sessions /\ h \in Seq(Turns) /\ (s \notin shared => inFlight[s] = t) /\ turn[t] \in TurnState
      /\ modeOf[s] # None
  BY <1>1, <1>2, <1>3, NoneIs DEF Starting
<1>5. /\ inFlight' = [inFlight EXCEPT ![s] = IF @ = t THEN None ELSE @]
      /\ history' = [history EXCEPT ![s] =
           IF turn[t].outcome \in {"answered", "malformed"} THEN Append(h, t) ELSE h]
  BY <1>1, <1>4 DEF Finish
<1>6. PICK e : e = Ended(t)
  OBVIOUS
<1>7. e \in TurnState /\ e.pc = "done" /\ e.session = s /\ e.outcome = turn[t].outcome
  <2>1. NewTurn \in TurnState
    <3>1. <<>> \in Seq(Turns)
      OBVIOUS
    <3> QED
      BY <3>1 DEF NewTurn, TurnState, TurnPc, Outcome
  <2>2. turn[t].session \in Sessions \cup {None} /\ turn[t].outcome \in Outcome
    BY <1>4 DEF TurnState
  <2> QED
    BY <1>1, <1>6, <2>1, <2>2 DEF Ended, NewTurn, TurnState, TurnPc
<1>8. /\ turn' \in [Turns -> TurnState] /\ turn'[t] = e
      /\ \A u \in Turns \ {t} :
           IF turn[u].pc = "waiting" /\ turn[u].prior = t
             THEN turn'[u] = [turn[u] EXCEPT !.pc = "woken"] ELSE turn'[u] = turn[u]
  <2>1. PICK f : f = [turn EXCEPT ![t] = e]
    OBVIOUS
  <2>2. f \in [Turns -> TurnState] /\ f[t] = e /\ \A u \in Turns \ {t} : f[u] = turn[u]
    BY <1>2, <1>7, <2>1
  <2>3. turn' = [x \in Turns |-> IF f[x].pc = "waiting" /\ f[x].prior = t
                                   THEN [f[x] EXCEPT !.pc = "woken"] ELSE f[x]]
    BY <1>6, <2>1, <2>2 DEF Finish, Woken
  <2>4. \A u \in Turns : [turn[u] EXCEPT !.pc = "woken"] \in TurnState
    BY <1>2 DEF TurnState, TurnPc
  <2> QED
    BY <1>7, <2>2, <2>3, <2>4
<1>9. /\ clear' \in [Clears -> ClearState]
      /\ \A c \in Clears :
           IF clear[c].pc = "waiting" /\ clear[c].prior = t
             THEN clear'[c] = [clear[c] EXCEPT !.pc = "woken"] ELSE clear'[c] = clear[c]
  <2>1. clear' = [x \in Clears |-> IF clear[x].pc = "waiting" /\ clear[x].prior = t
                                     THEN [clear[x] EXCEPT !.pc = "woken"] ELSE clear[x]]
    BY <1>2 DEF Finish, Woken
  <2>2. \A c \in Clears : [clear[c] EXCEPT !.pc = "woken"] \in ClearState
    BY <1>2 DEF ClearState
  <2> QED
    BY <1>2, <2>1, <2>2
<1>10. \A u \in Turns \ {t} : /\ turn'[u].session = turn[u].session /\ turn'[u].prior = turn[u].prior
                              /\ turn'[u].outcome = turn[u].outcome
                              /\ turn'[u].pc \in {"waiting", "woken"} \/ turn'[u] = turn[u]
                              /\ turn[u].pc = "waiting" \/ turn'[u] = turn[u]
                              /\ turn'[u].pc = "waiting" => turn[u].pc = "waiting" /\ turn[u].prior # t
                              /\ turn'[u].pc = "woken" => turn[u].pc = "waiting" /\ turn[u].prior = t
  <2> SUFFICES ASSUME NEW u \in Turns \ {t}
               PROVE  /\ turn'[u].session = turn[u].session /\ turn'[u].prior = turn[u].prior
                      /\ turn'[u].outcome = turn[u].outcome
                      /\ turn'[u].pc \in {"waiting", "woken"} \/ turn'[u] = turn[u]
                      /\ turn[u].pc = "waiting" \/ turn'[u] = turn[u]
                      /\ turn'[u].pc = "waiting" => turn[u].pc = "waiting" /\ turn[u].prior # t
                      /\ turn'[u].pc = "woken" => turn[u].pc = "waiting" /\ turn[u].prior = t
    OBVIOUS
  <2>1. turn[u] \in TurnState /\ turn[u].pc # "woken"
    BY <1>2 DEF Quiet
  <2>2. CASE turn[u].pc = "waiting" /\ turn[u].prior = t
    <3>1. turn'[u] = [turn[u] EXCEPT !.pc = "woken"]
      BY <1>8, <2>2
    <3>2. /\ turn'[u].pc = "woken" /\ turn'[u].session = turn[u].session
          /\ turn'[u].prior = turn[u].prior /\ turn'[u].outcome = turn[u].outcome
      BY <2>1, <3>1 DEF TurnState
    <3> QED
      BY <2>2, <3>2
  <2>3. CASE ~(turn[u].pc = "waiting" /\ turn[u].prior = t)
    <3>1. turn'[u] = turn[u]
      BY <1>8, <2>3
    <3> QED
      BY <2>1, <2>3, <3>1
  <2> QED
    BY <2>2, <2>3
<1>11. \A c \in Clears : /\ clear'[c].session = clear[c].session /\ clear'[c].prior = clear[c].prior
                         /\ clear[c].pc = "unsent" => clear'[c] = clear[c]
                         /\ clear'[c].pc = "waiting" => clear[c].pc = "waiting" /\ clear[c].prior # t
                         /\ clear'[c].pc = "woken" => clear[c].pc = "waiting" /\ clear[c].prior = t
  <2> SUFFICES ASSUME NEW c \in Clears
               PROVE  /\ clear'[c].session = clear[c].session /\ clear'[c].prior = clear[c].prior
                      /\ clear[c].pc = "unsent" => clear'[c] = clear[c]
                      /\ clear'[c].pc = "waiting" => clear[c].pc = "waiting" /\ clear[c].prior # t
                      /\ clear'[c].pc = "woken" => clear[c].pc = "waiting" /\ clear[c].prior = t
    OBVIOUS
  <2>1. clear[c] \in ClearState /\ clear[c].pc # "woken"
    BY <1>2 DEF Quiet
  <2>2. CASE clear[c].pc = "waiting" /\ clear[c].prior = t
    <3>1. clear'[c] = [clear[c] EXCEPT !.pc = "woken"]
      BY <1>9, <2>2
    <3>2. /\ clear'[c].pc = "woken" /\ clear'[c].session = clear[c].session
          /\ clear'[c].prior = clear[c].prior
      BY <2>1, <3>1 DEF ClearState
    <3> QED
      BY <2>2, <3>2
  <2>3. CASE ~(clear[c].pc = "waiting" /\ clear[c].prior = t)
    <3>1. clear'[c] = clear[c]
      BY <1>9, <2>3
    <3> QED
      BY <2>1, <2>3, <3>1
  <2> QED
    BY <2>2, <2>3
<1>12. /\ inFlight' \in [Sessions -> Turns \cup {None}] /\ inFlight'[s] = (IF inFlight[s] = t THEN None ELSE inFlight[s])
       /\ \A q \in Sessions \ {s} : inFlight'[q] = inFlight[q] /\ history'[q] = history[q]
       /\ history' \in [Sessions -> Seq(Turns)]
       /\ history'[s] = IF turn[t].outcome \in {"answered", "malformed"} THEN Append(h, t) ELSE h
  BY <1>2, <1>4, <1>5, AppendIs
<1>13. Flights'
  <2>1. ASSUME NEW q \in Sessions, inFlight'[q] # None
        PROVE  turn'[inFlight'[q]].pc \in Attempting /\ turn'[inFlight'[q]].session = q
    <3>1. inFlight'[q] = inFlight[q] /\ inFlight[q] \in Turns
      BY <1>2, <1>12, <2>1
    <3>2. turn[inFlight[q]].pc \in Attempting /\ turn[inFlight[q]].session = q
      BY <1>2, <2>1, <3>1 DEF Flights
    <3>3. inFlight[q] # t
      BY <1>1, <1>12, <2>1, <3>1, <3>2
    <3> QED
      BY <1>10, <3>1, <3>2, <3>3 DEF Attempting
  <2>2. ASSUME NEW u \in Turns, turn'[u].pc \in Attempting
        PROVE  inFlight'[turn'[u].session] = u \/ turn'[u].session \in shared
    <3>1. u # t
      BY <1>7, <1>8, <2>2 DEF Attempting
    <3>2. turn'[u] = turn[u] /\ turn[u].session \in Sessions
      BY <1>2, <1>10, <2>2, <3>1 DEF Attempting, Numbered
    <3>3. inFlight[turn[u].session] = u \/ turn[u].session \in shared
      BY <1>2, <2>2, <3>2 DEF Flights
    <3> QED
      BY <1>4, <1>12, <3>1, <3>2, <3>3
  <2>3. shared' = shared
    BY <1>2
  <2> QED
    BY <2>1, <2>2, <2>3 DEF Flights
<1>14. Waiting'
  <2>1. ASSUME NEW x \in Requests, Of(x)'.pc \in Awaiting
        PROVE  /\ Of(x).pc = "waiting" /\ Of(x)'.session = Of(x).session
               /\ Of(x)'.prior = Of(x).prior /\ Of(x).session \in Sessions
               /\ Of(x).prior = inFlight[Of(x).session] /\ Of(x).prior # None
               /\ Of(x)'.pc = "woken" <=> Of(x).prior = t
    <3>1. /\ Of(x).pc = "waiting" /\ Of(x)'.session = Of(x).session
          /\ Of(x)'.prior = Of(x).prior /\ (Of(x)'.pc = "woken" <=> Of(x).prior = t)
      <4>1. CASE x \in Turns
        <5>1. Of(x) = turn[x] /\ Of(x)' = turn'[x]
          BY <4>1, OfIs
        <5>2. x # t
          BY <1>7, <1>8, <2>1, <5>1 DEF Awaiting
        <5> QED
          BY <1>2, <1>10, <2>1, <4>1, <5>1, <5>2 DEF Awaiting, Quiet
      <4>2. CASE x \in Clears
        <5>1. Of(x) = clear[x] /\ Of(x)' = clear'[x]
          BY <4>2, OfIs
        <5> QED
          BY <1>2, <1>11, <2>1, <4>2, <5>1 DEF Awaiting, Quiet
      <4> QED
        BY <4>1, <4>2, OfIs
    <3> QED
      BY <1>2, <3>1, SessionOf DEF Waiting, Awaiting
  <2>2. ASSUME NEW x \in Requests, Of(x)'.pc = "waiting"
        PROVE  Of(x)'.prior # None /\ Of(x)'.prior = inFlight'[Of(x)'.session]
    <3>1. /\ Of(x)'.session = Of(x).session /\ Of(x)'.prior = Of(x).prior
          /\ Of(x).session \in Sessions /\ Of(x).prior = inFlight[Of(x).session]
          /\ Of(x).prior # None /\ Of(x).prior # t
      BY <2>1, <2>2 DEF Awaiting
    <3> QED
      BY <1>4, <1>12, <3>1
  <2>3. ASSUME NEW x \in Requests, Of(x)'.pc = "woken"
        PROVE  Of(x)'.session = s /\ inFlight[s] = t /\ inFlight'[s] = None
    <3>1. Of(x)'.session = Of(x).session /\ Of(x).session \in Sessions
          /\ inFlight[Of(x).session] = t
      BY <2>1, <2>3 DEF Awaiting
    <3>2. Of(x).session = s
      BY <1>1, <1>2, <3>1, NoneIs DEF Flights
    <3> QED
      BY <1>12, <3>1, <3>2
  <2>4. ASSUME NEW x \in Requests, NEW y \in Requests, Of(x)'.pc = "woken"
        PROVE  /\ Of(y)'.pc = "waiting" => Of(y)'.session # Of(x)'.session
               /\ Of(y)'.pc = "woken" => Of(y)'.session = Of(x)'.session
    <3>1. Of(y)'.pc = "woken" => Of(y)'.session = Of(x)'.session
      BY <2>3, <2>4
    <3>2. Of(y)'.pc = "waiting" => Of(y)'.session # s
      BY <2>2, <2>3, <2>4
    <3> QED
      BY <2>3, <2>4, <3>1, <3>2
  <2>5. ASSUME NEW x \in Requests, NEW y \in Requests,
               Of(x)'.pc \in Awaiting, Of(y)'.pc \in Awaiting, Of(x)'.session = Of(y)'.session
        PROVE  x = y \/ Of(x)'.session \in shared
    BY <1>2, <2>1, <2>5 DEF Waiting, Awaiting
  <2> QED
    BY <1>2, <2>2, <2>3, <2>4, <2>5 DEF Waiting
<1>15. \A q \in Sessions : \A p \in DOMAIN history[q] :
         /\ history[q][p] \in Turns \ {t}
         /\ turn'[history[q][p]] = turn[history[q][p]]
         /\ turn[history[q][p]].pc = "done" /\ turn[history[q][p]].session = q
  BY <1>2, <1>10, HistoryIs
<1>16. Remembered'
  <2> SUFFICES ASSUME NEW q \in Sessions, NEW p \in DOMAIN history'[q]
               PROVE  turn'[history'[q][p]].pc = "done" /\ turn'[history'[q][p]].session = q
    BY DEF Remembered
  <2>1. CASE history'[q] = history[q]
    BY <1>15, <2>1
  <2>2. CASE history'[q] # history[q]
    <3>1. q = s /\ history'[q] = Append(h, t)
      BY <1>1, <1>12, <2>2
    <3>2. /\ p \in DOMAIN h \/ history'[q][p] = t
          /\ p \in DOMAIN h => history'[q][p] = h[p]
      BY <1>4, <3>1, AppendIs
    <3> QED
      BY <1>1, <1>7, <1>8, <1>15, <3>1, <3>2
  <2> QED
    BY <2>1, <2>2
<1>17. s \in live \ shared => Still(s)'
  <2> SUFFICES ASSUME s \in live \ shared
               PROVE  Still(s)'
    OBVIOUS
  <2>1. PICK x, a : x = root[s] /\ a = turn[t].attempt
    OBVIOUS
  <2>2. Going(s, t, turn[t]) /\ a \in Seq(Turns)
    BY <1>3, <1>4, <2>1 DEF Starting, TurnState
  <2>3. \A p \in DOMAIN h : h[p] # t /\ turn'[h[p]].outcome = turn[h[p]].outcome
    BY <1>1, <1>4, <1>15
  <2>4. root'[s] = x /\ schedule'[s] = schedule[s]
    BY <1>2, <2>1
  <2>5. CASE turn[t].outcome = "answered"
    <3>1. /\ x = Append(a, t) /\ Follows(a, h)
          /\ schedule[s] = t \/ Proposed(schedule[s], a)
      BY <1>1, <1>2, <2>1, <2>2, <2>5 DEF Going, Commits
    <3>2. PICK k : k = Append(h, t)
      OBVIOUS
    <3>3. history'[s] = k
      BY <1>12, <2>5, <3>2
    <3>4. Follows(x, k)'
      BY <1>4, <1>7, <1>8, <2>2, <2>3, <2>5, <3>1, <3>2, FollowsBoth
    <3>5. x \in Seq(Turns) /\ Proposed(schedule[s], x)
      <4>1. /\ x \in Seq(Turns) /\ DOMAIN x = DOMAIN a \cup {Len(a) + 1} /\ x[Len(a) + 1] = t
            /\ \A i \in DOMAIN a : x[i] = a[i]
        BY <2>2, <3>1, AppendIs
      <4> QED
        BY <3>1, <4>1 DEF Proposed
    <3> QED
      BY <2>4, <3>3, <3>4, <3>5 DEF Still, Follows, Proposed
  <2>6. CASE turn[t].outcome # "answered"
    <3>1. x \in Seq(Turns) /\ Follows(x, h) /\ Proposed(schedule[s], x)
      BY <1>1, <1>2, <2>1, <2>2, <2>6 DEF Going, Still
    <3>2. CASE turn[t].outcome = "malformed"
      <4>1. PICK k : k = Append(h, t)
        OBVIOUS
      <4>2. history'[s] = k
        BY <1>12, <3>2, <4>1
      <4>3. Follows(x, k)'
        BY <1>4, <1>7, <1>8, <2>3, <2>6, <3>1, <4>1, FollowsHistory
      <4> QED
        BY <2>4, <3>1, <4>2, <4>3 DEF Still, Follows, Proposed
    <3>3. CASE turn[t].outcome # "malformed"
      <4>1. history'[s] = h
        BY <1>12, <2>6, <3>3
      <4>2. Follows(x, h)'
        BY <2>3, <3>1, FollowsStays
      <4> QED
        BY <2>4, <3>1, <4>1, <4>2 DEF Still, Follows, Proposed
    <3> QED
      BY <3>2, <3>3
  <2> QED
    BY <2>5, <2>6
<1>18. ASSUME NEW q \in Sessions
       PROVE  Kept(q)'
  <2>1. CASE q = s
    <3>1. s \notin shared => \A u \in Turns : inFlight'[s] # u
      BY <1>4, <1>12, NoneIs
    <3> QED
      BY <1>2, <1>17, <2>1, <3>1 DEF Kept
  <2>2. CASE q # s
    <3>1. ASSUME NEW u \in Turns, inFlight[q] = u
          PROVE  SameAttempt(turn[u], turn'[u])
      <4>1. turn[u].pc \in Attempting /\ turn[u].session = q
        BY <1>2, <3>1, NoneIs DEF Flights
      <4>2. turn'[u] = turn[u]
        BY <1>1, <1>10, <2>2, <4>1 DEF Attempting
      <4> QED
        BY <4>2 DEF SameAttempt
    <3>2. \A u \in Turns : turn[u].pc = "done" => turn'[u].outcome = turn[u].outcome
      BY <1>2, <1>10
    <3>3. Kept(q) /\ history'[q] = history[q] /\ inFlight'[q] = inFlight[q]
      BY <1>12, <2>2 DEF ChatInv
    <3> QED
      BY <1>2, <3>1, <3>2, <3>3, KeptStays
  <2> QED
    BY <2>1, <2>2
<1>19. RequestsOK'
  <2>1. \A u \in Turns : turn'[u].pc # "unsent" =>
          turn[u].pc # "unsent" /\ turn'[u].session = turn[u].session
    BY <1>1, <1>2, <1>7, <1>8, <1>10
  <2>2. \A c \in Clears : clear'[c].pc # "unsent" =>
          clear[c].pc # "unsent" /\ clear'[c].session = clear[c].session
    BY <1>11
  <2> QED
    BY <1>2, <2>1, <2>2, RequestsStay
<1>20. Numbered'
  <2>1. \A q \in Sessions : modeOf[q] = None => q # s
    BY <1>4
  <2>2. \A q \in Sessions : modeOf'[q] = None => Unused(q)'
    BY <1>2, <1>12, <2>1 DEF Numbered, Unused
  <2> QED
    BY <1>2, <1>19, <2>2 DEF Numbered, RequestsOK
<1>21. Settled => Staying' /\ Tidy'
  <2>1. \A c \in Clears : clear'[c].pc \in {"waiting", "woken"} =>
          clear[c].pc \in {"waiting", "woken"} /\ clear'[c].session = clear[c].session
    BY <1>11
  <2>2. \A u \in Turns : turn'[u].pc \in {"run", "remove", "copy_back"} => turn'[u] = turn[u]
    BY <1>7, <1>8, <1>10
  <2>3. Settled => Tidy'
    BY <1>2, <2>2 DEF ChatInv, Tidy
  <2>4. ASSUME Settled, NEW c \in Clears, clear'[c].pc \in Awaiting
        PROVE  /\ modeOf[clear'[c].session] = active
               /\ clear'[c].session \in live => clear'[c].session = track[active]
               /\ process = "up" => clear'[c].session \in live
    <3>1. clear[c].pc = "waiting" /\ clear'[c].session = clear[c].session /\ Staying
      BY <1>2, <2>1, <2>4 DEF ChatInv, Quiet, Awaiting
    <3> QED
      BY <3>1 DEF Staying, Awaiting
  <2> QED
    BY <1>2, <2>3, <2>4 DEF Staying
<1>22. TypeOK'
  BY <1>2, <1>8, <1>9, <1>12 DEF TypeOK
<1> QED
  BY <1>13, <1>14, <1>16, <1>18, <1>20, <1>21, <1>22 DEF ChatInv

-----------------------------------------------------------------------------
(* The invariant holds *)

LEMMA InitChat == Init => ChatInv
<1> SUFFICES ASSUME Init
             PROVE  ChatInv
  OBVIOUS
<1> USE NoneIs
<1>1. /\ process = "up" /\ active = "private"
      /\ track = [m \in Modes |-> IF m = "private" THEN 1 ELSE None]
      /\ live = {1}
      /\ modeOf = [s \in Sessions |-> IF s = 1 THEN "private" ELSE None]
      /\ root = [s \in Sessions |-> IF s = 1 THEN <<>> ELSE NoDir]
      /\ history = [s \in Sessions |-> <<>>]
      /\ schedule = [s \in Sessions |-> None] /\ inFlight = [s \in Sessions |-> None]
      /\ turn = [t \in Turns |-> NewTurn] /\ clear = [c \in Clears |-> NewClear]
      /\ shared = {} /\ switches = 0 /\ sweeps = 0
  BY DEF Init
<1>2. /\ 1 \in Sessions /\ <<>> \in Seq(Turns) /\ DOMAIN <<>> = {}
      /\ "private" \in Modes
  BY DEF Modes
<1>3. NewTurn \in TurnState /\ NewClear \in ClearState
  BY <1>2 DEF NewTurn, NewClear, TurnState, ClearState, TurnPc, Outcome
<1>4. TypeOK
  <2>1. turn \in [Turns -> TurnState] /\ clear \in [Clears -> ClearState]
    BY <1>1, <1>3
  <2>2. root \in [Sessions -> {NoDir} \cup Seq(Turns)] /\ history \in [Sessions -> Seq(Turns)]
    BY <1>1, <1>2
  <2>3. /\ track \in [Modes -> Sessions \cup {None}] /\ live \subseteq Sessions
        /\ modeOf \in [Sessions -> Modes \cup {None}] /\ active \in Modes
    BY <1>1, <1>2
  <2>4. /\ schedule \in [Sessions -> Turns \cup {None}]
        /\ inFlight \in [Sessions -> Turns \cup {None}]
    BY <1>1
  <2>5. switches \in 0 .. Switches /\ sweeps \in 0 .. Sweeps
    BY <1>1
  <2> QED
    BY <1>1, <2>1, <2>2, <2>3, <2>4, <2>5 DEF TypeOK
<1>5. \A t \in Turns : turn[t].pc = "unsent"
  BY <1>1 DEF NewTurn
<1>6. \A c \in Clears : clear[c].pc = "unsent"
  BY <1>1 DEF NewClear
<1>7. Numbered
  <2>1. \A s \in Sessions : modeOf[s] # None <=> s <= 1
    BY <1>1, <1>2
  <2>2. \A s \in Sessions : modeOf[s] = None => Unused(s)
    BY <1>1, <1>2 DEF Unused
  <2>3. \A m \in Modes : track[m] # None => modeOf[track[m]] = m
    BY <1>1, <1>2
  <2>4. 1 \in 0 .. MaxSessions
    OBVIOUS
  <2> QED
    BY <1>5, <1>6, <2>1, <2>2, <2>3, <2>4 DEF Numbered
<1>8. Flights /\ Waiting
  <2>1. \A x \in Requests : Of(x).pc = "unsent"
    BY <1>5, <1>6, OfIs
  <2> QED
    BY <1>1, <1>5, <2>1 DEF Flights, Waiting, Awaiting, Attempting
<1>9. Remembered
  BY <1>1, <1>2 DEF Remembered
<1>10. \A s \in Sessions : Kept(s)
  <2>1. Follows(<<>>, <<>>)
    BY <1>2 DEF Follows
  <2>2. Still(1)
    BY <1>1, <1>2, <2>1 DEF Still, Proposed
  <2> QED
    BY <1>1, <2>2 DEF Kept
<1>11. Staying /\ Tidy
  BY <1>1, <1>5, <1>6 DEF Staying, Tidy, Awaiting
<1> QED
  BY <1>4, <1>7, <1>8, <1>9, <1>10, <1>11 DEF ChatInv

LEMMA ChatInvStep == ChatInv /\ [Next]_vars => ChatInv'
<1> SUFFICES ASSUME ChatInv, [Next]_vars
             PROVE  ChatInv'
  OBVIOUS
<1>1. ASSUME NEW t \in Turns, Runs(t)
      PROVE  ChatInv'
  BY <1>1, BodyReadStep, AwaitedStep, CopyOutStep, AnswersStep, RemoveRootStep,
     CopyBackStep, NextProviderStep, FinishStep DEF Runs
<1>2. ASSUME NEW t \in Turns, Chat(t) \/ Propose(t) \/ Stop(t)
      PROVE  ChatInv'
  BY <1>2, ChatStep, ProposeStep, StopStep
<1>3. ASSUME NEW c \in Clears, Clear(c) \/ ClearAwaited(c)
      PROVE  ChatInv'
  BY <1>3, ClearStep, ClearAwaitedStep
<1>4. CASE Visit \/ Signal \/ Exit \/ UNCHANGED vars
  BY <1>4, VisitStep, SignalStep, ExitStep
<1>5. ASSUME NEW m \in Modes, Mode(m)
      PROVE  ChatInv'
  BY <1>5, ModeStep
<1>6. ASSUME NEW s \in Sessions, Sweep(s)
      PROVE  ChatInv'
  BY <1>6, SweepStep
<1> QED
  BY <1>1, <1>2, <1>3, <1>4, <1>5, <1>6 DEF Next

\* The inductive invariant: the map inFlight names the turn that is under way in
\* a session, the only one unless two requests have awaited one turn, and every
\* request that awaits a turn awaits the one it names.
THEOREM ChatInvariance == Spec => []ChatInv
<1>1. Init => ChatInv
  BY InitChat
<1>2. ChatInv /\ [Next]_vars => ChatInv'
  BY ChatInvStep
<1> QED
  BY <1>1, <1>2, PTL DEF Spec

-----------------------------------------------------------------------------
(* What a session promises *)

\* Two turns work on one session only after two requests have awaited one turn of
\* it, however many are sent and whatever is stopped, cleared, switched, swept or
\* fails: runTurn awaits the turn in flight before it becomes it, but those who have
\* awaited one turn do not await each other.
THEOREM OneTurnAtATime == Spec => []OneTurnPerSession
<1>1. ChatInv => OneTurnPerSession
  BY DEF ChatInv, Flights, Attempting, OneTurnPerSession, HasAttempt
<1> QED
  BY <1>1, ChatInvariance, PTL

\* Between turns the transcript the model will read is the conversation the
\* advisor sees, unless two requests have awaited one turn: runAttempt works on a
\* copy and commits it last, and a failed or aborted attempt gives back the
\* schedule it found.
THEOREM TheModelReadsTheHistory == Spec => []TranscriptIsHistory
<1>1. ChatInv => TranscriptIsHistory
  <2> SUFFICES ASSUME ChatInv, NEW s \in live \ shared,
                      \A t \in Turns : turn[t].session = s => ~HasAttempt(t)
               PROVE  /\ root[s] # NoDir /\ Follows(root[s], history[s])
                      /\ Proposed(schedule[s], root[s])
    BY DEF TranscriptIsHistory
  <2>1. s \in Sessions /\ inFlight[s] \in Turns \cup {None}
    BY DEF ChatInv, TypeOK
  <2>2. inFlight[s] = None
    BY <2>1 DEF ChatInv, Flights, Attempting, HasAttempt
  <2>3. Still(s)
    BY <2>1, <2>2 DEF ChatInv, Kept
  <2> QED
    BY <2>3, NoneIs DEF Still
<1> QED
  BY <1>1, ChatInvariance, PTL

\* A clear that is answered in this step has ended its own session and no other.
LEMMA ClearsOwn ==
    ASSUME Settled, ChatInv, [Next]_vars
    PROVE  ClearsItsOwn
<1> SUFFICES ASSUME NEW c \in Clears, clear[c].pc # "done", clear'[c].pc = "done"
             PROVE  /\ clear'[c].session \notin live'
                    /\ \A s \in live \ live' : modeOf[s] = modeOf[clear'[c].session]
  BY DEF ClearsItsOwn
<1>1. /\ TypeOK /\ Numbered /\ Staying /\ active \in Modes
      /\ track \in [Modes -> Sessions \cup {None}] /\ live \subseteq Sessions
      /\ clear \in [Clears -> ClearState]
  BY DEF ChatInv, TypeOK
<1>2. ASSUME NEW s \in Sessions, NEW q \in Sessions,
             Create(active, s, {track[active]} \cap live),
             modeOf[q] = active, q \in live => q = track[active]
      PROVE  q \notin live' /\ \A r \in live \ live' : modeOf[r] = modeOf[q]
  <2>1. Creates(active, s, {track[active]} \cap live)
    BY <1>1, <1>2, CreateIs
  <2>2. q # s
    BY <1>1, <1>2, <2>1, NoneIs DEF Creates
  <2>3. \A r \in live \ live' : r = track[active] /\ r # None
    BY <1>1, <2>1, NoneIs DEF Creates
  <2> QED
    BY <1>1, <1>2, <2>1, <2>2, <2>3 DEF Creates, Numbered
<1>3. CASE Clear(c)
  <2>1. track[active] \in live /\ clear[c] \in ClearState
    BY <1>1, <1>3 DEF Clear
  <2>2. clear'[c] = [pc |-> "done", session |-> track[active], prior |-> None] /\ ClearActive
    BY <1>1, <1>3 DEF Clear
  <2>3. track[active] \in Sessions /\ modeOf[track[active]] = active
    BY <1>1, <2>1, NoneIs DEF Numbered
  <2> QED
    BY <1>2, <2>2, <2>3 DEF ClearActive
<1>4. CASE ClearAwaited(c)
  <2>1. clear'[c].session = clear[c].session /\ clear[c].pc = "woken" /\ ClearActive
    BY <1>1, <1>4 DEF ClearAwaited
  <2>2. clear[c].session \in Sessions
    BY <1>1, <2>1 DEF Numbered
  <2>3. /\ modeOf[clear[c].session] = active
        /\ clear[c].session \in live => clear[c].session = track[active]
    BY <1>1, <2>1 DEF Staying, Awaiting
  <2> QED
    BY <1>2, <2>1, <2>2, <2>3 DEF ClearActive
<1>5. ASSUME NEW d \in Clears \ {c}, Clear(d) \/ ClearAwaited(d)
      PROVE  FALSE
  BY <1>1, <1>5 DEF Clear, ClearAwaited
<1>6. ASSUME NEW t \in Turns, Finish(t)
      PROVE  FALSE
  BY <1>1, <1>6 DEF Finish, Woken
<1>7. clear' # clear
  OBVIOUS
<1>8. ASSUME NEW t \in Turns, Runs(t)
      PROVE  FALSE
  BY <1>6, <1>7, <1>8
  DEF Runs, BodyRead, Awaited, CopyOut, Answers, RemoveRoot, CopyBack, NextProvider
<1>9. ASSUME NEW t \in Turns, Chat(t) \/ Propose(t) \/ Stop(t)
      PROVE  FALSE
  BY <1>7, <1>9 DEF Chat, Propose, Stop
<1>10. ASSUME \/ Visit \/ Signal \/ Exit \/ UNCHANGED vars
              \/ \E m \in Modes : Mode(m)
              \/ \E s \in Sessions : Sweep(s)
       PROVE  FALSE
  BY <1>7, <1>10 DEF Visit, Signal, Exit, vars, Mode, Sweep
<1> QED
  BY <1>3, <1>4, <1>5, <1>8, <1>9, <1>10 DEF Next

\* A clear ends the session it was asked about and no other, and no transcript
\* outlives its session, if the advisor stays on the track while a clear waits.
THEOREM ClearingIsClean == Settled => (Spec => ClearLeavesNothing)
<1> SUFFICES ASSUME Settled
             PROVE  Spec => ClearLeavesNothing
  OBVIOUS
<1>1. ChatInv /\ [Next]_vars => NothingLeftBehind' /\ ClearsItsOwn
  <2> SUFFICES ASSUME ChatInv, [Next]_vars
               PROVE  NothingLeftBehind' /\ ClearsItsOwn
    OBVIOUS
  <2>1. ChatInv'
    BY ChatInvStep
  <2>2. NothingLeftBehind'
    BY <2>1 DEF ChatInv, Tidy, NothingLeftBehind
  <2> QED
    BY <2>2, ClearsOwn
<1> QED
  BY <1>1, ChatInvariance, PTL DEF Spec, ClearLeavesNothing
=============================================================================
