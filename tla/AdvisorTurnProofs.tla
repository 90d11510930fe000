-------------------------- MODULE AdvisorTurnProofs --------------------------
(***************************************************************************)
(* Proofs about AdvisorTurn, for any chain of providers, any tools and     *)
(* servers, any budget and any number of rounds and turns.                 *)
(***************************************************************************)
EXTENDS AdvisorTurn, FiniteSetTheorems, WellFoundedInduction, TLAPS

-----------------------------------------------------------------------------
(* The invariant *)

\* The messages ms are the conversation and what the attempt under way added:
\* its question and what followed.
Continues(ms) ==
    /\ Len(ms) > Len(conversation)
    /\ \A i \in DOMAIN conversation : ms[i] = conversation[i]
    /\ \A i \in Len(conversation) + 1 .. Len(ms) :
         /\ ms[i].turn = turn /\ ms[i].by = tried
         /\ ms[i].role = "user" <=> i = Len(conversation) + 1

\* The turns the conversation tells of are the committed ones, each told once.
Traces(ms, outs) ==
    /\ \A i \in DOMAIN ms : ms[i].turn \in DOMAIN outs /\ outs[ms[i].turn] \in Committed
    /\ \A t \in DOMAIN outs : outs[t] \in Committed => TracedOnce(t, ms)

Ours == [turn |-> turn, by |-> tried]

\* The locals of runWithProvider, whatever the log of the tools holds.
CallStates == {"running", "unknown", "done", "final"}
RunOK(r) ==
    /\ r \in [halting : BOOLEAN, rounds : 0 .. MaxRounds + 1, toolCalls : {r.toolCalls},
              hitRoundCap : BOOLEAN, hitTimeout : BOOLEAN, calls : {r.calls},
              toolLog : {r.toolLog}]
    /\ \A i \in DOMAIN r.calls : r.calls[i] \in [name : {r.calls[i].name}, state : CallStates]

TurnInv ==
    /\ TypeOK /\ RunOK(run)
    /\ Len(outcomes) = IF pc = "idle" THEN turn ELSE turn - 1
    /\ Traces(conversation, outcomes)
    /\ pc = "open" => attempt = conversation /\ run.rounds = 0
    /\ pc \in {"ask", "model", "tools", "judge"} => Continues(attempt)
    /\ pc \in {"idle", "next", "open"} => Offered(schedule, conversation)
    /\ pc \in {"open", "ask", "model", "tools", "judge", "thrown"} =>
         /\ Offered(before, conversation)
         /\ Offered(schedule, conversation) \/ schedule = Ours
    /\ pc = "model" => ~(Hooked /\ Refuses(attempt))
    /\ pc \in {"ask", "model", "tools"} /\ run.rounds > MaxRounds => run.halting
    /\ pc = "ask" => run.rounds <= MaxRounds

-----------------------------------------------------------------------------
(* Facts about numbers, sequences and the model's helpers *)

\* What has an element has a least one.
LEMMA LeastIs ==
    ASSUME NEW S, S \subseteq Nat, S # {}
    PROVE  Min(S) \in S /\ \A y \in S : Min(S) <= y
<1>1. PICK R : R = {ss \in Nat \X Nat : ss[1] < ss[2]}
  OBVIOUS
<1>2. IsWellFoundedOn(R, Nat)
  BY <1>1, NatLessThanWellFounded DEF OpToRel
<1>3. PICK x \in S : \A y \in S : ~(<<y, x>> \in R)
  BY <1>2, WFMin
<1>4. x \in Nat /\ \A y \in S : y \in Nat /\ ~(y < x)
  BY <1>1, <1>3
<1>5. \A y \in S : x <= y
  BY <1>4
<1> QED
  BY <1>5 DEF Min

LEMMA ConstantsAre ==
    /\ MaxRounds \in Nat \ {0} /\ Budget \in Nat /\ Turns \in Nat
    /\ Kinds \subseteq {"data", "none", "narrow", "fault"}
    /\ Len(Chain) \in Nat /\ DOMAIN Chain = 1 .. Len(Chain)
    /\ Len(Servers) \in Nat /\ DOMAIN Servers = 1 .. Len(Servers)
    /\ \A b \in Batches : Len(b) \in Nat \ {0} /\ DOMAIN b = 1 .. Len(b)
BY TurnAssumption

LEMMA MessageIs ==
    ASSUME turn \in Nat, tried \in Nat, NEW role \in DOMAIN KindsOf, NEW kind \in KindsOf[role]
    PROVE  /\ Message(role, kind) \in Messages
           /\ Message(role, kind).turn = turn /\ Message(role, kind).by = tried
           /\ Message(role, kind).role = role
BY DEF Message, Messages, MessageKinds

LEMMA RolesAre ==
    /\ DOMAIN KindsOf = {"user", "assistant", "tool"}
    /\ KindsOf["user"] = {"question", "essay"} /\ KindsOf.user = {"question", "essay"}
    /\ KindsOf["assistant"] = {"calls", "answer", "prose", "blank"}
    /\ KindsOf["tool"] = {"data", "none", "narrow", "fault"}
BY DEF KindsOf

\* What the model and the tools add.
Added(b) ==
    /\ b \in Seq(Messages)
    /\ \A i \in DOMAIN b : b[i].turn = turn /\ b[i].by = tried /\ b[i].role # "user"

LEMMA ContinuesOn ==
    ASSUME NEW a \in Seq(Messages), NEW b, conversation \in Seq(Messages),
           Continues(a), Added(b)
    PROVE  a \o b \in Seq(Messages) /\ Continues(a \o b)
<1>1. PICK c : c = a \o b
  OBVIOUS
<1>2. PICK k, m, n : k = Len(conversation) /\ m = Len(a) /\ n = Len(b)
  OBVIOUS
<1>3. /\ c \in Seq(Messages) /\ Len(c) = m + n /\ k \in Nat /\ m \in Nat /\ n \in Nat
      /\ m > k /\ DOMAIN conversation = 1 .. k
      /\ \A i \in 1 .. m : c[i] = a[i]
      /\ \A i \in m + 1 .. m + n : i - m \in DOMAIN b /\ c[i] = b[i - m]
  BY <1>1, <1>2 DEF Added, Continues
<1>4. \A i \in DOMAIN conversation : c[i] = conversation[i]
  BY <1>2, <1>3 DEF Continues
<1>5. ASSUME NEW i \in k + 1 .. Len(c)
      PROVE  /\ c[i].turn = turn /\ c[i].by = tried
             /\ c[i].role = "user" <=> i = k + 1
  <2>1. CASE i \in 1 .. m
    BY <1>2, <1>3, <1>5, <2>1 DEF Continues
  <2>2. CASE i \in m + 1 .. m + n
    BY <1>3, <1>5, <2>2 DEF Added
  <2> QED
    BY <1>3, <1>5, <2>1, <2>2
<1> QED
  BY <1>1, <1>2, <1>3, <1>4, <1>5 DEF Continues

LEMMA AddOne ==
    ASSUME NEW a \in Seq(Messages), conversation \in Seq(Messages), Continues(a),
           turn \in Nat, tried \in Nat,
           NEW role \in {"assistant", "tool"}, NEW kind \in KindsOf[role]
    PROVE  /\ Append(a, Message(role, kind)) \in Seq(Messages)
           /\ Continues(Append(a, Message(role, kind)))
<1>1. PICK m : m = Message(role, kind)
  OBVIOUS
<1>2. m \in Messages /\ m.turn = turn /\ m.by = tried /\ m.role = role
  BY <1>1, MessageIs, RolesAre
<1>3. Added(<<m>>)
  BY <1>2 DEF Added
<1>4. a \o <<m>> = Append(a, m)
  BY <1>2
<1> QED
  BY <1>1, <1>3, <1>4, ContinuesOn

LEMMA FreshRunIs == RunOK(FreshRun) /\ FreshRun.rounds = 0
BY ConstantsAre DEF RunOK, FreshRun

\* A turn's end adds one outcome; the conversation has it if the turn committed.
LEMMA OutcomeIs ==
    ASSUME NEW outs \in Seq(Outcomes), NEW v \in Outcomes
    PROVE  /\ Append(outs, v) \in Seq(Outcomes)
           /\ Len(Append(outs, v)) = Len(outs) + 1
           /\ DOMAIN Append(outs, v) = DOMAIN outs \cup {Len(outs) + 1}
           /\ Append(outs, v)[Len(outs) + 1] = v
           /\ \A t \in DOMAIN outs : t \in Nat /\ t <= Len(outs) /\ Append(outs, v)[t] = outs[t]
OBVIOUS

LEMMA TracesStay ==
    ASSUME NEW ms, NEW outs \in Seq(Outcomes), Traces(ms, outs),
           NEW v \in Outcomes \ Committed
    PROVE  Traces(ms, Append(outs, v))
<1>1. PICK c, n : c = Append(outs, v) /\ n = Len(outs) + 1
  OBVIOUS
<1>2. /\ DOMAIN c = DOMAIN outs \cup {n} /\ c[n] = v
      /\ \A t \in DOMAIN outs : c[t] = outs[t]
  BY <1>1, OutcomeIs
<1> QED
  BY <1>1, <1>2 DEF Traces

LEMMA TracesGrow ==
    ASSUME NEW ms \in Seq(Messages), conversation \in Seq(Messages), Continues(ms),
           outcomes \in Seq(Outcomes), Traces(conversation, outcomes),
           turn \in Nat, Len(outcomes) = turn - 1, NEW v \in Committed
    PROVE  Traces(ms, Append(outcomes, v))
<1>1. PICK c, k : c = Append(outcomes, v) /\ k = Len(conversation)
  OBVIOUS
<1>2. /\ DOMAIN c = DOMAIN outcomes \cup {turn} /\ c[turn] = v
      /\ \A t \in DOMAIN outcomes : t \in Nat /\ t < turn /\ c[t] = outcomes[t]
  BY <1>1, OutcomeIs DEF Outcomes
<1>3. /\ k \in Nat /\ Len(ms) \in Nat /\ Len(ms) > k
      /\ DOMAIN conversation = 1 .. k /\ DOMAIN ms = 1 .. Len(ms)
      /\ \A i \in 1 .. k : ms[i] = conversation[i]
      /\ \A i \in k + 1 .. Len(ms) :
           /\ ms[i].turn = turn /\ ms[i].by = tried
           /\ ms[i].role = "user" <=> i = k + 1
  BY <1>1 DEF Continues
<1>4. \A i \in 1 .. k : /\ ms[i].turn \in DOMAIN outcomes /\ ms[i].turn # turn
                        /\ outcomes[ms[i].turn] \in Committed
  <2>1. \A i \in 1 .. k : /\ ms[i].turn \in DOMAIN outcomes
                          /\ outcomes[ms[i].turn] \in Committed
    BY <1>3 DEF Traces
  <2>2. turn \notin DOMAIN outcomes
    BY <1>2
  <2> QED
    BY <2>1, <2>2
<1>5. \A i \in DOMAIN ms : ms[i].turn \in DOMAIN c /\ c[ms[i].turn] \in Committed
  BY <1>2, <1>3, <1>4
<1>6. TracedOnce(turn, ms)
  <2>1. k + 1 \in DOMAIN ms /\ ms[k + 1].turn = turn /\ ms[k + 1].role = "user"
    BY <1>3
  <2>2. ASSUME NEW i \in DOMAIN ms, ms[i].turn = turn, i # k + 1
        PROVE  k + 1 < i /\ ms[i].role # "user" /\ ms[i].by = ms[k + 1].by
    BY <1>3, <1>4, <2>2
  <2> QED
    BY <2>1, <2>2 DEF TracedOnce
<1>7. ASSUME NEW t \in DOMAIN outcomes, outcomes[t] \in Committed
      PROVE  TracedOnce(t, ms)
  <2>1. PICK q \in DOMAIN conversation :
          /\ conversation[q].turn = t /\ conversation[q].role = "user"
          /\ \A i \in DOMAIN conversation : conversation[i].turn = t /\ i # q =>
               q < i /\ conversation[i].role # "user" /\ conversation[i].by = conversation[q].by
    BY <1>7 DEF Traces, TracedOnce
  <2>2. q \in DOMAIN ms /\ ms[q] = conversation[q]
    BY <1>3, <2>1
  <2>3. ASSUME NEW i \in DOMAIN ms, ms[i].turn = t
        PROVE  i \in DOMAIN conversation /\ ms[i] = conversation[i]
    BY <1>2, <1>3, <2>3
  <2> QED
    BY <2>1, <2>2, <2>3 DEF TracedOnce
<1> QED
  BY <1>1, <1>2, <1>5, <1>6, <1>7 DEF Traces

\* A proposal of the conversation, or of the attempt that continues it, is in it.
LEMMA OfferedStays ==
    ASSUME NEW ms \in Seq(Messages), conversation \in Seq(Messages), Continues(ms), NEW s,
           Offered(s, conversation) \/ s = Ours
    PROVE  Offered(s, ms)
<1>1. PICK k : k = Len(conversation)
  OBVIOUS
<1>2. /\ k \in Nat /\ DOMAIN conversation = 1 .. k /\ DOMAIN ms = 1 .. Len(ms)
      /\ Len(ms) \in Nat /\ Len(ms) > k
      /\ \A i \in 1 .. k : ms[i] = conversation[i]
      /\ ms[k + 1].turn = turn /\ ms[k + 1].by = tried
  BY <1>1 DEF Continues
<1>3. CASE s = Ours
  BY <1>2, <1>3 DEF Offered, Ours
<1>4. CASE Offered(s, conversation)
  <2>1. \A i \in 1 .. k : i \in DOMAIN ms
    BY <1>2
  <2> QED
    BY <1>2, <1>4, <2>1 DEF Offered
<1> QED
  BY <1>3, <1>4

-----------------------------------------------------------------------------
(* The steps *)

LEMMA InitTurn == Init => TurnInv
<1> SUFFICES ASSUME Init
             PROVE  TurnInv
  OBVIOUS
<1>1. /\ service = "starting" /\ connected = 0 /\ bridge = {} /\ conversation = <<>>
      /\ schedule = None /\ turn = 0 /\ input = "question" /\ pc = "idle" /\ signalled = FALSE
      /\ tried = 0 /\ attempt = <<>> /\ run = FreshRun /\ outcomes = <<>>
  BY DEF Init
<1>2. TypeOK
  <2>1. <<>> \in Seq(Messages) /\ <<>> \in Seq(Outcomes)
    OBVIOUS
  <2>2. /\ run.halting = FALSE /\ run.hitRoundCap = FALSE /\ run.hitTimeout = FALSE
        /\ run.rounds = 0 /\ run.calls = <<>>
    BY <1>1 DEF FreshRun
  <2>3. {signalled, run.halting, run.hitRoundCap, run.hitTimeout} \subseteq BOOLEAN
    BY <1>1, <2>2
  <2>4. \A i \in DOMAIN run.calls : run.calls[i].state \in {"running", "unknown", "done", "final"}
    BY <2>2
  <2>5. /\ input \in KindsOf.user /\ run.rounds \in 0 .. MaxRounds + 1
        /\ turn \in 0 .. Turns /\ tried \in 0 .. Len(Chain) /\ connected \in 0 .. Len(Servers)
    BY <1>1, <2>2, ConstantsAre, RolesAre
  <2> QED
    BY <1>1, <2>1, <2>3, <2>4, <2>5 DEF TypeOK
<1>3. DOMAIN conversation = {} /\ DOMAIN outcomes = {} /\ Len(outcomes) = 0
  BY <1>1
<1>4. Traces(conversation, outcomes) /\ Offered(schedule, conversation)
  BY <1>1, <1>3 DEF Traces, Offered
<1> QED
  BY <1>1, <1>2, <1>3, <1>4, FreshRunIs DEF TurnInv

\* What no step under way touches.
LEMMA TypesAre ==
    ASSUME TurnInv
    PROVE  /\ turn \in Nat /\ tried \in Nat /\ conversation \in Seq(Messages)
           /\ attempt \in Seq(Messages) /\ outcomes \in Seq(Outcomes)
           /\ run.rounds \in Nat /\ run.halting \in BOOLEAN
           /\ run.hitRoundCap \in BOOLEAN /\ run.hitTimeout \in BOOLEAN
           /\ signalled \in BOOLEAN /\ RunOK(run)
BY ConstantsAre DEF TurnInv, TypeOK

LEMMA BootStep == ASSUME TurnInv, AssertChain \/ Connect \/ Ready PROVE TurnInv'
<1>1. UNCHANGED <<policy, sessionVars, turn, input, pc, signalled, attemptVars, endVars>>
  BY DEF AssertChain, Connect, Ready
<1>2. service' \in {"starting", "up", "dead"} /\ connected' \in 0 .. Len(Servers)
  <2>1. service \in {"starting", "up", "dead"} /\ connected \in 0 .. Len(Servers)
    BY DEF TurnInv, TypeOK
  <2>2. connected < Len(Servers) => connected + 1 \in 0 .. Len(Servers)
    BY <2>1, ConstantsAre
  <2> QED
    BY <2>1, <2>2 DEF AssertChain, Connect, Ready
<1>3. bridge' \subseteq Names \ Denylist
  <2>1. CASE bridge' = bridge
    BY <2>1 DEF TurnInv, TypeOK
  <2>2. CASE Connect
    <3>1. connected \in 0 .. Len(Servers) /\ connected < Len(Servers)
      BY <2>2 DEF Connect, TurnInv, TypeOK
    <3>2. Servers[connected + 1] \in ToSet(Servers)
      BY <3>1, ConstantsAre DEF ToSet
    <3>3. \A offered \in Offers[Servers[connected + 1]] : offered \subseteq Names
      BY <3>2 DEF Names
    <3> QED
      BY <2>1, <2>2, <3>3 DEF Connect, TurnInv, TypeOK
  <2> QED
    BY <2>1, <2>2 DEF AssertChain, Ready
<1>4. TypeOK'
  BY <1>1, <1>2, <1>3 DEF TurnInv, TypeOK, sessionVars, attemptVars, endVars
<1> QED
  BY <1>1, <1>4 DEF TurnInv, Ours, Continues, Hooked, sessionVars, attemptVars, endVars

Places == {"idle", "next", "open", "ask", "model", "tools", "judge", "thrown"}
Asking == {"ask", "model", "tools", "judge"}

LEMMA TypesMove ==
    ASSUME TurnInv, UNCHANGED bootVars,
           turn' \in 0 .. Turns, tried' \in 0 .. Len(Chain), input' \in KindsOf.user,
           conversation' \in Seq(Messages), attempt' \in Seq(Messages),
           outcomes' \in Seq(Outcomes),
           RunOK(run'), pc' \in Places, signalled' \in BOOLEAN
    PROVE  TypeOK' /\ RunOK(run)'
<1>1. /\ run'.rounds \in 0 .. MaxRounds + 1
      /\ run'.halting \in BOOLEAN /\ run'.hitRoundCap \in BOOLEAN /\ run'.hitTimeout \in BOOLEAN
  BY DEF RunOK
<1>2. {signalled', run'.halting, run'.hitRoundCap, run'.hitTimeout} \subseteq BOOLEAN
  BY <1>1
<1>3. \A i \in DOMAIN run'.calls : run'.calls[i].state \in {"running", "unknown", "done", "final"}
  BY DEF RunOK, CallStates
<1> QED
  BY <1>1, <1>2, <1>3 DEF TurnInv, TypeOK, bootVars, Places

LEMMA TypesStay ==
    ASSUME TurnInv, UNCHANGED <<bootVars, turn, tried, input>>,
           conversation' \in Seq(Messages), attempt' \in Seq(Messages),
           outcomes' \in Seq(Outcomes),
           RunOK(run'), pc' \in Places, signalled' \in BOOLEAN
    PROVE  TypeOK' /\ RunOK(run)'
BY TypesMove DEF TurnInv, TypeOK

\* A step of an attempt that has asked its question.
LEMMA AskingStep ==
    ASSUME TurnInv, pc \in Asking, pc' \in Asking,
           UNCHANGED <<bootVars, conversation, turn, input, tried, before, outcomes>>,
           attempt' \in Seq(Messages), Continues(attempt'), RunOK(run'), signalled' \in BOOLEAN,
           schedule' \in {schedule, Ours},
           pc' = "model" => ~(Chain[tried] \in Completions /\ Refuses(attempt')),
           pc' # "judge" /\ run'.rounds > MaxRounds => run'.halting,
           pc' = "ask" => run'.rounds <= MaxRounds
    PROVE  TurnInv'
<1>1. TypeOK' /\ RunOK(run)'
  BY TypesAre, TypesStay DEF Asking, Places
<1>2. Continues(attempt)'
  BY DEF Continues
<1>3. Offered(before, conversation)' /\ (Offered(schedule, conversation)' \/ schedule' = Ours')
  BY DEF TurnInv, Asking, Offered, Ours
<1>4. Traces(conversation, outcomes)'
  BY DEF TurnInv, Traces, TracedOnce
<1>5. pc' = "model" => ~(Hooked /\ Refuses(attempt))'
  BY DEF Hooked, Refuses, Fitting, SizeAt
<1>6. Len(outcomes') = turn' - 1 /\ pc' \notin {"idle", "next", "open", "thrown"}
  BY DEF TurnInv, Asking
<1> QED
  BY <1>1, <1>2, <1>3, <1>4, <1>5, <1>6 DEF TurnInv, Asking

LEMMA RequestStep == ASSUME TurnInv, Request PROVE TurnInv'
<1>1. /\ RunOK(run) /\ run.rounds \in Nat /\ run.rounds <= MaxRounds
      /\ pc = "ask" /\ MaxRounds \in Nat
  BY TypesAre, ConstantsAre DEF Request, TurnInv
<1>2. PICK capped : capped = (run.rounds >= MaxRounds)
  OBVIOUS
<1>3. PICK r : r = [run EXCEPT !.rounds = @ + 1, !.hitRoundCap = @ \/ capped,
                               !.halting = @ \/ capped]
  OBVIOUS
<1>4. /\ run' = r
      /\ UNCHANGED <<bootVars, sessionVars, turn, input, signalled, tried, attempt, before, endVars>>
      /\ pc' \in {"judge", "model"}
      /\ pc' = "model" => ~(Hooked /\ Refuses(attempt))
  BY <1>2, <1>3 DEF Request
<1>5. /\ r.rounds = run.rounds + 1 /\ (run.rounds >= MaxRounds => r.halting)
      /\ r.hitRoundCap \in BOOLEAN /\ r.halting \in BOOLEAN
      /\ RunOK(r)
  <2>1. run.rounds + 1 \in 0 .. MaxRounds + 1 /\ capped \in BOOLEAN
    BY <1>1, <1>2
  <2> QED
    BY <1>1, <1>2, <1>3, <2>1 DEF RunOK
<1>6. r.rounds > MaxRounds => r.halting
  BY <1>1, <1>5
<1> QED
  BY <1>1, <1>4, <1>5, <1>6, TypesAre, AskingStep
  DEF TurnInv, Asking, Hooked, sessionVars, endVars

LEMMA SaysStep == ASSUME TurnInv, Says \/ Halts PROVE TurnInv'
<1>1. /\ pc \in {"model", "tools"} /\ pc' = "judge" /\ run' = run
      /\ UNCHANGED <<bootVars, sessionVars, turn, input, signalled, tried, before, endVars>>
  BY DEF Says, Halts
<1>2. Continues(attempt)
  BY <1>1 DEF TurnInv
<1>3. \/ attempt' = attempt
      \/ \E text \in {"answer", "prose", "blank"} :
           attempt' = Append(attempt, Message("assistant", text))
  BY DEF Says, Halts
<1>4. attempt' \in Seq(Messages) /\ Continues(attempt')
  <2>1. ASSUME NEW text \in {"answer", "prose", "blank"},
               attempt' = Append(attempt, Message("assistant", text))
        PROVE  attempt' \in Seq(Messages) /\ Continues(attempt')
    <3>1. text \in KindsOf["assistant"] /\ turn \in Nat /\ tried \in Nat
          /\ attempt \in Seq(Messages) /\ conversation \in Seq(Messages)
      BY TypesAre, RolesAre
    <3> QED
      BY <1>2, <2>1, <3>1, AddOne
  <2> QED
    BY <1>2, <1>3, <2>1, TypesAre
<1> QED
  BY <1>1, <1>4, TypesAre, AskingStep DEF Asking, sessionVars, endVars

\* The calls of a batch that name tools, and what Calls makes of them.
Known(batch) == {i \in DOMAIN batch : batch[i] \in Tools}
CallsOf(batch, known, order) ==
    /\ run' = [run EXCEPT
           !.toolCalls = @ + Cardinality(known),
           !.calls = [i \in DOMAIN batch |->
               [name |-> batch[i],
                state |-> IF batch[i] \in Tools THEN "running" ELSE "unknown"]],
           !.toolLog = @ \o [k \in DOMAIN order |->
                              [name |-> batch[order[k]], result |-> "unset"]]]
    /\ attempt' = attempt \o <<Message("assistant", "calls")>>
                     \o [i \in 1 .. Cardinality(DOMAIN batch \ known) |->
                           Message("tool", "fault")]

LEMMA CallsAre ==
    ASSUME Calls
    PROVE  \E batch \in Batches : CallsOf(batch, Known(batch), InOrder(Known(batch)))
BY DEF Calls, CallsOf, Known

LEMMA CallsStep == ASSUME TurnInv, Calls PROVE TurnInv'
<1>1. /\ pc = "model" /\ pc' = "tools" /\ ~run.halting
      /\ UNCHANGED <<bootVars, sessionVars, turn, input, signalled, tried, before, endVars>>
  BY DEF Calls
<1>2. PICK batch \in Batches : CallsOf(batch, Known(batch), InOrder(Known(batch)))
  BY CallsAre
<1>3. PICK known, order, ghosts :
        /\ known = Known(batch) /\ order = InOrder(known)
        /\ ghosts = Cardinality(DOMAIN batch \ known)
  OBVIOUS
<1>4. ghosts \in Nat
  <2>1. IsFiniteSet(1 .. Len(batch))
    BY ConstantsAre, FS_Interval
  <2>2. IsFiniteSet(DOMAIN batch \ known)
    BY <2>1, ConstantsAre, FS_Subset
  <2> QED
    BY <1>3, <2>2, FS_CardinalityType
<1>5. attempt' \in Seq(Messages) /\ Continues(attempt')
  <2>1. PICK a, m, g : /\ a = Append(attempt, Message("assistant", "calls"))
                       /\ m = Message("tool", "fault") /\ g = [i \in 1 .. ghosts |-> m]
    OBVIOUS
  <2>2. a \in Seq(Messages) /\ Continues(a)
    BY <1>1, <2>1, TypesAre, AddOne, RolesAre DEF TurnInv
  <2>3. m \in Messages /\ m.turn = turn /\ m.by = tried /\ m.role = "tool"
    BY <2>1, TypesAre, MessageIs, RolesAre
  <2>4. Added(g)
    BY <1>4, <2>1, <2>3 DEF Added
  <2>5. attempt' = a \o g
    <3>1. Message("assistant", "calls") \in Messages /\ attempt \in Seq(Messages)
      BY TypesAre, MessageIs, RolesAre
    <3>2. attempt \o <<Message("assistant", "calls")>> = a
      BY <2>1, <3>1
    <3> QED
      BY <1>2, <1>3, <2>1, <3>2 DEF CallsOf
  <2> QED
    BY <2>2, <2>4, <2>5, TypesAre, ContinuesOn
<1>6. RunOK(run') /\ run'.rounds = run.rounds /\ run'.halting = run.halting
  <2>1. PICK k, c, l : k = run.toolCalls + Cardinality(known)
          /\ c = [i \in DOMAIN batch |->
                      [name |-> batch[i],
                       state |-> IF batch[i] \in Tools THEN "running" ELSE "unknown"]]
          /\ l = run.toolLog \o [j \in DOMAIN order |->
                                     [name |-> batch[order[j]], result |-> "unset"]]
    OBVIOUS
  <2>2. run' = [run EXCEPT !.toolCalls = k, !.calls = c, !.toolLog = l]
    BY <1>2, <1>3, <2>1 DEF CallsOf
  <2>3. \A i \in DOMAIN c : c[i] \in [name : {c[i].name}, state : CallStates]
    BY <2>1 DEF CallStates
  <2>4. /\ run'.calls = c
        /\ run' \in [halting : BOOLEAN, rounds : 0 .. MaxRounds + 1, toolCalls : {run'.toolCalls},
              hitRoundCap : BOOLEAN, hitTimeout : BOOLEAN, calls : {run'.calls},
              toolLog : {run'.toolLog}]
        /\ run'.rounds = run.rounds /\ run'.halting = run.halting
    BY <2>2, TypesAre DEF RunOK
  <2> QED
    BY <2>3, <2>4 DEF RunOK
<1>7. run.rounds <= MaxRounds
  BY <1>1, TypesAre, ConstantsAre DEF TurnInv
<1> QED
  BY <1>1, <1>5, <1>6, <1>7, TypesAre, ConstantsAre, AskingStep
  DEF Asking, sessionVars, endVars

LEMMA CallEndsStep == ASSUME TurnInv, CallEnds PROVE TurnInv'
<1>1. /\ pc = "tools" /\ pc' = "tools"
      /\ UNCHANGED <<bootVars, conversation, turn, input, signalled, tried, before, endVars>>
  BY DEF CallEnds
<1>2. PICK i \in DOMAIN run.calls, kind \in Kinds \cup {"data", "fault"} :
        /\ schedule' = IF run.calls[i].name = Proposer /\ kind = "data"
                         THEN [turn |-> turn, by |-> tried] ELSE schedule
        /\ attempt' = Append(attempt, Message("tool", kind))
        /\ run' = [run EXCEPT
               !.toolLog = Noted(@, run.calls[i].name, kind),
               !.calls[i].state = IF run.rounds < MaxRounds THEN "done" ELSE "final",
               !.hitRoundCap = @ \/ run.rounds >= MaxRounds]
  BY DEF CallEnds
<1>3. attempt' \in Seq(Messages) /\ Continues(attempt')
  <2>1. /\ kind \in KindsOf["tool"] /\ turn \in Nat /\ tried \in Nat
        /\ attempt \in Seq(Messages) /\ conversation \in Seq(Messages) /\ Continues(attempt)
    BY <1>1, TypesAre, RolesAre, ConstantsAre DEF TurnInv
  <2> QED
    BY <1>2, <2>1, AddOne
<1>4. RunOK(run') /\ run'.rounds = run.rounds /\ run'.halting = run.halting
  <2>1. PICK st, l, h : /\ st = IF run.rounds < MaxRounds THEN "done" ELSE "final"
                        /\ l = Noted(run.toolLog, run.calls[i].name, kind)
                        /\ h = (run.hitRoundCap \/ run.rounds >= MaxRounds)
    OBVIOUS
  <2>2. PICK c : c = [run.calls EXCEPT ![i].state = st]
    OBVIOUS
  <2>3. run' = [run EXCEPT !.toolLog = l, !.calls = c, !.hitRoundCap = h]
    BY <1>2, <2>1, <2>2
  <2>4. \A j \in DOMAIN c : c[j] \in [name : {c[j].name}, state : CallStates]
    BY <1>2, <2>1, <2>2, TypesAre DEF RunOK, CallStates
  <2>5. h \in BOOLEAN
    BY <2>1
  <2>6. /\ run'.calls = c
        /\ run' \in [halting : BOOLEAN, rounds : 0 .. MaxRounds + 1, toolCalls : {run'.toolCalls},
              hitRoundCap : BOOLEAN, hitTimeout : BOOLEAN, calls : {run'.calls},
              toolLog : {run'.toolLog}]
        /\ run'.rounds = run.rounds /\ run'.halting = run.halting
    BY <2>3, <2>5, TypesAre DEF RunOK
  <2> QED
    BY <2>4, <2>6 DEF RunOK
<1>5. schedule' \in {schedule, Ours}
  BY <1>2 DEF Ours
<1>6. run.rounds > MaxRounds => run.halting
  BY <1>1 DEF TurnInv
<1> QED
  BY <1>1, <1>3, <1>4, <1>5, <1>6, TypesAre, AskingStep DEF Asking, endVars

LEMMA BatchEndsStep == ASSUME TurnInv, BatchEnds PROVE TurnInv'
<1>1. /\ pc = "tools" /\ ~run.halting /\ Continues(attempt)
      /\ UNCHANGED <<bootVars, sessionVars, turn, input, signalled, tried, attempt, before, endVars>>
  BY DEF BatchEnds, TurnInv
<1>2. run.rounds <= MaxRounds
  BY <1>1, TypesAre, ConstantsAre DEF TurnInv
<1>3. CASE pc' = "judge" /\ run' = run
  BY <1>1, <1>3, TypesAre, AskingStep DEF Asking, sessionVars, endVars
<1>4. CASE pc' = "ask" /\ run' = [run EXCEPT !.calls = <<>>]
  <2>1. /\ run'.calls = <<>> /\ run'.rounds = run.rounds
        /\ run' \in [halting : BOOLEAN, rounds : 0 .. MaxRounds + 1, toolCalls : {run'.toolCalls},
              hitRoundCap : BOOLEAN, hitTimeout : BOOLEAN, calls : {run'.calls},
              toolLog : {run'.toolLog}]
    BY <1>4, TypesAre DEF RunOK
  <2>2. RunOK(run')
    BY <2>1 DEF RunOK
  <2> QED
    BY <1>1, <1>2, <1>4, <2>1, <2>2, TypesAre, ConstantsAre, AskingStep
    DEF Asking, sessionVars, endVars
<1> QED
  BY <1>3, <1>4 DEF BatchEnds

LEMMA DeadlineStep == ASSUME TurnInv, Deadline PROVE TurnInv'
<1>1. /\ pc \in {"ask", "model", "tools"} /\ pc' = pc
      /\ run' = [run EXCEPT !.hitTimeout = TRUE, !.halting = TRUE]
      /\ UNCHANGED <<bootVars, sessionVars, turn, input, signalled, tried, attempt, before, endVars>>
  BY DEF Deadline, Prompting
<1>2. /\ run'.rounds = run.rounds /\ run'.halting /\ run'.calls = run.calls
      /\ run' \in [halting : BOOLEAN, rounds : 0 .. MaxRounds + 1, toolCalls : {run'.toolCalls},
              hitRoundCap : BOOLEAN, hitTimeout : BOOLEAN, calls : {run'.calls},
              toolLog : {run'.toolLog}]
  BY <1>1, TypesAre DEF RunOK
<1>3. RunOK(run')
  BY <1>2, TypesAre DEF RunOK
<1> QED
  BY <1>1, <1>2, <1>3, TypesAre, AskingStep
  DEF Asking, TurnInv, Hooked, sessionVars, endVars

\* A step that changes nothing of the conversation and offers nothing.
LEMMA StopStep == ASSUME TurnInv, Stop PROVE TurnInv'
<1>1. /\ pc \in {"next", "open", "ask", "model", "tools", "thrown"} /\ pc' = pc
      /\ signalled' = TRUE
      /\ run' = [run EXCEPT !.halting = @ \/ Prompting]
      /\ UNCHANGED <<bootVars, sessionVars, turn, input, tried, attempt, before, reply, endVars>>
  BY DEF Stop, TurnInv, TypeOK
<1>2. PICK h : h = (run.halting \/ Prompting)
  OBVIOUS
<1>3. h \in BOOLEAN /\ run' = [run EXCEPT !.halting = h]
  BY <1>1, <1>2
<1>4. /\ run'.rounds = run.rounds /\ run'.halting = h /\ run'.calls = run.calls
      /\ run' \in [halting : BOOLEAN, rounds : 0 .. MaxRounds + 1, toolCalls : {run'.toolCalls},
              hitRoundCap : BOOLEAN, hitTimeout : BOOLEAN, calls : {run'.calls},
              toolLog : {run'.toolLog}]
  BY <1>3, TypesAre DEF RunOK
<1>5. RunOK(run')
  BY <1>4, TypesAre DEF RunOK
<1>6. CASE pc \in {"ask", "model", "tools"}
  BY <1>1, <1>2, <1>4, <1>5, <1>6, TypesAre, AskingStep
  DEF Asking, TurnInv, Hooked, sessionVars, endVars
<1>7. CASE pc \in {"next", "open", "thrown"}
  <2>1. TypeOK' /\ RunOK(run)'
    BY <1>1, <1>5, TypesAre, TypesStay DEF Places, sessionVars, endVars
  <2>2. Traces(conversation, outcomes)'
    BY <1>1 DEF TurnInv, Traces, TracedOnce, sessionVars, endVars
  <2> QED
    BY <1>1, <1>7, <2>1, <2>2 DEF TurnInv, Offered, Ours, sessionVars, endVars
<1> QED
  BY <1>1, <1>6, <1>7

LEMMA BeginStep == ASSUME TurnInv, Begin PROVE TurnInv'
<1>1. /\ pc = "idle" /\ pc' = "next" /\ turn < Turns /\ turn' = turn + 1
      /\ input' \in KindsOf.user /\ tried' = 0 /\ signalled' = FALSE
      /\ UNCHANGED <<bootVars, sessionVars, attempt, before, run, reply, endVars>>
  BY RolesAre DEF Begin
<1>2. turn' \in 0 .. Turns /\ tried' \in 0 .. Len(Chain)
  <2>1. turn \in Nat /\ Turns \in Nat /\ Len(Chain) \in Nat
    BY TypesAre, ConstantsAre
  <2> QED
    BY <1>1, <2>1
<1>3. TypeOK' /\ RunOK(run)'
  BY <1>1, <1>2, TypesAre, TypesMove DEF Places, sessionVars, endVars
<1>4. Traces(conversation, outcomes)' /\ Offered(schedule, conversation)'
  BY <1>1 DEF TurnInv, Traces, TracedOnce, Offered, sessionVars, endVars
<1>5. Len(outcomes') = turn' - 1
  BY <1>1, TypesAre DEF TurnInv, endVars
<1> QED
  BY <1>1, <1>3, <1>4, <1>5 DEF TurnInv

\* A turn that ends without a commit.
LEMMA EndsStep ==
    ASSUME TurnInv, pc # "idle", NEW v \in Outcomes \ Committed, Over(v),
           UNCHANGED <<bootVars, conversation, turn, input, signalled, tried>>,
           Offered(schedule', conversation)
    PROVE  TurnInv'
<1>1. /\ outcomes' = Append(outcomes, v) /\ pc' = "idle" /\ attempt' = <<>> /\ run' = FreshRun
  BY DEF Over
<1>2. /\ outcomes' \in Seq(Outcomes) /\ Len(outcomes') = turn
  <2>1. Len(outcomes) = turn - 1 /\ turn \in Nat /\ outcomes \in Seq(Outcomes)
    BY TypesAre DEF TurnInv
  <2> QED
    BY <1>1, <2>1, OutcomeIs
<1>3. RunOK(run') /\ attempt' \in Seq(Messages)
  BY <1>1, FreshRunIs
<1>4. TypeOK' /\ RunOK(run)'
  BY <1>1, <1>2, <1>3, TypesAre, TypesStay DEF Places
<1>5. Traces(conversation, outcomes)'
  <2>1. Traces(conversation, Append(outcomes, v))
    BY TypesAre, TracesStay DEF TurnInv
  <2> QED
    BY <1>1, <2>1 DEF Traces, TracedOnce
<1>6. Offered(schedule, conversation)'
  BY DEF Offered
<1> QED
  BY <1>1, <1>2, <1>4, <1>5, <1>6 DEF TurnInv

LEMMA TryStep == ASSUME TurnInv, Try PROVE TurnInv'
<1>1. /\ pc = "next" /\ Offered(schedule, conversation)
      /\ UNCHANGED <<bootVars, sessionVars, turn, input, signalled, row>>
  BY DEF Try, TurnInv
<1>2. CASE Over("failed") /\ tried' = tried
  <2>1. "failed" \in Outcomes \ Committed
    BY DEF Outcomes, Committed
  <2> QED
    BY <1>1, <1>2, <2>1, EndsStep DEF sessionVars
<1>3. CASE /\ Usable # {} /\ tried' = Min(Usable) /\ attempt' = conversation
           /\ before' = schedule /\ run' = FreshRun /\ pc' = "open" /\ outcomes' = outcomes
  <2>1. Usable \subseteq 1 .. Len(Chain) /\ Usable \subseteq Nat
    BY ConstantsAre DEF Usable
  <2>2. tried' \in 0 .. Len(Chain)
    <3>1. Min(Usable) \in Usable
      BY <1>3, <2>1, LeastIs
    <3>2. tried' \in 1 .. Len(Chain) /\ Len(Chain) \in Nat
      BY <1>3, <2>1, <3>1, ConstantsAre
    <3> QED
      BY <3>2
  <2>3. RunOK(run') /\ attempt' \in Seq(Messages)
    BY <1>3, FreshRunIs, TypesAre
  <2>4. TypeOK' /\ RunOK(run)'
    <3>1. turn' \in 0 .. Turns /\ input' \in KindsOf.user
      BY <1>1 DEF TurnInv, TypeOK
    <3> QED
      BY <1>1, <1>3, <2>2, <2>3, <3>1, TypesAre, TypesMove DEF Places, sessionVars
  <2>5. Traces(conversation, outcomes)' /\ Offered(schedule, conversation)'
    BY <1>1, <1>3 DEF TurnInv, Traces, TracedOnce, Offered, sessionVars
  <2>6. Offered(before, conversation)' /\ Len(outcomes') = turn' - 1
    BY <1>1, <1>3 DEF TurnInv, Offered, sessionVars
  <2> QED
    BY <1>1, <1>3, <2>4, <2>5, <2>6, FreshRunIs DEF TurnInv, sessionVars
<1> QED
  BY <1>2, <1>3 DEF Try

LEMMA PromptStep == ASSUME TurnInv, Prompt PROVE TurnInv'
<1>1. /\ pc = "open" /\ attempt = conversation /\ run.rounds = 0
      /\ UNCHANGED <<bootVars, sessionVars, turn, input, signalled, tried, before, run, endVars>>
  BY DEF Prompt, TurnInv, attemptVars
<1>2. /\ Offered(schedule, conversation)' /\ Offered(before, conversation)'
      /\ Traces(conversation, outcomes)' /\ Len(outcomes') = turn' - 1
  BY <1>1 DEF TurnInv, Traces, TracedOnce, Offered, sessionVars, endVars
<1>3. CASE pc' = "thrown" /\ attempt' = attempt
  <2>1. TypeOK' /\ RunOK(run)'
    BY <1>1, <1>3, TypesAre, TypesStay DEF Places, sessionVars, endVars
  <2> QED
    BY <1>2, <1>3, <2>1 DEF TurnInv
<1>4. CASE pc' = "ask" /\ attempt' = Append(attempt, Message("user", input))
  <2>1. PICK m : m = Message("user", input)
    OBVIOUS
  <2>2. m \in Messages /\ m.turn = turn /\ m.by = tried /\ m.role = "user"
    <3>1. input \in KindsOf["user"]
      BY RolesAre DEF TurnInv, TypeOK
    <3> QED
      BY <2>1, <3>1, TypesAre, MessageIs, RolesAre
  <2>3. attempt' = Append(conversation, m) /\ conversation \in Seq(Messages)
    BY <1>1, <1>4, <2>1, TypesAre
  <2>4. PICK k : k = Len(conversation)
    OBVIOUS
  <2>5. /\ attempt' \in Seq(Messages) /\ k \in Nat /\ Len(attempt') = k + 1
        /\ attempt'[k + 1] = m
        /\ \A i \in DOMAIN conversation : attempt'[i] = conversation[i]
    BY <2>2, <2>3, <2>4
  <2>6. Continues(attempt')
    <3>1. \A i \in k + 1 .. Len(attempt') : i = k + 1
      BY <2>5
    <3> QED
      BY <2>2, <2>4, <2>5, <3>1 DEF Continues
  <2>7. Continues(attempt)'
    BY <1>1, <2>6 DEF Continues, sessionVars
  <2>8. TypeOK' /\ RunOK(run)'
    BY <1>1, <1>4, <2>5, TypesAre, TypesStay DEF Places, sessionVars, endVars
  <2>9. run'.rounds <= MaxRounds /\ (run'.rounds > MaxRounds => run'.halting)
    BY <1>1, ConstantsAre
  <2> QED
    BY <1>2, <1>4, <2>7, <2>8, <2>9 DEF TurnInv
<1> QED
  BY <1>3, <1>4 DEF Prompt

LEMMA CommitStep == ASSUME TurnInv, Commit PROVE TurnInv'
<1>1. /\ pc = "judge" /\ Continues(attempt) /\ conversation' = attempt
      /\ UNCHANGED <<bootVars, schedule, turn, input, signalled, tried>>
      /\ outcomes' = Append(outcomes, Verdict) /\ pc' = "idle" /\ attempt' = <<>>
      /\ run' = FreshRun
  BY DEF Commit, TurnInv, Over
<1>2. Verdict \in Committed
  BY DEF Commit, Verdict, Committed
<1>3. outcomes' \in Seq(Outcomes) /\ Len(outcomes') = turn
  <2>1. Len(outcomes) = turn - 1 /\ turn \in Nat /\ outcomes \in Seq(Outcomes)
    BY <1>1, TypesAre DEF TurnInv
  <2>2. Verdict \in Outcomes
    BY <1>2 DEF Outcomes
  <2> QED
    BY <1>1, <2>1, <2>2, OutcomeIs
<1>4. TypeOK' /\ RunOK(run)'
  <2>1. RunOK(run') /\ attempt' \in Seq(Messages) /\ conversation' \in Seq(Messages)
    BY <1>1, FreshRunIs, TypesAre
  <2> QED
    BY <1>1, <1>3, <2>1, TypesAre, TypesStay DEF Places
<1>5. Traces(conversation, outcomes)'
  <2>1. Len(outcomes) = turn - 1 /\ Traces(conversation, outcomes)
    BY <1>1 DEF TurnInv
  <2>2. Traces(attempt, Append(outcomes, Verdict))
    BY <1>1, <1>2, <2>1, TypesAre, TracesGrow
  <2> QED
    BY <1>1, <2>2 DEF Traces, TracedOnce
<1>6. Offered(schedule, conversation)'
  <2>1. Offered(schedule, attempt)
    BY <1>1, TypesAre, OfferedStays DEF TurnInv
  <2> QED
    BY <1>1, <2>1 DEF Offered
<1> QED
  BY <1>1, <1>3, <1>4, <1>5, <1>6 DEF TurnInv

LEMMA DiscardStep == ASSUME TurnInv, Discard PROVE TurnInv'
<1>1. Verdict \in Outcomes \ Committed
  BY DEF Discard, Outcomes, Committed
<1>2. /\ pc = "judge" /\ Over(Verdict) /\ Offered(schedule', conversation)
      /\ UNCHANGED <<bootVars, conversation, turn, input, signalled, tried>>
  BY DEF Discard, TurnInv
<1> QED
  BY <1>1, <1>2, EndsStep

LEMMA ThrowsStep == ASSUME TurnInv, Throws PROVE TurnInv'
<1>1. /\ pc = "judge" /\ pc' = "thrown"
      /\ UNCHANGED <<bootVars, sessionVars, turn, input, signalled, attemptVars, endVars>>
  BY DEF Throws
<1>2. TypeOK' /\ RunOK(run)'
  BY <1>1, TypesAre, TypesStay DEF Places, sessionVars, attemptVars, endVars
<1>3. Traces(conversation, outcomes)' /\ Len(outcomes') = turn' - 1
  BY <1>1 DEF TurnInv, Traces, TracedOnce, sessionVars, endVars
<1>4. Offered(before, conversation)' /\ (Offered(schedule, conversation) \/ schedule = Ours)'
  BY <1>1 DEF TurnInv, Offered, Ours, sessionVars, attemptVars
<1> QED
  BY <1>1, <1>2, <1>3, <1>4 DEF TurnInv

LEMMA ThrownStep == ASSUME TurnInv, Thrown PROVE TurnInv'
<1>1. /\ pc = "thrown" /\ schedule' = before /\ Offered(before, conversation)
      /\ UNCHANGED <<bootVars, conversation, turn, input, signalled, tried, row>>
  BY DEF Thrown, TurnInv
<1>2. CASE Over("failed")
  <2>1. "failed" \in Outcomes \ Committed
    BY DEF Outcomes, Committed
  <2>2. Offered(schedule', conversation)
    BY <1>1
  <2> QED
    BY <1>1, <1>2, <2>1, <2>2, EndsStep
<1>3. CASE pc' = "next" /\ UNCHANGED <<outcomes, attempt, before, run, reply>>
  <2>1. TypeOK' /\ RunOK(run)'
    BY <1>1, <1>3, TypesAre, TypesStay DEF Places
  <2>2. Traces(conversation, outcomes)' /\ Len(outcomes') = turn' - 1
    BY <1>1, <1>3 DEF TurnInv, Traces, TracedOnce
  <2>3. Offered(schedule, conversation)'
    BY <1>1 DEF Offered
  <2> QED
    BY <1>3, <2>1, <2>2, <2>3 DEF TurnInv
<1> QED
  BY <1>2, <1>3 DEF Thrown

LEMMA IdleStep == ASSUME TurnInv, UNCHANGED vars PROVE TurnInv'
<1>1. UNCHANGED <<service, policy, connected, bridge, conversation, schedule, turn, input, pc,
                  signalled, tried, attempt, before, run, reply, outcomes, row>>
  BY DEF vars, bootVars, sessionVars, attemptVars, endVars
<1>2. TypeOK' /\ RunOK(run)'
  BY <1>1, TypesAre, TypesStay DEF TurnInv, TypeOK, bootVars, Places
<1>3. Traces(conversation, outcomes)' /\ Offered(schedule, conversation)' = Offered(schedule, conversation)
      /\ Offered(before, conversation)' = Offered(before, conversation) /\ Ours' = Ours
  BY <1>1 DEF TurnInv, Traces, TracedOnce, Offered, Ours
<1>4. Continues(attempt)' = Continues(attempt) /\ (Hooked /\ Refuses(attempt))' = (Hooked /\ Refuses(attempt))
  BY <1>1 DEF Continues, Hooked, Refuses, Fitting, SizeAt
<1> QED
  BY <1>1, <1>2, <1>3, <1>4 DEF TurnInv

LEMMA TurnInvStep == TurnInv /\ [Next]_vars => TurnInv'
<1> SUFFICES ASSUME TurnInv, [Next]_vars
             PROVE  TurnInv'
  OBVIOUS
<1>1. CASE Boots
  BY <1>1, BootStep DEF Boots
<1>2. CASE Begin
  BY <1>2, BeginStep
<1>3. CASE Runs
  BY <1>3, TryStep, PromptStep, RequestStep, CallEndsStep, BatchEndsStep, SaysStep,
     CommitStep, DiscardStep, ThrowsStep, ThrownStep DEF Runs
<1>4. CASE Calls \/ Says \/ Deadline \/ Stop
  BY <1>4, CallsStep, SaysStep, DeadlineStep, StopStep
<1>5. CASE UNCHANGED vars
  BY <1>5, IdleStep
<1> QED
  BY <1>1, <1>2, <1>3, <1>4, <1>5 DEF Next

-----------------------------------------------------------------------------
(* The theorems *)

\* Whatever the providers, tools and advisors do, a session's turns keep TurnInv.
THEOREM TurnInvariance == Spec => []TurnInv
<1>1. Init => TurnInv
  BY InitTurn
<1>2. TurnInv /\ [Next]_vars => TurnInv'
  BY TurnInvStep
<1> QED
  BY <1>1, <1>2, PTL DEF Spec

\* The state of a turn has its type; in particular an attempt makes at most one
\* request more than ADVISOR_MAX_ROUNDS.
THEOREM TurnTyping == Spec => []TypeOK
<1>1. TurnInv => TypeOK
  BY DEF TurnInv
<1> QED
  BY <1>1, TurnInvariance, PTL

\* Between turns the conversation holds each turn that was answered once, as one
\* provider had it, and the schedule on offer is from an attempt it holds:
\* whatever failed, was stopped or was malformed left nothing.
THEOREM OneTrace == Spec => []OneTracePerTurn
<1>1. ASSUME TurnInv
      PROVE  OneTracePerTurn
  <2> SUFFICES ASSUME pc = "idle"
               PROVE  /\ {m.turn : m \in ToSet(conversation)} =
                           {t \in DOMAIN outcomes : outcomes[t] \in Committed}
                      /\ \A t \in DOMAIN outcomes : outcomes[t] \in Committed =>
                           TracedOnce(t, conversation)
                      /\ Offered(schedule, conversation)
    BY DEF OneTracePerTurn
  <2>1. Traces(conversation, outcomes) /\ Offered(schedule, conversation)
    BY <1>1 DEF TurnInv
  <2>2. \A t \in DOMAIN outcomes : outcomes[t] \in Committed => TracedOnce(t, conversation)
    BY <2>1 DEF Traces
  <2>3. ToSet(conversation) = {conversation[i] : i \in DOMAIN conversation}
    BY DEF ToSet
  <2>4. \A t \in DOMAIN outcomes : outcomes[t] \in Committed =>
          \E i \in DOMAIN conversation : conversation[i].turn = t
    BY <2>2 DEF TracedOnce
  <2>5. {m.turn : m \in ToSet(conversation)} =
          {t \in DOMAIN outcomes : outcomes[t] \in Committed}
    BY <2>1, <2>3, <2>4 DEF Traces
  <2> QED
    BY <2>1, <2>2, <2>5
<1> QED
  BY <1>1, TurnInvariance, PTL

-----------------------------------------------------------------------------
(* The budget of a request *)

LEMMA ShiftedCount ==
    ASSUME NEW S, NEW T, NEW d \in Nat, S \subseteq Nat, T \subseteq Nat, IsFiniteSet(S),
           \A i \in S : i > d /\ i - d \in T, \A j \in T : j + d \in S
    PROVE  Cardinality(T) = Cardinality(S)
<1>1. PICK f : f = [i \in S |-> i - d]
  OBVIOUS
<1>2. f \in [S -> T] /\ \A i \in S : f[i] = i - d
  BY <1>1
<1>3. \A i, j \in S : f[i] = f[j] => i = j
  BY <1>2
<1>4. \A j \in T : \E i \in S : f[i] = j
  <2>1. ASSUME NEW j \in T
        PROVE  f[j + d] = j
    BY <1>2, <2>1
  <2> QED
    BY <2>1
<1>5. f \in Bijection(S, T)
  BY <1>2, <1>3, <1>4 DEF Bijection, Injection, Surjection, IsInjective
<1> QED
  BY <1>5, FS_Bijection DEF ExistsBijection

\* A message of the conversation keeps its kind with its role.
LEMMA KindIsOfRole ==
    ASSUME NEW m \in Messages
    PROVE  /\ m.kind # "trimmed" /\ Marked(m).kind = "trimmed"
           /\ m.kind = "data" => m.role = "tool"
           /\ m.kind = "essay" => m.role # "tool"
<1>1. m \in [role : DOMAIN KindsOf, turn : Nat, by : Nat, kind : MessageKinds]
      /\ m.kind \in KindsOf[m.role] /\ m.role \in {"user", "assistant", "tool"}
  BY RolesAre DEF Messages
<1>2. Marked(m).kind = "trimmed"
  BY <1>1 DEF Marked
<1>3. m.role = "user" => m.kind \in {"question", "essay"}
  BY <1>1, RolesAre
<1>4. m.role = "assistant" => m.kind \in {"calls", "answer", "prose", "blank"}
  BY <1>1, RolesAre
<1>5. m.role = "tool" => m.kind \in {"data", "none", "narrow", "fault"}
  BY <1>1, RolesAre
<1> QED
  BY <1>1, <1>2, <1>3, <1>4, <1>5

\* The first loop's result after n of the messages.
Trimmed(ms, n) ==
    [i \in DOMAIN ms |-> IF i <= n /\ ms[i].role = "tool" THEN Marked(ms[i]) ELSE ms[i]]

LEMMA TrimmedIs ==
    ASSUME NEW ms \in Seq(Messages), NEW n \in Nat
    PROVE  /\ DOMAIN Trimmed(ms, n) = 1 .. Len(ms) /\ Len(Trimmed(ms, n)) = Len(ms)
           /\ \A i \in 1 .. Len(ms) :
                /\ Trimmed(ms, n)[i].kind = "data" <=> i > n /\ ms[i].kind = "data"
                /\ Trimmed(ms, n)[i].kind = "trimmed" <=> i <= n /\ ms[i].role = "tool"
                /\ Trimmed(ms, n)[i].kind = "essay" <=> ms[i].kind = "essay"
                /\ Trimmed(ms, n)[i] \in {ms[i], Marked(ms[i])}
<1>1. PICK t : t = Trimmed(ms, n)
  OBVIOUS
<1>2. DOMAIN ms = 1 .. Len(ms) /\ Len(ms) \in Nat
  OBVIOUS
<1>3. /\ DOMAIN t = 1 .. Len(ms)
      /\ \A i \in 1 .. Len(ms) :
           t[i] = IF i <= n /\ ms[i].role = "tool" THEN Marked(ms[i]) ELSE ms[i]
  BY <1>1, <1>2 DEF Trimmed
<1>4. Len(t) = Len(ms)
  BY <1>1, <1>2 DEF Trimmed
<1>5. ASSUME NEW i \in 1 .. Len(ms)
      PROVE  /\ t[i].kind = "data" <=> i > n /\ ms[i].kind = "data"
             /\ t[i].kind = "trimmed" <=> i <= n /\ ms[i].role = "tool"
             /\ t[i].kind = "essay" <=> ms[i].kind = "essay"
             /\ t[i] \in {ms[i], Marked(ms[i])}
  <2>1. ms[i] \in Messages
    BY <1>5
  <2>2. /\ ms[i].kind # "trimmed" /\ Marked(ms[i]).kind = "trimmed"
        /\ ms[i].kind = "data" => ms[i].role = "tool"
        /\ ms[i].kind = "essay" => ms[i].role # "tool"
    BY <2>1, KindIsOfRole
  <2>3. CASE i <= n /\ ms[i].role = "tool"
    BY <1>3, <2>2, <2>3
  <2>4. CASE ~(i <= n /\ ms[i].role = "tool")
    BY <1>3, <2>2, <2>4
  <2> QED
    BY <2>3, <2>4
<1> QED
  BY <1>1, <1>3, <1>4, <1>5

LEMMA TrimmedSeq ==
    ASSUME NEW ms \in Seq(Messages), NEW n \in Nat
    PROVE  Trimmed(ms, n) \in Seq(Messages \cup {Marked(m) : m \in Messages})
<1>1. PICK M : M = Messages \cup {Marked(m) : m \in Messages}
  OBVIOUS
<1>2. \A i \in 1 .. Len(ms) : ms[i] \in Messages
  OBVIOUS
<1>3. \A i \in 1 .. Len(ms) :
        (IF i <= n /\ ms[i].role = "tool" THEN Marked(ms[i]) ELSE ms[i]) \in M
  BY <1>1, <1>2
<1> QED
  BY <1>1, <1>3 DEF Trimmed

\* SizeAt is the size of what the step leaves: in the first loop,
LEMMA FirstLoopSize ==
    ASSUME NEW ms \in Seq(Messages), NEW n \in Nat, n <= Len(ms)
    PROVE  Size(Shrunk(ms, n)) = SizeAt(ms, n)
<1>1. PICK t, k : t = Trimmed(ms, n) /\ k = Len(ms)
  OBVIOUS
<1>2. /\ DOMAIN t = 1 .. k /\ Len(t) = k /\ k \in Nat /\ DOMAIN ms = 1 .. k
      /\ \A i \in 1 .. k : /\ t[i].kind = "data" <=> i > n /\ ms[i].kind = "data"
                           /\ t[i].kind = "trimmed" <=> i <= n /\ ms[i].role = "tool"
                           /\ t[i].kind = "essay" <=> ms[i].kind = "essay"
  BY <1>1, TrimmedIs
<1>3. {i \in DOMAIN t : t[i].kind = "data"} = {i \in n + 1 .. k : ms[i].kind = "data"}
  BY <1>2
<1>4. {i \in DOMAIN t : t[i].kind = "trimmed"} = {i \in 1 .. n : ms[i].role = "tool"}
  BY <1>1, <1>2
<1>5. {i \in DOMAIN t : t[i].kind = "essay"} = {i \in DOMAIN ms : ms[i].kind = "essay"}
  BY <1>2
<1>6. Shrunk(ms, n) = t
  BY <1>1 DEF Shrunk, Trimmed
<1>7. PICK data, tools, essays :
        /\ data = Cardinality({i \in n + 1 .. k : ms[i].kind = "data"})
        /\ tools = Cardinality({i \in 1 .. n : ms[i].role = "tool"})
        /\ essays = Cardinality({i \in DOMAIN ms : ms[i].kind = "essay"})
  OBVIOUS
<1>8. Size(t) = 1 + k + 3 * data + tools + Budget * essays
  BY <1>2, <1>3, <1>4, <1>5, <1>7, Zenon DEF Size
<1>9. SizeAt(ms, n) = 1 + k + tools + Budget * essays + 3 * data
  BY <1>1, <1>7 DEF SizeAt
<1>10. data \in Nat /\ tools \in Nat /\ essays \in Nat
  <2>1. IsFiniteSet(n + 1 .. k) /\ IsFiniteSet(1 .. n) /\ IsFiniteSet(1 .. k)
    <3>1. 1 \in Int /\ n \in Int /\ n + 1 \in Int /\ k \in Int
      BY <1>2
    <3> QED
      BY <3>1, FS_Interval
  <2> QED
    BY <1>2, <1>7, <2>1, FS_Subset, FS_CardinalityType
<1>11. Budget * essays \in Nat
  BY <1>10, ConstantsAre
<1> QED
  BY <1>2, <1>6, <1>8, <1>9, <1>10, <1>11

\* and in the second.
LEMMA SecondLoopSize ==
    ASSUME NEW ms \in Seq(Messages), NEW n \in Nat, n > Len(ms), n <= 2 * Len(ms) - 1
    PROVE  /\ Size(Shrunk(ms, n)) = SizeAt(ms, n)
           /\ Shrunk(ms, n) = SubSeq(Trimmed(ms, n), n - Len(ms) + 1, Len(ms))
<1>1. PICK t, k, d : t = Trimmed(ms, n) /\ k = Len(ms) /\ d = n - Len(ms)
  OBVIOUS
<1>2. /\ DOMAIN t = 1 .. k /\ Len(t) = k /\ k \in Nat /\ DOMAIN ms = 1 .. k
      /\ \A i \in 1 .. k : /\ t[i].kind = "data" <=> i > n /\ ms[i].kind = "data"
                           /\ t[i].kind = "trimmed" <=> i <= n /\ ms[i].role = "tool"
                           /\ t[i].kind = "essay" <=> ms[i].kind = "essay"
  BY <1>1, TrimmedIs
<1>3. d \in Nat /\ d >= 1 /\ d <= k - 1 /\ n > k
  BY <1>1, <1>2
<1>4. PICK s : s = SubSeq(t, d + 1, k)
  OBVIOUS
<1>5. Shrunk(ms, n) = s
  BY <1>1, <1>2, <1>3, <1>4 DEF Shrunk, Trimmed
<1>6. /\ DOMAIN s = 1 .. k - d /\ Len(s) = k - d
      /\ \A j \in 1 .. k - d : s[j] = t[j + d] /\ j + d \in 1 .. k
  <2>1. t \in Seq(Messages \cup {Marked(m) : m \in Messages})
    BY <1>1, TrimmedSeq
  <2> QED
    BY <1>2, <1>3, <1>4, <2>1
<1>7. PICK left : left = d + 1 .. k
  OBVIOUS
<1>8. IsFiniteSet(left) /\ Cardinality(left) = k - d
  BY <1>2, <1>3, <1>7, FS_Interval
<1>9. {j \in DOMAIN s : s[j].kind = "data"} = {}
  BY <1>2, <1>3, <1>6
<1>10. Cardinality({j \in DOMAIN s : s[j].kind = "trimmed"}) =
         Cardinality({i \in left : ms[i].role = "tool"})
  <2>1. PICK S, T : S = {i \in left : ms[i].role = "tool"}
                    /\ T = {j \in DOMAIN s : s[j].kind = "trimmed"}
    OBVIOUS
  <2>2. IsFiniteSet(S)
    BY <1>8, <2>1, FS_Subset
  <2>3. S \subseteq Nat /\ T \subseteq Nat
    BY <1>2, <1>3, <1>6, <1>7, <2>1
  <2>4. \A i \in S : i > d /\ i - d \in T
    BY <1>2, <1>3, <1>6, <1>7, <2>1
  <2>5. \A j \in T : j + d \in S
    BY <1>2, <1>3, <1>6, <1>7, <2>1
  <2> QED
    BY <1>3, <2>1, <2>2, <2>3, <2>4, <2>5, ShiftedCount
<1>11. Cardinality({j \in DOMAIN s : s[j].kind = "essay"}) =
         Cardinality({i \in left : ms[i].kind = "essay"})
  <2>1. PICK S, T : S = {i \in left : ms[i].kind = "essay"}
                    /\ T = {j \in DOMAIN s : s[j].kind = "essay"}
    OBVIOUS
  <2>2. IsFiniteSet(S)
    BY <1>8, <2>1, FS_Subset
  <2>3. S \subseteq Nat /\ T \subseteq Nat
    BY <1>2, <1>3, <1>6, <1>7, <2>1
  <2>4. \A i \in S : i > d /\ i - d \in T
    BY <1>2, <1>3, <1>6, <1>7, <2>1
  <2>5. \A j \in T : j + d \in S
    BY <1>2, <1>3, <1>6, <1>7, <2>1
  <2> QED
    BY <1>3, <2>1, <2>2, <2>3, <2>4, <2>5, ShiftedCount
<1>12. PICK tools, essays : /\ tools = Cardinality({i \in left : ms[i].role = "tool"})
                            /\ essays = Cardinality({i \in left : ms[i].kind = "essay"})
  OBVIOUS
<1>13. Size(s) = 1 + (k - d) + 3 * 0 + tools + Budget * essays
  <2>1. Cardinality({}) = 0
    BY FS_EmptySet
  <2> QED
    BY <1>6, <1>9, <1>10, <1>11, <1>12, <2>1, Zenon DEF Size
<1>14. SizeAt(ms, n) = 1 + Cardinality(left) + tools + Budget * essays
  BY <1>1, <1>2, <1>3, <1>7, <1>12 DEF SizeAt
<1>15. Size(s) = SizeAt(ms, n)
  <2>1. tools \in Nat /\ essays \in Nat
    BY <1>8, <1>12, FS_Subset, FS_CardinalityType
  <2>2. Budget * essays \in Nat
    BY <2>1, ConstantsAre
  <2> QED
    BY <1>2, <1>3, <1>8, <1>13, <1>14, <2>1, <2>2
<1> QED
  BY <1>1, <1>4, <1>5, <1>15

\* The newest message is sent, or its marker.
LEMMA NewestIsSent ==
    ASSUME NEW ms \in Seq(Messages), ms # <<>>, NEW n \in 0 .. 2 * Len(ms) - 1
    PROVE  Last(Shrunk(ms, n)) \in {Last(ms), Marked(Last(ms))}
<1>1. PICK t, k : t = Trimmed(ms, n) /\ k = Len(ms)
  OBVIOUS
<1>2. /\ k \in Nat /\ k >= 1 /\ n \in Nat /\ n <= 2 * k - 1
      /\ DOMAIN t = 1 .. k /\ Len(t) = k /\ t[k] \in {ms[k], Marked(ms[k])}
  BY <1>1, TrimmedIs
<1>3. CASE n <= k
  <2>1. Shrunk(ms, n) = t
    BY <1>1, <1>3 DEF Shrunk, Trimmed
  <2> QED
    BY <1>1, <1>2, <2>1 DEF Last
<1>4. CASE n > k
  <2>1. Shrunk(ms, n) = SubSeq(t, n - k + 1, k)
    BY <1>1, <1>2, <1>4, SecondLoopSize
  <2>2. PICK s : s = SubSeq(t, n - k + 1, k)
    OBVIOUS
  <2>3. t \in Seq(Messages \cup {Marked(m) : m \in Messages})
    BY <1>1, <1>2, TrimmedSeq
  <2>4. Len(s) = 2 * k - n /\ s[2 * k - n] = t[k]
    BY <1>2, <1>4, <2>2, <2>3
  <2> QED
    BY <1>1, <1>2, <2>1, <2>2, <2>4 DEF Last
<1> QED
  BY <1>2, <1>3, <1>4

\* A payload that is not refused fits, and has the newest message.
LEMMA PayloadFits ==
    ASSUME NEW ms \in Seq(Messages), ms # <<>>, ~Refuses(ms)
    PROVE  /\ Size(EnforceContextBudget(ms)) <= Budget
           /\ Last(EnforceContextBudget(ms)) \in {Last(ms), Marked(Last(ms))}
<1>1. Fitting(ms) # {} /\ Fitting(ms) \subseteq Nat
  BY DEF Refuses, Fitting
<1>2. PICK n : n = Min(Fitting(ms))
  OBVIOUS
<1>3. n \in Fitting(ms)
  BY <1>1, <1>2, LeastIs
<1>4. n \in 0 .. 2 * Len(ms) - 1 /\ SizeAt(ms, n) <= Budget /\ n \in Nat /\ Len(ms) \in Nat
  BY <1>3 DEF Fitting
<1>5. EnforceContextBudget(ms) = Shrunk(ms, n)
  BY <1>1, <1>2 DEF EnforceContextBudget
<1>6. Size(Shrunk(ms, n)) = SizeAt(ms, n)
  <2>1. CASE n <= Len(ms)
    BY <1>4, <2>1, FirstLoopSize
  <2>2. CASE n > Len(ms)
    BY <1>4, <2>2, SecondLoopSize
  <2> QED
    BY <1>4, <2>1, <2>2
<1> QED
  BY <1>4, <1>5, <1>6, NewestIsSent

\* What is sent to a chat-completions provider keeps within the budget and has the
\* newest message, whatever the tools brought and however long the question is.
THEOREM RequestsKeepTheBudget == Spec => []RequestsFit
<1>1. ASSUME TurnInv, pc = "model", Hooked
      PROVE  /\ Size(Payload) <= Budget
             /\ Last(Payload) \in {Last(attempt), Marked(Last(attempt))}
  <2>1. ~Refuses(attempt) /\ Continues(attempt) /\ attempt \in Seq(Messages)
    BY <1>1, TypesAre DEF TurnInv
  <2>2. attempt # <<>>
    BY <2>1, <1>1, TypesAre DEF Continues
  <2> QED
    BY <1>1, <2>1, <2>2, PayloadFits DEF Payload
<1>2. TurnInv => RequestsFit
  BY <1>1 DEF RequestsFit
<1> QED
  BY <1>2, TurnInvariance, PTL

-----------------------------------------------------------------------------
(* What a turn is told to be *)

BatchNames == UNION {ToSet(b) : b \in Batches}
LogEntries == [name : BatchNames, result : {"unset", "none", "narrow"}]
CallEntries == [name : BatchNames, state : CallStates]

\* Of a log of tool calls: those of a name without an outcome, those of an outcome.
Unset(log, name) == {i \in DOMAIN log : log[i].name = name /\ log[i].result = "unset"}
Told(log, kind) == {i \in DOMAIN log : log[i].result = kind}
\* Of the calls of a reply: those under way.
Running(calls) == {i \in DOMAIN calls : calls[i].state = "running"}
RunningOf(calls, name) == {i \in Running(calls) : calls[i].name = name}
\* Of the messages of an attempt: this turn's of a kind, and its tool results.
Got(ms, kind) == {i \in DOMAIN ms : ms[i].turn = turn /\ ms[i].kind = kind}
Results(ms) == {i \in DOMAIN ms : ms[i].role = "tool" /\ ms[i].turn = turn}

\* The log and the messages agree: each empty or cut result is noted once, a call
\* under way has an entry to be noted with, and an entry has a result or a call.
LogInv(log, calls, ms) ==
    /\ log \in Seq(LogEntries) /\ calls \in Seq(CallEntries)
    /\ \A kind \in {"none", "narrow"} :
         Cardinality(Told(log, kind)) = Cardinality(Got(ms, kind))
    /\ \A name \in BatchNames :
         Cardinality(RunningOf(calls, name)) <= Cardinality(Unset(log, name))
    /\ Len(log) <= Cardinality(Results(ms)) + Cardinality(Running(calls))

\* Past the last round the cap is noted; a reply that ended by itself is the last
\* message.
EndInv ==
    /\ run.rounds > MaxRounds => run.hitRoundCap
    /\ \A i \in DOMAIN run.calls : run.calls[i].state = "final" => run.hitRoundCap
    /\ pc \in {"ask", "model"} => run.calls = <<>>
    /\ pc = "tools" => run.calls # <<>>
    /\ pc = "judge" =>
         /\ reply.stop \in {"error", "stop", "length", "aborted", "toolUse"}
         /\ reply.stop = "toolUse" => run.hitRoundCap
         /\ reply.stop = "stop" =>
              /\ run.calls = <<>>
              /\ reply.text \in {"answer", "prose", "blank"}
              /\ Last(attempt).role = "assistant" /\ Last(attempt).kind = reply.text

ToldInv ==
    /\ run.toolCalls \in Nat
    /\ pc = "open" => run.calls = <<>> /\ run.toolLog = <<>>
    /\ pc \in Asking => LogInv(run.toolLog, run.calls, attempt) /\ EndInv

LEMMA CountsAre ==
    ASSUME NEW s, NEW k \in Nat, DOMAIN s = 1 .. k, NEW S, S \subseteq DOMAIN s
    PROVE  IsFiniteSet(S) /\ Cardinality(S) \in Nat /\ (Cardinality(S) = 0 <=> S = {})
<1>1. IsFiniteSet(1 .. k)
  <2>1. 1 \in Int /\ k \in Int
    OBVIOUS
  <2> QED
    BY <2>1, FS_Interval
<1>2. IsFiniteSet(S)
  BY <1>1, FS_Subset
<1> QED
  BY <1>2, FS_CardinalityType, FS_EmptySet

LEMMA OneMore ==
    ASSUME NEW S, IsFiniteSet(S), NEW x, x \notin S
    PROVE  IsFiniteSet(S \cup {x}) /\ Cardinality(S \cup {x}) = Cardinality(S) + 1
BY FS_AddElement

LEMMA OneLess ==
    ASSUME NEW S, IsFiniteSet(S), NEW x \in S
    PROVE  /\ IsFiniteSet(S \ {x}) /\ Cardinality(S) \in Nat \ {0}
           /\ Cardinality(S \ {x}) = Cardinality(S) - 1
<1>1. Cardinality(S) \in Nat /\ Cardinality(S) # 0
  BY FS_CardinalityType, FS_EmptySet
<1> QED
  BY <1>1, FS_RemoveElement

LEMMA FewerIn ==
    ASSUME NEW S, IsFiniteSet(S), NEW T, T \subseteq S
    PROVE  /\ IsFiniteSet(T) /\ Cardinality(T) \in Nat /\ Cardinality(S) \in Nat
           /\ Cardinality(T) <= Cardinality(S)
<1>1. IsFiniteSet(T) /\ Cardinality(T) <= Cardinality(S)
  BY FS_Subset
<1> QED
  BY <1>1, FS_CardinalityType

\* A finite set of numbers up to k has a greatest one.
LEMMA GreatestIs ==
    ASSUME NEW k \in Nat, NEW S, S \subseteq 1 .. k, S # {}
    PROVE  \E x \in S : \A y \in S : y <= x
<1>1. PICK D : D = {k - x : x \in S}
  OBVIOUS
<1>2. D \subseteq Nat /\ D # {}
  <2>1. \A x \in S : k - x \in Nat
    OBVIOUS
  <2>2. \E x : x \in S
    OBVIOUS
  <2> QED
    BY <1>1, <2>1, <2>2
<1>3. Min(D) \in D /\ \A d \in D : Min(D) <= d
  BY <1>2, LeastIs
<1>4. PICK x \in S : Min(D) = k - x
  BY <1>1, <1>3
<1>5. ASSUME NEW y \in S
      PROVE  y <= x
  <2>1. k - y \in D /\ x \in Nat /\ y \in Nat
    BY <1>1
  <2> QED
    BY <1>3, <1>4, <2>1
<1> QED
  BY <1>5

\* f lists the members of S, the least first.
Lists(f, S) ==
    f \in [1 .. Cardinality(S) -> S] /\ \A a, b \in DOMAIN f : a < b => f[a] < f[b]

\* Every set of places can be listed: the smallest that could not would have a
\* greatest member, and what is left without it could be.
LEMMA CanBeListed ==
    ASSUME NEW k \in Nat
    PROVE  \A S \in SUBSET (1 .. k) : \E f : Lists(f, S)
<1>1. PICK Bad : Bad = {n \in Nat : \E S \in SUBSET (1 .. k) :
                          Cardinality(S) = n /\ ~ \E f : Lists(f, S)}
  OBVIOUS
<1>2. ASSUME NEW S \in SUBSET (1 .. k)
      PROVE  IsFiniteSet(S) /\ Cardinality(S) \in Nat
  <2>1. PICK s : s = [i \in 1 .. k |-> i]
    OBVIOUS
  <2>2. DOMAIN s = 1 .. k /\ S \subseteq DOMAIN s
    BY <2>1
  <2> QED
    BY <2>2, CountsAre
<1>3. ASSUME Bad # {}
      PROVE  FALSE
  <2>1. Bad \subseteq Nat
    BY <1>1
  <2>2. Min(Bad) \in Bad /\ \A n \in Bad : Min(Bad) <= n
    BY <1>3, <2>1, LeastIs
  <2>3. PICK S \in SUBSET (1 .. k) : Cardinality(S) = Min(Bad) /\ ~ \E f : Lists(f, S)
    BY <1>1, <2>2
  <2>4. CASE S = {}
    <3>1. PICK f : f = [i \in {} |-> i]
      OBVIOUS
    <3>2. Cardinality(S) = 0
      BY <2>4, FS_EmptySet
    <3>3. f \in [1 .. Cardinality(S) -> S] /\ DOMAIN f = {}
      BY <2>4, <3>1, <3>2
    <3> QED
      BY <2>3, <3>3 DEF Lists
  <2>5. CASE S # {}
    <3>1. PICK x \in S : \A y \in S : y <= x
      BY <2>3, <2>5, GreatestIs
    <3>2. PICK R, n : R = S \ {x} /\ n = Cardinality(S)
      OBVIOUS
    <3>3. R \in SUBSET (1 .. k) /\ Cardinality(R) = n - 1 /\ n \in Nat \ {0}
      BY <1>2, <3>2, OneLess
    <3>4. Cardinality(R) \notin Bad
      BY <2>2, <2>3, <3>2, <3>3
    <3>5. PICK g : Lists(g, R)
      BY <1>1, <3>3, <3>4
    <3>6. /\ DOMAIN g = 1 .. n - 1
          /\ \A a \in 1 .. n - 1 : g[a] \in R
          /\ \A a, b \in 1 .. n - 1 : a < b => g[a] < g[b]
      BY <3>3, <3>5 DEF Lists
    <3>7. PICK f : f = [a \in 1 .. n |-> IF a = n THEN x ELSE g[a]]
      OBVIOUS
    <3>8. /\ f \in [1 .. n -> S] /\ DOMAIN f = 1 .. n /\ f[n] = x
          /\ \A a \in 1 .. n - 1 : f[a] = g[a] /\ f[a] \in R
      BY <3>2, <3>3, <3>6, <3>7
    <3>9. \A y \in R : y < x
      <4>1. \A y \in S : y \in Nat
        BY <2>3
      <4> QED
        BY <3>1, <3>2, <4>1
    <3>10. ASSUME NEW a \in 1 .. n, NEW b \in 1 .. n, a < b
           PROVE  f[a] < f[b]
      <4>1. a \in 1 .. n - 1
        BY <3>3, <3>10
      <4>2. CASE b = n
        BY <3>8, <3>9, <4>1, <4>2
      <4>3. CASE b \in 1 .. n - 1
        BY <3>6, <3>8, <3>10, <4>1, <4>3
      <4> QED
        BY <3>3, <4>2, <4>3
    <3> QED
      BY <2>3, <3>2, <3>8, <3>10 DEF Lists
  <2> QED
    BY <2>4, <2>5
<1> QED
  BY <1>1, <1>2, <1>3

LEMMA InOrderIs ==
    ASSUME NEW k \in Nat, NEW S, S \subseteq 1 .. k
    PROVE  /\ InOrder(S) \in [1 .. Cardinality(S) -> S] /\ DOMAIN InOrder(S) = 1 .. Cardinality(S)
           /\ IsFiniteSet(S) /\ Cardinality(S) \in Nat
           /\ \A i \in S : \E a \in 1 .. Cardinality(S) : InOrder(S)[a] = i
<1>1. IsFiniteSet(S) /\ Cardinality(S) \in Nat
  <2>1. PICK s : s = [i \in 1 .. k |-> i]
    OBVIOUS
  <2>2. DOMAIN s = 1 .. k /\ S \subseteq DOMAIN s
    BY <2>1
  <2> QED
    BY <2>2, CountsAre
<1>2. PICK f : f = InOrder(S)
  OBVIOUS
<1>3. Lists(f, S)
  <2>1. \E g : Lists(g, S)
    BY CanBeListed
  <2>2. \E g \in [1 .. Cardinality(S) -> S] : \A j, l \in DOMAIN g : j < l => g[j] < g[l]
    BY <2>1 DEF Lists
  <2> QED
    BY <1>2, <2>2 DEF InOrder, Lists
<1>4. f \in [1 .. Cardinality(S) -> S] /\ DOMAIN f = 1 .. Cardinality(S)
  BY <1>3 DEF Lists
<1>5. f \in Injection(1 .. Cardinality(S), S)
  <2>1. ASSUME NEW a \in 1 .. Cardinality(S), NEW b \in 1 .. Cardinality(S), f[a] = f[b]
        PROVE  a = b
    <3>1. ~(a < b) /\ ~(b < a)
      <4>1. f[a] \in Nat /\ f[b] \in Nat
        <5>1. f[a] \in S /\ f[b] \in S
          BY <1>4, <2>1
        <5>2. \A x \in S : x \in Nat
          OBVIOUS
        <5> QED
          BY <5>1, <5>2
      <4> QED
        BY <1>3, <1>4, <2>1, <4>1 DEF Lists
    <3> QED
      BY <1>1, <3>1
  <2> QED
    BY <1>4, <2>1 DEF Injection, IsInjective
<1>6. f \in Surjection(1 .. Cardinality(S), S)
  <2>1. Cardinality(1 .. Cardinality(S)) = Cardinality(S)
    <3>1. 1 \in Int /\ Cardinality(S) \in Int
      BY <1>1
    <3>2. Cardinality(1 .. Cardinality(S)) =
            IF 1 > Cardinality(S) THEN 0 ELSE Cardinality(S) - 1 + 1
      BY <3>1, FS_Interval
    <3> QED
      BY <1>1, <3>2
  <2> QED
    BY <1>1, <1>5, <2>1, FS_Injection
<1> QED
  BY <1>1, <1>2, <1>4, <1>6 DEF Surjection

-----------------------------------------------------------------------------
(* How a message and a call change the counts *)

LEMMA GotOne ==
    ASSUME NEW a \in Seq(Messages), NEW m \in Messages
    PROVE  /\ m.role = "tool" /\ m.turn = turn =>
                Cardinality(Results(Append(a, m))) = Cardinality(Results(a)) + 1
           /\ \A kind : Cardinality(Got(Append(a, m), kind)) =
                Cardinality(Got(a, kind)) + (IF m.turn = turn /\ m.kind = kind THEN 1 ELSE 0)
<1>1. PICK c, k : c = Append(a, m) /\ k = Len(a)
  OBVIOUS
<1>2. /\ k \in Nat /\ DOMAIN a = 1 .. k /\ DOMAIN c = 1 .. k + 1 /\ c[k + 1] = m
      /\ \A i \in 1 .. k : c[i] = a[i]
  BY <1>1
<1>3. DOMAIN c = DOMAIN a \cup {k + 1} /\ k + 1 \notin DOMAIN a
      /\ \A i \in DOMAIN a : c[i] = a[i]
  BY <1>2
<1>4. ASSUME m.role = "tool", m.turn = turn
      PROVE  Cardinality(Results(c)) = Cardinality(Results(a)) + 1
  <2>1. Results(c) = Results(a) \cup {k + 1}
    BY <1>2, <1>3, <1>4 DEF Results
  <2>2. k + 1 \notin Results(a) /\ IsFiniteSet(Results(a))
    BY <1>2, <1>3, CountsAre DEF Results
  <2> QED
    BY <2>1, <2>2, OneMore
<1>5. ASSUME NEW kind
      PROVE  Cardinality(Got(c, kind)) =
                Cardinality(Got(a, kind)) + (IF m.turn = turn /\ m.kind = kind THEN 1 ELSE 0)
  <2>1. k + 1 \notin Got(a, kind) /\ IsFiniteSet(Got(a, kind)) /\ Cardinality(Got(a, kind)) \in Nat
    BY <1>2, <1>3, CountsAre DEF Got
  <2>2. CASE m.turn = turn /\ m.kind = kind
    <3>1. Got(c, kind) = Got(a, kind) \cup {k + 1}
      BY <1>2, <1>3, <2>2 DEF Got
    <3> QED
      BY <2>1, <2>2, <3>1, OneMore
  <2>3. CASE ~(m.turn = turn /\ m.kind = kind)
    <3>1. Got(c, kind) = Got(a, kind)
      BY <1>2, <1>3, <2>3 DEF Got
    <3> QED
      BY <2>1, <2>3, <3>1
  <2> QED
    BY <2>2, <2>3
<1> QED
  BY <1>1, <1>4, <1>5

\* Messages of no such kind add none.
LEMMA GotMany ==
    ASSUME NEW a \in Seq(Messages), NEW b \in Seq(Messages)
    PROVE  /\ Cardinality(Results(a)) <= Cardinality(Results(a \o b))
           /\ Cardinality(Results(a)) \in Nat /\ Cardinality(Results(a \o b)) \in Nat
           /\ \A kind : (\A i \in DOMAIN b : b[i].kind # kind) => Got(a \o b, kind) = Got(a, kind)
<1>1. PICK c, k, n : c = a \o b /\ k = Len(a) /\ n = Len(b)
  OBVIOUS
<1>2. /\ k \in Nat /\ n \in Nat /\ DOMAIN a = 1 .. k /\ DOMAIN b = 1 .. n
      /\ DOMAIN c = 1 .. k + n /\ k + n \in Nat
      /\ \A i \in 1 .. k : c[i] = a[i]
      /\ \A i \in k + 1 .. k + n : i - k \in 1 .. n /\ c[i] = b[i - k]
  BY <1>1
<1>3. /\ 1 .. k \subseteq 1 .. k + n
      /\ \A i \in 1 .. k + n : i \in 1 .. k \/ i \in k + 1 .. k + n
  BY <1>2
<1>4. Results(a) \subseteq Results(c)
  BY <1>2, <1>3 DEF Results
<1>5. IsFiniteSet(Results(c))
  <2>1. Results(c) \subseteq DOMAIN c
    BY DEF Results
  <2> QED
    BY <1>2, <2>1, CountsAre
<1>6. ASSUME NEW kind, \A i \in DOMAIN b : b[i].kind # kind
      PROVE  Got(c, kind) = Got(a, kind)
  <2>1. \A i \in k + 1 .. k + n : c[i].kind # kind
    BY <1>2, <1>6
  <2> QED
    BY <1>2, <1>3, <2>1 DEF Got
<1> QED
  BY <1>1, <1>4, <1>5, <1>6, FewerIn

\* A call that is answered is no longer under way.
LEMMA EndOne ==
    ASSUME NEW cs \in Seq(CallEntries), NEW i \in Running(cs), NEW st \in {"done", "final"}
    PROVE  /\ [cs EXCEPT ![i].state = st] \in Seq(CallEntries)
           /\ Cardinality(Running([cs EXCEPT ![i].state = st])) = Cardinality(Running(cs)) - 1
           /\ \A name : Cardinality(RunningOf([cs EXCEPT ![i].state = st], name)) =
                Cardinality(RunningOf(cs, name)) - (IF name = cs[i].name THEN 1 ELSE 0)
           /\ Cardinality(Running(cs)) \in Nat \ {0}
           /\ \A name : Cardinality(RunningOf(cs, name)) \in Nat
           /\ Cardinality(RunningOf(cs, cs[i].name)) \in Nat \ {0}
<1>1. PICK c, k : c = [cs EXCEPT ![i].state = st] /\ k = Len(cs)
  OBVIOUS
<1>2. /\ k \in Nat /\ DOMAIN cs = 1 .. k /\ i \in 1 .. k
      /\ \A j \in 1 .. k : cs[j] \in CallEntries
  <2>1. i \in DOMAIN cs
    BY DEF Running
  <2> QED
    BY <1>1, <2>1
<1>3. /\ DOMAIN c = 1 .. k /\ c[i] = [cs[i] EXCEPT !.state = st]
      /\ \A j \in 1 .. k : j # i => c[j] = cs[j]
  BY <1>1, <1>2
<1>4. /\ c[i].state = st /\ c[i].name = cs[i].name /\ c[i] \in CallEntries
  BY <1>2, <1>3 DEF CallEntries, CallStates
<1>5. c \in Seq(CallEntries)
  <2>1. [cs[i] EXCEPT !.state = st] \in CallEntries
    BY <1>3, <1>4
  <2> QED
    BY <1>1, <1>2, <2>1
<1>6. Running(c) = Running(cs) \ {i}
  BY <1>2, <1>3, <1>4 DEF Running
<1>7. ASSUME NEW name
      PROVE  /\ Cardinality(RunningOf(c, name)) =
                   Cardinality(RunningOf(cs, name)) - (IF name = cs[i].name THEN 1 ELSE 0)
             /\ Cardinality(RunningOf(cs, name)) \in Nat
             /\ name = cs[i].name => Cardinality(RunningOf(cs, name)) # 0
  <2>1. RunningOf(cs, name) \subseteq DOMAIN cs
    BY DEF RunningOf, Running
  <2>2. IsFiniteSet(RunningOf(cs, name)) /\ Cardinality(RunningOf(cs, name)) \in Nat
    BY <1>2, <2>1, CountsAre
  <2>3. CASE name = cs[i].name
    <3>1. RunningOf(c, name) = RunningOf(cs, name) \ {i} /\ i \in RunningOf(cs, name)
      BY <1>3, <1>6, <2>3 DEF RunningOf, Running
    <3> QED
      BY <2>2, <2>3, <3>1, OneLess
  <2>4. CASE name # cs[i].name
    <3>1. \A j \in Running(c) : c[j] = cs[j]
      BY <1>3, <1>6 DEF Running
    <3>2. RunningOf(c, name) = RunningOf(cs, name)
      BY <1>6, <2>4, <3>1 DEF RunningOf
    <3> QED
      BY <2>2, <2>4, <3>2
  <2> QED
    BY <2>3, <2>4
<1>8. IsFiniteSet(Running(cs))
  <2>1. Running(cs) \subseteq DOMAIN cs
    BY DEF Running
  <2> QED
    BY <1>2, <2>1, CountsAre
<1>9. /\ Cardinality(Running(c)) = Cardinality(Running(cs)) - 1
      /\ Cardinality(Running(cs)) \in Nat \ {0}
  BY <1>6, <1>8, OneLess
<1> QED
  BY <1>1, <1>5, <1>7, <1>9

\* The note of an outcome takes one of the entries that have none.
LEMMA NoteOne ==
    ASSUME NEW log \in Seq(LogEntries), NEW name, NEW kind \in {"none", "narrow"},
           Unset(log, name) # {}
    PROVE  /\ Noted(log, name, kind) \in Seq(LogEntries)
           /\ Len(Noted(log, name, kind)) = Len(log)
           /\ Cardinality(Told(Noted(log, name, kind), kind)) = Cardinality(Told(log, kind)) + 1
           /\ \A other \in {"none", "narrow"} \ {kind} :
                Cardinality(Told(Noted(log, name, kind), other)) = Cardinality(Told(log, other))
           /\ \A n : Cardinality(Unset(Noted(log, name, kind), n)) =
                Cardinality(Unset(log, n)) - (IF n = name THEN 1 ELSE 0)
           /\ \A n : Cardinality(Unset(log, n)) \in Nat
<1>1. PICK k : k = Len(log)
  OBVIOUS
<1>2. /\ k \in Nat /\ DOMAIN log = 1 .. k /\ \A j \in 1 .. k : log[j] \in LogEntries
  BY <1>1
<1>3. PICK j : j = CHOOSE x \in Unset(log, name) : \A y \in Unset(log, name) : y <= x
  OBVIOUS
<1>4. j \in Unset(log, name)
  <2>1. Unset(log, name) \subseteq 1 .. k
    BY <1>2 DEF Unset
  <2>2. \E x \in Unset(log, name) : \A y \in Unset(log, name) : y <= x
    BY <1>2, <2>1, GreatestIs
  <2> QED
    BY <1>3, <2>2
<1>5. PICK l : l = [log EXCEPT ![j].result = kind]
  OBVIOUS
<1>6. Noted(log, name, kind) = l
  BY <1>3, <1>5 DEF Noted, Unset
<1>7. j \in 1 .. k /\ log[j].name = name /\ log[j].result = "unset"
  BY <1>2, <1>4 DEF Unset
<1>8. /\ DOMAIN l = 1 .. k /\ l[j] = [log[j] EXCEPT !.result = kind]
      /\ \A i \in 1 .. k : i # j => l[i] = log[i]
  BY <1>2, <1>5, <1>7
<1>9. l[j].result = kind /\ l[j].name = name /\ l[j] \in LogEntries
  BY <1>2, <1>7, <1>8 DEF LogEntries
<1>10. l \in Seq(LogEntries) /\ Len(l) = k
  <2>1. [log[j] EXCEPT !.result = kind] \in LogEntries
    BY <1>8, <1>9
  <2> QED
    BY <1>1, <1>5, <1>7, <2>1
<1>11. Cardinality(Told(l, kind)) = Cardinality(Told(log, kind)) + 1
  <2>1. Told(l, kind) = Told(log, kind) \cup {j} /\ j \notin Told(log, kind)
    BY <1>2, <1>7, <1>8, <1>9 DEF Told
  <2>2. IsFiniteSet(Told(log, kind))
    BY <1>2, CountsAre DEF Told
  <2> QED
    BY <2>1, <2>2, OneMore
<1>12. ASSUME NEW other \in {"none", "narrow"} \ {kind}
       PROVE  Cardinality(Told(l, other)) = Cardinality(Told(log, other))
  <2>1. Told(l, other) = Told(log, other)
    BY <1>2, <1>7, <1>8, <1>9 DEF Told
  <2> QED
    BY <2>1
<1>13. ASSUME NEW n
       PROVE  /\ Cardinality(Unset(l, n)) =
                   Cardinality(Unset(log, n)) - (IF n = name THEN 1 ELSE 0)
              /\ Cardinality(Unset(log, n)) \in Nat
  <2>1. IsFiniteSet(Unset(log, n)) /\ Cardinality(Unset(log, n)) \in Nat
    BY <1>2, CountsAre DEF Unset
  <2>2. CASE n = name
    <3>1. Unset(l, n) = Unset(log, n) \ {j} /\ j \in Unset(log, n)
      BY <1>2, <1>4, <1>8, <1>9, <2>2 DEF Unset
    <3> QED
      BY <2>1, <2>2, <3>1, OneLess
  <2>3. CASE n # name
    <3>1. Unset(l, n) = Unset(log, n)
      BY <1>2, <1>7, <1>8, <1>9, <2>3 DEF Unset
    <3> QED
      BY <2>1, <2>3, <3>1
  <2> QED
    BY <2>2, <2>3
<1> QED
  BY <1>1, <1>6, <1>10, <1>11, <1>12, <1>13

\* An answer leaves the log and the messages in agreement.
LEMMA AnswerAgrees ==
    ASSUME NEW log, NEW cs, NEW ms \in Seq(Messages), LogInv(log, cs, ms),
           NEW i \in Running(cs), NEW st \in {"done", "final"},
           NEW m \in Messages, m.role = "tool", m.turn = turn
    PROVE  LogInv(Noted(log, cs[i].name, m.kind), [cs EXCEPT ![i].state = st], Append(ms, m))
<1>1. PICK c, a, l, name, kind :
        /\ c = [cs EXCEPT ![i].state = st] /\ a = Append(ms, m)
        /\ name = cs[i].name /\ kind = m.kind /\ l = Noted(log, name, kind)
  OBVIOUS
<1>2. /\ log \in Seq(LogEntries) /\ cs \in Seq(CallEntries)
      /\ \A other \in {"none", "narrow"} :
           Cardinality(Told(log, other)) = Cardinality(Got(ms, other))
      /\ \A n \in BatchNames : Cardinality(RunningOf(cs, n)) <= Cardinality(Unset(log, n))
      /\ Len(log) <= Cardinality(Results(ms)) + Cardinality(Running(cs))
  BY DEF LogInv
<1>3. /\ c \in Seq(CallEntries)
      /\ Cardinality(Running(c)) = Cardinality(Running(cs)) - 1
      /\ Cardinality(Running(cs)) \in Nat \ {0}
  BY <1>1, <1>2, EndOne
<1>4. /\ \A n : /\ Cardinality(RunningOf(cs, n)) \in Nat
                /\ Cardinality(RunningOf(c, n)) =
                     Cardinality(RunningOf(cs, n)) - (IF n = name THEN 1 ELSE 0)
      /\ Cardinality(RunningOf(cs, name)) \in Nat \ {0}
  <2>1. /\ \A n : Cardinality(RunningOf(c, n)) =
                Cardinality(RunningOf(cs, n)) - (IF n = cs[i].name THEN 1 ELSE 0)
        /\ \A n : Cardinality(RunningOf(cs, n)) \in Nat
        /\ Cardinality(RunningOf(cs, cs[i].name)) \in Nat \ {0}
    BY <1>1, <1>2, EndOne
  <2>2. name = cs[i].name
    BY <1>1
  <2> QED
    BY <2>1, <2>2
<1>5. /\ Cardinality(Results(a)) = Cardinality(Results(ms)) + 1
      /\ \A other : Cardinality(Got(a, other)) =
           Cardinality(Got(ms, other)) + (IF kind = other THEN 1 ELSE 0)
  BY <1>1, GotOne
<1>6. name \in BatchNames
  <2>1. i \in DOMAIN cs
    BY DEF Running
  <2>2. cs[i] \in CallEntries
    BY <1>2, <2>1
  <2> QED
    BY <1>1, <2>2 DEF CallEntries
<1>7. Cardinality(Results(ms)) \in Nat /\ \A other : Cardinality(Got(ms, other)) \in Nat
  <2>1. DOMAIN ms = 1 .. Len(ms) /\ Len(ms) \in Nat
    OBVIOUS
  <2> QED
    BY <2>1, CountsAre DEF Results, Got
<1>8. \A n : Cardinality(Unset(log, n)) \in Nat
  <2>1. DOMAIN log = 1 .. Len(log) /\ Len(log) \in Nat
    BY <1>2
  <2> QED
    BY <2>1, CountsAre DEF Unset
<1>9. CASE kind \in {"none", "narrow"}
  <2>1. Unset(log, name) # {}
    <3>1. Cardinality(Unset(log, name)) # 0
      BY <1>2, <1>4, <1>6, <1>8
    <3> QED
      BY <3>1, FS_EmptySet
  <2>2. /\ l \in Seq(LogEntries) /\ Len(l) = Len(log)
        /\ Cardinality(Told(l, kind)) = Cardinality(Told(log, kind)) + 1
        /\ \A other \in {"none", "narrow"} \ {kind} :
             Cardinality(Told(l, other)) = Cardinality(Told(log, other))
    BY <1>1, <1>2, <1>9, <2>1, NoteOne
  <2>3. \A n : Cardinality(Unset(l, n)) =
                 Cardinality(Unset(log, n)) - (IF n = name THEN 1 ELSE 0)
    BY <1>1, <1>2, <1>9, <2>1, NoteOne
  <2>4. ASSUME NEW other \in {"none", "narrow"}
        PROVE  Cardinality(Told(l, other)) = Cardinality(Got(a, other))
    <3>1. Cardinality(Told(log, other)) = Cardinality(Got(ms, other))
          /\ Cardinality(Got(ms, other)) \in Nat
      BY <1>2, <1>7
    <3>2. CASE other = kind
      BY <1>5, <2>2, <3>1, <3>2
    <3>3. CASE other # kind
      BY <1>5, <2>2, <3>1, <3>3
    <3> QED
      BY <3>2, <3>3
  <2>5. ASSUME NEW n \in BatchNames
        PROVE  Cardinality(RunningOf(c, n)) <= Cardinality(Unset(l, n))
    <3>1. /\ Cardinality(RunningOf(cs, n)) <= Cardinality(Unset(log, n))
          /\ Cardinality(RunningOf(cs, n)) \in Nat /\ Cardinality(Unset(log, n)) \in Nat
      BY <1>2, <1>4, <1>8
    <3>2. CASE n = name
      BY <1>4, <2>3, <3>1, <3>2
    <3>3. CASE n # name
      BY <1>4, <2>3, <3>1, <3>3
    <3> QED
      BY <3>2, <3>3
  <2>6. Len(l) <= Cardinality(Results(a)) + Cardinality(Running(c))
    BY <1>2, <1>3, <1>5, <1>7, <2>2
  <2> QED
    BY <1>1, <1>3, <2>2, <2>4, <2>5, <2>6 DEF LogInv
<1>10. CASE kind \notin {"none", "narrow"}
  <2>1. l = log
    BY <1>1, <1>10 DEF Noted
  <2>2. ASSUME NEW other \in {"none", "narrow"}
        PROVE  Cardinality(Told(l, other)) = Cardinality(Got(a, other))
    <3>1. Cardinality(Told(log, other)) = Cardinality(Got(ms, other))
          /\ Cardinality(Got(ms, other)) \in Nat /\ other # kind
      BY <1>2, <1>7, <1>10
    <3> QED
      BY <1>5, <2>1, <3>1
  <2>3. ASSUME NEW n \in BatchNames
        PROVE  Cardinality(RunningOf(c, n)) <= Cardinality(Unset(l, n))
    <3>1. /\ Cardinality(RunningOf(cs, n)) <= Cardinality(Unset(log, n))
          /\ Cardinality(RunningOf(cs, n)) \in Nat /\ Cardinality(Unset(log, n)) \in Nat
      BY <1>2, <1>4, <1>8
    <3> QED
      BY <1>4, <2>1, <3>1
  <2>4. Len(l) <= Cardinality(Results(a)) + Cardinality(Running(c))
    BY <1>2, <1>3, <1>5, <1>7, <2>1
  <2> QED
    BY <1>1, <1>2, <1>3, <2>1, <2>2, <2>3, <2>4 DEF LogInv
<1> QED
  BY <1>9, <1>10

LEMMA JoinIs ==
    ASSUME NEW T, NEW a \in Seq(T), NEW b \in Seq(T)
    PROVE  /\ a \o b \in Seq(T) /\ Len(a \o b) = Len(a) + Len(b)
           /\ DOMAIN (a \o b) = 1 .. Len(a) + Len(b)
           /\ \A i \in 1 .. Len(a) : (a \o b)[i] = a[i]
           /\ \A j \in 1 .. Len(b) : /\ Len(a) + j \in 1 .. Len(a) + Len(b)
                                    /\ (a \o b)[Len(a) + j] = b[j]
OBVIOUS

\* A batch of calls leaves them in agreement.
LEMMA CallsAgree ==
    ASSUME NEW log, NEW ms \in Seq(Messages), LogInv(log, <<>>, ms), NEW batch \in Batches,
           NEW a \in Seq(Messages), Cardinality(Results(ms)) <= Cardinality(Results(a)),
           \A kind \in {"none", "narrow"} : Got(a, kind) = Got(ms, kind),
           NEW order, order = InOrder(Known(batch)),
           NEW c, c = [i \in DOMAIN batch |->
                        [name |-> batch[i],
                         state |-> IF batch[i] \in Tools THEN "running" ELSE "unknown"]],
           NEW l, l = log \o [k \in DOMAIN order |->
                               [name |-> batch[order[k]], result |-> "unset"]]
    PROVE  LogInv(l, c, a)
<1>1. PICK k, n, known : k = Len(log) /\ known = Known(batch) /\ n = Cardinality(known)
  OBVIOUS
<1>2. /\ log \in Seq(LogEntries)
      /\ \A kind \in {"none", "narrow"} :
           Cardinality(Told(log, kind)) = Cardinality(Got(ms, kind))
      /\ Len(log) <= Cardinality(Results(ms)) + Cardinality(Running(<<>>))
  BY DEF LogInv
<1>3. /\ Len(batch) \in Nat /\ DOMAIN batch = 1 .. Len(batch)
      /\ \A i \in DOMAIN batch : batch[i] \in BatchNames
  BY ConstantsAre DEF BatchNames, ToSet
<1>4. known \subseteq 1 .. Len(batch) /\ \A i \in 1 .. Len(batch) : i \in known <=> batch[i] \in Tools
  BY <1>1, <1>3 DEF Known
<1>5. /\ order \in [1 .. n -> known] /\ DOMAIN order = 1 .. n /\ n \in Nat
      /\ \A i \in known : \E j \in 1 .. n : order[j] = i
      /\ IsFiniteSet(known)
  BY <1>1, <1>3, <1>4, InOrderIs
<1>6. PICK more : more = [j \in 1 .. n |-> [name |-> batch[order[j]], result |-> "unset"]]
  OBVIOUS
<1>7. \A j \in 1 .. n : [name |-> batch[order[j]], result |-> "unset"] \in LogEntries
  <2>1. \A j \in 1 .. n : order[j] \in DOMAIN batch
    BY <1>3, <1>4, <1>5
  <2> QED
    BY <1>3, <2>1 DEF LogEntries
<1>8. /\ more \in Seq(LogEntries) /\ Len(more) = n /\ l = log \o more
      /\ \A j \in 1 .. n : more[j].name = batch[order[j]] /\ more[j].result = "unset"
  BY <1>5, <1>6, <1>7
<1>9. /\ l \in Seq(LogEntries) /\ Len(l) = k + n /\ DOMAIN l = 1 .. k + n
      /\ k \in Nat /\ k + n \in Nat /\ DOMAIN log = 1 .. k
      /\ \A i \in 1 .. k : l[i] = log[i]
      /\ \A j \in 1 .. n : k + j \in 1 .. k + n /\ l[k + j] = more[j]
  <2>1. k \in Nat /\ DOMAIN log = 1 .. k /\ k + n \in Nat
    BY <1>1, <1>2, <1>5
  <2>2. PICK e : e = log \o more
    OBVIOUS
  <2>3. /\ e \in Seq(LogEntries) /\ Len(e) = k + n /\ DOMAIN e = 1 .. k + n
        /\ \A i \in 1 .. k : e[i] = log[i]
        /\ \A j \in 1 .. n : k + j \in 1 .. k + n /\ e[k + j] = more[j]
    <3>0. log \in Seq(LogEntries) /\ more \in Seq(LogEntries)
      BY <1>2, <1>8
    <3>1. /\ e \in Seq(LogEntries) /\ Len(e) = Len(log) + Len(more)
          /\ DOMAIN e = 1 .. Len(log) + Len(more)
          /\ \A i \in 1 .. Len(log) : e[i] = log[i]
          /\ \A j \in 1 .. Len(more) : /\ Len(log) + j \in 1 .. Len(log) + Len(more)
                                       /\ e[Len(log) + j] = more[j]
      <4>1. e \in Seq(LogEntries) /\ Len(e) = Len(log) + Len(more)
        BY <2>2, <3>0
      <4>2. DOMAIN e = 1 .. Len(log) + Len(more)
        BY <2>2, <3>0, JoinIs
      <4>3. \A i \in 1 .. Len(log) : e[i] = log[i]
        BY <2>2, <3>0, JoinIs
      <4>4. \A j \in 1 .. Len(more) : /\ Len(log) + j \in 1 .. Len(log) + Len(more)
                                       /\ e[Len(log) + j] = more[j]
        BY <2>2, <3>0, JoinIs
      <4> QED
        BY <4>1, <4>2, <4>3, <4>4
    <3>2. Len(log) = k /\ Len(more) = n
      BY <1>1, <1>8
    <3> QED
      BY <3>1, <3>2, Zenon
  <2> QED
    BY <1>8, <2>1, <2>2, <2>3
<1>10. \A i \in 1 .. k + n : i \in 1 .. k \/ \E j \in 1 .. n : i = k + j
  <2>1. ASSUME NEW i \in 1 .. k + n, i \notin 1 .. k
        PROVE  i - k \in 1 .. n /\ i = k + (i - k)
    BY <1>5, <1>9, <2>1
  <2> QED
    BY <2>1
<1>11. ASSUME NEW kind \in {"none", "narrow"}
       PROVE  Cardinality(Told(l, kind)) = Cardinality(Got(a, kind))
  <2>1. \A j \in 1 .. n : l[k + j].result = "unset"
    BY <1>8, <1>9
  <2>2. Told(l, kind) = Told(log, kind)
    BY <1>9, <1>10, <2>1 DEF Told
  <2> QED
    BY <1>2, <2>2
<1>12. c \in Seq(CallEntries) /\ DOMAIN c = 1 .. Len(batch)
  <2>1. \A i \in 1 .. Len(batch) :
          [name |-> batch[i],
           state |-> IF batch[i] \in Tools THEN "running" ELSE "unknown"] \in CallEntries
    BY <1>3 DEF CallEntries, CallStates
  <2> QED
    BY <1>3, <2>1
<1>13. Running(c) = known
  BY <1>3, <1>4 DEF Running
<1>14. Len(l) <= Cardinality(Results(a)) + Cardinality(Running(c))
  <2>1. Cardinality(Running(<<>>)) = 0
    <3>1. Running(<<>>) = {}
      BY DEF Running
    <3> QED
      BY <3>1, FS_EmptySet
  <2>2. Cardinality(Results(a)) \in Nat /\ Cardinality(Results(ms)) \in Nat
    <3>1. /\ DOMAIN a = 1 .. Len(a) /\ Len(a) \in Nat
          /\ DOMAIN ms = 1 .. Len(ms) /\ Len(ms) \in Nat
      OBVIOUS
    <3> QED
      BY <3>1, CountsAre DEF Results
  <2>3. Cardinality(Running(c)) = n /\ k <= Cardinality(Results(ms)) + 0
    BY <1>1, <1>2, <1>13, <2>1
  <2> QED
    BY <1>5, <1>9, <2>2, <2>3
<1>15. ASSUME NEW name \in BatchNames
       PROVE  Cardinality(RunningOf(c, name)) <= Cardinality(Unset(l, name))
  <2>1. PICK S, T : S = RunningOf(c, name) /\ T = Unset(l, name)
    OBVIOUS
  <2>2. \A i \in S : i \in known /\ batch[i] = name
    BY <1>3, <1>4, <1>13, <2>1 DEF RunningOf
  <2>3. PICK f : f = [i \in S |-> k + (CHOOSE j \in 1 .. n : order[j] = i)]
    OBVIOUS
  <2>4. ASSUME NEW i \in S
        PROVE  \E j \in 1 .. n : order[j] = i /\ f[i] = k + j /\ f[i] \in T
    <3>1. PICK j : j = CHOOSE x \in 1 .. n : order[x] = i
      OBVIOUS
    <3>2. j \in 1 .. n /\ order[j] = i
      BY <1>5, <2>2, <3>1
    <3>3. f[i] = k + j
      BY <2>3, <3>1
    <3>4. l[k + j].name = name /\ l[k + j].result = "unset"
      BY <1>8, <1>9, <2>2, <3>2
    <3> QED
      BY <1>9, <2>1, <3>2, <3>3, <3>4 DEF Unset
  <2>5. ASSUME NEW i \in S, NEW j \in S, f[i] = f[j]
        PROVE  i = j
    <3>1. PICK x \in 1 .. n : order[x] = i /\ f[i] = k + x
      BY <2>4
    <3>2. PICK y \in 1 .. n : order[y] = j /\ f[j] = k + y
      BY <2>4
    <3> QED
      <4>1. k + x = k + y
        BY <2>5, <3>1, <3>2
      <4>2. x = y
        BY <1>5, <1>9, <4>1
      <4> QED
        BY <3>1, <3>2, <4>2
  <2>6. f \in Injection(S, T)
    <3>1. f \in [S -> T]
      BY <2>3, <2>4
    <3> QED
      BY <2>5, <3>1 DEF Injection, IsInjective
  <2>7. IsFiniteSet(T)
    <3>1. T \subseteq DOMAIN l
      BY <2>1 DEF Unset
    <3> QED
      BY <1>9, <3>1, CountsAre
  <2> QED
    BY <2>1, <2>6, <2>7, FS_Injection
<1> QED
  BY <1>9, <1>11, <1>12, <1>14, <1>15 DEF LogInv

-----------------------------------------------------------------------------
(* ToldInv is kept *)

LEMMA ToldInit == Init => ToldInv
BY DEF Init, ToldInv, FreshRun, Asking

\* Steps that end an attempt, or lead to the next one.
LEMMA ToldElsewhere ==
    ASSUME ToldInv, Boots \/ Begin \/ Try \/ Commit \/ Discard \/ Throws \/ Thrown
    PROVE  ToldInv'
<1>1. FreshRun.toolCalls = 0 /\ FreshRun.calls = <<>> /\ FreshRun.toolLog = <<>>
  BY DEF FreshRun
<1>2. CASE Boots
  <2>1. UNCHANGED <<turn, pc, run, reply, attempt>>
    BY <1>2 DEF Boots, AssertChain, Connect, Ready, attemptVars
  <2> QED
    BY <2>1 DEF ToldInv, LogInv, EndInv, Got, Results
<1>3. CASE Begin \/ Try \/ Commit \/ Discard \/ Throws \/ Thrown
  <2>1. pc' \in {"idle", "next", "open", "thrown"} /\ run' \in {run, FreshRun}
        /\ (pc' = "open" => run' = FreshRun)
    BY <1>3 DEF Begin, Try, Commit, Discard, Throws, Thrown, Over, attemptVars
  <2> QED
    BY <1>1, <2>1 DEF ToldInv, Asking
<1> QED
  BY <1>2, <1>3

LEMMA ToldPrompt == ASSUME TurnInv, ToldInv, Prompt PROVE ToldInv'
<1>1. /\ pc = "open" /\ attempt = conversation /\ run.rounds = 0
      /\ run.calls = <<>> /\ run.toolLog = <<>> /\ UNCHANGED <<run, turn, reply>>
  BY DEF Prompt, TurnInv, ToldInv, attemptVars
<1>2. CASE pc' = "thrown"
  BY <1>1, <1>2 DEF ToldInv, Asking
<1>3. CASE pc' = "ask" /\ attempt' = Append(attempt, Message("user", input))
  <2>1. PICK m : m = Message("user", input)
    OBVIOUS
  <2>2. m \in Messages /\ m.kind \in {"question", "essay"}
    <3>1. input \in KindsOf["user"]
      BY RolesAre DEF TurnInv, TypeOK
    <3> QED
      BY <2>1, <3>1, TypesAre, MessageIs, RolesAre DEF Message
  <2>3. ASSUME NEW kind \in {"none", "narrow"}
        PROVE  Cardinality(Got(attempt', kind)) = 0
    <3>1. Got(conversation, kind) = {}
      <4>1. \A i \in DOMAIN conversation : conversation[i].turn \in DOMAIN outcomes
        BY <1>1 DEF TurnInv, Traces
      <4>2. turn \notin DOMAIN outcomes
        <5>1. Len(outcomes) = turn - 1 /\ turn \in Nat /\ outcomes \in Seq(Outcomes)
          BY <1>1, TypesAre DEF TurnInv
        <5> QED
          BY <5>1
      <4> QED
        BY <4>1, <4>2 DEF Got
    <3>2. Cardinality(Got(conversation, kind)) = 0
      BY <3>1, FS_EmptySet
    <3>3. attempt' = Append(conversation, m) /\ conversation \in Seq(Messages)
      BY <1>1, <1>3, <2>1, TypesAre
    <3>4. Cardinality(Got(Append(conversation, m), kind)) = Cardinality(Got(conversation, kind)) + 0
      BY <2>2, <3>3, GotOne
    <3> QED
      BY <3>2, <3>3, <3>4
  <2>4. LogInv(<<>>, <<>>, attempt')
    <3>1. <<>> \in Seq(LogEntries) /\ <<>> \in Seq(CallEntries) /\ Len(<<>>) = 0
      OBVIOUS
    <3>2. \A kind \in {"none", "narrow"} : Cardinality(Told(<<>>, kind)) = 0
      <4>1. \A kind \in {"none", "narrow"} : Told(<<>>, kind) = {}
        BY DEF Told
      <4> QED
        BY <4>1, FS_EmptySet
    <3>3. \A name : RunningOf(<<>>, name) = {} /\ Unset(<<>>, name) = {} /\ Running(<<>>) = {}
      BY DEF RunningOf, Unset, Running
    <3>4. \A name : Cardinality(RunningOf(<<>>, name)) <= Cardinality(Unset(<<>>, name))
      BY <3>3, FS_EmptySet
    <3>5. 0 <= Cardinality(Results(attempt')) + Cardinality(Running(<<>>))
      <4>1. attempt' \in Seq(Messages)
        BY <1>1, <1>3, <2>1, <2>2, TypesAre
      <4>2. Cardinality(Results(attempt')) \in Nat
        <5>1. DOMAIN attempt' = 1 .. Len(attempt') /\ Len(attempt') \in Nat
          BY <4>1
        <5> QED
          BY <5>1, CountsAre DEF Results
      <4>3. Cardinality(Running(<<>>)) = 0
        BY <3>3, FS_EmptySet
      <4> QED
        BY <4>2, <4>3
    <3> QED
      BY <2>3, <3>1, <3>2, <3>4, <3>5 DEF LogInv
  <2>5. LogInv(run.toolLog, run.calls, attempt)'
    BY <1>1, <2>4 DEF LogInv, Got, Results
  <2>6. EndInv'
    BY <1>1, <1>3, ConstantsAre DEF EndInv
  <2> QED
    BY <1>1, <1>3, <2>5, <2>6 DEF ToldInv, Asking
<1> QED
  BY <1>2, <1>3 DEF Prompt

\* A step that leaves the messages, the log and the calls.
LEMMA ToldSame ==
    ASSUME TurnInv, ToldInv, pc \in Asking, pc' \in Asking, UNCHANGED <<turn, attempt>>,
           run'.toolLog = run.toolLog, run'.calls = run.calls, run'.toolCalls = run.toolCalls,
           EndInv'
    PROVE  ToldInv'
<1>1. LogInv(run.toolLog, run.calls, attempt)'
  BY DEF ToldInv, LogInv, Got, Results
<1> QED
  BY <1>1 DEF ToldInv, Asking

LEMMA ToldRequest == ASSUME TurnInv, ToldInv, Request PROVE ToldInv'
<1>1. /\ pc = "ask" /\ pc' \in {"judge", "model"} /\ run.calls = <<>>
      /\ UNCHANGED <<turn, attempt>> /\ RunOK(run)
      /\ pc' = "judge" => reply' = [stop |-> "error", text |-> "blank"]
  BY DEF Request, ToldInv, EndInv, Asking, TurnInv
<1>2. PICK capped : capped = (run.rounds >= MaxRounds)
  OBVIOUS
<1>3. PICK h, x : h = (run.hitRoundCap \/ capped) /\ x = (run.halting \/ capped)
  OBVIOUS
<1>4. run' = [run EXCEPT !.rounds = @ + 1, !.hitRoundCap = h, !.halting = x]
  BY <1>2, <1>3 DEF Request
<1>5. /\ run'.rounds = run.rounds + 1 /\ run'.hitRoundCap = h
      /\ run'.toolLog = run.toolLog /\ run'.calls = run.calls /\ run'.toolCalls = run.toolCalls
  BY <1>1, <1>4 DEF RunOK
<1>6. run'.rounds > MaxRounds => run'.hitRoundCap
  <2>1. run'.rounds > MaxRounds => run.rounds >= MaxRounds
    BY <1>5, TypesAre, ConstantsAre
  <2>2. run.rounds >= MaxRounds => h
    BY <1>2, <1>3, Zenon
  <2> QED
    BY <1>5, <2>1, <2>2, Zenon
<1>7. EndInv'
  BY <1>1, <1>5, <1>6 DEF EndInv
<1> QED
  BY <1>1, <1>5, <1>7, ToldSame DEF Asking

LEMMA ToldCalls == ASSUME TurnInv, ToldInv, Calls PROVE ToldInv'
<1>1. /\ pc = "model" /\ pc' = "tools" /\ turn' = turn /\ RunOK(run)
      /\ run.calls = <<>> /\ LogInv(run.toolLog, <<>>, attempt) /\ EndInv
      /\ run.toolCalls \in Nat
  BY DEF Calls, ToldInv, EndInv, Asking, TurnInv
<1>2. PICK batch \in Batches : CallsOf(batch, Known(batch), InOrder(Known(batch)))
  BY CallsAre
<1>3. PICK n, g : /\ n = Cardinality(Known(batch))
                  /\ g = Cardinality(DOMAIN batch \ Known(batch))
  OBVIOUS
<1>4. PICK order, c, l :
        /\ order = InOrder(Known(batch))
        /\ c = [i \in DOMAIN batch |->
                 [name |-> batch[i],
                  state |-> IF batch[i] \in Tools THEN "running" ELSE "unknown"]]
        /\ l = run.toolLog \o [k \in DOMAIN order |->
                                [name |-> batch[order[k]], result |-> "unset"]]
  OBVIOUS
<1>5. run' = [run EXCEPT !.toolCalls = @ + n, !.calls = c, !.toolLog = l]
  BY <1>2, <1>3, <1>4 DEF CallsOf
<1>6. /\ run'.toolCalls = run.toolCalls + n /\ run'.calls = c /\ run'.toolLog = l
      /\ run'.rounds = run.rounds /\ run'.hitRoundCap = run.hitRoundCap
  BY <1>1, <1>5 DEF RunOK
<1>7. n \in Nat /\ g \in Nat
  <2>1. /\ DOMAIN batch = 1 .. Len(batch) /\ Len(batch) \in Nat
        /\ Known(batch) \subseteq DOMAIN batch
    BY ConstantsAre DEF Known
  <2> QED
    BY <1>3, <2>1, CountsAre
<1>8. PICK call, fault : /\ call = Message("assistant", "calls")
                         /\ fault = Message("tool", "fault")
  OBVIOUS
<1>9. call \in Messages /\ fault \in Messages /\ call.kind = "calls" /\ fault.kind = "fault"
  BY <1>8, TypesAre, MessageIs, RolesAre DEF Message
<1>10. PICK faults, mid : /\ faults = [i \in 1 .. g |-> fault]
                          /\ mid = attempt \o <<call>>
  OBVIOUS
<1>11. /\ attempt \in Seq(Messages) /\ <<call>> \in Seq(Messages) /\ faults \in Seq(Messages)
       /\ mid \in Seq(Messages) /\ attempt' = mid \o faults /\ attempt' \in Seq(Messages)
  <2>1. attempt \in Seq(Messages) /\ <<call>> \in Seq(Messages) /\ faults \in Seq(Messages)
    BY <1>7, <1>9, <1>10, TypesAre
  <2>2. attempt' = mid \o faults
    BY <1>2, <1>3, <1>8, <1>10 DEF CallsOf
  <2> QED
    BY <1>10, <2>1, <2>2
<1>12. /\ Cardinality(Results(attempt)) <= Cardinality(Results(attempt'))
       /\ \A kind \in {"none", "narrow"} : Got(attempt', kind) = Got(attempt, kind)
  <2>1. /\ Cardinality(Results(attempt)) <= Cardinality(Results(mid))
        /\ Cardinality(Results(attempt)) \in Nat /\ Cardinality(Results(mid)) \in Nat
    BY <1>10, <1>11, GotMany
  <2>2. /\ Cardinality(Results(mid)) <= Cardinality(Results(attempt'))
        /\ Cardinality(Results(attempt')) \in Nat
    BY <1>11, GotMany
  <2>3. ASSUME NEW kind \in {"none", "narrow"}
        PROVE  Got(attempt', kind) = Got(attempt, kind)
    <3>1. \A i \in DOMAIN <<call>> : <<call>>[i].kind # kind
      BY <1>9
    <3>2. \A i \in DOMAIN faults : faults[i].kind # kind
      BY <1>7, <1>9, <1>10
    <3>3. Got(mid, kind) = Got(attempt, kind)
      BY <1>10, <1>11, <3>1, GotMany
    <3>4. Got(mid \o faults, kind) = Got(mid, kind)
      BY <1>11, <3>2, GotMany
    <3> QED
      BY <1>11, <3>3, <3>4
  <2> QED
    BY <2>1, <2>2, <2>3
<1>13. LogInv(l, c, attempt')
  BY <1>1, <1>4, <1>11, <1>12, CallsAgree
<1>14. LogInv(run.toolLog, run.calls, attempt)'
  BY <1>1, <1>6, <1>13 DEF LogInv, Got, Results
<1>15. EndInv'
  <2>1. DOMAIN c = 1 .. Len(batch) /\ Len(batch) \in Nat \ {0}
    BY <1>4, ConstantsAre
  <2>2. c # <<>>
    BY <2>1
  <2>3. \A i \in DOMAIN c : c[i].state # "final"
    BY <1>4
  <2> QED
    BY <1>1, <1>6, <2>2, <2>3 DEF EndInv
<1> QED
  BY <1>1, <1>6, <1>7, <1>14, <1>15 DEF ToldInv, Asking

\* A message that is no result of a tool leaves the agreement.
LEMMA AddsNothing ==
    ASSUME NEW log, NEW cs, NEW ms \in Seq(Messages), LogInv(log, cs, ms),
           NEW m \in Messages, m.kind \notin {"none", "narrow"}
    PROVE  LogInv(log, cs, Append(ms, m))
<1>1. PICK a : a = Append(ms, m)
  OBVIOUS
<1>2. \A kind \in {"none", "narrow"} : Cardinality(Got(a, kind)) = Cardinality(Got(ms, kind))
  <2>1. ASSUME NEW kind \in {"none", "narrow"}
        PROVE  Cardinality(Got(a, kind)) = Cardinality(Got(ms, kind))
    <3>1. Cardinality(Got(a, kind)) = Cardinality(Got(ms, kind)) + 0
      BY <1>1, GotOne
    <3>2. Cardinality(Got(ms, kind)) \in Nat
      <4>1. DOMAIN ms = 1 .. Len(ms) /\ Len(ms) \in Nat
        OBVIOUS
      <4> QED
        BY <4>1, CountsAre DEF Got
    <3> QED
      BY <3>1, <3>2
  <2> QED
    BY <2>1
<1>3. a = ms \o <<m>> /\ <<m>> \in Seq(Messages)
  BY <1>1
<1>4. /\ Cardinality(Results(ms)) <= Cardinality(Results(a))
      /\ Cardinality(Results(ms)) \in Nat /\ Cardinality(Results(a)) \in Nat
  BY <1>3, GotMany
<1>5. Len(log) <= Cardinality(Results(a)) + Cardinality(Running(cs))
  <2>1. /\ log \in Seq(LogEntries) /\ cs \in Seq(CallEntries)
        /\ Len(log) <= Cardinality(Results(ms)) + Cardinality(Running(cs))
    BY DEF LogInv
  <2>2. DOMAIN cs = 1 .. Len(cs) /\ Len(cs) \in Nat /\ Len(log) \in Nat
    BY <2>1
  <2>3. Cardinality(Running(cs)) \in Nat
    BY <2>2, CountsAre DEF Running
  <2> QED
    BY <1>4, <2>1, <2>2, <2>3
<1> QED
  BY <1>1, <1>2, <1>5 DEF LogInv

LEMMA ToldSays == ASSUME TurnInv, ToldInv, Says PROVE ToldInv'
<1>1. /\ pc = "model" /\ pc' = "judge" /\ UNCHANGED <<turn, run>>
      /\ run.calls = <<>> /\ LogInv(run.toolLog, run.calls, attempt) /\ EndInv
  BY DEF Says, ToldInv, EndInv, Asking
<1>2. PICK stop \in {"stop", "length", "error"}, text \in {"answer", "prose", "blank"} :
        /\ reply' = [stop |-> stop, text |-> text]
        /\ attempt' = Append(attempt, Message("assistant", text))
  BY DEF Says
<1>3. PICK m : m = Message("assistant", text)
  OBVIOUS
<1>4. m \in Messages /\ m.role = "assistant" /\ m.kind = text
  BY <1>3, TypesAre, MessageIs, RolesAre DEF Message
<1>5. LogInv(run.toolLog, run.calls, attempt')
  BY <1>1, <1>2, <1>3, <1>4, TypesAre, AddsNothing
<1>6. LogInv(run.toolLog, run.calls, attempt)'
  BY <1>1, <1>5 DEF LogInv, Got, Results
<1>7. Last(attempt') = m
  BY <1>2, <1>3, TypesAre DEF Last
<1>8. EndInv'
  BY <1>1, <1>2, <1>4, <1>7 DEF EndInv
<1> QED
  BY <1>1, <1>6, <1>8 DEF ToldInv, Asking

LEMMA ToldHalts == ASSUME TurnInv, ToldInv, Halts PROVE ToldInv'
<1>1. /\ pc \in {"model", "tools"} /\ pc' = "judge" /\ UNCHANGED <<turn, run>>
      /\ LogInv(run.toolLog, run.calls, attempt) /\ EndInv
      /\ reply' = [stop |-> "aborted", text |-> "blank"]
  BY DEF Halts, ToldInv, Asking
<1>2. EndInv'
  BY <1>1 DEF EndInv
<1>3. CASE attempt' = attempt
  BY <1>1, <1>2, <1>3, ToldSame DEF Asking
<1>4. CASE attempt' = Append(attempt, Message("assistant", "blank"))
  <2>1. PICK m : m = Message("assistant", "blank")
    OBVIOUS
  <2>2. m \in Messages /\ m.kind = "blank"
    BY <2>1, TypesAre, MessageIs, RolesAre DEF Message
  <2>3. LogInv(run.toolLog, run.calls, attempt')
    BY <1>1, <1>4, <2>1, <2>2, TypesAre, AddsNothing
  <2>4. LogInv(run.toolLog, run.calls, attempt)'
    BY <1>1, <2>3 DEF LogInv, Got, Results
  <2> QED
    BY <1>1, <1>2, <2>4 DEF ToldInv, Asking
<1> QED
  BY <1>3, <1>4 DEF Halts

LEMMA ToldCallEnds == ASSUME TurnInv, ToldInv, CallEnds PROVE ToldInv'
<1>1. /\ pc = "tools" /\ pc' = "tools" /\ turn' = turn /\ RunOK(run)
      /\ LogInv(run.toolLog, run.calls, attempt) /\ EndInv
      /\ run.toolCalls \in Nat
  BY DEF CallEnds, ToldInv, Asking, TurnInv
<1>2. PICK i \in DOMAIN run.calls, kind \in Kinds \cup {"data", "fault"} :
        /\ run.calls[i].state = "running"
        /\ attempt' = Append(attempt, Message("tool", kind))
        /\ run' = [run EXCEPT
               !.toolLog = Noted(@, run.calls[i].name, kind),
               !.calls[i].state = IF run.rounds < MaxRounds THEN "done" ELSE "final",
               !.hitRoundCap = @ \/ run.rounds >= MaxRounds]
  BY DEF CallEnds
<1>3. PICK m : m = Message("tool", kind)
  OBVIOUS
<1>4. m \in Messages /\ m.role = "tool" /\ m.kind = kind /\ m.turn = turn
  <2>1. kind \in KindsOf["tool"]
    BY RolesAre, ConstantsAre
  <2> QED
    BY <1>3, <2>1, TypesAre, MessageIs, RolesAre DEF Message
<1>5. PICK st, capped : /\ st = IF run.rounds < MaxRounds THEN "done" ELSE "final"
                        /\ capped = (run.rounds >= MaxRounds)
  OBVIOUS
<1>6. PICK l, c, h : /\ l = Noted(run.toolLog, run.calls[i].name, kind)
                     /\ c = [run.calls EXCEPT ![i].state = st]
                     /\ h = (run.hitRoundCap \/ capped)
  OBVIOUS
<1>7. run' = [run EXCEPT !.toolLog = l, !.calls = c, !.hitRoundCap = h]
  BY <1>2, <1>5, <1>6
<1>8. /\ run'.toolLog = l /\ run'.calls = c /\ run'.hitRoundCap = h
      /\ run'.rounds = run.rounds /\ run'.toolCalls = run.toolCalls
  BY <1>1, <1>7 DEF RunOK
<1>9. i \in Running(run.calls) /\ st \in {"done", "final"}
  BY <1>2, <1>5 DEF Running
<1>10. LogInv(l, c, attempt')
  BY <1>1, <1>2, <1>3, <1>4, <1>6, <1>9, TypesAre, AnswerAgrees
<1>11. LogInv(run.toolLog, run.calls, attempt)'
  BY <1>1, <1>8, <1>10 DEF LogInv, Got, Results
<1>12. EndInv'
  <2>1. run.hitRoundCap => h
    BY <1>6, Zenon
  <2>2. st = "final" => h
    <3>1. st = IF run.rounds < MaxRounds THEN "done" ELSE "final"
      BY <1>5
    <3>2. st = "final" => run.rounds >= MaxRounds
      BY <3>1, TypesAre, ConstantsAre
    <3> QED
      BY <1>5, <1>6, <3>2, Zenon
  <2>3. /\ DOMAIN c = DOMAIN run.calls /\ c[i].state = st
        /\ \A j \in DOMAIN c : j # i => c[j] = run.calls[j]
    <3>1. run.calls \in Seq(CallEntries)
      BY <1>1 DEF LogInv
    <3>2. run.calls[i] \in CallEntries
      BY <1>2, <3>1
    <3> QED
      BY <1>2, <1>6, <3>2 DEF CallEntries
  <2>4. \A j \in DOMAIN c : c[j].state = "final" => h
    <3>1. ASSUME NEW j \in DOMAIN c, c[j].state = "final"
          PROVE  h
      <4>1. CASE j = i
        BY <2>2, <2>3, <3>1, <4>1
      <4>2. CASE j # i
        <5>1. run.calls[j].state = "final" /\ j \in DOMAIN run.calls
          BY <2>3, <3>1, <4>2
        <5>2. run.hitRoundCap
          BY <1>1, <5>1 DEF EndInv
        <5> QED
          BY <2>1, <5>2
      <4> QED
        BY <4>1, <4>2
    <3> QED
      BY <3>1
  <2>5. c # <<>>
    <3>1. DOMAIN c # {}
      BY <1>2, <2>3
    <3> QED
      BY <3>1
  <2>6. run'.rounds > MaxRounds => run'.hitRoundCap
    <3>1. run.rounds > MaxRounds => run.hitRoundCap
      BY <1>1 DEF EndInv
    <3> QED
      BY <1>8, <2>1, <3>1
  <2>7. \A j \in DOMAIN run'.calls : run'.calls[j].state = "final" => run'.hitRoundCap
    BY <1>8, <2>4
  <2>8. run'.calls # <<>>
    BY <1>8, <2>5
  <2> QED
    BY <1>1, <2>6, <2>7, <2>8 DEF EndInv
<1> QED
  BY <1>1, <1>8, <1>11, <1>12 DEF ToldInv, Asking

LEMMA ToldBatchEnds == ASSUME TurnInv, ToldInv, BatchEnds PROVE ToldInv'
<1>1. /\ pc = "tools" /\ ~run.halting /\ UNCHANGED <<turn, attempt>> /\ RunOK(run)
      /\ LogInv(run.toolLog, run.calls, attempt) /\ EndInv /\ run.calls # <<>>
      /\ \A i \in DOMAIN run.calls : run.calls[i].state # "running"
      /\ run.toolCalls \in Nat
  BY DEF BatchEnds, ToldInv, EndInv, Asking, TurnInv
<1>2. CASE /\ \A i \in DOMAIN run.calls : run.calls[i].state = "final"
           /\ reply' = [stop |-> "toolUse", text |-> "answer"]
           /\ pc' = "judge" /\ run' = run
  <2>1. DOMAIN run.calls # {}
    <3>1. run.calls \in Seq(CallEntries)
      BY <1>1 DEF LogInv
    <3> QED
      BY <1>1, <3>1
  <2>2. run.hitRoundCap
    BY <1>1, <1>2, <2>1 DEF EndInv
  <2>3. EndInv'
    BY <1>1, <1>2, <2>2 DEF EndInv
  <2> QED
    BY <1>1, <1>2, <2>3, ToldSame DEF Asking
<1>3. CASE pc' = "ask" /\ run' = [run EXCEPT !.calls = <<>>]
  <2>1. /\ run'.calls = <<>> /\ run'.toolLog = run.toolLog /\ run'.toolCalls = run.toolCalls
        /\ run'.rounds = run.rounds /\ run'.hitRoundCap = run.hitRoundCap
    BY <1>1, <1>3 DEF RunOK
  <2>2. Running(run.calls) = Running(<<>>)
    BY <1>1 DEF Running
  <2>3. \A name : RunningOf(<<>>, name) = RunningOf(run.calls, name)
    BY <1>1 DEF RunningOf, Running
  <2>4. LogInv(run.toolLog, <<>>, attempt)
    <3>1. <<>> \in Seq(CallEntries)
      OBVIOUS
    <3> QED
      BY <1>1, <2>2, <2>3, <3>1 DEF LogInv
  <2>5. LogInv(run.toolLog, run.calls, attempt)'
    BY <1>1, <2>1, <2>4 DEF LogInv, Got, Results
  <2>6. EndInv'
    BY <1>1, <1>3, <2>1 DEF EndInv
  <2> QED
    BY <1>1, <1>3, <2>1, <2>5, <2>6 DEF ToldInv, Asking
<1> QED
  BY <1>2, <1>3 DEF BatchEnds

LEMMA ToldDeadline == ASSUME TurnInv, ToldInv, Deadline PROVE ToldInv'
<1>1. /\ pc \in {"ask", "model", "tools"} /\ UNCHANGED <<pc, turn, attempt, reply>> /\ RunOK(run)
      /\ run' = [run EXCEPT !.hitTimeout = TRUE, !.halting = TRUE] /\ EndInv
  BY DEF Deadline, Prompting, ToldInv, Asking, TurnInv
<1>2. /\ run'.toolLog = run.toolLog /\ run'.calls = run.calls /\ run'.toolCalls = run.toolCalls
      /\ run'.rounds = run.rounds /\ run'.hitRoundCap = run.hitRoundCap
  BY <1>1 DEF RunOK
<1>3. EndInv'
  BY <1>1, <1>2 DEF EndInv
<1> QED
  BY <1>1, <1>2, <1>3, ToldSame DEF Asking

LEMMA ToldStop == ASSUME TurnInv, ToldInv, Stop PROVE ToldInv'
<1>1. /\ pc \notin {"idle", "judge"} /\ UNCHANGED <<pc, turn, attempt, reply>> /\ RunOK(run)
      /\ run' = [run EXCEPT !.halting = @ \/ Prompting]
  BY DEF Stop, TurnInv
<1>2. PICK h : h = (run.halting \/ Prompting)
  OBVIOUS
<1>3. run' = [run EXCEPT !.halting = h]
  BY <1>1, <1>2
<1>4. /\ run'.toolLog = run.toolLog /\ run'.calls = run.calls /\ run'.toolCalls = run.toolCalls
      /\ run'.rounds = run.rounds /\ run'.hitRoundCap = run.hitRoundCap
  BY <1>1, <1>3 DEF RunOK
<1>5. CASE pc \in Asking
  <2>1. EndInv'
    BY <1>1, <1>4, <1>5 DEF EndInv, ToldInv
  <2> QED
    BY <1>1, <1>4, <1>5, <2>1, ToldSame
<1>6. CASE pc \notin Asking
  BY <1>1, <1>4, <1>6 DEF ToldInv
<1> QED
  BY <1>5, <1>6

LEMMA ToldIdle == ASSUME ToldInv, UNCHANGED vars PROVE ToldInv'
<1>1. UNCHANGED <<turn, pc, run, reply, attempt>>
  BY DEF vars, attemptVars
<1> QED
  BY <1>1 DEF ToldInv, LogInv, EndInv, Got, Results

LEMMA ToldStep == TurnInv /\ ToldInv /\ [Next]_vars => ToldInv'
<1> SUFFICES ASSUME TurnInv, ToldInv, [Next]_vars
             PROVE  ToldInv'
  OBVIOUS
<1>1. CASE Boots \/ Begin \/ Try \/ Commit \/ Discard \/ Throws \/ Thrown
  BY <1>1, ToldElsewhere
<1>2. CASE Prompt \/ Request \/ CallEnds \/ BatchEnds \/ Halts
  BY <1>2, ToldPrompt, ToldRequest, ToldCallEnds, ToldBatchEnds, ToldHalts
<1>3. CASE Calls \/ Says \/ Deadline \/ Stop
  BY <1>3, ToldCalls, ToldSays, ToldDeadline, ToldStop
<1>4. CASE UNCHANGED vars
  BY <1>4, ToldIdle
<1> QED
  BY <1>1, <1>2, <1>3, <1>4 DEF Next, Runs

-----------------------------------------------------------------------------
(* What the last step of a turn tells *)

\* The steps that add an outcome, and what they add.
LEMMA OutcomeSteps ==
    ASSUME TurnInv, [Next]_vars, Len(outcomes') > Len(outcomes)
    PROVE  \/ Last(outcomes') = "failed"
           \/ /\ pc = "judge" /\ Last(outcomes') = Verdict /\ Records(Verdict)
              /\ Commit \/ Verdict \in {"aborted", "malformed_tool_call"}
<1>1. outcomes \in Seq(Outcomes)
  BY TypesAre
<1>2. ~(UNCHANGED outcomes)
  BY <1>1
<1>3. \/ Over("failed")
      \/ pc = "judge" /\ Over(Verdict) /\ Records(Verdict)
         /\ (Commit \/ Verdict \in {"aborted", "malformed_tool_call"})
  <2>1. CASE Boots \/ Begin \/ Calls \/ Says \/ Deadline \/ Stop \/ UNCHANGED vars
    BY <1>2, <2>1 DEF Boots, AssertChain, Connect, Ready, Begin, Calls, Says, Deadline, Stop,
                      vars, endVars
  <2>2. CASE Prompt \/ Request \/ CallEnds \/ BatchEnds \/ Halts \/ Throws
    BY <1>2, <2>2 DEF Prompt, Request, CallEnds, BatchEnds, Halts, Throws, endVars
  <2>3. CASE Try \/ Thrown
    BY <1>2, <2>3 DEF Try, Thrown
  <2>4. CASE Commit
    BY <2>4 DEF Commit
  <2>5. CASE Discard
    BY <2>5 DEF Discard
  <2> QED
    BY <2>1, <2>2, <2>3, <2>4, <2>5 DEF Next, Runs
<1>4. ASSUME NEW v, outcomes' = Append(outcomes, v)
      PROVE  Last(outcomes') = v
  BY <1>1, <1>4 DEF Last
<1> QED
  BY <1>3, <1>4 DEF Over

LEMMA CompleteIs ==
    ASSUME TurnInv, ToldInv, pc = "judge", Verdict = "complete"
    PROVE  /\ Last(attempt).role = "assistant"
           /\ Last(attempt).kind = "answer" \/ (Last(attempt).kind = "prose" /\ run.toolCalls > 0)
           /\ run.rounds <= MaxRounds
           /\ Len(run.toolLog) <= Cardinality(Results(attempt))
<1>1. /\ reply.stop \notin {"error", "aborted", "length"} /\ ~run.hitRoundCap
      /\ ~Malformed /\ reply.text # "blank"
  BY DEF Verdict
<1>2. LogInv(run.toolLog, run.calls, attempt) /\ EndInv /\ run.toolCalls \in Nat
  BY DEF ToldInv, Asking
<1>3. reply.stop = "stop"
  BY <1>1, <1>2 DEF EndInv
<1>4. /\ run.calls = <<>> /\ reply.text \in {"answer", "prose"}
      /\ Last(attempt).role = "assistant" /\ Last(attempt).kind = reply.text
  BY <1>1, <1>2, <1>3 DEF EndInv
<1>5. reply.text = "prose" => run.toolCalls > 0
  BY <1>1, <1>2, <1>3 DEF Malformed
<1>6. run.rounds <= MaxRounds
  <2>1. ~(run.rounds > MaxRounds)
    BY <1>1, <1>2 DEF EndInv
  <2> QED
    BY <2>1, TypesAre, ConstantsAre
<1>7. Len(run.toolLog) <= Cardinality(Results(attempt))
  <2>1. Cardinality(Running(run.calls)) = 0
    <3>1. Running(run.calls) = {}
      BY <1>4 DEF Running
    <3> QED
      BY <3>1, FS_EmptySet
  <2>2. Cardinality(Results(attempt)) \in Nat
    <3>1. DOMAIN attempt = 1 .. Len(attempt) /\ Len(attempt) \in Nat
      BY TypesAre
    <3> QED
      BY <3>1, CountsAre DEF Results
  <2>3. Len(run.toolLog) <= Cardinality(Results(attempt)) + Cardinality(Running(run.calls))
    BY <1>2 DEF LogInv
  <2> QED
    BY <2>1, <2>2, <2>3
<1> QED
  BY <1>4, <1>5, <1>6, <1>7

LEMMA RowIs ==
    ASSUME TurnInv, ToldInv, pc = "judge", Records(Verdict)
    PROVE  /\ row'.turn = turn /\ row'.empty = Cardinality(Got(attempt, "none"))
           /\ row'.narrow <=> Cardinality(Got(attempt, "narrow")) > 0
<1>1. LogInv(run.toolLog, run.calls, attempt)
  BY DEF ToldInv, Asking
<1>2. /\ Cardinality(Told(run.toolLog, "none")) = Cardinality(Got(attempt, "none"))
      /\ Cardinality(Told(run.toolLog, "narrow")) = Cardinality(Got(attempt, "narrow"))
  BY <1>1 DEF LogInv
<1>3. row'.turn = turn /\ row'.empty = Cardinality(Told(run.toolLog, "none"))
  BY DEF Records, Told
<1>4. row'.narrow = (\E i \in DOMAIN run.toolLog : run.toolLog[i].result = "narrow")
  BY DEF Records
<1>5. (\E i \in DOMAIN run.toolLog : run.toolLog[i].result = "narrow")
        <=> Cardinality(Told(run.toolLog, "narrow")) > 0
  <2>1. /\ DOMAIN run.toolLog = 1 .. Len(run.toolLog) /\ Len(run.toolLog) \in Nat
        /\ Told(run.toolLog, "narrow") \subseteq DOMAIN run.toolLog
    BY <1>1 DEF LogInv, Told
  <2>2. /\ Cardinality(Told(run.toolLog, "narrow")) \in Nat
        /\ Cardinality(Told(run.toolLog, "narrow")) = 0 <=> Told(run.toolLog, "narrow") = {}
    BY <2>1, CountsAre
  <2>3. Told(run.toolLog, "narrow") # {} <=>
          \E i \in DOMAIN run.toolLog : run.toolLog[i].result = "narrow"
    BY DEF Told
  <2> QED
    BY <2>2, <2>3
<1>6. row'.narrow <=> Cardinality(Got(attempt, "narrow")) > 0
  <2>1. row'.narrow <=> \E i \in DOMAIN run.toolLog : run.toolLog[i].result = "narrow"
    BY <1>4, Zenon
  <2>2. (\E i \in DOMAIN run.toolLog : run.toolLog[i].result = "narrow")
          <=> Cardinality(Got(attempt, "narrow")) > 0
    BY <1>2, <1>5
  <2> QED
    BY <2>1, <2>2, Zenon
<1> QED
  BY <1>2, <1>3, <1>6, Zenon

\* What runAdvisorTurn reports of a turn, and what its row in turns.jsonl counts, is
\* what happened: a complete turn ends with the model's own text after a result for
\* each call, within the rounds; every empty or cut result is counted once, in
\* whatever order the calls of one name were answered.
THEOREM TurnsAreTold == Spec => TurnIsTold
<1>1. ASSUME TurnInv, ToldInv, [Next]_vars
      PROVE  CompleteIsWhole
  <2> SUFFICES ASSUME Len(outcomes') > Len(outcomes), Last(outcomes') = "complete"
               PROVE  /\ Last(attempt).role = "assistant"
                      /\ Last(attempt).kind = "answer"
                           \/ (Last(attempt).kind = "prose" /\ run.toolCalls > 0)
                      /\ run.rounds <= MaxRounds
                      /\ Len(run.toolLog) <= Cardinality(Results(attempt))
    BY DEF CompleteIsWhole, Results
  <2>1. pc = "judge" /\ Verdict = "complete"
    BY <1>1, OutcomeSteps
  <2> QED
    BY <1>1, <2>1, CompleteIs
<1>2. ASSUME TurnInv, ToldInv, [Next]_vars
      PROVE  RowTellsTheTools
  <2> SUFFICES ASSUME Len(outcomes') > Len(outcomes), Last(outcomes') # "failed"
               PROVE  /\ row'.turn = turn /\ row'.empty = Cardinality(Got(attempt, "none"))
                      /\ row'.narrow <=> Cardinality(Got(attempt, "narrow")) > 0
    BY DEF RowTellsTheTools, Got
  <2>1. pc = "judge" /\ Records(Verdict)
    BY <1>2, OutcomeSteps, Zenon
  <2> QED
    BY <1>2, <2>1, RowIs, Zenon
<1>3. TurnInv /\ ToldInv /\ [Next]_vars => [CompleteIsWhole /\ RowTellsTheTools]_vars
  BY <1>1, <1>2
<1>4. Spec => []ToldInv
  <2>1. Init => ToldInv
    BY ToldInit
  <2>2. TurnInv /\ ToldInv /\ [Next]_vars => ToldInv'
    BY ToldStep
  <2> QED
    BY <2>1, <2>2, TurnInvariance, PTL DEF Spec
<1> QED
  BY <1>3, <1>4, TurnInvariance, PTL DEF Spec, TurnIsTold
=============================================================================
