------------------------- MODULE HostProcessesProofs ------------------------
(***************************************************************************)
(* Proofs about four processes of the host: the receiver of Telegram       *)
(* (PollWatchdog), for every threshold, pause and cooldown; the forwarder  *)
(* to the servers (GatewayBridge), for all ports, addresses and            *)
(* interfaces; a pass of the classification (ClassifierCascade), for every *)
(* inbox, all rules, settings and answers, and every size of a batch; and  *)
(* a run of a measuring script (ModelProbes), for all questions, facts,    *)
(* snapshots, command lines, messages and endpoints.                       *)
(***************************************************************************)
EXTENDS PollWatchdog, GatewayBridge, ClassifierCascade, ModelProbes, FiniteSetTheorems,
        FunctionTheorems, WellFoundedInduction, TLAPS

-----------------------------------------------------------------------------
(* The receiver *)

\* The record is not younger than the last exit by more than a probe takes:
\* what makes the cooldown of the record a cooldown of the exits.
RecordIsFresh == recordAge <= exitAge + ProbeTime

\* How long ago the last check can be, at each point of the loop.
Checked == Least(successAge, warnedAge)

CheckedRecently ==
    /\ pc = "probe" => Checked <= WarnAge
    /\ pc = "poll" => Checked <= WarnAge + ProbeTime + Cap
    /\ pc \notin {"probe", "poll"} => Checked <= WarnAge + ProbeTime

\* The two halves of TypeOK, one for arithmetic.
Numbers ==
    /\ errors \in 0 .. CountBound /\ failures \in 0 .. CountBound
    /\ pause \in 0 .. Cap
    /\ lag \in 0 .. ProbeTime
    /\ successAge \in Ages /\ warnedAge \in Ages
    /\ recordAge \in Ages /\ exitAge \in Ages

Flags ==
    /\ pc \in {"poll", "probe", "decide", "sleep", "down"}
    /\ healthy \in BOOLEAN /\ store \in BOOLEAN
    /\ network \in BOOLEAN /\ wedged \in BOOLEAN

\* The inductive invariant.
WatchdogInv ==
    /\ Flags
    /\ Numbers
    /\ CheckedRecently
    /\ ~WriteFaults => RecordIsFresh

-----------------------------------------------------------------------------
\* Arithmetic on ages.
LEMMA AgeFacts ==
    /\ Top \in Nat /\ CountBound \in Nat /\ Slack \in Nat
    /\ \A a \in Ages, d \in Nat :
         /\ Older(a, d) \in Ages
         /\ Older(a, d) <= a + d
         /\ a <= Older(a, d)
    /\ \A a, b \in Ages, d \in Nat : a <= b + ProbeTime =>
         Older(a, d) <= Older(b, d) + ProbeTime
    /\ \A n \in 0 .. CountBound : Another(n) \in 0 .. CountBound
BY WatchdogAssumption
DEF Ages, Top, Slack, CountBound, Older, Another, Least

\* The pause is never longer than the cap: nextBackoffMs.
LEMMA BackoffBounded == \A n \in 0 .. CountBound : Backoff(n) \in 0 .. Cap
<1> TAKE n \in 0 .. CountBound
<1> DEFINE k == IF n = 0 THEN 0 ELSE n - 1
<1>1. k \in 0 .. CountBound
  BY AgeFacts
<1>2. 2 ^ k \in Nat
  BY <1>1, PowerAssumption
<1>3. Base * 2 ^ k \in Nat
  <2> HIDE DEF k
  <2> DEFINE p == 2 ^ k
  <2>1. p \in Nat BY <1>2
  <2> HIDE DEF p
  <2>2. Base * p \in Nat BY <2>1, WatchdogAssumption
  <2> QED BY <2>2 DEF p
<1>4. \A x \in Nat : Least(Cap, x) \in 0 .. Cap
  BY WatchdogAssumption DEF Least
<1> QED BY <1>3, <1>4 DEF Backoff

\* What time does to the last check.
LEMMA CheckedFacts ==
    ASSUME successAge \in Ages, warnedAge \in Ages
    PROVE  /\ Checked \in Nat
           /\ \A d \in Nat :
                /\ successAge' = Older(successAge, d)
                /\ warnedAge' = Older(warnedAge, d)
                => /\ Checked' \in Nat
                   /\ Checked' <= Checked + d
                   /\ successAge' \in Ages /\ warnedAge' \in Ages
<1>1. Checked \in Nat
  BY AgeFacts DEF Checked, Least, Ages
<1>2. SUFFICES ASSUME NEW d \in Nat,
                      successAge' = Older(successAge, d),
                      warnedAge' = Older(warnedAge, d)
               PROVE  /\ Checked' \in Nat
                      /\ Checked' <= Checked + d
                      /\ successAge' \in Ages /\ warnedAge' \in Ages
  BY <1>1
<1>3. /\ successAge' \in Ages /\ warnedAge' \in Ages
      /\ successAge' <= successAge + d /\ warnedAge' <= warnedAge + d
  BY <1>2, AgeFacts
<1>4. Top \in Nat
  BY AgeFacts
<1> QED BY <1>3, <1>4 DEF Checked, Least, Ages

\* What a check leaves, s after the last success.
LEMMA WarnFacts ==
    ASSUME warnedAge \in Ages, NEW d \in Nat, NEW s \in Ages,
           successAge' = s,
           warnedAge' = IF Silent(s, Older(warnedAge, d))
                          THEN 0 ELSE Older(warnedAge, d)
    PROVE  /\ successAge' \in Ages /\ warnedAge' \in Ages
           /\ Checked' \in Nat /\ Checked' <= WarnAge
<1> DEFINE w == Older(warnedAge, d)
<1>1. w \in Ages
  BY AgeFacts
<1>2. warnedAge' = IF Silent(s, w) THEN 0 ELSE w
  OBVIOUS
<1> HIDE DEF w
<1>3. Top \in Nat /\ WarnAge \in Nat
  BY AgeFacts, WatchdogAssumption
<1>4. CASE Silent(s, w)
  BY <1>2, <1>3, <1>4 DEF Checked, Least, Ages
<1>5. CASE ~Silent(s, w)
  <2>1. warnedAge' = w /\ (s < WarnAge \/ w < WarnAge)
    BY <1>1, <1>2, <1>3, <1>5 DEF Silent, Ages
  <2> QED BY <1>1, <1>3, <2>1 DEF Checked, Least, Ages
<1> QED BY <1>4, <1>5

\* The ages of the record and of the exit stay in step.
LEMMA StoreFacts ==
    ASSUME recordAge \in Ages, exitAge \in Ages, NEW d \in Nat, StoreAges(d)
    PROVE  /\ recordAge' \in Ages /\ exitAge' \in Ages
           /\ RecordIsFresh => RecordIsFresh'
BY AgeFacts DEF StoreAges, RecordIsFresh

-----------------------------------------------------------------------------
LEMMA InitHolds == Init => WatchdogInv
<1> SUFFICES ASSUME Init PROVE WatchdogInv
  OBVIOUS
<1>1. Flags
  BY DEF Init, Flags
<1>2. Numbers
  BY AgeFacts, WatchdogAssumption DEF Init, Numbers, Ages
<1>3. CheckedRecently /\ RecordIsFresh
  BY AgeFacts, WatchdogAssumption
  DEF Init, CheckedRecently, Checked, RecordIsFresh, Least
<1> QED BY <1>1, <1>2, <1>3 DEF WatchdogInv

LEMMA StepHolds == WatchdogInv /\ [Next]_vars => WatchdogInv'
<1> SUFFICES ASSUME WatchdogInv, [Next]_vars PROVE WatchdogInv'
  OBVIOUS
<1> USE AgeFacts, WatchdogAssumption
<1>0. /\ successAge \in Ages /\ warnedAge \in Ages
      /\ recordAge \in Ages /\ exitAge \in Ages
  BY DEF WatchdogInv, Numbers
<1>1. CASE PollOk
  <2> PICK d \in 0 .. PollTime : StoreAges(d) /\ warnedAge' = Older(warnedAge, d)
    BY <1>1 DEF PollOk
  <2>1. Flags'
    BY <1>1 DEF PollOk, world, WatchdogInv, Flags
  <2>2. warnedAge' \in Ages /\ 0 \in Ages
    BY <1>0 DEF Ages
  <2>3. Numbers' /\ (~WriteFaults => RecordIsFresh')
    BY <1>0, <1>1, <2>2, StoreFacts DEF PollOk, WatchdogInv, Numbers
  <2>4. Checked' = 0
    BY <1>1, <2>2 DEF PollOk, Checked, Least, Ages
  <2> QED BY <1>1, <2>1, <2>3, <2>4 DEF PollOk, WatchdogInv, CheckedRecently
<1>2. CASE PollRefused
  <2> PICK d \in 0 .. PollTime : StoreAges(d) /\ MaybeWarn(d)
    BY <1>2 DEF PollRefused
  <2>1. Flags'
    BY <1>2 DEF PollRefused, world, WatchdogInv, Flags
  <2>2. Older(successAge, d) \in Ages
    BY <1>0
  <2>3. /\ successAge' \in Ages /\ warnedAge' \in Ages
        /\ Checked' \in Nat /\ Checked' <= WarnAge
    BY <1>0, <2>2, WarnFacts DEF MaybeWarn
  <2>4. Numbers' /\ (~WriteFaults => RecordIsFresh')
    BY <1>0, <1>2, <2>3, StoreFacts, BackoffBounded
    DEF PollRefused, WatchdogInv, Numbers
  <2> QED BY <1>2, <2>1, <2>3, <2>4 DEF PollRefused, WatchdogInv, CheckedRecently
<1>3. CASE PollFails
  <2> PICK d \in 0 .. PollTime : Caught(Another(errors), d) /\ MaybeWarn(d)
    BY <1>3 DEF PollFails
  <2>1. Flags'
    BY <1>3 DEF PollFails, Caught, world, WatchdogInv, Flags
  <2>2. Older(successAge, d) \in Ages
    BY <1>0
  <2>3. /\ successAge' \in Ages /\ warnedAge' \in Ages
        /\ Checked' \in Nat /\ Checked' <= WarnAge
    BY <1>0, <2>2, WarnFacts DEF MaybeWarn
  <2>4. Numbers' /\ (~WriteFaults => RecordIsFresh')
    BY <1>0, <1>3, <2>3, StoreFacts, BackoffBounded
    DEF PollFails, Caught, WatchdogInv, Numbers
  <2> QED BY <2>1, <2>3, <2>4 DEF Caught, WatchdogInv, CheckedRecently
<1>4. CASE UpdateFails
  <2> PICK d \in 0 .. PollTime :
         /\ Caught(1, d)
         /\ \E since \in 0 .. d :
              /\ successAge' = since
              /\ warnedAge' = IF Silent(since, Older(warnedAge, d))
                                THEN 0 ELSE Older(warnedAge, d)
    BY <1>4 DEF UpdateFails
  <2> PICK since \in 0 .. d :
         /\ successAge' = since
         /\ warnedAge' = IF Silent(since, Older(warnedAge, d))
                           THEN 0 ELSE Older(warnedAge, d)
    OBVIOUS
  <2>0. since \in Ages /\ 1 \in 0 .. CountBound
    BY DEF Ages, Top, Slack, CountBound
  <2>1. Flags'
    BY <1>4 DEF UpdateFails, Caught, world, WatchdogInv, Flags
  <2>3. /\ successAge' \in Ages /\ warnedAge' \in Ages
        /\ Checked' \in Nat /\ Checked' <= WarnAge
    BY <1>0, <2>0, WarnFacts
  <2>4. Numbers' /\ (~WriteFaults => RecordIsFresh')
    BY <1>0, <1>4, <2>0, <2>3, StoreFacts, BackoffBounded
    DEF UpdateFails, Caught, WatchdogInv, Numbers
  <2> QED BY <2>1, <2>3, <2>4 DEF Caught, WatchdogInv, CheckedRecently
<1>5. CASE Probe
  <2> PICK d \in 0 .. ProbeTime :
         /\ lag' = d
         /\ StoreAges(d)
         /\ successAge' = Older(successAge, d)
         /\ warnedAge' = Older(warnedAge, d)
    BY <1>5 DEF Probe
  <2>1. Flags'
    BY <1>5 DEF Probe, world, WatchdogInv, Flags
  <2>2. /\ Checked \in Nat /\ Checked' \in Nat /\ Checked' <= Checked + d
        /\ successAge' \in Ages /\ warnedAge' \in Ages
    BY <1>0, CheckedFacts
  <2>3. Numbers' /\ (~WriteFaults => RecordIsFresh')
    BY <1>0, <1>5, <2>2, StoreFacts DEF Probe, WatchdogInv, Numbers
  <2>4. Checked <= WarnAge
    BY <1>5 DEF Probe, WatchdogInv, CheckedRecently
  <2> QED BY <1>5, <2>1, <2>2, <2>3, <2>4 DEF Probe, WatchdogInv, CheckedRecently
<1>6. CASE Unconfirmed \/ StaysUp
  <2>1. Flags' /\ Numbers' /\ (~WriteFaults => RecordIsFresh')
    BY <1>6 DEF Unconfirmed, StaysUp, ages, world, WatchdogInv, Flags, Numbers,
                RecordIsFresh
  <2>2. Checked' = Checked /\ pc = "decide" /\ pc' = "sleep"
    BY <1>6 DEF Unconfirmed, StaysUp, ages, Checked
  <2> QED BY <2>1, <2>2 DEF WatchdogInv, CheckedRecently
<1>8. CASE Exits
  <2>1. lag \in Ages /\ 0 \in Ages
    BY DEF WatchdogInv, Numbers, Ages, Top, Slack
  <2>2. Flags'
    BY <1>8 DEF Exits, world, WatchdogInv, Flags
  <2>3. Numbers'
    BY <1>0, <1>8, <2>1 DEF Exits, WatchdogInv, Numbers
  <2>4. ~WriteFaults => RecordIsFresh'
    BY <1>8 DEF Exits, WatchdogInv, Numbers, RecordIsFresh
  <2>5. Checked' = Checked /\ pc = "decide" /\ pc' = "down"
    BY <1>8 DEF Exits, Checked
  <2> QED BY <2>2, <2>3, <2>4, <2>5 DEF WatchdogInv, CheckedRecently
<1>9. CASE Sleep
  <2>1. pause \in 0 .. Cap /\ StoreAges(pause)
    BY <1>9 DEF Sleep, WatchdogInv, Numbers
  <2>2. /\ Checked \in Nat /\ Checked' \in Nat /\ Checked' <= Checked + pause
        /\ successAge' \in Ages /\ warnedAge' \in Ages
    BY <1>0, <1>9, <2>1, CheckedFacts DEF Sleep
  <2>3. Flags'
    BY <1>9 DEF Sleep, world, WatchdogInv, Flags
  <2>4. Numbers' /\ (~WriteFaults => RecordIsFresh')
    BY <1>0, <1>9, <2>1, <2>2, StoreFacts DEF Sleep, WatchdogInv, Numbers
  <2>5. Checked <= WarnAge + ProbeTime
    BY <1>9 DEF Sleep, WatchdogInv, CheckedRecently
  <2> QED BY <1>9, <2>1, <2>2, <2>3, <2>4, <2>5
      DEF Sleep, WatchdogInv, CheckedRecently
<1>10. CASE Restart
  <2>1. Flags'
    BY <1>10 DEF Restart, WatchdogInv, Flags
  <2>2. Numbers'
    BY <1>0, <1>10 DEF Restart, WatchdogInv, Numbers, Ages
  <2>3. (~WriteFaults => RecordIsFresh') /\ Checked' = 0
    BY <1>10 DEF Restart, WatchdogInv, RecordIsFresh, Checked, Least
  <2> QED BY <1>10, <2>1, <2>2, <2>3 DEF Restart, WatchdogInv, CheckedRecently
<1>11. CASE NetworkChanges \/ Wedges \/ UNCHANGED vars
  <2>1. Flags'
    BY <1>11 DEF NetworkChanges, Wedges, vars, loopVars, ages, world,
                 WatchdogInv, Flags
  <2>2. Numbers' /\ (~WriteFaults => RecordIsFresh') /\ CheckedRecently'
    BY <1>11 DEF NetworkChanges, Wedges, vars, loopVars, ages, world, Checked,
                 WatchdogInv, Numbers, RecordIsFresh, CheckedRecently
  <2> QED BY <2>1, <2>2 DEF WatchdogInv
<1> QED BY <1>1, <1>2, <1>3, <1>4, <1>5, <1>6, <1>8, <1>9, <1>10, <1>11
        DEF Next, Loop

\* The inductive invariant holds.
THEOREM WatchdogInvariance == Spec => []WatchdogInv
BY InitHolds, StepHolds, PTL DEF Spec

\* Counters, pauses and ages stay in their ranges: the backoff of
\* nextBackoffMs never passes its cap.
THEOREM WatchdogTypeCorrect == Spec => []TypeOK
<1>1. WatchdogInv => TypeOK
  BY DEF WatchdogInv, Numbers, Flags, TypeOK
<1> QED BY <1>1, WatchdogInvariance, PTL

\* However long an outage or a rejected token lasts, the receiver's last
\* success or last warning is less than the warning period and a round old.
THEOREM OutagesAreLoud == Spec => []NeverSilentlyDown
<1>1. WatchdogInv => NeverSilentlyDown
  <2> SUFFICES ASSUME WatchdogInv PROVE NeverSilentlyDown
    OBVIOUS
  <2>1. Checked \in Nat
    BY CheckedFacts DEF WatchdogInv, Numbers
  <2>2. Checked <= WarnAge + Slack
    BY <2>1, WatchdogAssumption DEF WatchdogInv, CheckedRecently, Slack
  <2> QED BY <2>2 DEF NeverSilentlyDown, Checked
<1> QED BY <1>1, WatchdogInvariance, PTL

\* If the exit can be recorded, exits of the watchdog are a cooldown apart,
\* across processes, crashes and whatever the probe reports.
THEOREM ExitsAreSpaced == ASSUME ~WriteFaults PROVE Spec => RestartsAreSpaced
<1>1. WatchdogInv /\ [Next]_vars =>
        [pc # "down" /\ pc' = "down" => exitAge + ProbeTime >= Cooldown]_vars
  <2> SUFFICES ASSUME WatchdogInv, Next, pc # "down", pc' = "down"
               PROVE  exitAge + ProbeTime >= Cooldown
    BY DEF vars, loopVars
  <2>1. Exits
    BY DEF Next, Loop, PollOk, PollRefused, PollFails, UpdateFails, Caught,
           Probe, Unconfirmed, StaysUp, Sleep, Restart, NetworkChanges,
           Wedges, loopVars
  <2>2. recordAge >= Cooldown + lag
    BY <2>1 DEF Exits, CooledDown
  <2>3. recordAge <= exitAge + ProbeTime
    BY DEF WatchdogInv, RecordIsFresh
  <2> QED BY <2>2, <2>3, AgeFacts, WatchdogAssumption
      DEF WatchdogInv, Numbers, Ages
<1> QED BY <1>1, WatchdogInvariance, PTL DEF Spec, RestartsAreSpaced

-----------------------------------------------------------------------------
(* The forwarder *)

\* Every gateway that can be resolved is an address, or there is none.
LEMMA GatewayIsSomewhere ==
    ASSUME BridgeTypeOK
    PROVE  /\ GatewayFromRuntime \in Somewhere /\ DeclaredGateway \in Somewhere
           /\ GatewayFromInterfaces \in Somewhere /\ ResolveGateway \in Somewhere
<1>1. GatewayFromRuntime \in Somewhere /\ DeclaredGateway \in Somewhere
  BY DEF BridgeTypeOK, GatewayFromRuntime, DeclaredGateway, Somewhere
<1>2. GatewayFromInterfaces \in Somewhere
  BY BridgeAssumption DEF BridgeTypeOK, GatewayFromInterfaces, Somewhere
<1> QED BY <1>1, <1>2, BridgeAssumption DEF ResolveGateway, Somewhere

\* The types, and that `unbound', by which the timer chooses its delay, names
\* exactly the ports without a listener.
BridgeInv ==
    /\ BridgeTypeOK
    /\ unbound = {p \in Ports : listens[p] = Nowhere}

LEMMA CloseKeeps ==
    ASSUME BridgeInv, NEW p \in Ports, Close(p)
    PROVE  /\ listens' \in [Ports -> Somewhere] /\ unbound' \subseteq Ports
           /\ unbound' = {q \in Ports : listens'[q] = Nowhere}
BY DEF BridgeInv, BridgeTypeOK, Close, Somewhere

LEMMA ListenKeeps ==
    ASSUME BridgeInv, NEW p \in Ports, NEW a \in Addresses, Listen(p, a)
    PROVE  /\ listens' \in [Ports -> Somewhere] /\ unbound' \subseteq Ports
           /\ unbound' = {q \in Ports : listens'[q] = Nowhere}
BY BridgeAssumption DEF BridgeInv, BridgeTypeOK, Listen, Somewhere

LEMMA CachesKeeps ==
    ASSUME BridgeTypeOK, Caches
    PROVE  declared' \in Somewhere /\ fresh' \in BOOLEAN
BY GatewayIsSomewhere DEF BridgeTypeOK, Caches

LEMMA TickKeeps ==
    ASSUME BridgeInv, NEW p \in Ports, Tick(p)
    PROVE  BridgeInv'
<1>1. BridgeTypeOK /\ ResolveGateway \in Somewhere
  BY GatewayIsSomewhere DEF BridgeInv
<1>2. Caches /\ due' = due \ {p} /\ UNCHANGED host
  BY DEF Tick, TickNowhere, TickBound, TickBinds
<1>3. declared' \in Somewhere /\ fresh' \in BOOLEAN /\ due' \subseteq Ports
  BY <1>1, <1>2, CachesKeeps DEF BridgeTypeOK
<1>4. \/ Close(p) \/ UNCHANGED <<listens, unbound>>
      \/ ResolveGateway \in Addresses /\ Listen(p, ResolveGateway)
  BY <1>1 DEF Tick, TickNowhere, TickBound, TickBinds, Somewhere
<1>5. /\ listens' \in [Ports -> Somewhere] /\ unbound' \subseteq Ports
      /\ unbound' = {q \in Ports : listens'[q] = Nowhere}
  BY <1>1, <1>4, CloseKeeps, ListenKeeps DEF BridgeInv, BridgeTypeOK
<1> QED BY <1>1, <1>2, <1>3, <1>5 DEF BridgeInv, BridgeTypeOK, host

LEMMA BridgeStepKeeps ==
    ASSUME BridgeInv, [BridgeNext]_bridgeVars
    PROVE  BridgeInv'
<1>1. CASE TimerFires
  BY <1>1 DEF BridgeInv, BridgeTypeOK, TimerFires, host
<1>2. CASE CacheAges
  BY <1>2 DEF BridgeInv, BridgeTypeOK, CacheAges, host
<1>3. ASSUME NEW p \in Ports, Tick(p)
      PROVE  BridgeInv'
  BY <1>3, TickKeeps
<1>4. ASSUME NEW p \in Ports, ListenerFails(p)
      PROVE  BridgeInv'
  <2>1. changes' \in 0 .. Changes
    BY <1>4, BridgeAssumption DEF ListenerFails, BridgeInv, BridgeTypeOK
  <2>2. Close(p)
    BY <1>4 DEF ListenerFails
  <2> QED BY <1>4, <2>1, <2>2, CloseKeeps DEF ListenerFails, BridgeInv, BridgeTypeOK
<1>5. ASSUME NEW p \in Ports, StaleListenerLeaves(p)
      PROVE  BridgeInv'
  BY <1>5 DEF StaleListenerLeaves, BridgeInv, BridgeTypeOK, program
<1>6. CASE HostChanges
  <2>1. changes' \in 0 .. Changes
    BY <1>6, BridgeAssumption DEF HostChanges, BridgeInv, BridgeTypeOK
  <2>2. config' \in Somewhere /\ held' \in [Interfaces -> Somewhere] /\ answers' \in BOOLEAN
    BY <1>6 DEF HostChanges, BridgeInv, BridgeTypeOK
  <2> QED BY <1>6, <2>1, <2>2 DEF HostChanges, BridgeInv, BridgeTypeOK, program
<1>7. CASE UNCHANGED bridgeVars
  BY <1>7 DEF BridgeInv, BridgeTypeOK, bridgeVars, program, host
<1> QED
  BY <1>1, <1>2, <1>3, <1>4, <1>5, <1>6, <1>7 DEF BridgeNext, BridgeRuns

\* The forwarder's state keeps its types, and `unbound' tells the ports that
\* have no listener.
THEOREM BridgeInvariance == BridgeSpec => []BridgeInv
<1>1. ASSUME BridgeInit
      PROVE  BridgeInv
  <2>1. listens \in [Ports -> Somewhere] /\ unbound = {p \in Ports : listens[p] = Nowhere}
    BY <1>1 DEF BridgeInit, Somewhere
  <2>2. busy \subseteq Ports /\ unbound \subseteq Ports /\ due \subseteq Ports
    BY <1>1 DEF BridgeInit
  <2>3. changes \in 0 .. Changes /\ declared \in Somewhere
    BY <1>1, BridgeAssumption DEF BridgeInit, Somewhere
  <2> QED BY <1>1, <2>1, <2>2, <2>3 DEF BridgeInit, BridgeInv, BridgeTypeOK
<1> QED BY <1>1, BridgeStepKeeps, PTL DEF BridgeSpec

\* A port is where SettlesOnTheGateway wants it in the end.
AtGateway(p) == listens[p] = Rest /\ (p \in unbound <=> Rest = Nowhere)

\* What is cached is what the runtime says now.
CacheTells == fresh => declared = GatewayFromRuntime

\* Without an override the forwarder resolves the gateway of the network that
\* is, if its cache tells it; and that one can be bound.
LEMMA ResolvesToRest ==
    ASSUME BridgeTypeOK, CacheTells, Override = Nowhere
    PROVE  /\ ResolveGateway = Rest /\ DeclaredGateway = GatewayFromRuntime
           /\ Rest # Nowhere => AddressIsLive(Rest)
<1>1. DeclaredGateway = GatewayFromRuntime
  BY DEF CacheTells, DeclaredGateway
<1>2. GatewayFromInterfaces # Nowhere => AddressIsLive(GatewayFromInterfaces)
  BY BridgeAssumption DEF GatewayFromInterfaces, AddressIsLive
<1> QED BY <1>1, <1>2 DEF ResolveGateway, Rest, GatewayFromRuntime

\* The safety part of SettlesOnTheGateway: while the host stands still and the cache tells
\* the truth, it stays true, a port that is at rest stays so, and every
\* visit brings a port to rest that can be bound.  One round of the timer is
\* therefore enough, and none undoes it.
VisitsSettle ==
    UNCHANGED host /\ CacheTells =>
        /\ CacheTells'
        /\ \A p \in Ports \ busy : AtGateway(p) \/ p \in due \ due' => AtGateway(p)'

LEMMA StepSettles ==
    ASSUME BridgeInv, [BridgeNext]_bridgeVars, Override = Nowhere
    PROVE  VisitsSettle
<1> SUFFICES ASSUME UNCHANGED host, CacheTells
             PROVE  /\ CacheTells'
                    /\ \A p \in Ports \ busy : AtGateway(p) \/ p \in due \ due' => AtGateway(p)'
  BY DEF VisitsSettle
<1>0. /\ BridgeTypeOK /\ changes \in Nat
      /\ ResolveGateway = Rest /\ DeclaredGateway = GatewayFromRuntime
      /\ Rest # Nowhere => AddressIsLive(Rest)
  BY ResolvesToRest, BridgeAssumption DEF BridgeInv, BridgeTypeOK
<1>1. Rest' = Rest /\ GatewayFromRuntime' = GatewayFromRuntime
  BY DEF host, Rest, GatewayFromRuntime, GatewayFromInterfaces, AddressIsLive
<1>2. ASSUME NEW p \in Ports, Tick(p)
      PROVE  /\ CacheTells'
             /\ due' = due \ {p}
             /\ \A q \in Ports \ {p} : listens'[q] = listens[q] /\ (q \in unbound' <=> q \in unbound)
             /\ p \notin busy => AtGateway(p)'
  <2>1. CacheTells' /\ due' = due \ {p}
    BY <1>0, <1>1, <1>2 DEF Tick, TickNowhere, TickBound, TickBinds, Caches, CacheTells
  <2>2. \A q \in Ports \ {p} : listens'[q] = listens[q] /\ (q \in unbound' <=> q \in unbound)
    BY <1>0, <1>2 DEF Tick, TickNowhere, TickBound, TickBinds, Close, Listen, BridgeTypeOK
  <2>3. p \notin busy => AtGateway(p)'
    BY <1>0, <1>1, <1>2
       DEF Tick, TickNowhere, TickBound, TickBinds, Close, Listen, Binds, BridgeTypeOK,
           BridgeInv, AtGateway
  <2> QED BY <2>1, <2>2, <2>3
<1>3. CASE \E p \in Ports : Tick(p)
  BY <1>1, <1>2, <1>3 DEF AtGateway
<1>4. CASE TimerFires \/ CacheAges \/ UNCHANGED bridgeVars
  BY <1>0, <1>1, <1>4 DEF TimerFires, CacheAges, bridgeVars, program, AtGateway, CacheTells, BridgeTypeOK
<1>5. ASSUME NEW p \in Ports, ListenerFails(p) \/ StaleListenerLeaves(p) PROVE FALSE
  BY <1>0, <1>5 DEF ListenerFails, StaleListenerLeaves, host
<1>6. ~HostChanges
  BY <1>0 DEF HostChanges, host
<1> QED BY <1>3, <1>4, <1>5, <1>6 DEF BridgeNext, BridgeRuns

\* Without BRIDGE_HOST, for any ports, addresses and interfaces: while the host's
\* network stands still, a visit moves a port to the gateway and nothing moves it away.
THEOREM ARoundSettles ==
    ASSUME Override = Nowhere
    PROVE  BridgeSpec => [][VisitsSettle]_bridgeVars
<1>1. BridgeInv /\ [BridgeNext]_bridgeVars => [VisitsSettle]_bridgeVars
  BY StepSettles
<1> QED BY <1>1, BridgeInvariance, PTL DEF BridgeSpec

-----------------------------------------------------------------------------
(* A pass: sequences of mails and their parts *)

Mails == ToSet(Inbox)

\* s is what lies in S after position q, up to position m.
IsPart(s, S, q, m) ==
    /\ s \in Seq(Mails) /\ q \in Nat /\ m \in Nat /\ q <= m
    /\ Len(s) = m - q
    /\ \A i \in 1 .. m - q : s[i] = S[q + i]

\* The batches cut what lies after position a of the candidates into parts, at f.
CutsAt(bs, a, f) ==
    /\ f \in [0 .. Len(bs) -> 0 .. Len(candidates)]
    /\ f[0] = a /\ f[Len(bs)] = Len(candidates)
    /\ \A i \in 1 .. Len(bs) : IsPart(bs[i], candidates, f[i - 1], f[i])

Cuts(bs, a) == bs \in Seq(Seq(Mails)) /\ \E f : CutsAt(bs, a, f)

Distinct(S) == \A i, j \in DOMAIN S : S[i].id = S[j].id => i = j

LEMMA InboxIs ==
    /\ Inbox \in Seq(Mails) /\ Distinct(Inbox) /\ Len(Inbox) \in Nat
    /\ DOMAIN Inbox = 1 .. Len(Inbox)
    /\ \A mail \in Mails : mail.id \in Ids
    /\ \A mail \in Mails : \E i \in 1 .. Len(Inbox) : mail = Inbox[i]
    /\ \A id \in Ids : \E i \in 1 .. Len(Inbox) : id = Inbox[i].id
    /\ \A x, y \in Mails : x.id = y.id => x = y
<1>1. Inbox \in Seq(Mails) /\ Distinct(Inbox) /\ Len(Inbox) \in Nat
      /\ DOMAIN Inbox = 1 .. Len(Inbox)
  BY CascadeAssumption DEF Mails, Distinct
<1>2. \A mail \in Mails : \E i \in 1 .. Len(Inbox) : mail = Inbox[i]
  BY <1>1 DEF Mails, ToSet
<1> QED
  BY <1>1, <1>2 DEF Ids, Distinct

LEMMA IdsAreFinite == IsFiniteSet(Ids)
<1>1. PICK f : f = [i \in 1 .. Len(Inbox) |-> Inbox[i].id]
  OBVIOUS
<1>2. f \in [1 .. Len(Inbox) -> Ids] /\ \A id \in Ids : \E i \in 1 .. Len(Inbox) : f[i] = id
  BY <1>1, InboxIs DEF Ids
<1>3. f \in Surjection(1 .. Len(Inbox), Ids)
  BY <1>2, Fun_IsSurj
<1>4. IsFiniteSet(1 .. Len(Inbox))
  BY InboxIs, FS_Interval
<1> QED
  BY <1>3, <1>4, FS_Surjection

LEMMA PartTail ==
    ASSUME NEW S, NEW s, NEW q, NEW m, IsPart(s, S, q, m), s # <<>>
    PROVE  /\ q < m /\ Head(s) = S[q + 1] /\ Head(s) \in Mails /\ s[1] = Head(s)
           /\ IsPart(Tail(s), S, q + 1, m)
<1>1. /\ s \in Seq(Mails) /\ q \in Nat /\ m \in Nat /\ Len(s) \in Nat /\ Len(s) > 0
      /\ Len(s) = m - q
  BY DEF IsPart
<1>2. /\ Head(s) = s[1] /\ Head(s) \in Mails /\ Tail(s) \in Seq(Mails)
      /\ Len(Tail(s)) = Len(s) - 1 /\ \A i \in 1 .. Len(s) - 1 : Tail(s)[i] = s[i + 1]
  BY <1>1
<1>3. \A i \in 1 .. m - (q + 1) : Tail(s)[i] = S[(q + 1) + i]
  <2>1. ASSUME NEW i \in 1 .. m - (q + 1)
        PROVE  Tail(s)[i] = S[(q + 1) + i]
    <3>1. i + 1 \in 1 .. m - q /\ i \in 1 .. Len(s) - 1 /\ q + (i + 1) = (q + 1) + i
      BY <1>1
    <3> QED
      BY <1>2, <3>1 DEF IsPart
  <2> QED
    BY <2>1
<1> QED
  BY <1>1, <1>2, <1>3 DEF IsPart

LEMMA PartEmpty ==
    ASSUME NEW S, NEW s, NEW q, NEW m, IsPart(s, S, q, m), s = <<>>
    PROVE  q = m
BY DEF IsPart

LEMMA PartWhole ==
    ASSUME NEW S \in Seq(Mails)
    PROVE  IsPart(S, S, 0, Len(S))
BY DEF IsPart

\* The first batch is the next part, and the others cut what lies after it.
LEMMA CutsTail ==
    ASSUME NEW bs, NEW a, Cuts(bs, a), bs # <<>>
    PROVE  \E b \in 0 .. Len(candidates) : /\ IsPart(Head(bs), candidates, a, b)
                                           /\ Cuts(Tail(bs), b)
<1>1. PICK f : CutsAt(bs, a, f)
  BY DEF Cuts
<1>2. /\ bs \in Seq(Seq(Mails)) /\ Len(bs) \in Nat /\ Len(bs) > 0 /\ Head(bs) = bs[1]
      /\ Tail(bs) \in Seq(Seq(Mails)) /\ Len(Tail(bs)) = Len(bs) - 1
      /\ \A i \in 1 .. Len(bs) - 1 : Tail(bs)[i] = bs[i + 1]
  BY DEF Cuts
<1>3. PICK g : g = [i \in 0 .. Len(bs) - 1 |-> f[i + 1]]
  OBVIOUS
<1>4. /\ g \in [0 .. Len(Tail(bs)) -> 0 .. Len(candidates)]
      /\ g[0] = f[1] /\ g[Len(Tail(bs))] = Len(candidates)
  BY <1>1, <1>2, <1>3 DEF CutsAt
<1>5. ASSUME NEW i \in 1 .. Len(Tail(bs))
      PROVE  IsPart(Tail(bs)[i], candidates, g[i - 1], g[i])
  <2>1. i + 1 \in 1 .. Len(bs) /\ i \in 1 .. Len(bs) - 1 /\ (i + 1) - 1 = i
    BY <1>2
  <2>2. Tail(bs)[i] = bs[i + 1] /\ g[i - 1] = f[i] /\ g[i] = f[i + 1]
    BY <1>2, <1>3, <2>1
  <2> QED
    BY <1>1, <2>1, <2>2 DEF CutsAt
<1>6. CutsAt(Tail(bs), f[1], g)
  BY <1>4, <1>5 DEF CutsAt
<1>7. Cuts(Tail(bs), f[1])
  BY <1>2, <1>6 DEF Cuts
<1>8. IsPart(bs[1], candidates, f[0], f[1]) /\ f[1] \in 0 .. Len(candidates) /\ f[0] = a
  <2>1. 1 \in 1 .. Len(bs) /\ 1 \in 0 .. Len(bs) /\ 1 - 1 = 0
    BY <1>2
  <2> QED
    BY <1>1, <2>1 DEF CutsAt
<1> QED
  BY <1>2, <1>7, <1>8

LEMMA CutsNothing ==
    ASSUME NEW bs, NEW a, Cuts(bs, a), bs = <<>>
    PROVE  a = Len(candidates)
<1>1. PICK f : CutsAt(bs, a, f)
  BY DEF Cuts
<1>2. Len(bs) = 0
  OBVIOUS
<1> QED
  BY <1>1, <1>2 DEF CutsAt

\* chunksOf cuts the whole.
LEMMA ChunksCut ==
    ASSUME candidates \in Seq(Mails)
    PROVE  Cuts(ChunksOf(candidates), 0)
<1> DEFINE n == Len(candidates)
           N == (n + BatchSize - 1) \div BatchSize
           upto(i) == IF i * BatchSize < n THEN i * BatchSize ELSE n
<1>1. n \in Nat /\ BatchSize \in Nat /\ BatchSize > 0
  BY CascadeAssumption
<1>2. N \in Nat /\ N * BatchSize >= n /\ N * BatchSize <= n + BatchSize - 1
  BY <1>1
<1>3. ASSUME NEW i \in 1 .. N
      PROVE  /\ i - 1 \in Nat /\ (i - 1) * BatchSize \in Nat /\ i * BatchSize \in Nat
             /\ (i - 1) * BatchSize < n
             /\ i * BatchSize = (i - 1) * BatchSize + BatchSize
  <2>1. i - 1 \in Nat /\ i \in Nat /\ i <= N
    BY <1>2
  <2>2. i * BatchSize = (i - 1) * BatchSize + BatchSize /\ (i - 1) * BatchSize \in Nat
    BY <1>1, <2>1
  <2>3. i * BatchSize <= N * BatchSize
    BY <1>1, <1>2, <2>1
  <2>4. (i - 1) * BatchSize < n
    BY <1>1, <1>2, <2>1, <2>2, <2>3
  <2> QED
    BY <1>1, <2>1, <2>2, <2>4
<1>4. ASSUME NEW i \in 1 .. N
      PROVE  IsPart(ChunksOf(candidates)[i], candidates, upto(i - 1), upto(i))
  <2>1. /\ upto(i - 1) = (i - 1) * BatchSize
        /\ upto(i - 1) \in Nat /\ upto(i) \in Nat
        /\ upto(i - 1) < upto(i) /\ upto(i) <= n
    BY <1>1, <1>3
  <2>2. ChunksOf(candidates)[i] = SubSeq(candidates, (i - 1) * BatchSize + 1, upto(i))
    BY Zenon DEF ChunksOf
  <2> HIDE DEF upto
  <2>3. PICK q \in Nat, m \in Nat : q = upto(i - 1) /\ m = upto(i)
    BY <2>1
  <2>4. q < m /\ m <= n /\ ChunksOf(candidates)[i] = SubSeq(candidates, q + 1, m)
    BY <2>1, <2>2, <2>3
  <2>5. PICK s : s = SubSeq(candidates, q + 1, m)
    OBVIOUS
  <2>6. s \in Seq(Mails) /\ Len(s) = m - q
    BY <1>1, <2>4, <2>5
  <2>7. \A j \in 1 .. m - q : s[j] = candidates[q + j]
    BY <1>1, <2>4, <2>5
  <2> QED
    BY <2>3, <2>4, <2>5, <2>6, <2>7 DEF IsPart
<1>5. PICK f : f = [i \in 0 .. N |-> upto(i)]
  OBVIOUS
<1>6. Len(ChunksOf(candidates)) = N /\ ChunksOf(candidates) \in Seq(Seq(Mails))
  <2>1. PICK c : c = ChunksOf(candidates)
    OBVIOUS
  <2>2. c = [i \in 1 .. N |-> c[i]]
    BY <2>1, Zenon DEF ChunksOf
  <2>3. \A i \in 1 .. N : c[i] \in Seq(Mails)
    BY <1>4, <2>1 DEF IsPart
  <2> HIDE DEF N
  <2>4. c \in [1 .. N -> Seq(Mails)]
    BY <2>2, <2>3
  <2>5. c \in Seq(Seq(Mails)) /\ Len(c) = N
    BY <1>2, <2>4
  <2> QED
    BY <2>1, <2>5
<1>7. \A i \in 0 .. N : i * BatchSize \in Nat
  BY <1>1, <1>2
<1>8. f \in [0 .. N -> 0 .. n] /\ f[0] = 0 /\ f[N] = n
  BY <1>1, <1>2, <1>5, <1>7
<1>9. \A i \in 1 .. N : f[i - 1] = upto(i - 1) /\ f[i] = upto(i)
  BY <1>2, <1>5
<1> HIDE DEF upto, N
<1>10. CutsAt(ChunksOf(candidates), 0, f)
  BY <1>4, <1>6, <1>8, <1>9 DEF CutsAt
<1> QED
  BY <1>6, <1>10 DEF Cuts

-----------------------------------------------------------------------------
(* The rows of a pass and its counters *)

\* A mail has no row yet, or one.
OneRow ==
    /\ fates = [id \in Ids |-> fates[id]]
    /\ \A id \in Ids : fates[id] = <<>> \/ \E row : fates[id] = <<row>>

Rows(pass, decision) ==
    {id \in Ids : fates[id] # <<>> /\ fates[id][1].pass = pass
                                   /\ fates[id][1].decision = decision}

Overruled == {id \in Ids : fates[id] # <<>> /\ fates[id][1].pass = "override"}

\* The counters that count rows, with the rows they count.
Accounts ==
    {<<"template_tasks", "template", "task">>, <<"template_skips", "template", "skip">>,
     <<"skip_sender_count", "skip", "skip">>,
     <<"apiTaskCount", "classifier", "task">>, <<"apiSkipCount", "classifier", "skip">>,
     <<"apiFailureCount", "failed", "pending">>,
     <<"agreementCount", "compare", "compare-agree">>,
     <<"disagreementCount", "compare", "compare-disagree">>}

Counted ==
    /\ counters \in [CounterNames -> Nat]
    /\ \A x \in Accounts : counters[x[1]] = Cardinality(Rows(x[2], x[3]))

Writes(mail, row) ==
    /\ mail \in Mails /\ fates[mail.id] = <<>>
    /\ Decide(mail, row)

LEMMA WritesIs ==
    ASSUME OneRow, NEW mail, NEW row, Writes(mail, row)
    PROVE  /\ OneRow' /\ mail.id \in Ids /\ fates'[mail.id] = <<row>>
           /\ \A id \in Ids \ {mail.id} : fates'[id] = fates[id]
<1>1. mail.id \in Ids /\ fates[mail.id] = <<>>
  BY InboxIs DEF Writes
<1>2. Append(<<>>, row) = <<row>>
  OBVIOUS
<1>3. fates' = [fates EXCEPT ![mail.id] = <<row>>]
  BY <1>1, <1>2 DEF Writes, Decide
<1>4. \A id \in Ids : fates'[id] = IF id = mail.id THEN <<row>> ELSE fates[id]
  BY <1>1, <1>3 DEF OneRow
<1>5. fates' = [id \in Ids |-> fates'[id]]
  BY <1>1, <1>3 DEF OneRow
<1> QED
  BY <1>1, <1>4, <1>5 DEF OneRow

LEMMA RowsAreFinite ==
    ASSUME NEW p, NEW d
    PROVE  /\ IsFiniteSet(Rows(p, d)) /\ Cardinality(Rows(p, d)) \in Nat
           /\ IsFiniteSet(Overruled) /\ Cardinality(Overruled) \in Nat
<1>1. Rows(p, d) \subseteq Ids /\ Overruled \subseteq Ids
  BY DEF Rows, Overruled
<1> QED
  BY <1>1, IdsAreFinite, FS_Subset, FS_CardinalityType

LEMMA RowsNext ==
    ASSUME OneRow, NEW mail, NEW row, Writes(mail, row), NEW p, NEW d
    PROVE  Cardinality(Rows(p, d)') = Cardinality(Rows(p, d))
                                        + IF row.pass = p /\ row.decision = d THEN 1 ELSE 0
<1>1. /\ mail.id \in Ids /\ fates'[mail.id] = <<row>> /\ fates[mail.id] = <<>>
      /\ \A id \in Ids \ {mail.id} : fates'[id] = fates[id]
  BY WritesIs DEF Writes
<1>2. <<row>> # <<>> /\ <<row>>[1] = row
  OBVIOUS
<1>3. mail.id \notin Rows(p, d)
  BY <1>1 DEF Rows
<1>4. CASE row.pass = p /\ row.decision = d
  <2>1. Rows(p, d)' = Rows(p, d) \cup {mail.id}
    BY <1>1, <1>2, <1>4 DEF Rows
  <2> QED
    BY <1>3, <1>4, <2>1, RowsAreFinite, FS_AddElement
<1>5. CASE ~(row.pass = p /\ row.decision = d)
  <2>1. Rows(p, d)' = Rows(p, d)
    BY <1>1, <1>2, <1>5 DEF Rows
  <2> QED
    BY <1>5, <2>1, RowsAreFinite
<1> QED
  BY <1>4, <1>5

LEMMA OverruledNext ==
    ASSUME OneRow, NEW mail, NEW row, Writes(mail, row)
    PROVE  Cardinality(Overruled') = Cardinality(Overruled)
                                       + IF row.pass = "override" THEN 1 ELSE 0
<1>1. /\ mail.id \in Ids /\ fates'[mail.id] = <<row>> /\ fates[mail.id] = <<>>
      /\ \A id \in Ids \ {mail.id} : fates'[id] = fates[id]
  BY WritesIs DEF Writes
<1>2. <<row>> # <<>> /\ <<row>>[1] = row
  OBVIOUS
<1>3. mail.id \notin Overruled
  BY <1>1 DEF Overruled
<1>4. CASE row.pass = "override"
  <2>1. Overruled' = Overruled \cup {mail.id}
    BY <1>1, <1>2, <1>4 DEF Overruled
  <2> QED
    BY <1>3, <1>4, <2>1, RowsAreFinite, FS_AddElement
<1>5. CASE row.pass # "override"
  <2>1. Overruled' = Overruled
    BY <1>1, <1>2, <1>5 DEF Overruled
  <2> QED
    BY <1>5, <2>1, RowsAreFinite
<1> QED
  BY <1>4, <1>5

\* A row and the counters that are bumped with it tell the same.
Tells(names, row) ==
    \A x \in Accounts : x[1] \in names <=> row.pass = x[2] /\ row.decision = x[3]

LEMMA CountedNext ==
    ASSUME OneRow, Counted, NEW mail, NEW row, Writes(mail, row),
           NEW names, Bump(names), Tells(names, row)
    PROVE  /\ Counted'
           /\ \A n \in CounterNames :
                counters'[n] = counters[n] + IF n \in names THEN 1 ELSE 0
<1>1. \A n \in CounterNames : counters'[n] = counters[n] + IF n \in names THEN 1 ELSE 0
  BY DEF Bump, Counted
<1>2. counters' \in [CounterNames -> Nat]
  BY DEF Bump, Counted
<1>3. \A x \in Accounts : x[1] \in CounterNames
  BY DEF Accounts, CounterNames
<1>4. ASSUME NEW x \in Accounts
      PROVE  counters'[x[1]] = Cardinality(Rows(x[2], x[3])')
  <2>1. counters[x[1]] = Cardinality(Rows(x[2], x[3]))
    BY <1>4 DEF Counted
  <2>2. Cardinality(Rows(x[2], x[3])') = Cardinality(Rows(x[2], x[3]))
          + IF row.pass = x[2] /\ row.decision = x[3] THEN 1 ELSE 0
    BY RowsNext
  <2>3. x[1] \in names <=> row.pass = x[2] /\ row.decision = x[3]
    BY <1>4 DEF Tells
  <2> QED
    BY <1>1, <1>3, <1>4, <2>1, <2>2, <2>3
<1> QED
  BY <1>1, <1>2, <1>4 DEF Counted

-----------------------------------------------------------------------------
(* The invariant of a pass *)

Comparing == setting.mode = "compare"

Statics ==
    /\ setting \in Settings
    /\ candidates \in Seq(Mails) /\ Distinct(candidates)
    /\ rest \in Seq(Mails)
    /\ usage \in Seq(SUBSET Ids)
    /\ call = [asked |-> call.asked, message |-> call.message, said |-> call.said,
               usage |-> call.usage]

\* What lies where: the candidates after position h have no row yet, those
\* after position a may still be asked about.
Progress(h, a) ==
    /\ h \in 0 .. Len(candidates) /\ a \in 0 .. Len(candidates)
    /\ stage \in {"route", "batch", "exec", "apply", "api", "compare", "done"}
    /\ Comparing => stage \in {"batch", "exec", "compare", "done"} /\ candidates = Inbox
    /\ ~Comparing => stage # "compare"
    /\ stage = "route" => h = 0 /\ a = 0
    /\ stage \in {"batch", "exec"} => h = IF Comparing THEN 0 ELSE a
    /\ stage = "batch" => Cuts(batches, a)
    /\ stage = "exec" => \E b \in 0 .. Len(candidates) :
                            Cuts(batches, b) /\ IsPart(call.asked, candidates, a, b)
    /\ stage = "apply" => Cuts(batches, a) /\ IsPart(rest, candidates, h, a)
    /\ stage \in {"api", "compare"} => IsPart(rest, candidates, h, Len(candidates))
    /\ stage = "api" => a = h
    /\ stage = "done" => h = Len(candidates)

\* While the mails are routed, none is in two places.
Apart ==
    stage = "route" =>
        /\ Distinct(rest)
        /\ \A i \in DOMAIN rest, k \in DOMAIN candidates : rest[i].id # candidates[k].id

Awaits(h, id) ==
    \/ stage = "route" /\ \E i \in DOMAIN rest : rest[i].id = id
    \/ \E k \in DOMAIN candidates : k > h /\ candidates[k].id = id

Undecided(h) == \A id \in Ids : fates[id] = <<>> <=> Awaits(h, id)

\* What is applied was asked about in the call that answered.
ItTells == stage = "apply" => \A id \in DOMAIN results, i \in DOMAIN rest :
                              rest[i].id \in results[id].asked

InFolder(folder) == Folders # <<>> => folder \in ToSet(Folders)

OwnRow(id, row) == row.pass = "classifier" => id \in row.asked /\ InFolder(row.folder)

Own == \A id \in Ids : fates[id] # <<>> => OwnRow(id, fates[id][1])

\* A row that the decision d of the rules allows, for a mail whose overrides
\* contradict each other or do not.
RowAlike(row, d, torn) ==
    /\ row.pass \in {"override", "skip"} => row.pass = d.source
    /\ row.pass = "override" => NeedsTask(row.decision) = d.task \/ torn
    /\ row.pass = "template" => row.pass = d.source /\ (row.decision = "task") = d.task
    /\ row.pass \in {"classifier", "failed"} =>
         d.source = "agent-needed" \/ (d.source = "template" /\ d.task)

Leftover(d) == d.source = "agent-needed" \/ (d.source = "template" /\ d.task)

Alike ==
    setting.mode = "hybrid" =>
        /\ \A mail \in Mails : fates[mail.id] # <<>> =>
              RowAlike(fates[mail.id][1], DeterministicDecisionFor(mail), Contradicted(mail))
        /\ \A mail \in ToSet(candidates) : Leftover(DeterministicDecisionFor(mail))

PreResolved ==
    counters["template_tasks"] + counters["template_skips"] + counters["skip_sender_count"]

ByModel == counters["apiTaskCount"] + counters["apiSkipCount"] + counters["apiFailureCount"]

ByAgent ==
    counters["agentTaskCount"] + counters["agentSkipCount"] + counters["missingAgentCount"]

ByRules ==
    counters["deterministicTaskCount"] + counters["deterministicSkipCount"]
      + counters["deterministicAgentNeededCount"]

Unrouted == IF stage = "route" THEN Len(rest) ELSE 0

Sums(h) ==
    /\ ~Comparing => /\ PreResolved + Cardinality(Overruled) + Len(candidates) + Unrouted
                          = Len(Inbox)
                     /\ ByModel = h
    /\ Comparing => ByAgent = h /\ ByRules = h

Paid(a) ==
    /\ \A i \in DOMAIN usage : \A id \in usage[i] : \E k \in 1 .. a : candidates[k].id = id
    /\ \A i, j \in DOMAIN usage : i # j => usage[i] \cap usage[j] = {}

PassInv ==
    /\ Statics /\ OneRow /\ Counted /\ Apart /\ ItTells /\ Own /\ Alike
    /\ \E h, a : Progress(h, a) /\ Undecided(h) /\ Sums(h) /\ Paid(a)

-----------------------------------------------------------------------------
(* At the end it says what the pass is checked for *)

LEMMA PassInvAddsUp ==
    ASSUME PassInv, stage = "done"
    PROVE  EachOnce /\ ByItsOwnCall /\ RulesReadAlike /\ UsageOnce
<1>1. PICK h, a : Progress(h, a) /\ Undecided(h) /\ Sums(h) /\ Paid(a)
  BY DEF PassInv
<1>2. /\ h = Len(candidates) /\ a \in 0 .. Len(candidates) /\ Len(candidates) \in Nat
      /\ DOMAIN candidates = 1 .. Len(candidates)
  BY <1>1 DEF Progress, PassInv, Statics
<1>3. ASSUME NEW id \in Ids
      PROVE  \E row : fates[id] = <<row>>
  <2>1. ~Awaits(h, id)
    BY <1>2 DEF Awaits
  <2>2. fates[id] # <<>>
    BY <1>1, <2>1 DEF Undecided
  <2> QED
    BY <2>2 DEF PassInv, OneRow
<1>4. \A id \in Ids : Len(fates[id]) = 1 /\ fates[id] # <<>>
  <2>1. \A row : Len(<<row>>) = 1 /\ <<row>> # <<>>
    OBVIOUS
  <2> QED
    BY <1>3, <2>1
<1>5. /\ \A p, d : DecidedBy(p, d) = Cardinality(Rows(p, d))
      /\ Cardinality(Overridden) = Cardinality(Overruled)
  <2>1. ASSUME NEW p, NEW d
        PROVE  {id \in Ids : fates[id][1].pass = p /\ fates[id][1].decision = d} = Rows(p, d)
    BY <1>4 DEF Rows
  <2>2. Overridden = Overruled
    BY <1>4 DEF Overridden, Overruled
  <2> QED
    BY <2>1, <2>2 DEF DecidedBy
<1>6. EachOnce
  <2>1. /\ counters["template_tasks"] = DecidedBy("template", "task")
        /\ counters["apiTaskCount"] = DecidedBy("classifier", "task")
        /\ counters["apiFailureCount"] = DecidedBy("failed", "pending")
        /\ counters["agreementCount"] = DecidedBy("compare", "compare-agree")
        /\ counters["disagreementCount"] = DecidedBy("compare", "compare-disagree")
    BY <1>5 DEF PassInv, Counted, Accounts
  <2>2. ASSUME setting.mode # "compare"
        PROVE  /\ Summary.preResolved + Summary.classified + Cardinality(Overridden)
                    = Summary.scanned
               /\ Summary.classified
                    = counters["apiTaskCount"] + counters["apiSkipCount"] + Summary.failed
               /\ Summary.tasks = DecidedBy("template", "task") + DecidedBy("classifier", "task")
               /\ Summary.failed = DecidedBy("failed", "pending")
    <3>1. /\ PreResolved + Cardinality(Overruled) + Len(candidates) + Unrouted = Len(Inbox)
          /\ ByModel = h /\ Unrouted = 0
      BY <1>1, <2>2 DEF Sums, Comparing, Unrouted
    <3>2. Cardinality(Overruled) \in Nat /\ PreResolved \in Nat
      BY RowsAreFinite DEF PassInv, Counted, CounterNames, PreResolved
    <3>3. /\ Summary.preResolved = PreResolved /\ Summary.classified = Len(candidates)
          /\ Summary.failed = counters["apiFailureCount"] /\ Summary.scanned = Len(Inbox)
          /\ Summary.tasks = counters["template_tasks"] + counters["apiTaskCount"]
      BY <2>2 DEF Summary, PreResolved
    <3>4. PreResolved + Len(candidates) + Cardinality(Overruled) = Len(Inbox)
      BY <1>2, <3>1, <3>2
    <3> QED
      BY <1>2, <1>5, <2>1, <3>1, <3>3, <3>4 DEF ByModel
  <2>3. ASSUME setting.mode = "compare"
        PROVE  /\ ByAgent = Summary.scanned /\ ByRules = Summary.scanned
    <3>1. candidates = Inbox /\ ByAgent = h /\ ByRules = h
      BY <1>1, <2>3 DEF Progress, Sums, Comparing
    <3> QED
      BY <1>2, <3>1 DEF Summary
  <2> QED
    BY <1>4, <2>1, <2>2, <2>3 DEF EachOnce, ByAgent, ByRules
<1>7. ByItsOwnCall
  BY <1>4 DEF PassInv, Own, OwnRow, InFolder, ByItsOwnCall
<1>8. RulesReadAlike
  <2>1. ASSUME setting.mode = "hybrid", NEW i \in DOMAIN Inbox
        PROVE  RowAlike(fates[Inbox[i].id][1], DeterministicDecisionFor(Inbox[i]),
                        Contradicted(Inbox[i]))
    <3>1. Inbox[i] \in Mails /\ Inbox[i].id \in Ids
      BY InboxIs
    <3> QED
      BY <1>4, <2>1, <3>1 DEF PassInv, Alike
  <2> QED
    BY <2>1 DEF RulesReadAlike, RowAlike
<1>9. UsageOnce
  <2>1. ASSUME NEW x \in UNION ToSet(usage)
        PROVE  x \in IdsOf(candidates)
    <3>1. PICK i \in DOMAIN usage : x \in usage[i]
      BY <2>1 DEF ToSet
    <3>2. PICK k \in 1 .. a : candidates[k].id = x
      BY <1>1, <3>1 DEF Paid
    <3>3. k \in DOMAIN candidates
      BY <1>2
    <3> QED
      BY <3>2, <3>3 DEF IdsOf
  <2> QED
    BY <1>1, <2>1 DEF UsageOnce, Paid
<1> QED
  BY <1>6, <1>7, <1>8, <1>9

-----------------------------------------------------------------------------
(* Steps that decide nothing *)

\* What has elements, all of them up to some number, has a least and a greatest.
LEMMA EndsAreIn ==
    ASSUME NEW n \in Nat, NEW S, S \subseteq 1 .. n, S # {}
    PROVE  Min(S) \in S /\ Max(S) \in S
<1>1. PICK R : R = {ss \in Nat \X Nat : ss[1] < ss[2]}
  OBVIOUS
<1>2. IsWellFoundedOn(R, Nat)
  BY <1>1, NatLessThanWellFounded DEF OpToRel
<1>0. \A y \in S : y \in Nat /\ y <= n /\ n - y \in Nat
  OBVIOUS
<1>3. Min(S) \in S
  <2>1. PICK x \in S : \A y \in S : ~(<<y, x>> \in R)
    BY <1>0, <1>2, WFMin
  <2>2. ASSUME NEW y \in S PROVE x <= y
    <3>1. ~(y < x) /\ x \in Nat /\ y \in Nat
      BY <1>0, <1>1, <2>1
    <3> QED
      BY <3>1
  <2> QED
    BY <2>2 DEF Min
<1>4. Max(S) \in S
  <2>1. PICK D : D = {n - y : y \in S}
    OBVIOUS
  <2>2. D \subseteq Nat /\ D # {}
    BY <1>0, <2>1
  <2>3. PICK d \in D : \A e \in D : ~(<<e, d>> \in R)
    BY <1>2, <2>2, WFMin
  <2>4. PICK x \in S : d = n - x
    BY <2>1
  <2>5. ASSUME NEW y \in S PROVE x >= y
    <3>1. n - y \in D /\ ~(n - y < n - x)
      BY <1>0, <1>1, <2>1, <2>3, <2>4
    <3> QED
      BY <1>0, <3>1
  <2> QED
    BY <2>5 DEF Max
<1> QED
  BY <1>3, <1>4

LEMMA SameRules ==
    ASSUME setting' = setting, NEW mail
    PROVE  /\ DeterministicDecisionFor(mail)' = DeterministicDecisionFor(mail)
           /\ Contradicted(mail)' = Contradicted(mail)
<1>1. OverrideFor(mail)' = OverrideFor(mail)
  BY DEF OverrideFor, FirstOf, NoRule
<1>2. MatchActionTemplate(mail)' = MatchActionTemplate(mail)
  BY DEF MatchActionTemplate, FirstOf, SenderMatches, NoRule
<1>3. MatchSkipSender(mail)' = MatchSkipSender(mail)
  BY DEF MatchSkipSender, FirstOf, SenderMatches, NoRule
<1> QED
  BY <1>1, <1>2, <1>3 DEF DeterministicDecisionFor, NeedsTask, Contradicted

\* The scan and the comparison find an override of the same mails, and one that
\* decides alike unless two contradict each other.
LEMMA OverridesAre ==
    ASSUME setting \in Settings, NEW mail
    PROVE  /\ OverrideById(mail) = NoRule <=> OverrideFor(mail) = NoRule
           /\ OverrideById(mail) # NoRule =>
                \/ Contradicted(mail)
                \/ OverrideById(mail).decision = OverrideFor(mail).decision
<1>1. PICK hits : hits = {i \in DOMAIN setting.overrides : setting.overrides[i].id = mail.id}
  OBVIOUS
<1>2. PICK n \in Nat : DOMAIN setting.overrides = 1 .. n
  BY CascadeAssumption
<1>3. hits \subseteq 1 .. n
  BY <1>1, <1>2
<1>4. /\ OverrideFor(mail) = IF hits = {} THEN NoRule ELSE setting.overrides[Min(hits)]
      /\ OverrideById(mail) = IF hits = {} THEN NoRule ELSE setting.overrides[Max(hits)]
  BY <1>1 DEF OverrideFor, OverrideById, FirstOf
<1>5. CASE hits = {}
  BY <1>4, <1>5
<1>6. CASE hits # {}
  <2>1. Min(hits) \in hits /\ Max(hits) \in hits
    BY <1>2, <1>3, <1>6, EndsAreIn
  <2>2. \A i \in hits : setting.overrides[i] # NoRule
    BY <1>1, CascadeAssumption DEF NoRule
  <2> QED
    BY <1>1, <1>4, <1>6, <2>1, <2>2 DEF Contradicted
<1> QED
  BY <1>5, <1>6

Quiet == UNCHANGED <<setting, candidates, counters, fates>>

LEMMA QuietKeeps ==
    ASSUME OneRow, Counted, Own, Alike, Quiet
    PROVE  OneRow' /\ Counted' /\ Own' /\ Alike'
<1>1. OneRow'
  BY DEF OneRow, Quiet
<1>2. Counted'
  BY DEF Counted, Quiet, Rows
<1>3. Own'
  BY DEF Own, Quiet
<1>4. Alike'
  <2>1. /\ setting' = setting /\ fates' = fates /\ ToSet(candidates') = ToSet(candidates)
        /\ setting'.mode = setting.mode
    BY DEF Quiet
  <2>2. ASSUME setting.mode = "hybrid", NEW mail \in Mails, fates[mail.id] # <<>>
        PROVE  RowAlike(fates[mail.id][1], DeterministicDecisionFor(mail)', Contradicted(mail)')
    BY <2>1, <2>2, SameRules DEF Alike
  <2>3. ASSUME setting.mode = "hybrid", NEW mail \in ToSet(candidates)
        PROVE  Leftover(DeterministicDecisionFor(mail)')
    BY <2>1, <2>3, SameRules DEF Alike
  <2> QED
    BY <2>1, <2>2, <2>3 DEF Alike
<1> QED
  BY <1>1, <1>2, <1>3, <1>4

\* What waits for its row, and the sums, are as before once the mails are routed.
LEMMA QuietCounts ==
    ASSUME Quiet, NEW h, Undecided(h), Sums(h), stage' # "route",
           stage = "route" => rest = <<>>
    PROVE  Undecided(h)' /\ Sums(h)'
<1>1. ASSUME NEW id \in Ids
      PROVE  Awaits(h, id)' <=> Awaits(h, id)
  BY DEF Awaits, Quiet
<1>2. Undecided(h)'
  BY <1>1 DEF Undecided, Quiet
<1>3. Unrouted' = Unrouted
  BY DEF Unrouted
<1>4. /\ PreResolved' = PreResolved /\ ByModel' = ByModel /\ ByAgent' = ByAgent
      /\ ByRules' = ByRules /\ Overruled' = Overruled /\ (Comparing' <=> Comparing)
      /\ candidates' = candidates
  BY DEF PreResolved, ByModel, ByAgent, ByRules, Overruled, Comparing, Quiet
<1> QED
  BY <1>2, <1>3, <1>4 DEF Sums

LEMMA QuietPaid ==
    ASSUME NEW a, Paid(a), UNCHANGED <<candidates, usage>>
    PROVE  Paid(a)'
BY DEF Paid

\* The parts of a step that decides nothing and writes no usage.
LEMMA QuietStep ==
    ASSUME PassInv, Quiet, usage' = usage, rest' \in Seq(Mails),
           call' = [asked |-> call'.asked, message |-> call'.message, said |-> call'.said,
                    usage |-> call'.usage],
           stage' # "route", stage = "route" => rest = <<>>, ItTells',
           NEW h, NEW a, Undecided(h), Sums(h), Paid(a), Progress(h, a)'
    PROVE  PassInv'
<1>1. Statics' /\ Apart'
  BY DEF PassInv, Statics, Apart, Quiet, Distinct
<1>2. OneRow' /\ Counted' /\ Own' /\ Alike'
  BY QuietKeeps DEF PassInv
<1>3. Undecided(h)' /\ Sums(h)'
  BY QuietCounts
<1>4. Paid(a)'
  BY QuietPaid DEF Quiet
<1> QED
  BY <1>1, <1>2, <1>3, <1>4 DEF PassInv

LEMMA RoutedKeeps == ASSUME PassInv, Routed PROVE PassInv'
<1>1. PICK h, a : Progress(h, a) /\ Undecided(h) /\ Sums(h) /\ Paid(a)
  BY DEF PassInv
<1>2. /\ stage = "route" /\ rest = <<>> /\ h = 0 /\ a = 0 /\ ~Comparing
      /\ candidates \in Seq(Mails) /\ Len(candidates) \in Nat
  BY <1>1 DEF Routed, Progress, PassInv, Statics
<1>3. Quiet /\ usage' = usage /\ call' = call /\ candidates' = candidates /\ setting' = setting
  BY DEF Routed, Quiet
<1>4. /\ rest' \in Seq(Mails) /\ stage' \in {"done", "api", "batch"} /\ (Comparing' <=> Comparing)
  BY <1>2, <1>3 DEF Routed, Comparing, PassInv, Statics
<1>5. Progress(h, a)'
  <2>1. CASE stage' = "done"
    <3>1. candidates = <<>>
      BY <2>1 DEF Routed
    <3> QED
      BY <1>2, <1>3, <1>4, <2>1, <3>1 DEF Progress
  <2>2. CASE stage' = "api"
    <3>1. rest' = candidates
      BY <2>2 DEF Routed
    <3>2. IsPart(candidates, candidates, 0, Len(candidates))
      BY <1>2, PartWhole
    <3> QED
      BY <1>2, <1>3, <1>4, <2>2, <3>1, <3>2 DEF Progress
  <2>3. CASE stage' = "batch"
    <3>1. batches' = ChunksOf(candidates)
      BY <2>3 DEF Routed
    <3>2. Cuts(batches, 0)'
      BY <1>2, <1>3, <3>1, ChunksCut DEF Cuts, CutsAt
    <3> QED
      BY <1>2, <1>3, <1>4, <2>3, <3>2 DEF Progress
  <2> QED
    BY <1>4, <2>1, <2>2, <2>3
<1>6. ItTells'
  BY <1>4 DEF ItTells
<1> QED
  BY <1>1, <1>2, <1>3, <1>4, <1>5, <1>6, QuietStep DEF PassInv, Statics

LEMMA StartBatchKeeps == ASSUME PassInv, StartBatch PROVE PassInv'
<1>1. PICK h, a : Progress(h, a) /\ Undecided(h) /\ Sums(h) /\ Paid(a)
  BY DEF PassInv
<1>2. /\ stage = "batch" /\ stage' = "exec" /\ Cuts(batches, a) /\ batches # <<>>
      /\ batches' = Tail(batches) /\ candidates' = candidates /\ setting' = setting
      /\ rest' = rest
  BY <1>1 DEF StartBatch, Progress
<1>3. Quiet /\ usage' = usage /\ ItTells' /\ (Comparing' <=> Comparing)
  BY <1>2 DEF StartBatch, Quiet, ItTells, Comparing
<1>4. /\ call' = [NoCall EXCEPT !.asked = Head(batches)] /\ call'.asked = Head(batches)
      /\ call' = [asked |-> call'.asked, message |-> call'.message, said |-> call'.said,
                  usage |-> call'.usage]
  BY DEF StartBatch, NoCall
<1>5. PICK b \in 0 .. Len(candidates) : /\ IsPart(Head(batches), candidates, a, b)
                                        /\ Cuts(Tail(batches), b)
  BY <1>2, CutsTail
<1>6. Cuts(batches, b)' /\ IsPart(call.asked, candidates, a, b)'
  BY <1>2, <1>4, <1>5 DEF Cuts, CutsAt
<1>7. Progress(h, a)'
  BY <1>1, <1>2, <1>3, <1>6 DEF Progress
<1>8. rest' \in Seq(Mails)
  BY <1>2 DEF PassInv, Statics
<1> QED
  BY <1>1, <1>2, <1>3, <1>4, <1>7, <1>8, QuietStep

LEMMA PrintsKeeps == ASSUME PassInv, Prints PROVE PassInv'
<1>1. PICK h, a : Progress(h, a) /\ Undecided(h) /\ Sums(h) /\ Paid(a)
  BY DEF PassInv
<1>2. /\ stage = "exec" /\ stage' = "exec" /\ batches' = batches /\ candidates' = candidates
      /\ setting' = setting /\ rest' = rest
  BY DEF Prints
<1>3. Quiet /\ usage' = usage /\ ItTells' /\ (Comparing' <=> Comparing)
  BY <1>2 DEF Prints, Quiet, ItTells, Comparing
<1>4. /\ call'.asked = call.asked
      /\ call' = [asked |-> call'.asked, message |-> call'.message, said |-> call'.said,
                  usage |-> call'.usage]
  BY DEF Prints, PassInv, Statics
<1>5. PICK b \in 0 .. Len(candidates) : Cuts(batches, b) /\ IsPart(call.asked, candidates, a, b)
  BY <1>1, <1>2 DEF Progress
<1>6. Cuts(batches, b)' /\ IsPart(call.asked, candidates, a, b)'
  BY <1>2, <1>4, <1>5 DEF Cuts, CutsAt
<1>7. Progress(h, a)'
  BY <1>1, <1>2, <1>3, <1>6 DEF Progress
<1>8. rest' \in Seq(Mails)
  BY <1>2 DEF PassInv, Statics
<1> QED
  BY <1>1, <1>2, <1>3, <1>4, <1>7, <1>8, QuietStep

\* A call is over: its mails are paid for at most once.
LEMMA PartIsPaid ==
    ASSUME candidates \in Seq(Mails), Distinct(candidates), usage \in Seq(SUBSET Ids),
           NEW s, NEW a, NEW b \in 0 .. Len(candidates), IsPart(s, candidates, a, b), Paid(a),
           candidates' = candidates,
           usage' = usage \/ usage' = Append(usage, IdsOf(s))
    PROVE  Paid(b)' /\ usage' \in Seq(SUBSET Ids)
<1>1. /\ a \in Nat /\ b \in Nat /\ a <= b /\ Len(candidates) \in Nat /\ b <= Len(candidates)
      /\ DOMAIN candidates = 1 .. Len(candidates) /\ DOMAIN usage = 1 .. Len(usage)
      /\ Len(usage) \in Nat /\ s \in Seq(Mails) /\ Len(s) = b - a /\ DOMAIN s = 1 .. b - a
  BY DEF IsPart
<1>2. ASSUME NEW i \in DOMAIN usage, NEW id \in usage[i]
      PROVE  \E k \in 1 .. b : candidates[k].id = id
  <2>1. PICK k \in 1 .. a : candidates[k].id = id
    BY <1>2 DEF Paid
  <2> QED
    BY <1>1, <2>1
<1>3. ASSUME NEW id \in IdsOf(s)
      PROVE  /\ id \in Ids /\ \E k \in 1 .. b : candidates[k].id = id
             /\ \A i \in DOMAIN usage : id \notin usage[i]
  <2>1. PICK j \in 1 .. b - a : id = s[j].id
    BY <1>1, <1>3 DEF IdsOf
  <2>2. s[j] = candidates[a + j] /\ a + j \in 1 .. b /\ a + j > a /\ s[j] \in Mails
    BY <1>1, <2>1 DEF IsPart
  <2>3. ASSUME NEW i \in DOMAIN usage, id \in usage[i]
        PROVE  FALSE
    <3>1. PICK k \in 1 .. a : candidates[k].id = id
      BY <2>3 DEF Paid
    <3>2. k \in DOMAIN candidates /\ a + j \in DOMAIN candidates
      BY <1>1, <2>2
    <3>3. k = a + j
      BY <2>1, <2>2, <3>1, <3>2 DEF Distinct
    <3> QED
      BY <1>1, <2>2, <3>3
  <2> QED
    BY <2>1, <2>2, <2>3, InboxIs
<1>4. CASE usage' = usage
  BY <1>2, <1>4 DEF Paid
<1>5. CASE usage' = Append(usage, IdsOf(s))
  <2>1. IdsOf(s) \in SUBSET Ids
    BY <1>3
  <2>2. /\ usage' \in Seq(SUBSET Ids) /\ DOMAIN usage' = 1 .. Len(usage) + 1
        /\ \A i \in 1 .. Len(usage) : usage'[i] = usage[i]
        /\ usage'[Len(usage) + 1] = IdsOf(s)
    BY <1>1, <1>5, <2>1
  <2>3. \A i \in 1 .. Len(usage) + 1 : i \in 1 .. Len(usage) \/ i = Len(usage) + 1
    BY <1>1
  <2>4. \A i \in DOMAIN usage' : \A id \in usage'[i] : \E k \in 1 .. b : candidates[k].id = id
    BY <1>1, <1>2, <1>3, <2>2, <2>3
  <2>5. \A i \in DOMAIN usage : usage[i] \cap IdsOf(s) = {}
    BY <1>3
  <2>6. \A i, j \in DOMAIN usage' : i # j => usage'[i] \cap usage'[j] = {}
    BY <1>1, <2>2, <2>3, <2>5 DEF Paid
  <2> QED
    BY <2>2, <2>4, <2>6 DEF Paid
<1> QED
  BY <1>4, <1>5

LEMMA ReturnsKeeps ==
    ASSUME PassInv, stage = "exec", NEW got, Returns(got), Quiet, batches' = batches,
           usage' = usage \/ usage' = Append(usage, IdsOf(call.asked))
    PROVE  PassInv'
<1>1. PICK h, a : Progress(h, a) /\ Undecided(h) /\ Sums(h) /\ Paid(a)
  BY DEF PassInv
<1>2. PICK b \in 0 .. Len(candidates) : Cuts(batches, b) /\ IsPart(call.asked, candidates, a, b)
  BY <1>1 DEF Progress
<1>3. /\ candidates' = candidates /\ setting' = setting /\ (Comparing' <=> Comparing)
      /\ stage' = IF Comparing THEN "batch" ELSE "apply"
      /\ rest' = IF Comparing THEN rest ELSE call.asked
      /\ call' = NoCall
  BY DEF Quiet, Comparing, Returns
<1>4. call.asked \in Seq(Mails) /\ DOMAIN call.asked = 1 .. Len(call.asked)
  BY <1>2 DEF IsPart
<1>5. Statics'
  <2>1. usage' \in Seq(SUBSET Ids)
    BY <1>1, <1>2, <1>3, PartIsPaid DEF PassInv, Statics
  <2>2. NoCall = [asked |-> NoCall.asked, message |-> NoCall.message, said |-> NoCall.said,
                  usage |-> NoCall.usage]
    BY DEF NoCall
  <2>3. call' = [asked |-> call'.asked, message |-> call'.message, said |-> call'.said,
                 usage |-> call'.usage]
    BY <1>3, <2>2
  <2> QED
    BY <1>3, <1>4, <2>1, <2>3 DEF PassInv, Statics, Distinct
<1>6. OneRow' /\ Counted' /\ Own' /\ Alike'
  BY QuietKeeps DEF PassInv
<1>7. Apart' /\ stage' # "route"
  BY <1>3 DEF Apart
<1>8. ItTells'
  <2>1. ASSUME stage' = "apply", NEW id \in DOMAIN results', NEW i \in DOMAIN rest'
        PROVE  rest'[i].id \in results'[id].asked
    <3>1. ~Comparing /\ rest' = call.asked
      BY <1>3, <2>1
    <3>2. results' = [x \in DOMAIN got |-> [said |-> got[x], asked |-> IdsOf(call.asked)]]
      BY <3>1 DEF Returns, Kept, Comparing
    <3>3. results'[id].asked = IdsOf(call.asked)
      BY <2>1, <3>2
    <3>4. i \in DOMAIN call.asked /\ rest'[i].id = call.asked[i].id
      BY <2>1, <3>1
    <3> QED
      BY <3>3, <3>4 DEF IdsOf
  <2> QED
    BY <2>1 DEF ItTells
<1>9. Undecided(h)' /\ Sums(h)'
  BY <1>1, <1>7, QuietCounts
<1>10. Paid(b)'
  BY <1>1, <1>2, <1>3, PartIsPaid DEF PassInv, Statics
<1>11. Cuts(batches, b)'
  BY <1>2, <1>3 DEF Cuts, CutsAt
<1>12. CASE Comparing
  <2>1. Progress(h, b)'
    BY <1>1, <1>2, <1>3, <1>11, <1>12 DEF Progress
  <2> QED
    BY <1>5, <1>6, <1>7, <1>8, <1>9, <1>10, <2>1 DEF PassInv
<1>13. CASE ~Comparing
  <2>1. h = a /\ a \in 0 .. Len(candidates)
    BY <1>1, <1>13 DEF Progress
  <2>2. IsPart(rest, candidates, h, b)'
    BY <1>2, <1>3, <1>13, <2>1 DEF IsPart
  <2>3. Progress(h, b)'
    BY <1>1, <1>2, <1>3, <1>11, <1>13, <2>1, <2>2 DEF Progress
  <2> QED
    BY <1>5, <1>6, <1>7, <1>8, <1>9, <1>10, <2>3 DEF PassInv
<1> QED
  BY <1>12, <1>13

LEMMA ExecKeeps == ASSUME PassInv, CodexExits \/ ExecFails PROVE PassInv'
<1>1. /\ stage = "exec" /\ Quiet /\ batches' = batches
      /\ usage' = usage \/ usage' = Append(usage, IdsOf(call.asked))
  BY DEF CodexExits, ExecFails, Quiet
<1>2. \E got : Returns(got)
  BY DEF CodexExits, ExecFails
<1> QED
  BY <1>1, <1>2, ReturnsKeeps

LEMMA AllAskedKeeps == ASSUME PassInv, AllAsked PROVE PassInv'
<1>1. PICK h, a : Progress(h, a) /\ Undecided(h) /\ Sums(h) /\ Paid(a)
  BY DEF PassInv
<1>2. /\ stage = "batch" /\ Cuts(batches, a) /\ batches = <<>> /\ candidates' = candidates
      /\ setting' = setting /\ (Comparing' <=> Comparing) /\ call' = call
      /\ h = IF Comparing THEN 0 ELSE a
      /\ stage' = IF Comparing THEN "compare" ELSE "done"
      /\ rest' = IF Comparing THEN candidates ELSE rest
  BY <1>1 DEF AllAsked, Progress, Comparing
<1>3. Quiet /\ usage' = usage /\ ItTells'
  BY <1>2 DEF AllAsked, Quiet, ItTells
<1>4. a = Len(candidates) /\ candidates \in Seq(Mails) /\ rest' \in Seq(Mails)
  BY <1>2, CutsNothing DEF PassInv, Statics
<1>5. IsPart(candidates, candidates, 0, Len(candidates))
  BY <1>4, PartWhole
<1>6. Progress(h, a)'
  BY <1>1, <1>2, <1>4, <1>5 DEF Progress
<1> QED
  BY <1>1, <1>2, <1>3, <1>4, <1>6, QuietStep DEF PassInv, Statics

LEMMA EndsKeep == ASSUME PassInv, BatchApplied \/ ApiDone \/ Compared PROVE PassInv'
<1>1. PICK h, a : Progress(h, a) /\ Undecided(h) /\ Sums(h) /\ Paid(a)
  BY DEF PassInv
<1>2. /\ rest = <<>> /\ rest' = rest /\ candidates' = candidates /\ batches' = batches
      /\ setting' = setting /\ (Comparing' <=> Comparing) /\ call' = call
      /\ stage \in {"apply", "api", "compare"}
      /\ stage' = IF stage = "apply" THEN "batch" ELSE "done"
  BY DEF BatchApplied, ApiDone, Compared, Comparing
<1>3. Quiet /\ usage' = usage /\ ItTells'
  BY <1>2 DEF BatchApplied, ApiDone, Compared, Quiet, ItTells
<1>4. Progress(h, a)'
  <2>1. CASE stage = "apply"
    <3>1. h = a /\ Cuts(batches, a) /\ ~Comparing
      BY <1>1, <1>2, <2>1, PartEmpty DEF Progress
    <3>2. Cuts(batches, a)'
      BY <1>2, <3>1 DEF Cuts, CutsAt
    <3> QED
      BY <1>1, <1>2, <2>1, <3>1, <3>2 DEF Progress
  <2>2. CASE stage \in {"api", "compare"}
    <3>1. h = Len(candidates)
      BY <1>1, <1>2, <2>2, PartEmpty DEF Progress
    <3> QED
      BY <1>1, <1>2, <2>2, <3>1 DEF Progress
  <2> QED
    BY <1>2, <2>1, <2>2
<1> QED
  BY <1>1, <1>2, <1>3, <1>4, QuietStep DEF PassInv, Statics

-----------------------------------------------------------------------------
(* Steps that write a row *)

Decides(mail, names, row) ==
    /\ Writes(mail, row) /\ Bump(names) /\ Tells(names, row)
    /\ OwnRow(mail.id, row)
    /\ setting.mode = "hybrid" => RowAlike(row, DeterministicDecisionFor(mail), Contradicted(mail))

LEMMA DecidesKeeps ==
    ASSUME OneRow, Counted, Own, Alike, NEW mail, NEW names, NEW row,
           Decides(mail, names, row), UNCHANGED <<setting, candidates>>
    PROVE  OneRow' /\ Counted' /\ Own' /\ Alike'
<1>1. /\ OneRow' /\ mail.id \in Ids /\ fates'[mail.id] = <<row>>
      /\ \A id \in Ids \ {mail.id} : fates'[id] = fates[id]
  BY WritesIs DEF Decides
<1>2. Counted'
  BY CountedNext DEF Decides
<1>3. <<row>>[1] = row
  OBVIOUS
<1>4. Own'
  <2>1. ASSUME NEW id \in Ids, fates'[id] # <<>>
        PROVE  OwnRow(id, fates'[id][1])
    BY <1>1, <1>3, <2>1 DEF Own, Decides
  <2> QED
    BY <2>1 DEF Own
<1>5. Alike'
  <2>1. /\ setting' = setting /\ ToSet(candidates') = ToSet(candidates)
        /\ setting'.mode = setting.mode
    OBVIOUS
  <2>2. ASSUME setting.mode = "hybrid", NEW m \in Mails, fates'[m.id] # <<>>
        PROVE  RowAlike(fates'[m.id][1], DeterministicDecisionFor(m)', Contradicted(m)')
    <3>1. /\ DeterministicDecisionFor(m)' = DeterministicDecisionFor(m)
          /\ Contradicted(m)' = Contradicted(m)
      BY <2>1, SameRules
    <3>2. CASE m.id = mail.id
      <4>1. m = mail
        BY <3>2, InboxIs DEF Decides, Writes
      <4> QED
        BY <1>1, <1>3, <2>2, <3>1, <4>1 DEF Decides
    <3>3. CASE m.id # mail.id
      BY <1>1, <2>2, <3>1, <3>3, InboxIs DEF Alike
    <3> QED
      BY <3>2, <3>3
  <2>3. ASSUME setting.mode = "hybrid", NEW m \in ToSet(candidates)
        PROVE  Leftover(DeterministicDecisionFor(m)')
    BY <2>1, <2>3, SameRules DEF Alike
  <2> QED
    BY <2>1, <2>2, <2>3 DEF Alike
<1> QED
  BY <1>1, <1>2, <1>4, <1>5

\* The head of what is left to do is the next candidate, and has no row.
LEMMA HeadIsNext ==
    ASSUME PassInv, NEW h, NEW a, Progress(h, a), Undecided(h), rest # <<>>,
           stage \in {"apply", "api", "compare"}
    PROVE  /\ h \in Nat /\ h + 1 \in 1 .. Len(candidates)
           /\ Head(rest) = candidates[h + 1] /\ Head(rest) \in Mails /\ rest[1] = Head(rest)
           /\ fates[Head(rest).id] = <<>>
           /\ Tail(rest) \in Seq(Mails)
           /\ IsPart(Tail(rest), candidates, h + 1,
                     IF stage = "apply" THEN a ELSE Len(candidates))
<1>1. PICK m : m = IF stage = "apply" THEN a ELSE Len(candidates)
  OBVIOUS
<1>2. /\ IsPart(rest, candidates, h, m) /\ m \in 0 .. Len(candidates) /\ h \in Nat
      /\ Len(candidates) \in Nat /\ DOMAIN candidates = 1 .. Len(candidates)
  BY <1>1 DEF Progress, PassInv, Statics
<1>3. /\ h < m /\ Head(rest) = candidates[h + 1] /\ Head(rest) \in Mails /\ rest[1] = Head(rest)
      /\ IsPart(Tail(rest), candidates, h + 1, m)
  BY <1>2, PartTail
<1>4. h + 1 \in 1 .. Len(candidates) /\ h + 1 > h
  BY <1>2, <1>3
<1>5. Head(rest).id \in Ids
  BY <1>3, InboxIs
<1>6. Awaits(h, Head(rest).id)
  BY <1>2, <1>3, <1>4 DEF Awaits
<1>7. fates[Head(rest).id] = <<>>
  BY <1>5, <1>6 DEF Undecided
<1> QED
  BY <1>1, <1>2, <1>3, <1>4, <1>7 DEF IsPart

LEMMA UndecidedNext ==
    ASSUME OneRow, candidates \in Seq(Mails), Distinct(candidates),
           NEW h \in Nat, h + 1 \in 1 .. Len(candidates), Undecided(h),
           NEW row, Writes(candidates[h + 1], row),
           stage # "route", stage' = stage, candidates' = candidates
    PROVE  Undecided(h + 1)'
<1> DEFINE mail == candidates[h + 1]
<1>1. /\ mail.id \in Ids /\ fates'[mail.id] = <<row>>
      /\ \A id \in Ids \ {mail.id} : fates'[id] = fates[id]
  BY WritesIs
<1>2. DOMAIN candidates = 1 .. Len(candidates) /\ Len(candidates) \in Nat
  OBVIOUS
<1>3. ASSUME NEW id \in Ids
      PROVE  fates'[id] = <<>> <=> \E k \in DOMAIN candidates : k > h + 1 /\ candidates[k].id = id
  <2>1. fates[id] = <<>> <=> \E k \in DOMAIN candidates : k > h /\ candidates[k].id = id
    BY DEF Undecided, Awaits
  <2>2. CASE id = mail.id
    <3>1. \A k \in DOMAIN candidates : candidates[k].id = id => ~(k > h + 1)
      BY <1>2, <2>2 DEF Distinct
    <3>2. <<row>> # <<>>
      OBVIOUS
    <3>3. fates'[id] # <<>>
      BY <1>1, <2>2, <3>2
    <3> QED
      BY <3>1, <3>3
  <2>3. CASE id # mail.id
    <3>1. \A k \in DOMAIN candidates : k > h /\ candidates[k].id = id => k > h + 1
      BY <1>2, <2>3
    <3>2. \A k \in DOMAIN candidates : k > h + 1 => k > h
      BY <1>2
    <3> QED
      BY <1>1, <2>1, <2>3, <3>1, <3>2
  <2> QED
    BY <2>2, <2>3
<1> QED
  BY <1>3 DEF Undecided, Awaits

\* A verdict of the model, or none, makes one row and bumps one counter.
FromModel(mail) ==
    \E names, row :
        /\ Decides(mail, names, row) /\ row.pass # "override"
        /\ \E n \in {"apiTaskCount", "apiSkipCount", "apiFailureCount"} : names = {n}

LEMMA FoldersHold ==
    ASSUME NEW folder
    PROVE  InFolder(ValidateSortFolder(folder))
<1>1. Folders # <<>> => Head(Folders) \in ToSet(Folders)
  BY CascadeAssumption
<1> QED
  BY <1>1 DEF ValidateSortFolder, InFolder

LEMMA FailsIsFromModel ==
    ASSUME NEW mail \in Mails, fates[mail.id] = <<>>, Fails(mail),
           setting.mode = "hybrid" => Leftover(DeterministicDecisionFor(mail))
    PROVE  FromModel(mail)
<1>1. PICK row : row = [pass |-> "failed", decision |-> "pending"]
  OBVIOUS
<1>2. row.pass = "failed" /\ row.decision = "pending"
  BY <1>1
<1>3. Tells({"apiFailureCount"}, row)
  BY <1>2 DEF Tells, Accounts
<1>4. Decides(mail, {"apiFailureCount"}, row)
  BY <1>1, <1>2, <1>3 DEF Fails, Decides, Writes, OwnRow, RowAlike, Leftover
<1> QED
  BY <1>2, <1>4 DEF FromModel

LEMMA VerdictIsFromModel ==
    ASSUME NEW mail \in Mails, fates[mail.id] = <<>>, NEW verdict, NEW inputs, mail.id \in inputs,
           ApplyClassification(mail, verdict, inputs),
           setting.mode = "hybrid" => Leftover(DeterministicDecisionFor(mail))
    PROVE  FromModel(mail)
<1> DEFINE rowOf(decision) == [pass |-> "classifier", decision |-> decision, asked |-> inputs,
                               folder |-> ValidateSortFolder(verdict.folder)]
<1>1. \/ Bump({"apiSkipCount"}) /\ Decide(mail, rowOf("skip"))
      \/ Bump({"apiTaskCount"}) /\ Decide(mail, rowOf("task"))
      \/ Fails(mail)
  BY DEF ApplyClassification
<1>2. \A d : /\ rowOf(d).pass = "classifier" /\ rowOf(d).decision = d /\ rowOf(d).asked = inputs
             /\ rowOf(d).folder = ValidateSortFolder(verdict.folder)
  OBVIOUS
<1> HIDE DEF rowOf
<1>3. \A d : OwnRow(mail.id, rowOf(d))
  BY <1>2, FoldersHold DEF OwnRow
<1>4. \A d, det, torn : Leftover(det) => RowAlike(rowOf(d), det, torn)
  BY <1>2 DEF RowAlike, Leftover
<1>5. CASE Bump({"apiSkipCount"}) /\ Decide(mail, rowOf("skip"))
  <2>1. Tells({"apiSkipCount"}, rowOf("skip"))
    BY <1>2 DEF Tells, Accounts
  <2>2. Decides(mail, {"apiSkipCount"}, rowOf("skip"))
    BY <1>3, <1>4, <1>5, <2>1 DEF Decides, Writes
  <2> QED
    BY <1>2, <2>2 DEF FromModel
<1>6. CASE Bump({"apiTaskCount"}) /\ Decide(mail, rowOf("task"))
  <2>1. Tells({"apiTaskCount"}, rowOf("task"))
    BY <1>2 DEF Tells, Accounts
  <2>2. Decides(mail, {"apiTaskCount"}, rowOf("task"))
    BY <1>3, <1>4, <1>6, <2>1 DEF Decides, Writes
  <2> QED
    BY <1>2, <2>2 DEF FromModel
<1> QED
  BY <1>1, <1>5, <1>6, FailsIsFromModel

ModelCounters == {"apiTaskCount", "apiSkipCount", "apiFailureCount"}

LEMMA ModelSums ==
    ASSUME OneRow, Counted, NEW mail, NEW row, NEW n \in ModelCounters,
           Decides(mail, {n}, row), row.pass # "override",
           NEW h \in Nat, Sums(h), ~Comparing, stage # "route", setting' = setting,
           UNCHANGED <<stage, candidates>>
    PROVE  Sums(h + 1)'
<1>1. /\ counters \in [CounterNames -> Nat]
      /\ \A m \in CounterNames : counters'[m] = counters[m] + IF m \in {n} THEN 1 ELSE 0
  BY CountedNext DEF Decides, Counted
<1>2. PreResolved' = PreResolved
  BY <1>1 DEF PreResolved, CounterNames, ModelCounters
<1>3. ByModel' = ByModel + 1
  BY <1>1 DEF ByModel, CounterNames, ModelCounters
<1>4. Cardinality(Overruled') = Cardinality(Overruled)
  BY OverruledNext, RowsAreFinite DEF Decides
<1>5. ~Comparing' /\ candidates' = candidates /\ Unrouted' = 0 /\ Unrouted = 0
  BY DEF Comparing, Unrouted
<1> QED
  BY <1>2, <1>3, <1>4, <1>5 DEF Sums

LEMMA ModelRowKeeps ==
    ASSUME PassInv, stage \in {"apply", "api"}, rest # <<>>, FromModel(Head(rest)),
           rest' = Tail(rest), UNCHANGED <<setting, stage, candidates, batches, call, results>>,
           \/ usage' = usage
           \/ stage = "api" /\ usage' = Append(usage, {Head(rest).id})
    PROVE  PassInv'
<1>1. PICK h, a : Progress(h, a) /\ Undecided(h) /\ Sums(h) /\ Paid(a)
  BY DEF PassInv
<1>2. /\ h \in Nat /\ h + 1 \in 1 .. Len(candidates)
      /\ Head(rest) = candidates[h + 1] /\ Head(rest) \in Mails /\ rest[1] = Head(rest)
      /\ fates[Head(rest).id] = <<>>
      /\ Tail(rest) \in Seq(Mails)
      /\ IsPart(Tail(rest), candidates, h + 1, IF stage = "apply" THEN a ELSE Len(candidates))
  BY <1>1, HeadIsNext
<1>3. PICK names, row :
         /\ Decides(Head(rest), names, row) /\ row.pass # "override"
         /\ \E n \in {"apiTaskCount", "apiSkipCount", "apiFailureCount"} : names = {n}
  BY DEF FromModel
<1>4. PICK n \in ModelCounters : names = {n}
  BY <1>3 DEF ModelCounters
<1>5. /\ stage' = stage /\ candidates' = candidates /\ setting' = setting /\ batches' = batches
      /\ ~Comparing /\ ~Comparing' /\ results' = results
  BY <1>1 DEF Progress, Comparing
<1>6. OneRow' /\ Counted' /\ Own' /\ Alike'
  BY <1>3, DecidesKeeps DEF PassInv
<1>7. Undecided(h + 1)'
  BY <1>1, <1>2, <1>3, <1>5, UndecidedNext DEF PassInv, Statics, Decides
<1>8. Sums(h + 1)'
  <2>1. Decides(Head(rest), {n}, row)
    BY <1>3, <1>4
  <2>2. stage # "route" /\ UNCHANGED <<stage, candidates>> /\ OneRow /\ Counted
    BY <1>5 DEF PassInv
  <2> QED
    BY <1>1, <1>2, <1>3, <1>5, <2>1, <2>2, ModelSums
<1>9. ItTells' /\ Apart'
  <2>1. ASSUME stage' = "apply", NEW id \in DOMAIN results', NEW i \in DOMAIN rest'
        PROVE  rest'[i].id \in results'[id].asked
    <3>1. /\ rest \in Seq(Mails) /\ DOMAIN rest' = 1 .. Len(rest) - 1 /\ Len(rest) \in Nat
          /\ rest'[i] = rest[i + 1] /\ i + 1 \in DOMAIN rest
      BY <2>1 DEF PassInv, Statics
    <3> QED
      BY <1>5, <2>1, <3>1 DEF PassInv, ItTells
  <2> QED
    BY <1>5, <2>1 DEF ItTells, Apart
<1>10. CASE stage = "apply"
  <2>1. Paid(a)' /\ usage' = usage
    BY <1>1, <1>5, <1>10 DEF Paid
  <2>2. Cuts(batches, a)'
    BY <1>1, <1>5, <1>10 DEF Cuts, CutsAt, Progress
  <2>3. Progress(h + 1, a)'
    BY <1>1, <1>2, <1>5, <1>10, <2>2 DEF Progress
  <2>4. Statics'
    BY <1>2, <1>5, <2>1 DEF PassInv, Statics, Distinct
  <2> QED
    BY <1>6, <1>7, <1>8, <1>9, <2>1, <2>3, <2>4 DEF PassInv
<1>11. CASE stage = "api"
  <2>1. PICK s : s = <<Head(rest)>>
    OBVIOUS
  <2>2. s \in Seq(Mails) /\ Len(s) = 1 /\ s[1] = Head(rest) /\ DOMAIN s = {1}
    BY <1>2, <2>1
  <2>3. IdsOf(s) = {Head(rest).id}
    BY <2>2 DEF IdsOf
  <2>4. IsPart(s, candidates, h, h + 1)
    BY <1>2, <2>2 DEF IsPart
  <2>5. a = h
    BY <1>1, <1>11 DEF Progress
  <2>6. h + 1 \in 0 .. Len(candidates)
    BY <1>2
  <2>7. Paid(h + 1)' /\ usage' \in Seq(SUBSET Ids)
    BY <1>1, <1>5, <2>3, <2>4, <2>5, <2>6, PartIsPaid DEF PassInv, Statics
  <2>8. Progress(h + 1, h + 1)'
    BY <1>1, <1>2, <1>5, <1>11, <2>6 DEF Progress
  <2>9. Statics'
    BY <1>2, <1>5, <2>7 DEF PassInv, Statics, Distinct
  <2> QED
    BY <1>6, <1>7, <1>8, <1>9, <2>7, <2>8, <2>9 DEF PassInv
<1> QED
  BY <1>10, <1>11

LEMMA LeftoverHead ==
    ASSUME PassInv, rest # <<>>, stage \in {"apply", "api"}
    PROVE  /\ Head(rest) \in Mails /\ fates[Head(rest).id] = <<>> /\ 1 \in DOMAIN rest
           /\ rest[1] = Head(rest)
           /\ setting.mode = "hybrid" => Leftover(DeterministicDecisionFor(Head(rest)))
<1>1. PICK h, a : Progress(h, a) /\ Undecided(h)
  BY DEF PassInv
<1>2. /\ Head(rest) \in Mails /\ fates[Head(rest).id] = <<>> /\ Head(rest) = candidates[h + 1]
      /\ h + 1 \in 1 .. Len(candidates) /\ rest[1] = Head(rest)
  BY <1>1, HeadIsNext
<1>3. Head(rest) \in ToSet(candidates) /\ 1 \in DOMAIN rest
  BY <1>2 DEF ToSet, PassInv, Statics
<1> QED
  BY <1>2, <1>3 DEF PassInv, Alike

LEMMA ApplyKeeps == ASSUME PassInv, Apply PROVE PassInv'
<1>1. stage = "apply" /\ rest # <<>> /\ rest' = Tail(rest) /\ usage' = usage
  BY DEF Apply
<1>2. FromModel(Head(rest))
  <2>1. CASE Head(rest).id \in DOMAIN results
    <3>1. ApplyClassification(Head(rest), results[Head(rest).id].said, results[Head(rest).id].asked)
      BY <2>1 DEF Apply
    <3>2. Head(rest).id \in results[Head(rest).id].asked
      BY <1>1, <2>1, LeftoverHead DEF PassInv, ItTells
    <3> QED
      BY <1>1, <3>1, <3>2, LeftoverHead, VerdictIsFromModel
  <2>2. CASE Head(rest).id \notin DOMAIN results
    <3>1. Fails(Head(rest))
      BY <2>2 DEF Apply
    <3> QED
      BY <1>1, <3>1, LeftoverHead, FailsIsFromModel
  <2> QED
    BY <2>1, <2>2
<1>3. UNCHANGED <<setting, stage, candidates, batches, call, results>>
  BY DEF Apply
<1> QED
  BY <1>1, <1>2, <1>3, ModelRowKeeps

LEMMA AskApiKeeps == ASSUME PassInv, AskApi PROVE PassInv'
<1>1. stage = "api" /\ rest # <<>> /\ rest' = Tail(rest)
  BY DEF AskApi
<1>2. usage' = usage \/ usage' = Append(usage, {Head(rest).id})
  BY DEF AskApi
<1>3. \/ Fails(Head(rest))
      \/ \E v \in ModelVerdicts : ApplyClassification(Head(rest), v, {Head(rest).id})
  BY DEF AskApi
<1>4. FromModel(Head(rest))
  <2>1. Head(rest).id \in {Head(rest).id}
    OBVIOUS
  <2> QED
    BY <1>1, <1>3, <2>1, LeftoverHead, FailsIsFromModel, VerdictIsFromModel
<1>5. UNCHANGED <<setting, stage, candidates, batches, call, results>>
  BY DEF AskApi
<1> QED
  BY <1>1, <1>2, <1>4, <1>5, ModelRowKeeps

RuleCounters ==
    {"deterministicTaskCount", "deterministicSkipCount", "deterministicAgentNeededCount"}

AgentCounters == {"agentTaskCount", "agentSkipCount", "missingAgentCount"}

\* A comparison makes one row and bumps a counter of each side.
FromComparison(mail) ==
    \E names, row :
        /\ Decides(mail, names, row)
        /\ \E r \in RuleCounters, g \in AgentCounters,
              x \in SUBSET {"agreementCount", "disagreementCount"} : names = {r, g} \cup x

LEMMA BaselineIs ==
    ASSUME NEW d
    PROVE  Baseline(d) \in RuleCounters
BY DEF Baseline, RuleCounters

LEMMA ComparisonCompares ==
    ASSUME CompareOne, Comparing, Head(rest) \in Mails, fates[Head(rest).id] = <<>>
    PROVE  FromComparison(Head(rest))
<1> DEFINE mail == Head(rest)
           d == DeterministicDecisionFor(mail)
           r == Baseline(d)
           g == IF results[mail.id].said.task THEN "agentTaskCount" ELSE "agentSkipCount"
           agrees == d.task = results[mail.id].said.task
           x == IF d.task = Nil THEN {}
                ELSE {IF agrees THEN "agreementCount" ELSE "disagreementCount"}
           word == IF d.task = Nil THEN "compare-agent-needed"
                   ELSE IF agrees THEN "compare-agree" ELSE "compare-disagree"
<1>1. r \in RuleCounters
  BY BaselineIs
<1>2. ASSUME NEW dec, NEW names, Bump(names),
             Decide(mail, [pass |-> "compare", decision |-> dec]),
             "agreementCount" \in names <=> dec = "compare-agree",
             "disagreementCount" \in names <=> dec = "compare-disagree",
             NEW gg \in AgentCounters, NEW xx \in SUBSET {"agreementCount", "disagreementCount"},
             names = {r, gg} \cup xx
      PROVE  FromComparison(mail)
  <2>1. PICK row : row = [pass |-> "compare", decision |-> dec]
    OBVIOUS
  <2>2. row.pass = "compare" /\ row.decision = dec
    BY <2>1
  <2> HIDE DEF r
  <2>3. \A z \in names : z \in RuleCounters \cup AgentCounters
                              \cup {"agreementCount", "disagreementCount"}
    BY <1>1, <1>2
  <2>4. Tells(names, row)
    BY <1>2, <2>2, <2>3 DEF Tells, Accounts, RuleCounters, AgentCounters
  <2>5. Decides(mail, names, row)
    BY <1>2, <2>1, <2>2, <2>4 DEF Decides, Writes, OwnRow, Comparing
  <2> QED
    BY <1>1, <1>2, <2>5 DEF FromComparison
<1>3. CASE mail.id \notin DOMAIN results
  <2>1. PICK names : names = {r, "missingAgentCount"}
    OBVIOUS
  <2>2. /\ Bump(names)
        /\ Decide(mail, [pass |-> "compare", decision |-> "agent-missing"])
    BY <1>3, <2>1 DEF CompareOne
  <2>3. names = {r, "missingAgentCount"} \cup {} /\ "missingAgentCount" \in AgentCounters
    BY <2>1 DEF AgentCounters
  <2> HIDE DEF r
  <2>4. "agreementCount" \notin names /\ "disagreementCount" \notin names
    BY <1>1, <2>1 DEF RuleCounters
  <2>5. {} \in SUBSET {"agreementCount", "disagreementCount"}
    OBVIOUS
  <2> QED
    BY <1>2, <2>2, <2>3, <2>4, <2>5
<1>4. CASE mail.id \in DOMAIN results
  <2>1. PICK names : names = {r, g} \cup x
    OBVIOUS
  <2>2. /\ Bump(names)
        /\ Decide(mail, [pass |-> "compare", decision |-> word])
    BY <1>4, <2>1 DEF CompareOne
  <2>3. g \in AgentCounters /\ x \in SUBSET {"agreementCount", "disagreementCount"}
    BY DEF AgentCounters
  <2>4. /\ "agreementCount" \in x <=> word = "compare-agree"
        /\ "disagreementCount" \in x <=> word = "compare-disagree"
    OBVIOUS
  <2> HIDE DEF r, g, x, word
  <2>5. /\ "agreementCount" \in names <=> word = "compare-agree"
        /\ "disagreementCount" \in names <=> word = "compare-disagree"
    BY <1>1, <2>1, <2>3, <2>4 DEF RuleCounters, AgentCounters
  <2> QED
    BY <1>2, <2>1, <2>2, <2>3, <2>5
<1> QED
  BY <1>3, <1>4

LEMMA CompareKeeps == ASSUME PassInv, CompareOne PROVE PassInv'
<1>1. PICK h, a : Progress(h, a) /\ Undecided(h) /\ Sums(h) /\ Paid(a)
  BY DEF PassInv
<1>2. /\ stage = "compare" /\ rest # <<>> /\ rest' = Tail(rest)
      /\ stage' = stage /\ candidates' = candidates /\ setting' = setting
      /\ usage' = usage /\ call' = call /\ Comparing /\ Comparing'
  BY <1>1 DEF CompareOne, Progress, Comparing
<1>3. /\ h \in Nat /\ h + 1 \in 1 .. Len(candidates)
      /\ Head(rest) = candidates[h + 1] /\ Head(rest) \in Mails
      /\ fates[Head(rest).id] = <<>>
      /\ Tail(rest) \in Seq(Mails)
      /\ IsPart(Tail(rest), candidates, h + 1, Len(candidates))
  BY <1>1, <1>2, HeadIsNext
<1>4. PICK names, row :
         /\ Decides(Head(rest), names, row)
         /\ \E r \in RuleCounters, g \in AgentCounters,
               x \in SUBSET {"agreementCount", "disagreementCount"} : names = {r, g} \cup x
  BY <1>2, <1>3, ComparisonCompares DEF FromComparison
<1>5. OneRow' /\ Counted' /\ Own' /\ Alike'
  BY <1>2, <1>4, DecidesKeeps DEF PassInv
<1>6. Undecided(h + 1)'
  BY <1>1, <1>2, <1>3, <1>4, UndecidedNext DEF PassInv, Statics, Decides
<1>7. Sums(h + 1)'
  <2>1. /\ counters \in [CounterNames -> Nat]
        /\ \A m \in CounterNames : counters'[m] = counters[m] + IF m \in names THEN 1 ELSE 0
    BY <1>4, CountedNext DEF Decides, Counted, PassInv
  <2>2. PICK r \in RuleCounters, g \in AgentCounters :
           /\ \A m \in RuleCounters : m \in names <=> m = r
           /\ \A m \in AgentCounters : m \in names <=> m = g
    BY <1>4 DEF RuleCounters, AgentCounters
  <2>3. ByAgent' = ByAgent + 1
    BY <2>1, <2>2 DEF ByAgent, AgentCounters, CounterNames
  <2>4. ByRules' = ByRules + 1
    BY <2>1, <2>2 DEF ByRules, RuleCounters, CounterNames
  <2> QED
    BY <1>1, <1>2, <2>3, <2>4 DEF Sums
<1>8. Paid(a)' /\ ItTells' /\ Apart'
  BY <1>1, <1>2 DEF Paid, ItTells, Apart
<1>9. Progress(h + 1, a)'
  BY <1>1, <1>2, <1>3 DEF Progress
<1>10. Statics'
  BY <1>2, <1>3 DEF PassInv, Statics, Distinct
<1> QED
  BY <1>5, <1>6, <1>7, <1>8, <1>9, <1>10 DEF PassInv

-----------------------------------------------------------------------------
(* The loop over the listed mails *)

LEMMA RoutingHead ==
    ASSUME PassInv, NEW mail, Routing(mail), NEW h, NEW a, Progress(h, a), Undecided(h)
    PROVE  /\ mail \in Mails /\ fates[mail.id] = <<>> /\ h = 0 /\ a = 0 /\ ~Comparing
           /\ rest' \in Seq(Mails) /\ Distinct(rest') /\ Len(rest) \in Nat
           /\ Len(rest') = Len(rest) - 1
           /\ \A i \in DOMAIN rest' : i + 1 \in DOMAIN rest /\ rest'[i] = rest[i + 1]
           /\ \A i \in DOMAIN rest : i = 1 \/ (i - 1 \in DOMAIN rest' /\ rest'[i - 1] = rest[i])
           /\ 1 \in DOMAIN rest /\ rest[1] = mail
           /\ \A i \in DOMAIN rest' : rest'[i].id # mail.id
           /\ \A k \in DOMAIN candidates : candidates[k].id # mail.id
<1>1. /\ stage = "route" /\ rest # <<>> /\ mail = Head(rest) /\ rest' = Tail(rest)
      /\ rest \in Seq(Mails) /\ h = 0 /\ a = 0 /\ ~Comparing /\ Distinct(rest)
      /\ \A i \in DOMAIN rest, k \in DOMAIN candidates : rest[i].id # candidates[k].id
  BY DEF Routing, Progress, PassInv, Statics, Apart
<1>2. /\ Len(rest) \in Nat /\ DOMAIN rest = 1 .. Len(rest) /\ Len(rest) > 0
      /\ rest' \in Seq(Mails) /\ DOMAIN rest' = 1 .. Len(rest) - 1 /\ Len(rest') = Len(rest) - 1
      /\ \A i \in 1 .. Len(rest) - 1 : rest'[i] = rest[i + 1]
      /\ rest[1] = mail /\ mail \in Mails
  BY <1>1
<1>3. 1 \in DOMAIN rest /\ \A i \in DOMAIN rest' : i + 1 \in DOMAIN rest /\ i + 1 # 1
  BY <1>2
<1>4. \A i \in DOMAIN rest' : rest'[i].id # mail.id
  BY <1>1, <1>2, <1>3 DEF Distinct
<1>5. Distinct(rest')
  <2>1. ASSUME NEW i \in DOMAIN rest', NEW j \in DOMAIN rest', rest'[i].id = rest'[j].id
        PROVE  i = j
    <3>1. i + 1 \in DOMAIN rest /\ j + 1 \in DOMAIN rest /\ rest[i + 1].id = rest[j + 1].id
      BY <1>2, <1>3, <2>1
    <3>2. i + 1 = j + 1
      BY <1>1, <3>1 DEF Distinct
    <3> QED
      BY <1>2, <3>2
  <2> QED
    BY <2>1 DEF Distinct
<1>6. \A i \in DOMAIN rest : i = 1 \/ (i - 1 \in DOMAIN rest' /\ rest'[i - 1] = rest[i])
  <2>1. ASSUME NEW i \in DOMAIN rest, i # 1
        PROVE  i - 1 \in 1 .. Len(rest) - 1 /\ (i - 1) + 1 = i
    BY <1>2, <2>1
  <2> QED
    BY <1>2, <2>1
<1>7. mail.id \in Ids /\ Awaits(h, mail.id)
  BY <1>1, <1>2, <1>3, InboxIs DEF Awaits
<1>8. fates[mail.id] = <<>>
  BY <1>7 DEF Undecided
<1> QED
  BY <1>1, <1>2, <1>3, <1>4, <1>5, <1>6, <1>8

RouteCounters == {"template_tasks", "template_skips", "skip_sender_count"}

\* The rules write a row and bump the counter of their kind, an override none.
FromRules(mail) ==
    \E names, row :
        /\ Decides(mail, names, row)
        /\ \/ row.pass = "override" /\ names = {}
           \/ row.pass # "override" /\ \E n \in RouteCounters : names = {n}

LEMMA RuledKeeps ==
    ASSUME PassInv, NEW mail, Routing(mail), FromRules(mail), candidates' = candidates
    PROVE  PassInv'
<1>1. PICK h, a : Progress(h, a) /\ Undecided(h) /\ Sums(h) /\ Paid(a)
  BY DEF PassInv
<1>2. /\ mail \in Mails /\ fates[mail.id] = <<>> /\ h = 0 /\ a = 0 /\ ~Comparing
      /\ rest' \in Seq(Mails) /\ Distinct(rest') /\ Len(rest) \in Nat
      /\ Len(rest') = Len(rest) - 1
      /\ \A i \in DOMAIN rest' : i + 1 \in DOMAIN rest /\ rest'[i] = rest[i + 1]
      /\ \A i \in DOMAIN rest : i = 1 \/ (i - 1 \in DOMAIN rest' /\ rest'[i - 1] = rest[i])
      /\ 1 \in DOMAIN rest /\ rest[1] = mail
      /\ \A i \in DOMAIN rest' : rest'[i].id # mail.id
      /\ \A k \in DOMAIN candidates : candidates[k].id # mail.id
  BY <1>1, RoutingHead
<1>3. /\ stage = "route" /\ stage' = stage /\ setting' = setting /\ usage' = usage
      /\ call' = call /\ ~Comparing'
  BY <1>2 DEF Routing, Comparing
<1>4. PICK names, row :
        /\ Decides(mail, names, row)
        /\ \/ row.pass = "override" /\ names = {}
           \/ row.pass # "override" /\ \E n \in RouteCounters : names = {n}
  BY DEF FromRules
<1>5. OneRow' /\ Counted' /\ Own' /\ Alike'
  BY <1>3, <1>4, DecidesKeeps DEF PassInv
<1>6. Statics' /\ Apart' /\ ItTells' /\ Paid(a)'
  <2>1. Statics'
    BY <1>2, <1>3 DEF PassInv, Statics, Distinct
  <2>2. Apart'
    BY <1>2, <1>3 DEF PassInv, Apart, Distinct
  <2> QED
    BY <1>1, <1>3, <2>1, <2>2 DEF ItTells, Paid
<1>7. Progress(h, a)'
  BY <1>1, <1>2, <1>3 DEF Progress
<1>8. Undecided(h)'
  <2>1. /\ mail.id \in Ids /\ fates'[mail.id] = <<row>>
        /\ \A id \in Ids \ {mail.id} : fates'[id] = fates[id]
    BY <1>4, WritesIs DEF PassInv, Decides
  <2>2. <<row>> # <<>>
    OBVIOUS
  <2>3. ASSUME NEW id \in Ids
        PROVE  fates'[id] = <<>> <=> Awaits(h, id)'
    <3>1. CASE id = mail.id
      <4>1. ~Awaits(h, id)'
        BY <1>2, <1>3, <3>1 DEF Awaits
      <4> QED
        BY <2>1, <2>2, <3>1, <4>1
    <3>2. CASE id # mail.id
      <4>1. (\E i \in DOMAIN rest : rest[i].id = id) <=> (\E i \in DOMAIN rest' : rest'[i].id = id)
        BY <1>2, <3>2
      <4>2. Awaits(h, id)' <=> Awaits(h, id)
        BY <1>3, <4>1 DEF Awaits
      <4> QED
        BY <1>1, <2>1, <3>2, <4>2 DEF Undecided
    <3> QED
      BY <3>1, <3>2
  <2> QED
    BY <2>3 DEF Undecided
<1>9. Sums(h)'
  <2>1. /\ counters \in [CounterNames -> Nat]
        /\ \A m \in CounterNames : counters'[m] = counters[m] + IF m \in names THEN 1 ELSE 0
    BY <1>4, CountedNext DEF Decides, Counted, PassInv
  <2>2. ByModel' = ByModel
    BY <1>4, <2>1 DEF ByModel, CounterNames, RouteCounters
  <2>3. /\ Cardinality(Overruled') = Cardinality(Overruled)
                                       + IF row.pass = "override" THEN 1 ELSE 0
        /\ Cardinality(Overruled) \in Nat
    BY <1>4, OverruledNext, RowsAreFinite DEF Decides, PassInv
  <2>4. PreResolved' = PreResolved + (IF row.pass = "override" THEN 0 ELSE 1)
        /\ PreResolved \in Nat
    BY <1>4, <2>1 DEF PreResolved, CounterNames, RouteCounters
  <2>5. Unrouted' = Unrouted - 1 /\ Unrouted \in Nat
    BY <1>2, <1>3 DEF Unrouted
  <2>6. PreResolved' + Cardinality(Overruled') = PreResolved + Cardinality(Overruled) + 1
    BY <2>3, <2>4
  <2>7. /\ PreResolved + Cardinality(Overruled) + Len(candidates) + Unrouted = Len(Inbox)
        /\ ByModel = h /\ Len(candidates) \in Nat
        /\ PreResolved' \in Nat /\ Cardinality(Overruled') \in Nat
    BY <1>1, <1>2, <2>3, <2>4 DEF Sums, PassInv, Statics
  <2>8. PreResolved' + Cardinality(Overruled') + Len(candidates) + Unrouted' = Len(Inbox)
    BY <2>3, <2>4, <2>5, <2>6, <2>7
  <2> QED
    BY <1>2, <1>3, <2>2, <2>7, <2>8 DEF Sums
<1> QED
  BY <1>5, <1>6, <1>7, <1>8, <1>9 DEF PassInv

LEMMA ResidualKeeps ==
    ASSUME PassInv, NEW mail, Routing(mail), FailsTemplate(mail),
           setting.mode = "hybrid" => Leftover(DeterministicDecisionFor(mail))
    PROVE  PassInv'
<1>1. PICK h, a : Progress(h, a) /\ Undecided(h) /\ Sums(h) /\ Paid(a)
  BY DEF PassInv
<1>2. /\ mail \in Mails /\ fates[mail.id] = <<>> /\ h = 0 /\ a = 0 /\ ~Comparing
      /\ rest' \in Seq(Mails) /\ Distinct(rest') /\ Len(rest) \in Nat
      /\ Len(rest') = Len(rest) - 1
      /\ \A i \in DOMAIN rest' : i + 1 \in DOMAIN rest /\ rest'[i] = rest[i + 1]
      /\ \A i \in DOMAIN rest : i = 1 \/ (i - 1 \in DOMAIN rest' /\ rest'[i - 1] = rest[i])
      /\ 1 \in DOMAIN rest /\ rest[1] = mail
      /\ \A i \in DOMAIN rest' : rest'[i].id # mail.id
      /\ \A k \in DOMAIN candidates : candidates[k].id # mail.id
  BY <1>1, RoutingHead
<1>3. /\ stage = "route" /\ stage' = stage /\ setting' = setting /\ usage' = usage
      /\ call' = call /\ ~Comparing' /\ counters' = counters /\ fates' = fates
  BY <1>2 DEF Routing, Comparing, FailsTemplate
<1>4. /\ candidates \in Seq(Mails) /\ candidates' \in Seq(Mails) /\ Len(candidates) \in Nat
      /\ DOMAIN candidates = 1 .. Len(candidates)
      /\ DOMAIN candidates' = 1 .. Len(candidates) + 1 /\ Len(candidates') = Len(candidates) + 1
      /\ \A k \in DOMAIN candidates : candidates'[k] = candidates[k]
      /\ candidates'[Len(candidates) + 1] = mail
  BY <1>2 DEF FailsTemplate, PassInv, Statics
<1>5. \A k \in DOMAIN candidates' : k \in DOMAIN candidates \/ k = Len(candidates) + 1
  BY <1>4
<1>6. OneRow' /\ Counted' /\ Own'
  <2>1. \A p, d : Rows(p, d)' = Rows(p, d)
    BY <1>3 DEF Rows
  <2> QED
    BY <1>3, <2>1 DEF OneRow, Counted, Own, PassInv
<1>7. Alike'
  <2>1. ToSet(candidates') = ToSet(candidates) \cup {mail}
    BY <1>4, <1>5 DEF ToSet
  <2>2. ASSUME setting.mode = "hybrid", NEW m \in Mails, fates[m.id] # <<>>
        PROVE  RowAlike(fates[m.id][1], DeterministicDecisionFor(m)', Contradicted(m)')
    BY <1>3, <2>2, SameRules DEF Alike, PassInv
  <2>3. ASSUME setting.mode = "hybrid", NEW m \in ToSet(candidates')
        PROVE  Leftover(DeterministicDecisionFor(m)')
    BY <1>3, <2>1, <2>3, SameRules DEF Alike, PassInv
  <2> QED
    BY <1>3, <2>2, <2>3 DEF Alike
<1>8. Distinct(candidates')
  BY <1>2, <1>4, <1>5 DEF PassInv, Statics, Distinct
<1>9. Statics' /\ ItTells' /\ Paid(a)'
  <2>1. Paid(a)'
    BY <1>1, <1>2, <1>3 DEF Paid
  <2> QED
    BY <1>2, <1>3, <1>4, <1>8, <2>1 DEF PassInv, Statics, ItTells
<1>10. Apart'
  <2>1. ASSUME NEW i \in DOMAIN rest', NEW k \in DOMAIN candidates'
        PROVE  rest'[i].id # candidates'[k].id
    <3>1. CASE k \in DOMAIN candidates
      <4>1. i + 1 \in DOMAIN rest /\ rest'[i] = rest[i + 1] /\ candidates'[k] = candidates[k]
        BY <1>2, <1>4, <3>1
      <4> QED
        BY <1>3, <3>1, <4>1 DEF PassInv, Apart
    <3>2. CASE k = Len(candidates) + 1
      BY <1>2, <1>4, <3>2
    <3> QED
      BY <1>5, <3>1, <3>2
  <2> QED
    BY <1>2, <2>1 DEF Apart
<1>11. Progress(h, a)'
  BY <1>1, <1>2, <1>3, <1>4 DEF Progress
<1>12. Undecided(h)'
  <2>1. ASSUME NEW id \in Ids
        PROVE  Awaits(h, id)' <=> Awaits(h, id)
    <3>1. CASE id = mail.id
      <4>1. Awaits(h, id)
        BY <1>2, <1>3, <3>1 DEF Awaits
      <4>2. Len(candidates) + 1 > h /\ Len(candidates) + 1 \in DOMAIN candidates'
        BY <1>2, <1>4
      <4>3. Awaits(h, id)'
        BY <1>4, <3>1, <4>2 DEF Awaits
      <4> QED
        BY <4>1, <4>3
    <3>2. CASE id # mail.id
      <4>1. (\E i \in DOMAIN rest : rest[i].id = id) <=> (\E i \in DOMAIN rest' : rest'[i].id = id)
        BY <1>2, <3>2
      <4>2. (\E k \in DOMAIN candidates : k > h /\ candidates[k].id = id)
              <=> (\E k \in DOMAIN candidates' : k > h /\ candidates'[k].id = id)
        BY <1>4, <1>5, <3>2
      <4> QED
        BY <1>3, <4>1, <4>2 DEF Awaits
    <3> QED
      BY <3>1, <3>2
  <2> QED
    BY <1>1, <1>3, <2>1 DEF Undecided
<1>13. Sums(h)'
  <2>1. /\ PreResolved' = PreResolved /\ ByModel' = ByModel /\ Overruled' = Overruled
        /\ Unrouted' = Unrouted - 1 /\ Unrouted \in Nat
    BY <1>2, <1>3 DEF PreResolved, ByModel, Overruled, Unrouted
  <2>2. Cardinality(Overruled) \in Nat /\ PreResolved \in Nat
    BY RowsAreFinite DEF PassInv, Counted, CounterNames, PreResolved
  <2>3. PreResolved + Cardinality(Overruled) + Len(candidates) + Unrouted = Len(Inbox)
    BY <1>1, <1>2 DEF Sums
  <2>4. PreResolved + Cardinality(Overruled) + Len(candidates') + (Unrouted - 1) = Len(Inbox)
    BY <1>4, <2>1, <2>2, <2>3
  <2> QED
    BY <1>1, <1>2, <1>3, <2>1, <2>4 DEF Sums
<1> QED
  BY <1>6, <1>7, <1>9, <1>10, <1>11, <1>12, <1>13 DEF PassInv

LEMMA NoCounter ==
    ASSUME Counted, UNCHANGED counters
    PROVE  Bump({})
<1>1. counters = [n \in CounterNames |-> counters[n]]
  BY DEF Counted
<1> QED
  BY <1>1 DEF Bump

LEMMA TemplateAlike ==
    ASSUME NEW row, row.pass = "template",
           NEW d, \/ d = [source |-> "template", task |-> TRUE] /\ row.decision = "task"
                  \/ d = [source |-> "template", task |-> FALSE] /\ row.decision = "skip",
           NEW torn
    PROVE  RowAlike(row, d, torn)
<1>1. d.source = "template"
  OBVIOUS
<1>2. (row.decision = "task") = d.task
  <2>1. CASE d = [source |-> "template", task |-> TRUE] /\ row.decision = "task"
    <3>1. d.task = TRUE /\ (row.decision = "task") = TRUE
      BY <2>1
    <3> QED
      BY <3>1, Zenon
  <2>2. CASE d = [source |-> "template", task |-> FALSE] /\ row.decision = "skip"
    <3>1. d.task = FALSE /\ (row.decision = "task") = FALSE
      BY <2>2
    <3> QED
      BY <3>1, Zenon
  <2> QED
    BY <2>1, <2>2
<1> QED
  BY <1>1, <1>2 DEF RowAlike

\* One mail of the loop.
LEMMA RouteKeeps == ASSUME PassInv, Route PROVE PassInv'
<1>1. PICK mail \in ToSet(rest) :
        \/ RouteOverride(mail) \/ RouteTemplateSkip(mail) \/ RouteTemplateTask(mail)
        \/ RouteSkipSender(mail) \/ RouteResidual(mail)
  BY DEF Route
<1>2. Routing(mail)
  BY <1>1 DEF RouteOverride, RouteTemplateSkip, RouteTemplateTask, RouteSkipSender,
              RouteResidual, ByTemplate
<1>3. mail \in Mails /\ fates[mail.id] = <<>>
  BY <1>2, RoutingHead DEF PassInv
<1>4. ASSUME NEW names, NEW row, Bump(names), Decide(mail, row), candidates' = candidates,
             Tells(names, row), row.pass \in {"override", "template", "skip"},
             setting.mode = "hybrid" => RowAlike(row, DeterministicDecisionFor(mail), Contradicted(mail)),
             \/ row.pass = "override" /\ names = {}
             \/ row.pass # "override" /\ \E n \in RouteCounters : names = {n}
      PROVE  PassInv'
  <2>1. Decides(mail, names, row)
    BY <1>3, <1>4 DEF Decides, Writes, OwnRow
  <2>2. FromRules(mail)
    BY <1>4, <2>1 DEF FromRules
  <2> QED
    BY <1>2, <1>4, <2>2, RuledKeeps
<1>10. /\ OverrideById(mail) = NoRule <=> OverrideFor(mail) = NoRule
       /\ OverrideById(mail) # NoRule =>
            \/ Contradicted(mail)
            \/ OverrideById(mail).decision = OverrideFor(mail).decision
  BY OverridesAre DEF PassInv, Statics
<1>5. CASE RouteOverride(mail)
  <2>1. PICK row : row = [pass |-> "override", decision |-> OverrideById(mail).decision]
    OBVIOUS
  <2>2. row.pass = "override" /\ row.decision = OverrideById(mail).decision
    BY <2>1
  <2>3. Tells({}, row) /\ Decide(mail, row)
    BY <1>5, <2>1, <2>2 DEF Tells, Accounts, RouteOverride
  <2>4. RowAlike(row, DeterministicDecisionFor(mail), Contradicted(mail))
    <3>1. /\ OverrideFor(mail) # NoRule
          /\ Contradicted(mail) \/ row.decision = OverrideFor(mail).decision
      BY <1>5, <1>10, <2>2 DEF RouteOverride
    <3>2. DeterministicDecisionFor(mail) =
            [source |-> "override", task |-> NeedsTask(OverrideFor(mail).decision)]
      BY <3>1 DEF DeterministicDecisionFor
    <3>3. row.pass \notin {"skip", "template", "classifier", "failed"}
      BY <2>2
    <3> QED
      BY <2>2, <3>1, <3>2, <3>3 DEF RowAlike
  <2>5. Bump({}) /\ candidates' = candidates
    BY <1>5, NoCounter DEF RouteOverride, PassInv
  <2> QED
    BY <1>4, <2>2, <2>3, <2>4, <2>5
<1>6. CASE RouteTemplateSkip(mail)
  <2>1. PICK row : row = [pass |-> "template", decision |-> "skip"]
    OBVIOUS
  <2>2. row.pass = "template" /\ row.decision = "skip"
    BY <2>1
  <2>3. Tells({"template_skips"}, row)
    BY <2>2 DEF Tells, Accounts
  <2>4. /\ Bump({"template_skips"}) /\ Decide(mail, row) /\ candidates' = candidates
        /\ OverrideFor(mail) = NoRule /\ MatchActionTemplate(mail).kind = "skip"
    BY <1>6, <1>10, <2>1 DEF RouteTemplateSkip, ByTemplate
  <2>5. DeterministicDecisionFor(mail) = [source |-> "template", task |-> FALSE]
    BY <2>4 DEF DeterministicDecisionFor
  <2>6. RowAlike(row, DeterministicDecisionFor(mail), Contradicted(mail))
    BY <2>2, <2>5, TemplateAlike
  <2>7. \E n \in RouteCounters : {"template_skips"} = {n}
    BY DEF RouteCounters
  <2> QED
    BY <1>4, <2>2, <2>3, <2>4, <2>6, <2>7
<1>7. CASE RouteTemplateTask(mail)
  <2>1. /\ OverrideFor(mail) = NoRule /\ MatchActionTemplate(mail).kind = "create"
        /\ MatchActionTemplate(mail).kind # "skip"
    BY <1>7, <1>10 DEF RouteTemplateTask, ByTemplate
  <2>2. DeterministicDecisionFor(mail) = [source |-> "template", task |-> TRUE]
    BY <2>1 DEF DeterministicDecisionFor
  <2>3. CASE FailsTemplate(mail)
    <3>1. Leftover(DeterministicDecisionFor(mail))
      BY <2>2 DEF Leftover
    <3> QED
      BY <1>2, <2>3, <3>1, ResidualKeeps
  <2>4. CASE ~FailsTemplate(mail)
    <3>1. PICK row : row = [pass |-> "template", decision |-> "task"]
      OBVIOUS
    <3>2. row.pass = "template" /\ row.decision = "task"
      BY <3>1
    <3>3. Tells({"template_tasks"}, row)
      BY <3>2 DEF Tells, Accounts
    <3>4. Bump({"template_tasks"}) /\ Decide(mail, row) /\ candidates' = candidates
      BY <1>7, <2>4, <3>1 DEF RouteTemplateTask
    <3>5. RowAlike(row, DeterministicDecisionFor(mail), Contradicted(mail))
      BY <2>2, <3>2, TemplateAlike
    <3>6. \E n \in RouteCounters : {"template_tasks"} = {n}
      BY DEF RouteCounters
    <3> QED
      BY <1>4, <3>2, <3>3, <3>4, <3>5, <3>6
  <2> QED
    BY <2>3, <2>4
<1>8. CASE RouteSkipSender(mail)
  <2>1. PICK row : row = [pass |-> "skip", decision |-> "skip"]
    OBVIOUS
  <2>2. row.pass = "skip" /\ row.decision = "skip"
    BY <2>1
  <2>3. Tells({"skip_sender_count"}, row)
    BY <2>2 DEF Tells, Accounts
  <2>4. /\ Bump({"skip_sender_count"}) /\ Decide(mail, row) /\ candidates' = candidates
        /\ OverrideFor(mail) = NoRule /\ MatchActionTemplate(mail).kind \notin {"skip", "create"}
        /\ MatchSkipSender(mail) # NoRule
    BY <1>8, <1>10, <2>1 DEF RouteSkipSender
  <2>5. DeterministicDecisionFor(mail) = [source |-> "skip", task |-> FALSE]
    BY <2>4 DEF DeterministicDecisionFor
  <2>6. RowAlike(row, DeterministicDecisionFor(mail), Contradicted(mail))
    BY <2>2, <2>5 DEF RowAlike
  <2>7. \E n \in RouteCounters : {"skip_sender_count"} = {n}
    BY DEF RouteCounters
  <2> QED
    BY <1>4, <2>2, <2>3, <2>4, <2>6, <2>7
<1>9. CASE RouteResidual(mail)
  <2>1. FailsTemplate(mail)
    BY <1>9 DEF RouteResidual, FailsTemplate
  <2>2. ASSUME setting.mode = "hybrid"
        PROVE  Leftover(DeterministicDecisionFor(mail))
    <3>1. /\ OverrideFor(mail) = NoRule /\ MatchSkipSender(mail) = NoRule
          /\ MatchActionTemplate(mail).kind \notin {"skip", "create"}
      BY <1>9, <1>10, <2>2 DEF RouteResidual
    <3>2. DeterministicDecisionFor(mail) = [source |-> "agent-needed", task |-> Nil]
      BY <3>1 DEF DeterministicDecisionFor
    <3> QED
      BY <3>2 DEF Leftover
  <2> QED
    BY <1>2, <2>1, <2>2, ResidualKeeps
<1> QED
  BY <1>1, <1>5, <1>6, <1>7, <1>8, <1>9

-----------------------------------------------------------------------------
(* The pass from its start to its end *)

LEMMA PassInvInit == CascadeInit => PassInv
<1> SUFFICES ASSUME CascadeInit PROVE PassInv
  OBVIOUS
<1>1. /\ setting \in Settings /\ call = NoCall /\ results = <<>> /\ usage = <<>>
      /\ counters = [n \in CounterNames |-> 0] /\ fates = [id \in Ids |-> <<>>]
      /\ stage = IF Comparing THEN "batch" ELSE "route"
      /\ rest = IF Comparing THEN <<>> ELSE Inbox
      /\ candidates = IF Comparing THEN Inbox ELSE <<>>
      /\ batches = ChunksOf(candidates)
  BY DEF CascadeInit, Comparing
<1>2. Statics /\ candidates \in Seq(Mails)
  <2>1. rest \in Seq(Mails) /\ candidates \in Seq(Mails) /\ usage \in Seq(SUBSET Ids)
    BY <1>1, InboxIs
  <2>2. Distinct(candidates)
    BY <1>1, InboxIs DEF Distinct
  <2>3. NoCall = [asked |-> NoCall.asked, message |-> NoCall.message, said |-> NoCall.said,
                  usage |-> NoCall.usage]
    BY DEF NoCall
  <2> QED
    BY <1>1, <2>1, <2>2, <2>3 DEF Statics
<1>3. \A id \in Ids : fates[id] = <<>>
  BY <1>1
<1>4. OneRow /\ Own
  BY <1>1, <1>3 DEF OneRow, Own
<1>5. Cardinality(Overruled) = 0 /\ \A p, d : Cardinality(Rows(p, d)) = 0
  <2>1. Overruled = {} /\ \A p, d : Rows(p, d) = {}
    BY <1>3 DEF Overruled, Rows
  <2> QED
    BY <2>1, FS_EmptySet
<1>6. Counted
  <2>1. \A x \in Accounts : x[1] \in CounterNames
    BY DEF Accounts, CounterNames
  <2> QED
    BY <1>1, <1>5, <2>1 DEF Counted
<1>7. Apart /\ ItTells
  <2>1. CASE Comparing
    BY <1>1, <2>1 DEF Apart, ItTells
  <2>2. CASE ~Comparing
    BY <1>1, <2>2, InboxIs DEF Apart, ItTells
  <2> QED
    BY <2>1, <2>2
<1>8. Alike
  <2>1. ASSUME setting.mode = "hybrid"
        PROVE  ToSet(candidates) = {}
    BY <1>1, <2>1 DEF Comparing, ToSet
  <2>2. \A mail \in Mails : fates[mail.id] = <<>>
    BY <1>3, InboxIs
  <2> QED
    BY <2>1, <2>2 DEF Alike
<1>9. Progress(0, 0)
  <2>1. CASE Comparing
    <3>1. Cuts(batches, 0)
      BY <1>1, <1>2, ChunksCut
    <3> QED
      BY <1>1, <1>2, <2>1, <3>1 DEF Progress
  <2>2. CASE ~Comparing
    BY <1>1, <1>2, <2>2 DEF Progress
  <2> QED
    BY <2>1, <2>2
<1>10. Undecided(0)
  <2>1. ASSUME NEW id \in Ids
        PROVE  Awaits(0, id)
    <3>1. PICK i \in 1 .. Len(Inbox) : id = Inbox[i].id
      BY InboxIs
    <3>2. i \in DOMAIN Inbox /\ i > 0
      BY InboxIs
    <3> QED
      BY <1>1, <3>1, <3>2 DEF Awaits
  <2> QED
    BY <1>3, <2>1 DEF Undecided
<1>11. Sums(0)
  <2>1. \A n \in CounterNames : counters[n] = 0
    BY <1>1
  <2>2. PreResolved = 0 /\ ByModel = 0 /\ ByAgent = 0 /\ ByRules = 0
    BY <2>1 DEF PreResolved, ByModel, ByAgent, ByRules, CounterNames
  <2>3. ASSUME ~Comparing
        PROVE  Len(candidates) = 0 /\ Unrouted = Len(Inbox) /\ Len(Inbox) \in Nat
    BY <1>1, <2>3, InboxIs DEF Unrouted
  <2> QED
    BY <1>5, <2>2, <2>3 DEF Sums
<1>12. Paid(0)
  BY <1>1 DEF Paid
<1> QED
  BY <1>2, <1>4, <1>6, <1>7, <1>8, <1>9, <1>10, <1>11, <1>12 DEF PassInv

LEMMA PassInvStep == PassInv /\ [CascadeNext]_cascadeVars => PassInv'
<1> SUFFICES ASSUME PassInv, [CascadeNext]_cascadeVars PROVE PassInv'
  OBVIOUS
<1>1. CASE Route
  BY <1>1, RouteKeeps
<1>2. CASE Routed
  BY <1>2, RoutedKeeps
<1>3. CASE StartBatch
  BY <1>3, StartBatchKeeps
<1>4. CASE Prints
  BY <1>4, PrintsKeeps
<1>5. CASE CodexExits \/ ExecFails
  BY <1>5, ExecKeeps
<1>6. CASE AllAsked
  BY <1>6, AllAskedKeeps
<1>7. CASE Apply
  BY <1>7, ApplyKeeps
<1>8. CASE AskApi
  BY <1>8, AskApiKeeps
<1>9. CASE CompareOne
  BY <1>9, CompareKeeps
<1>10. CASE BatchApplied \/ ApiDone \/ Compared
  BY <1>10, EndsKeep
<1>11. CASE UNCHANGED cascadeVars
  <2>1. UNCHANGED <<setting, stage, rest, candidates, batches, call, results, counters, fates,
                    usage>>
    BY <1>11 DEF cascadeVars
  <2>2. OneRow' /\ Counted' /\ Own' /\ Alike'
    BY <2>1, QuietKeeps DEF Quiet, PassInv
  <2>3. Statics' /\ Apart' /\ ItTells'
    BY <2>1 DEF PassInv, Statics, Apart, ItTells, Distinct
  <2>4. PICK h, a : Progress(h, a) /\ Undecided(h) /\ Sums(h) /\ Paid(a)
    BY DEF PassInv
  <2>5. Progress(h, a)'
    <3>1. /\ \A b : Cuts(batches, b)' <=> Cuts(batches, b)
          /\ \A b : IsPart(call.asked, candidates, a, b)' <=> IsPart(call.asked, candidates, a, b)
          /\ \A b : IsPart(rest, candidates, h, b)' <=> IsPart(rest, candidates, h, b)
          /\ IsPart(rest, candidates, h, Len(candidates))' <=> IsPart(rest, candidates, h, Len(candidates))
          /\ (Comparing' <=> Comparing)
      BY <2>1 DEF Cuts, CutsAt, IsPart, Comparing
    <3> QED
      BY <2>1, <2>4, <3>1 DEF Progress
  <2>6. Undecided(h)' /\ Paid(a)'
    BY <2>1, <2>4 DEF Undecided, Awaits, Paid
  <2>7. Sums(h)'
    BY <2>1, <2>4 DEF Sums, Comparing, PreResolved, ByModel, ByAgent, ByRules, Overruled, Unrouted
  <2> QED
    BY <2>2, <2>3, <2>5, <2>6, <2>7 DEF PassInv
<1> QED
  BY <1>1, <1>2, <1>3, <1>4, <1>5, <1>6, <1>7, <1>8, <1>9, <1>10, <1>11 DEF CascadeNext

\* Whatever the models answer about whichever mails, however a process ends and
\* whichever tasks cannot be made: when a pass is over each mail has one row,
\* the counters count those rows and the summary (scan-summary.ts) adds up to
\* what was listed; a mail is decided by an answer to a call that was asked about
\* it; the loop of the scan and the comparison read the rules the same way, unless
\* two overrides of one mail contradict each other; and no mail is paid for twice.
THEOREM PassAlwaysAddsUp == CascadeSpec => []PassAddsUp
<1>1. PassInv => PassAddsUp
  BY PassInvAddsUp DEF PassAddsUp
<1> QED
  BY <1>1, PassInvInit, PassInvStep, PTL DEF CascadeSpec

\* A pass has to do with the mails it lists and with what it may be told of them.
CallTyped == call.message \in Messages /\ call.said \in 0 .. MaxMessages

ResultsTyped == DOMAIN results \subseteq Ids \cup {Stranger}

\* Only the comparison touches the counters of agent and rules.
Idle ==
    ~Comparing => \A n \in {"agentTaskCount", "agentSkipCount", "missingAgentCount",
                            "deterministicTaskCount", "deterministicSkipCount",
                            "deterministicAgentNeededCount"} : counters[n] = 0

RestTyped ==
    /\ stage = "route" => IsPart(rest, Inbox, Len(Inbox) - Len(rest), Len(Inbox))
    /\ stage # "route" => ToSet(rest) \subseteq ToSet(candidates)

LEMMA TailTyped ==
    ASSUME rest \in Seq(Mails), rest # <<>>, rest' = Tail(rest), RestTyped,
           UNCHANGED <<stage, setting>>,
           stage # "route" => candidates' = candidates
    PROVE  RestTyped'
<1>1. /\ Len(rest) \in Nat /\ Len(Inbox) \in Nat /\ Len(rest') = Len(rest) - 1
      /\ \A i \in 1 .. Len(rest') : rest'[i] = rest[i + 1] /\ i + 1 \in 1 .. Len(rest)
      /\ DOMAIN rest' = 1 .. Len(rest') /\ DOMAIN rest = 1 .. Len(rest)
  BY InboxIs
<1>2. CASE stage = "route"
  <2>1. IsPart(Tail(rest), Inbox, Len(Inbox) - Len(rest) + 1, Len(Inbox))
    BY <1>2, PartTail DEF RestTyped
  <2>2. Len(Inbox) - Len(rest) + 1 = Len(Inbox) - Len(rest')
    BY <1>1
  <2> QED BY <1>2, <2>1, <2>2 DEF RestTyped
<1>3. CASE stage # "route"
  <2>1. ToSet(rest') \subseteq ToSet(rest)
    BY <1>1 DEF ToSet
  <2> QED BY <1>3, <2>1 DEF RestTyped
<1> QED BY <1>2, <1>3

LEMMA PartIsWithin ==
    ASSUME NEW s, NEW S \in Seq(Mails), NEW q, NEW m, IsPart(s, S, q, m), m <= Len(S)
    PROVE  ToSet(s) \subseteq ToSet(S)
<1>1. /\ s \in Seq(Mails) /\ q \in Nat /\ m \in Nat /\ DOMAIN s = 1 .. m - q
      /\ DOMAIN S = 1 .. Len(S) /\ Len(S) \in Nat
  BY DEF IsPart
<1>2. \A i \in 1 .. m - q : s[i] = S[q + i] /\ q + i \in 1 .. Len(S)
  BY <1>1 DEF IsPart
<1> QED BY <1>1, <1>2 DEF ToSet

PassTypes == CallTyped /\ ResultsTyped /\ Idle /\ RestTyped

LEMMA PassTypesInit == CascadeInit => PassTypes
<1> SUFFICES ASSUME CascadeInit PROVE PassTypes
  OBVIOUS
<1>1. CallTyped
  BY CascadeAssumption DEF CascadeInit, NoCall, CallTyped, Messages
<1>2. ResultsTyped /\ Idle
  BY DEF CascadeInit, ResultsTyped, Idle, CounterNames
<1>3. RestTyped
  <2>1. CASE setting.mode = "compare"
    BY <2>1 DEF CascadeInit, RestTyped, ToSet
  <2>2. CASE setting.mode # "compare"
    <3>1. Len(Inbox) - Len(Inbox) = 0
      BY InboxIs
    <3> QED BY <2>2, <3>1, InboxIs, PartWhole DEF CascadeInit, RestTyped
  <2> QED BY <2>1, <2>2
<1> QED BY <1>1, <1>2, <1>3 DEF PassTypes

\* What is known after a call is of what it answered, or was known earlier.
LEMMA KeptDomain ==
    ASSUME NEW new, NEW earlier
    PROVE  DOMAIN Kept(new, earlier) \subseteq DOMAIN new \cup DOMAIN earlier
<1>1. PICK told : told = Gathered(new, earlier)
  OBVIOUS
<1>2. DOMAIN told = DOMAIN new \cup DOMAIN earlier
  BY <1>1 DEF Gathered
<1>3. Kept(new, earlier) = told \/ Kept(new, earlier) = new
  BY <1>1 DEF Kept
<1> QED BY <1>2, <1>3

\* Returns takes the call's answer, and what it was asked about is applied.
LEMMA ReturnTyped ==
    ASSUME PassInv, PassTypes, stage = "exec", NEW got, DOMAIN got \subseteq Ids \cup {Stranger},
           Returns(got), UNCHANGED <<setting, candidates, counters>>
    PROVE  PassTypes'
<1>1. PICK h, a : Progress(h, a)
  BY DEF PassInv
<1>2. PICK b \in 0 .. Len(candidates) : IsPart(call.asked, candidates, a, b)
  BY <1>1 DEF Progress
<1>3. candidates \in Seq(Mails)
  BY DEF PassInv, Statics
<1>4. ToSet(call.asked) \subseteq ToSet(candidates)
  BY <1>2, <1>3, PartIsWithin
<1>5. RestTyped'
  BY <1>4 DEF PassTypes, RestTyped, Returns
<1>6. CallTyped'
  BY CascadeAssumption DEF Returns, NoCall, CallTyped, Messages
<1>7. ResultsTyped'
  <2>1. DOMAIN results' \subseteq DOMAIN got \cup DOMAIN results
    <3>1. PICK new : new = [id \in DOMAIN got |-> [said |-> got[id], asked |-> IdsOf(call.asked)]]
      OBVIOUS
    <3>2. results' = Kept(new, results)
      BY <3>1 DEF Returns
    <3>3. DOMAIN new = DOMAIN got
      BY <3>1
    <3>4. PICK earlier : earlier = results
      OBVIOUS
    <3> QED BY <3>2, <3>3, <3>4, KeptDomain
  <2> QED BY <2>1 DEF PassTypes, ResultsTyped
<1>8. Idle'
  BY DEF PassTypes, Idle, Comparing
<1> QED BY <1>5, <1>6, <1>7, <1>8 DEF PassTypes

\* A counter that is not bumped stands.
LEMMA IdleKept ==
    ASSUME PassInv, Idle, NEW names, Bump(names), setting' = setting,
           names \cap {"agentTaskCount", "agentSkipCount", "missingAgentCount",
                       "deterministicTaskCount", "deterministicSkipCount",
                       "deterministicAgentNeededCount"} = {}
    PROVE  Idle'
BY DEF Idle, Bump, Comparing, CounterNames

LEMMA VerdictIdle ==
    ASSUME PassInv, Idle, setting' = setting, NEW mail, NEW v, NEW s,
           Fails(mail) \/ ApplyClassification(mail, v, s)
    PROVE  Idle'
<1>1. PICK n \in {"apiFailureCount", "apiSkipCount", "apiTaskCount"} : Bump({n})
  BY DEF Fails, ApplyClassification
<1> QED BY <1>1, IdleKept

LEMMA PassTypesStep == PassInv /\ PassTypes /\ [CascadeNext]_cascadeVars => PassTypes'
<1> SUFFICES ASSUME PassInv, PassTypes, [CascadeNext]_cascadeVars PROVE PassTypes'
  OBVIOUS
<1>0. /\ rest \in Seq(Mails) /\ candidates \in Seq(Mails)
      /\ CallTyped /\ ResultsTyped /\ Idle /\ RestTyped
  BY DEF PassInv, Statics, PassTypes
<1>1. CASE Route
  <2>1. PICK mail \in ToSet(rest) :
          \/ RouteOverride(mail) \/ RouteTemplateSkip(mail) \/ RouteTemplateTask(mail)
          \/ RouteSkipSender(mail) \/ RouteResidual(mail)
    BY <1>1 DEF Route
  <2>2. Routing(mail)
    BY <2>1 DEF RouteOverride, RouteTemplateSkip, RouteTemplateTask, RouteSkipSender,
                RouteResidual, ByTemplate
  <2>3. \/ UNCHANGED counters
        \/ \E n \in {"template_skips", "template_tasks", "skip_sender_count"} : Bump({n})
    BY <2>1 DEF RouteOverride, RouteTemplateSkip, RouteTemplateTask, RouteSkipSender,
                RouteResidual, ByTemplate, FailsTemplate
  <2>4. Idle'
    <3>1. CASE UNCHANGED counters
      BY <1>0, <2>2, <3>1 DEF Idle, Comparing, Routing
    <3>2. ASSUME NEW n \in {"template_skips", "template_tasks", "skip_sender_count"}, Bump({n})
          PROVE  Idle'
      BY <1>0, <2>2, <3>2, IdleKept DEF Routing
    <3> QED BY <2>3, <3>1, <3>2
  <2>5. RestTyped'
    BY <1>0, <2>2, TailTyped DEF Routing
  <2> QED BY <1>0, <2>2, <2>4, <2>5 DEF Routing, PassTypes, CallTyped, ResultsTyped
<1>2. CASE Routed
  <2>1. rest' = <<>> \/ rest' = candidates
    BY <1>2 DEF Routed
  <2>2. RestTyped'
    BY <1>2, <2>1 DEF Routed, RestTyped, ToSet
  <2> QED BY <1>0, <1>2, <2>2 DEF Routed, PassTypes, CallTyped, ResultsTyped, Idle, Comparing
<1>3. CASE StartBatch
  <2>1. CallTyped'
    BY <1>3, CascadeAssumption DEF StartBatch, NoCall, CallTyped, Messages
  <2> QED BY <1>0, <1>3, <2>1 DEF StartBatch, PassTypes, ResultsTyped, Idle, Comparing, RestTyped
<1>4. CASE Prints
  <2>1. call = [asked |-> call.asked, message |-> call.message, said |-> call.said,
                usage |-> call.usage]
    BY DEF PassInv, Statics
  <2>2. CallTyped'
    <3>1. CASE \E message \in Messages :
                 call' = [call EXCEPT !.message = message, !.said = @ + 1]
      <4>1. PICK message \in Messages :
              call' = [call EXCEPT !.message = message, !.said = @ + 1]
        BY <3>1
      <4>2. call'.message = message /\ call'.said = call.said + 1
        BY <2>1, <4>1
      <4>3. call.said \in 0 .. MaxMessages /\ call.said < MaxMessages
        BY <1>0, <1>4 DEF Prints, CallTyped
      <4>4. call.said + 1 \in 0 .. MaxMessages
        BY <4>3, CascadeAssumption
      <4> QED BY <4>2, <4>4 DEF CallTyped, Messages
    <3>2. CASE call' = [call EXCEPT !.usage = TRUE]
      <4>1. call'.message = call.message /\ call'.said = call.said
        BY <2>1, <3>2
      <4> QED BY <1>0, <4>1 DEF CallTyped, Messages
    <3> QED BY <1>4, <3>1, <3>2 DEF Prints
  <2> QED BY <1>0, <1>4, <2>2 DEF Prints, PassTypes, ResultsTyped, Idle, Comparing, RestTyped
<1>5. CASE CodexExits
  <2>1. PICK got : /\ got = IF call.message = Nil THEN <<>> ELSE call.message
                   /\ Returns(got)
    BY <1>5 DEF CodexExits
  <2>2. DOMAIN got \subseteq Ids \cup {Stranger}
    BY <1>0, <2>1, CascadeAssumption DEF CallTyped, Messages
  <2> QED BY <1>5, <2>1, <2>2, ReturnTyped DEF CodexExits
<1>6. CASE ExecFails
  <2>1. DOMAIN <<>> \subseteq Ids \cup {Stranger}
    OBVIOUS
  <2> QED BY <1>6, <2>1, ReturnTyped DEF ExecFails
<1>7. CASE AllAsked
  BY <1>0, <1>7 DEF AllAsked, PassTypes, CallTyped, ResultsTyped, Idle, Comparing, RestTyped
<1>8. CASE Apply
  <2>1. Idle'
    BY <1>0, <1>8, VerdictIdle DEF Apply
  <2>2. RestTyped'
    BY <1>0, <1>8, TailTyped DEF Apply
  <2> QED BY <1>0, <1>8, <2>1, <2>2 DEF Apply, PassTypes, CallTyped, ResultsTyped
<1>9. CASE AskApi
  <2>1. Idle'
    BY <1>0, <1>9, VerdictIdle DEF AskApi
  <2>2. RestTyped'
    BY <1>0, <1>9, TailTyped DEF AskApi
  <2> QED BY <1>0, <1>9, <2>1, <2>2 DEF AskApi, PassTypes, CallTyped, ResultsTyped
<1>10. CASE CompareOne
  <2>1. Comparing'
    BY <1>10 DEF CompareOne, PassInv, Progress, Comparing
  <2>2. RestTyped'
    BY <1>0, <1>10, TailTyped DEF CompareOne
  <2> QED BY <1>0, <1>10, <2>1, <2>2
          DEF CompareOne, PassTypes, CallTyped, ResultsTyped, Idle
<1>11. CASE BatchApplied \/ ApiDone \/ Compared \/ UNCHANGED cascadeVars
  BY <1>0, <1>11
     DEF BatchApplied, ApiDone, Compared, cascadeVars, PassTypes, CallTyped, ResultsTyped,
         Idle, Comparing, RestTyped
<1> QED
  BY <1>1, <1>2, <1>3, <1>4, <1>5, <1>6, <1>7, <1>8, <1>9, <1>10, <1>11 DEF CascadeNext

\* There are no more ids than mails.
LEMMA IdsAreFew == Cardinality(Ids) <= Len(Inbox)
<1>1. PICK f : f = [i \in 1 .. Len(Inbox) |-> Inbox[i].id]
  OBVIOUS
<1>2. f \in [1 .. Len(Inbox) -> Ids] /\ \A id \in Ids : \E i \in 1 .. Len(Inbox) : f[i] = id
  BY <1>1, InboxIs DEF Ids
<1>3. f \in Surjection(1 .. Len(Inbox), Ids)
  BY <1>2, Fun_IsSurj
<1>4. PICK n \in Nat : n = Len(Inbox)
  BY InboxIs
<1>5. IsFiniteSet(1 .. n) /\ Cardinality(1 .. n) = IF 1 > n THEN 0 ELSE n - 1 + 1
  BY FS_Interval
<1>6. IsFiniteSet(1 .. Len(Inbox)) /\ Cardinality(1 .. Len(Inbox)) = Len(Inbox)
  BY <1>4, <1>5
<1> QED
  BY <1>3, <1>6, FS_Surjection

\* No counter exceeds the number of mails, each of which is decided once.
LEMMA CountersBounded ==
    ASSUME PassInv, PassTypes, NEW n \in CounterNames
    PROVE  counters[n] \in 0 .. Len(Inbox)
<1>1. PICK h, a : Progress(h, a) /\ Sums(h)
  BY DEF PassInv
<1>2. /\ counters[n] \in Nat /\ Len(Inbox) \in Nat /\ h \in 0 .. Len(candidates)
      /\ \A k \in CounterNames : counters[k] \in Nat
  BY <1>1, InboxIs DEF PassInv, Counted, Progress
<1>3. ASSUME NEW x \in Accounts
      PROVE  counters[x[1]] <= Len(Inbox)
  <2>1. counters[x[1]] = Cardinality(Rows(x[2], x[3]))
    BY <1>3 DEF PassInv, Counted
  <2>2. Rows(x[2], x[3]) \subseteq Ids
    BY DEF Rows
  <2>3. Cardinality(Rows(x[2], x[3])) <= Cardinality(Ids)
    BY <2>2, IdsAreFinite, FS_Subset
  <2> QED BY <2>1, <2>3, IdsAreFew, IdsAreFinite, FS_CardinalityType, RowsAreFinite, InboxIs
<1>4. CASE \E x \in Accounts : x[1] = n
  BY <1>2, <1>3, <1>4
<1>5. CASE n \in {"agentTaskCount", "agentSkipCount", "missingAgentCount",
                  "deterministicTaskCount", "deterministicSkipCount",
                  "deterministicAgentNeededCount"}
  <2>1. CASE ~Comparing
    BY <1>2, <1>5, <2>1 DEF PassTypes, Idle
  <2>2. CASE Comparing
    <3>1. ByAgent = h /\ ByRules = h /\ candidates = Inbox
      BY <1>1, <2>2 DEF Sums, Progress
    <3>2. /\ counters["agentTaskCount"] \in Nat /\ counters["agentSkipCount"] \in Nat
          /\ counters["missingAgentCount"] \in Nat /\ counters["deterministicTaskCount"] \in Nat
          /\ counters["deterministicSkipCount"] \in Nat
          /\ counters["deterministicAgentNeededCount"] \in Nat
      BY <1>2 DEF CounterNames
    <3>3. /\ counters["agentTaskCount"] <= h /\ counters["agentSkipCount"] <= h
          /\ counters["missingAgentCount"] <= h /\ counters["deterministicTaskCount"] <= h
          /\ counters["deterministicSkipCount"] <= h
          /\ counters["deterministicAgentNeededCount"] <= h
      BY <3>1, <3>2 DEF ByAgent, ByRules
    <3> QED BY <1>2, <1>5, <3>1, <3>3
  <2> QED BY <2>1, <2>2
<1>6. \/ \E x \in Accounts : x[1] = n
      \/ n \in {"agentTaskCount", "agentSkipCount", "missingAgentCount",
                "deterministicTaskCount", "deterministicSkipCount",
                "deterministicAgentNeededCount"}
  BY DEF CounterNames, Accounts
<1> QED BY <1>4, <1>5, <1>6

\* A pass keeps its types: what is left to route is the end of the listing, what
\* is left to apply was listed, and no counter passes the number of mails.
THEOREM PassTyping == CascadeSpec => []CascadeTypeOK
<1>1. ASSUME PassInv, PassTypes
      PROVE  CascadeTypeOK
  <2>1. PICK h, a : Progress(h, a)
    BY <1>1 DEF PassInv
  <2>2. /\ setting \in Settings /\ DOMAIN fates = Ids /\ candidates \in Seq(Mails)
        /\ stage \in {"route", "batch", "exec", "api", "apply", "compare", "done"}
    BY <1>1, <2>1 DEF PassInv, Statics, OneRow, Progress
  <2>3. ToSet(candidates) \subseteq ToSet(Inbox)
    BY <2>2 DEF ToSet, Mails
  <2>4. DOMAIN counters = CounterNames /\ \A n \in CounterNames : counters[n] \in 0 .. Len(Inbox)
    BY <1>1, CountersBounded DEF PassInv, Counted
  <2>5. ASSUME stage = "route"
        PROVE  rest = SubSeq(Inbox, Len(Inbox) - Len(rest) + 1, Len(Inbox))
    <3>1. IsPart(rest, Inbox, Len(Inbox) - Len(rest), Len(Inbox))
      BY <1>1, <2>5 DEF PassTypes, RestTyped
    <3>2. PICK q \in Nat, m \in Nat : q = Len(Inbox) - Len(rest) /\ m = Len(Inbox)
      BY <3>1 DEF IsPart
    <3>3. /\ rest \in Seq(Mails) /\ Len(rest) = m - q /\ q <= m
          /\ \A i \in 1 .. m - q : rest[i] = Inbox[q + i]
      BY <3>1, <3>2 DEF IsPart
    <3>4. PICK s : s = SubSeq(Inbox, q + 1, m)
      OBVIOUS
    <3>5. s \in Seq(Mails) /\ Len(s) = m - q
      BY <3>2, <3>3, <3>4, InboxIs
    <3>6. \A i \in 1 .. m - q : s[i] = Inbox[q + i]
      BY <3>2, <3>3, <3>4, InboxIs
    <3>7. rest = s
      BY <3>3, <3>5, <3>6
    <3> QED BY <3>2, <3>4, <3>7
  <2> QED BY <1>1, <2>2, <2>3, <2>4, <2>5
          DEF CascadeTypeOK, PassTypes, CallTyped, ResultsTyped, RestTyped
<1>2. CascadeSpec => [](PassInv /\ PassTypes)
  BY PassInvInit, PassInvStep, PassTypesInit, PassTypesStep, PTL DEF CascadeSpec
<1> QED BY <1>1, <1>2, PTL

-----------------------------------------------------------------------------
(* A run of a measuring script *)

\* What Total(f) counts.
Units(f) == UNION {{i} \X (1 .. f[i]) : i \in DOMAIN f}

LEMMA UnitsAreFinite ==
    ASSUME NEW S, IsFiniteSet(S), NEW f \in [S -> Nat]
    PROVE  /\ IsFiniteSet(Units(f)) /\ Total(f) \in Nat
           /\ \A p : p \in Units(f) <=> \E i \in S : \E n \in 1 .. f[i] : p = <<i, n>>
<1> DEFINE parts == {{i} \X (1 .. f[i]) : i \in S}
           g == [i \in S |-> {i} \X (1 .. f[i])]
<1>1. Units(f) = UNION parts
  BY DEF Units
<1>2. g \in Surjection(S, parts)
  BY Fun_IsSurj, Zenon
<1>3. IsFiniteSet(parts)
  BY <1>2, FS_Surjection
<1>4. ASSUME NEW T \in parts PROVE IsFiniteSet(T)
  <2>1. PICK i \in S : T = {i} \X (1 .. f[i])
    OBVIOUS
  <2>2. IsFiniteSet({i}) /\ IsFiniteSet(1 .. f[i])
    <3>1. f[i] \in Int /\ 1 \in Int
      OBVIOUS
    <3> QED BY <3>1, FS_Singleton, FS_Interval
  <2> QED BY <2>1, <2>2, FS_Product
<1>5. IsFiniteSet(Units(f))
  <2> HIDE DEF parts
  <2> QED BY <1>1, <1>3, <1>4, FS_UNION
<1>6. Total(f) \in Nat
  BY <1>5, FS_CardinalityType DEF Units, Total
<1>7. ASSUME NEW p PROVE p \in Units(f) <=> \E i \in S : \E n \in 1 .. f[i] : p = <<i, n>>
  BY <1>1
<1> QED BY <1>5, <1>6, <1>7

\* No units, if nothing is counted.
LEMMA TotalOfNothing ==
    ASSUME NEW S
    PROVE  Total([i \in S |-> 0]) = 0
<1>1. UNION {{i} \X (1 .. [k \in S |-> 0][i]) : i \in S} = {}
  OBVIOUS
<1> QED BY <1>1, FS_EmptySet DEF Total

\* counts[cls]++ adds one to the total.
LEMMA TotalGrows ==
    ASSUME NEW S, IsFiniteSet(S), NEW f \in [S -> Nat], NEW c \in S
    PROVE  Total([f EXCEPT ![c] = @ + 1]) = Total(f) + 1
<1> DEFINE h == [f EXCEPT ![c] = @ + 1]
           new == <<c, f[c] + 1>>
<1>1. h \in [S -> Nat] /\ h[c] = f[c] + 1 /\ \A i \in S \ {c} : h[i] = f[i]
  OBVIOUS
<1>2. /\ IsFiniteSet(Units(f))
      /\ \A p : p \in Units(f) <=> \E i \in S : \E n \in 1 .. f[i] : p = <<i, n>>
  BY UnitsAreFinite
<1>3. \A p : p \in Units(h) <=> \E i \in S : \E n \in 1 .. h[i] : p = <<i, n>>
  <2> HIDE DEF h
  <2> QED BY <1>1, UnitsAreFinite
<1>4. new \notin Units(f)
  BY <1>2
<1>5. Units(h) = Units(f) \cup {new}
  <2>1. ASSUME NEW p \in Units(h) PROVE p \in Units(f) \cup {new}
    <3>1. PICK i \in S : \E n \in 1 .. h[i] : p = <<i, n>>
      BY <1>3
    <3>0. PICK n \in 1 .. h[i] : p = <<i, n>>
      BY <3>1
    <3>2. CASE i = c /\ n = f[c] + 1
      BY <3>0, <3>2
    <3>3. CASE ~(i = c /\ n = f[c] + 1)
      <4>1. n \in 1 .. f[i]
        <5>1. f[i] \in Nat
          OBVIOUS
        <5> HIDE DEF h
        <5> QED BY <3>3, <1>1, <5>1
      <4> QED BY <1>2, <3>0, <4>1
    <3> QED BY <3>2, <3>3
  <2>2. ASSUME NEW p \in Units(f) PROVE p \in Units(h)
    <3>1. PICK i \in S : \E n \in 1 .. f[i] : p = <<i, n>>
      BY <1>2
    <3>0. PICK n \in 1 .. f[i] : p = <<i, n>>
      BY <3>1
    <3>2. n \in 1 .. h[i]
      <4>1. f[i] \in Nat
        OBVIOUS
      <4> HIDE DEF h
      <4> QED BY <1>1, <4>1
    <3> HIDE DEF h
    <3> QED BY <1>3, <3>0, <3>2
  <2>3. new \in Units(h)
    <3>1. f[c] + 1 \in 1 .. h[c]
      BY <1>1
    <3> HIDE DEF h
    <3> QED BY <1>3, <3>1
  <2> HIDE DEF h, new
  <2> QED BY <2>1, <2>2, <2>3
<1>6. Cardinality(Units(f) \cup {new}) = Cardinality(Units(f)) + 1
  <2> HIDE DEF new
  <2>1. Cardinality(Units(f) \cup {new}) =
          IF new \in Units(f) THEN Cardinality(Units(f)) ELSE Cardinality(Units(f)) + 1
    BY <1>2, FS_AddElement, Zenon
  <2> QED BY <2>1, <1>4
<1> HIDE DEF h
<1> QED BY <1>5, <1>6 DEF Total, Units, h

\* What has an element has a least one.
LEMMA LeastIs ==
    ASSUME NEW S, S \subseteq Nat, S # {}
    PROVE  Min(S) \in S
<1>1. PICK R : R = {ss \in Nat \X Nat : ss[1] < ss[2]}
  OBVIOUS
<1>2. IsWellFoundedOn(R, Nat)
  BY <1>1, NatLessThanWellFounded DEF OpToRel
<1>3. PICK x \in S : \A y \in S : ~(<<y, x>> \in R)
  BY <1>2, WFMin
<1>4. x \in Nat /\ \A y \in S : y \in Nat /\ ~(y < x)
  BY <1>1, <1>3
<1>5. \A y \in S : x <= y
  BY <1>4
<1> QED BY <1>5 DEF Min

\* A row of the table.
RowSet ==
    [block : ToSet(Blocks), trials : Nat \cup {NaN}, tally : [Classes -> Nat],
     valid : BOOLEAN, unread : Nat, wrong : Nat, rest : BOOLEAN]

ProbeShape ==
    /\ args \in Invocations
    /\ step \in {"start", "block", "trial", "done", "refused", "failed", "killed"}
    /\ snapshot \in [ToSet(Blocks) -> Facts \cup {NoFact}] /\ listing \in Listings
    /\ todo \subseteq DOMAIN Blocks /\ asked \in Nat
    /\ trial \in [turns : Nat, parsed : BOOLEAN, tools : Nat]
    /\ seen \in [unread : Nat, wrong : Nat, rest : {"resident", "stateless", "none"},
                 refreshed : BOOLEAN]
    /\ rows \in Seq(RowSet)
    /\ step = "trial" => tally \in [Classes -> Nat]
    /\ step \in {"start", "refused", "failed", "killed"} => rows = <<>>

\* A run that was not refused has a number of trials, and enough of them.
Powered ==
    step \in {"block", "trial", "done"} /\ args.probe # "ceiling" =>
        /\ Trials \in Nat \ {0}
        /\ ~args.allow => Trials >= MinTrials

\* Every question with a truth is measured or still to measure, and the truths
\* are those of the snapshot until it is refreshed.
TruthsKept ==
    step \in {"block", "trial", "done"} /\ args.probe = "fabrication" =>
        /\ truths \in [ToSet(Blocks) -> Facts \cup {NoFact}]
        /\ ~seen.refreshed => snapshot = truths
        /\ \A i \in todo : truths[Blocks[i]] # NoFact
        /\ Len(rows) + Cardinality(todo) + Cardinality(Unavailable) = Len(Blocks)

\* How the endpoint was when the state was read.
WasAtRest(state, how) ==
    /\ how = "resident" <=>
         ~state.error /\ state.target = "resident" /\ state.othersLoading = {}
    /\ how = "stateless" <=> ~state.error /\ state.stateless

\* The block under way: its trials are counted once, at most as many as were
\* asked for, and what is counted as fabricated contradicts the snapshot.
UnderWay ==
    step = "trial" =>
        /\ todo # {} /\ Total(tally) = asked
        /\ IF Trials = NaN THEN asked = 0 ELSE asked <= Trials
        /\ args.probe = "fabrication" /\ ~seen.refreshed => tally["fabricated"] = seen.wrong
        /\ WasAtRest(before, seen.rest)

\* What the properties ask of a row, and that no question goes without trials.
GoodRow(r) ==
    /\ Total(r.tally) = IF r.trials = NaN THEN 0 ELSE r.trials
    /\ r.trials \in {0, Trials}
    /\ r.trials # 0 => (r.valid <=> r.rest)
    /\ args.probe = "fabrication" =>
         /\ r.trials = Trials /\ truths[r.block] # NoFact
         /\ ~seen.refreshed => r.tally["fabricated"] = r.wrong
    /\ args.probe # "ceiling" /\ ~args.allow =>
         r.trials >= MinTrials \/ (r.trials = 0 /\ ~r.valid)

RowsTrue == \A r \in AllRows : GoodRow(r)

\* The inductive invariant.
ProbeInv ==
    /\ ProbeShape /\ Powered /\ TruthsKept /\ UnderWay /\ RowsTrue /\ FileTellsTheRun

-----------------------------------------------------------------------------
LEMMA TrialsIs ==
    ASSUME args \in Invocations
    PROVE  Trials \in Nat \cup {NaN} /\ args.probe \in {"fabrication", "ceiling", "benchmark"}
BY ProbeAssumption DEF Trials

\* A set of up to eight is finite.
LEMMA FewAreFinite ==
    ASSUME NEW a, NEW b, NEW c, NEW d, NEW e, NEW f, NEW g, NEW h
    PROVE  IsFiniteSet({a, b, c, d, e, f, g, h})
<1>1. IsFiniteSet({a}) /\ IsFiniteSet({b}) /\ IsFiniteSet({c}) /\ IsFiniteSet({d})
      /\ IsFiniteSet({e}) /\ IsFiniteSet({f}) /\ IsFiniteSet({g}) /\ IsFiniteSet({h})
  BY FS_Singleton, Zenon
<1>2. IsFiniteSet({a} \cup {b}) /\ IsFiniteSet({c} \cup {d})
      /\ IsFiniteSet({e} \cup {f}) /\ IsFiniteSet({g} \cup {h})
  BY <1>1, FS_Union, Zenon
<1>3. IsFiniteSet(({a} \cup {b}) \cup ({c} \cup {d}))
      /\ IsFiniteSet(({e} \cup {f}) \cup ({g} \cup {h}))
  BY <1>2, FS_Union, Zenon
<1>4. IsFiniteSet((({a} \cup {b}) \cup ({c} \cup {d})) \cup (({e} \cup {f}) \cup ({g} \cup {h})))
  BY <1>3, FS_Union, Zenon
<1>5. {a, b, c, d, e, f, g, h} =
        (({a} \cup {b}) \cup ({c} \cup {d})) \cup (({e} \cup {f}) \cup ({g} \cup {h}))
  OBVIOUS
<1> QED BY <1>4, <1>5

LEMMA ClassesAreFinite ==
    ASSUME args \in Invocations
    PROVE  /\ IsFiniteSet(Classes)
           /\ args.probe = "fabrication" => "fabricated" \in Classes
<1>1. IsFiniteSet(FabClasses)
  BY FewAreFinite DEF FabClasses
<1>2. IsFiniteSet(TrialClasses)
  <2>1. TrialClasses = {"tool_calls", "malformed", "truncated", "no_tool_call", "http_error",
                        "unparseable", "unparseable", "unparseable"}
    BY DEF TrialClasses
  <2> QED BY <2>1, FewAreFinite
<1>3. IsFiniteSet(FailureClasses)
  <2>1. FailureClasses = {"ok", "http_error", "unparseable", "malformed", "no_tool_call",
                          "no_tool_call", "no_tool_call", "no_tool_call"}
    BY DEF FailureClasses
  <2> QED BY <2>1, FewAreFinite
<1>4. args.probe = "fabrication" => Classes = FabClasses
  BY TrialsIs DEF Classes
<1>5. Classes \in {FabClasses, TrialClasses, FailureClasses}
  BY TrialsIs DEF Classes
<1> QED BY <1>1, <1>2, <1>3, <1>4, <1>5 DEF FabClasses

\* The next question is one of those to measure.
LEMMA NextIsTodo ==
    ASSUME todo \subseteq DOMAIN Blocks, todo # {}
    PROVE  /\ Min(todo) \in todo /\ Question \in ToSet(Blocks)
           /\ IsFiniteSet(todo) /\ Cardinality(todo) \in Nat
           /\ Cardinality(todo \ {Min(todo)}) = Cardinality(todo) - 1
<1>1. Blocks \in Seq(ToSet(Blocks)) /\ DOMAIN Blocks = 1 .. Len(Blocks) /\ Len(Blocks) \in Nat
  BY ProbeAssumption
<1>2. IsFiniteSet(todo)
  <2>1. IsFiniteSet(1 .. Len(Blocks))
    BY <1>1, FS_Interval
  <2> QED BY <1>1, <2>1, FS_Subset
<1>3. Cardinality(todo) \in Nat
  BY <1>2, FS_CardinalityType
<1>4. Min(todo) \in todo
  BY <1>1, LeastIs
<1>5. Question \in ToSet(Blocks)
  BY <1>1, <1>4 DEF Question, ToSet
<1>6. Cardinality(todo \ {Min(todo)}) = Cardinality(todo) - 1
  BY <1>2, <1>4, FS_RemoveElement, Zenon
<1> QED BY <1>2, <1>3, <1>4, <1>5, <1>6

LEMMA UnavailableIsFinite == IsFiniteSet(Unavailable) /\ Cardinality(Unavailable) \in Nat
<1>1. DOMAIN Blocks = 1 .. Len(Blocks) /\ Len(Blocks) \in Nat
  BY ProbeAssumption
<1>2. IsFiniteSet(1 .. Len(Blocks)) /\ Unavailable \subseteq 1 .. Len(Blocks)
  BY <1>1, FS_Interval DEF Unavailable
<1> QED BY <1>2, FS_Subset, FS_CardinalityType

\* What fetchEndpointState reads tells whether the endpoint is at rest.
LEMMA EndpointFacts ==
    ASSUME listing \in Listings
    PROVE  /\ AtRest \in {"resident", "stateless", "none"}
           /\ WasAtRest(FetchEndpointState, AtRest)
<1>1. CASE listing = NoAnswer
  BY <1>1 DEF AtRest, WasAtRest, FetchEndpointState
<1>2. CASE listing # NoAnswer
  <2> DEFINE resident == listing[Measured] = "resident" /\ \A m \in Models : listing[m] # "loading"
             stateless == \A m \in Models : listing[m] \in {"absent", "none"}
  <2>1. listing \in [Models -> LoadState] /\ Measured \in Models
    BY <1>2, ProbeAssumption
  <2>2. FetchEndpointState = ReadModelsResponse(listing)
    BY <1>2 DEF FetchEndpointState
  <2>3. /\ ~FetchEndpointState.error
        /\ FetchEndpointState.stateless <=> stateless
    BY <2>2 DEF ReadModelsResponse
  <2>4. FetchEndpointState.target = "resident" <=> listing[Measured] = "resident"
    BY <2>1, <2>2 DEF ReadModelsResponse
  <2>5. FetchEndpointState.othersLoading = {} <=>
          \A m \in Models \ {Measured} : listing[m] # "loading"
    BY <2>2 DEF ReadModelsResponse
  <2>6. AtRest = IF resident THEN "resident" ELSE IF stateless THEN "stateless" ELSE "none"
    BY <1>2, <2>1 DEF AtRest
  <2>7. ~(resident /\ stateless)
    BY <2>1
  <2>8. resident <=> /\ FetchEndpointState.target = "resident"
                     /\ FetchEndpointState.othersLoading = {}
    BY <2>4, <2>5
  <2> HIDE DEF resident, stateless
  <2> QED BY <2>3, <2>6, <2>7, <2>8 DEF WasAtRest
<1> QED BY <1>1, <1>2

-----------------------------------------------------------------------------
\* Steps that add no row leave what the rows say.
LEMMA RowsKept ==
    ASSUME UNCHANGED <<args, truths, rows>>, seen.refreshed => seen'.refreshed, RowsTrue
    PROVE  RowsTrue'
<1>1. AllRows' = AllRows /\ Trials' = Trials
  BY DEF AllRows, ToSet, Trials
<1>2. ASSUME NEW r, GoodRow(r) PROVE GoodRow(r)'
  BY <1>1, <1>2 DEF GoodRow
<1> QED BY <1>1, <1>2 DEF RowsTrue

LEMMA RowAdded ==
    ASSUME UNCHANGED <<args, truths>>, seen'.refreshed = seen.refreshed, RowsTrue,
           rows \in Seq(RowSet), NEW r \in RowSet, rows' = Append(rows, r), GoodRow(r)
    PROVE  rows' \in Seq(RowSet)' /\ RowsTrue' /\ Len(rows') = Len(rows) + 1
<1>1. RowSet' = RowSet
  BY DEF RowSet, Classes
<1>2. rows' \in Seq(RowSet) /\ Len(rows') = Len(rows) + 1
  OBVIOUS
<1>3. ASSUME NEW x \in AllRows' PROVE x \in AllRows \/ x = r
  BY <1>3 DEF AllRows, ToSet
<1>4. ASSUME NEW x PROVE GoodRow(x)' <=> GoodRow(x)
  BY DEF GoodRow, Trials
<1>5. RowsTrue'
  BY <1>3, <1>4 DEF RowsTrue
<1> QED BY <1>1, <1>2, <1>5

\* A report of this run that says it is complete is of a run that is done.
LEMMA FileKept ==
    ASSUME FileTellsTheRun, step # "done", UNCHANGED <<args, rows, file>>
    PROVE  FileTellsTheRun'
BY DEF FileTellsTheRun

-----------------------------------------------------------------------------
LEMMA ProbeInitHolds == ProbeInit => ProbeInv
<1> SUFFICES ASSUME ProbeInit PROVE ProbeInv
  OBVIOUS
<1>1. ProbeShape
  BY ProbeAssumption DEF ProbeInit, ProbeShape, NothingSeen, NoTrial
<1>2. Powered /\ TruthsKept /\ UnderWay
  BY DEF ProbeInit, Powered, TruthsKept, UnderWay
<1>3. RowsTrue
  BY DEF ProbeInit, RowsTrue, AllRows, ToSet
<1>4. FileTellsTheRun
  BY DEF ProbeInit, FileTellsTheRun
<1> QED BY <1>1, <1>2, <1>3, <1>4 DEF ProbeInv

LEMMA StartKeeps == ProbeInv /\ Start => ProbeInv'
<1> SUFFICES ASSUME ProbeInv, Start PROVE ProbeInv'
  OBVIOUS
<1>0. ProbeShape /\ RowsTrue /\ FileTellsTheRun /\ step = "start" /\ rows = <<>>
      /\ UNCHANGED <<args, before, asked, tally, trial, rows, file, snapshot, listing, events, seen>>
  BY DEF ProbeInv, Start, ProbeShape, around, count
<1>1. CASE Refused
  <2>1. step' = "refused" /\ UNCHANGED <<truths, todo>>
    BY <1>1 DEF Start
  <2>2. ProbeShape'
    BY <1>0, <2>1 DEF ProbeShape, RowSet, Classes
  <2>3. Powered' /\ TruthsKept' /\ UnderWay'
    BY <2>1 DEF Powered, TruthsKept, UnderWay
  <2> QED BY <1>0, <2>1, <2>2, <2>3, RowsKept, FileKept DEF ProbeInv
<1>2. CASE ~Refused
  <2>1. /\ step' = "block"
        /\ args.probe = "fabrication" => truths' = [q \in ToSet(Blocks) |-> snapshot[q]]
        /\ todo' = {i \in DOMAIN Blocks :
                      args.probe = "fabrication" => snapshot[Blocks[i]] # NoFact}
    BY <1>2 DEF Start, ResolveTruths
  <2>2. args \in Invocations /\ snapshot \in [ToSet(Blocks) -> Facts \cup {NoFact}]
    BY <1>0 DEF ProbeShape
  <2>3. ProbeShape'
    BY <1>0, <2>1 DEF ProbeShape, RowSet, Classes
  <2>4. Powered'
    BY <1>0, <1>2, <2>2, TrialsIs, ProbeAssumption
       DEF Powered, Refused, BadTrials, Underpowered, Trials
  <2>5. TruthsKept'
    <3> SUFFICES ASSUME args.probe = "fabrication" PROVE TruthsKept'
      BY <1>0 DEF TruthsKept
    <3>1. truths' = snapshot /\ snapshot' = snapshot
      BY <1>0, <2>1, <2>2
    <3>2. Blocks \in Seq(ToSet(Blocks)) /\ DOMAIN Blocks = 1 .. Len(Blocks)
          /\ Len(Blocks) \in Nat
      BY ProbeAssumption
    <3>3. /\ todo' = (DOMAIN Blocks) \ Unavailable'
          /\ (DOMAIN Blocks) \cap Unavailable' = Unavailable'
      BY <2>1, <3>1 DEF Unavailable
    <3>4. IsFiniteSet(DOMAIN Blocks) /\ Cardinality(DOMAIN Blocks) = Len(Blocks)
      BY <3>2, FS_Interval
    <3>5. Cardinality(todo') = Len(Blocks) - Cardinality(Unavailable')
      <4>1. Cardinality((DOMAIN Blocks) \ Unavailable') =
              Cardinality(DOMAIN Blocks) - Cardinality((DOMAIN Blocks) \cap Unavailable')
        BY <3>4, FS_Difference, Zenon
      <4> QED BY <3>3, <3>4, <4>1
    <3>6. Cardinality(Unavailable') \in Nat
      BY <3>3, <3>4, FS_Intersection, FS_CardinalityType
    <3>7. Len(rows') = 0
      BY <1>0
    <3>8. Len(rows') + Cardinality(todo') + Cardinality(Unavailable') = Len(Blocks)
      BY <3>2, <3>5, <3>6, <3>7
    <3>9. \A i \in todo' : truths'[Blocks[i]] # NoFact
      BY <2>1, <3>1
    <3> QED BY <2>2, <3>1, <3>8, <3>9 DEF TruthsKept
  <2>6. UnderWay'
    BY <2>1 DEF UnderWay
  <2>7. RowsTrue'
    BY <1>0 DEF RowsTrue, AllRows, ToSet
  <2> QED BY <1>0, <2>3, <2>4, <2>5, <2>6, <2>7, FileKept DEF ProbeInv
<1> QED BY <1>1, <1>2

\* A run that ends before its time leaves no rows and a file it had left.
LEMMA DiesKeeps ==
    ASSUME ProbeInv, step # "done", NEW how \in {"failed", "killed"}, Dies(how),
           UNCHANGED <<snapshot, listing>>
    PROVE  ProbeInv'
<1>1. ProbeShape /\ FileTellsTheRun
      /\ step' = how /\ todo' = {} /\ asked' = 0 /\ rows' = <<>> /\ seen' = NothingSeen
      /\ trial' = NoTrial
      /\ UNCHANGED <<args, file>>
  BY DEF ProbeInv, Dies
<1>2. ProbeShape'
  BY <1>1 DEF ProbeShape, NothingSeen, NoTrial
<1>3. Powered' /\ TruthsKept' /\ UnderWay'
  BY <1>1 DEF Powered, TruthsKept, UnderWay
<1>4. RowsTrue'
  BY <1>1 DEF RowsTrue, AllRows, ToSet
<1>5. FileTellsTheRun'
  BY <1>1 DEF FileTellsTheRun
<1> QED BY <1>2, <1>3, <1>4, <1>5 DEF ProbeInv

LEMMA BlockBeginsKeeps == ProbeInv /\ BlockBegins => ProbeInv'
<1> SUFFICES ASSUME ProbeInv, BlockBegins PROVE ProbeInv'
  OBVIOUS
<1>0. /\ ProbeShape /\ Powered /\ TruthsKept /\ RowsTrue /\ FileTellsTheRun
      /\ step = "block" /\ todo # {} /\ UNCHANGED <<args, truths, trial, file, snapshot, listing>>
  BY DEF ProbeInv, BlockBegins, around
<1>1. args \in Invocations /\ todo \subseteq DOMAIN Blocks /\ listing \in Listings
  BY <1>0 DEF ProbeShape
<1> DEFINE state == FetchEndpointState
           zero == [c \in Classes |-> 0]
<1>2. Total(zero) = 0 /\ zero \in [Classes -> Nat]
  BY TotalOfNothing, Zenon
<1>3. CASE args.probe = "benchmark" /\ ~BlockValidity(state, state)
  <2> DEFINE r == BlockRow(0, zero, FALSE)
  <2>1. /\ rows' = Append(rows, r) /\ todo' = todo \ {Min(todo)}
        /\ UNCHANGED <<step, before, asked, tally, seen>>
    BY <1>3 DEF BlockBegins, count
  <2>2. r = [block |-> Question, trials |-> 0, tally |-> zero, valid |-> FALSE,
             unread |-> seen.unread, wrong |-> seen.wrong,
             rest |-> AtRest # "none" /\ seen.rest = AtRest]
    BY DEF BlockRow
  <2>3. r \in RowSet
    <3>1. seen.unread \in Nat /\ seen.wrong \in Nat /\ Question \in ToSet(Blocks)
      BY <1>0, <1>1, NextIsTodo DEF ProbeShape
    <3> HIDE DEF zero, r
    <3> QED BY <1>2, <2>2, <3>1 DEF RowSet
  <2>4. GoodRow(r)
    <3>1. r.trials = 0 /\ r.tally = zero /\ ~r.valid
      <4> HIDE DEF zero, r
      <4> QED BY <2>2
    <3>2. 0 # NaN
      BY ProbeAssumption
    <3> HIDE DEF zero, r
    <3> QED BY <1>2, <1>3, <3>1, <3>2 DEF GoodRow
  <2>5. rows' \in Seq(RowSet)' /\ RowsTrue'
    <3> HIDE DEF r
    <3> QED BY <1>0, <2>1, <2>3, <2>4, RowAdded DEF ProbeShape
  <2>6. ProbeShape'
    BY <1>0, <2>1, <2>5 DEF ProbeShape
  <2>7. Powered'
    BY <1>0, <2>1 DEF Powered, Trials
  <2>8. TruthsKept' /\ UnderWay' /\ FileTellsTheRun'
    BY <1>0, <1>3, <2>1 DEF TruthsKept, UnderWay, FileTellsTheRun
  <2> QED BY <2>5, <2>6, <2>7, <2>8 DEF ProbeInv
<1>4. CASE ~(args.probe = "benchmark" /\ ~BlockValidity(state, state))
  <2>1. /\ step' = "trial" /\ before' = state /\ asked' = 0 /\ tally' = zero
        /\ seen' = [seen EXCEPT !.unread = 0, !.wrong = 0, !.rest = AtRest]
        /\ UNCHANGED <<rows, todo>>
    BY <1>4 DEF BlockBegins
  <2>2. AtRest \in {"resident", "stateless", "none"} /\ WasAtRest(state, AtRest)
    BY <1>1, EndpointFacts
  <2>3. /\ seen' \in [unread : Nat, wrong : Nat, rest : {"resident", "stateless", "none"},
                       refreshed : BOOLEAN]
        /\ seen'.refreshed = seen.refreshed /\ seen'.wrong = 0 /\ seen'.rest = AtRest
    BY <1>0, <2>1, <2>2 DEF ProbeShape
  <2>4. ProbeShape'
    <3>1. Classes' = Classes /\ RowSet' = RowSet
      BY <1>0 DEF Classes, RowSet
    <3> QED BY <1>0, <1>2, <2>1, <2>3, <3>1 DEF ProbeShape
  <2>5. Powered'
    BY <1>0, <2>1 DEF Powered, Trials
  <2>6. TruthsKept'
    BY <1>0, <2>1, <2>3 DEF TruthsKept, Unavailable
  <2>7. UnderWay'
    <3>1. Total(tally') = 0
      BY <1>2, <2>1
    <3>2. Trials' = Trials /\ Trials \in Nat \cup {NaN}
      BY <1>0, <1>1, TrialsIs DEF Trials
    <3>3. WasAtRest(before', seen'.rest)
      BY <2>1, <2>2, <2>3
    <3>4. args.probe = "fabrication" => tally'["fabricated"] = 0
      BY <1>1, <2>1, ClassesAreFinite
    <3>5. IF Trials' = NaN THEN asked' = 0 ELSE asked' <= Trials'
      BY <2>1, <3>2
    <3>6. Total(tally)' = asked' /\ WasAtRest(before, seen.rest)'
      BY <3>1, <3>3, <2>1 DEF Total, WasAtRest
    <3> QED BY <1>0, <2>1, <2>3, <3>4, <3>5, <3>6 DEF UnderWay
  <2>8. RowsTrue'
    BY <1>0, <2>1, <2>3, RowsKept
  <2> QED BY <1>0, <2>1, <2>4, <2>5, <2>6, <2>7, <2>8, FileKept DEF ProbeInv
<1> QED BY <1>3, <1>4

LEMMA BlockEndsKeeps == ProbeInv /\ BlockEnds => ProbeInv'
<1> SUFFICES ASSUME ProbeInv, BlockEnds PROVE ProbeInv'
  OBVIOUS
<1> DEFINE valid == BlockValidity(before, FetchEndpointState)
           r == BlockRow(Trials, tally, valid)
<1>0. /\ ProbeShape /\ Powered /\ TruthsKept /\ UnderWay /\ RowsTrue /\ FileTellsTheRun
      /\ step = "trial" /\ step' = "block" /\ Over
      /\ rows' = Append(rows, r) /\ todo' = todo \ {Min(todo)}
      /\ file' = IF args.probe = "fabrication" /\ args.report
                 THEN [by |-> "this", complete |-> FALSE, told |-> NothingTold] ELSE file
      /\ asked' = 0 /\ seen' = [seen EXCEPT !.unread = 0, !.wrong = 0, !.rest = "none"]
      /\ UNCHANGED <<args, truths, trial, snapshot, listing>>
  BY DEF ProbeInv, BlockEnds, around
<1>1. /\ args \in Invocations /\ todo \subseteq DOMAIN Blocks /\ listing \in Listings
      /\ todo # {} /\ tally \in [Classes -> Nat] /\ asked \in Nat /\ Total(tally) = asked
  BY <1>0 DEF ProbeShape, UnderWay
<1>2. Trials \in Nat \cup {NaN}
  BY <1>1, TrialsIs
<1>3. r = [block |-> Question, trials |-> Trials, tally |-> tally, valid |-> valid,
           unread |-> seen.unread, wrong |-> seen.wrong,
           rest |-> AtRest # "none" /\ seen.rest = AtRest]
  BY DEF BlockRow
<1>4. valid \in BOOLEAN /\ (valid <=> (AtRest # "none" /\ seen.rest = AtRest))
  <2>1. WasAtRest(before, seen.rest)
    BY <1>0 DEF UnderWay
  <2>2. WasAtRest(FetchEndpointState, AtRest) /\ AtRest \in {"resident", "stateless", "none"}
    BY <1>1, EndpointFacts
  <2>3. valid \in BOOLEAN
    BY DEF BlockValidity
  <2> QED BY <2>1, <2>2, <2>3 DEF WasAtRest, BlockValidity
<1>5. r \in RowSet
  <2>1. seen.unread \in Nat /\ seen.wrong \in Nat /\ Question \in ToSet(Blocks)
    BY <1>0, <1>1, NextIsTodo DEF ProbeShape
  <2> HIDE DEF valid, r
  <2> QED BY <1>1, <1>2, <1>3, <1>4, <2>1 DEF RowSet
<1>6. GoodRow(r)
  <2>1. asked = IF Trials = NaN THEN 0 ELSE Trials
    BY <1>0, <1>1, <1>2 DEF Over, UnderWay
  <2>2. args.probe = "fabrication" => truths[Question] # NoFact
    BY <1>0, <1>1, NextIsTodo DEF TruthsKept, Question
  <2>3. args.probe = "fabrication" /\ ~seen.refreshed => tally["fabricated"] = seen.wrong
    BY <1>0 DEF UnderWay
  <2>4. args.probe # "ceiling" /\ ~args.allow => Trials >= MinTrials
    BY <1>0 DEF Powered
  <2>5. /\ r.block = Question /\ r.trials = Trials /\ r.tally = tally /\ r.wrong = seen.wrong
        /\ r.valid <=> r.rest
    <3> HIDE DEF r, valid
    <3> QED BY <1>3, <1>4
  <2> HIDE DEF r
  <2> QED BY <1>1, <2>1, <2>2, <2>3, <2>4, <2>5 DEF GoodRow
<1>7. /\ seen' \in [unread : Nat, wrong : Nat, rest : {"resident", "stateless", "none"},
                     refreshed : BOOLEAN]
      /\ seen'.refreshed = seen.refreshed
  BY <1>0 DEF ProbeShape
<1> HIDE DEF r, valid
<1>8. rows' \in Seq(RowSet)' /\ RowsTrue' /\ Len(rows') = Len(rows) + 1
  BY <1>0, <1>5, <1>6, <1>7, RowAdded DEF ProbeShape
<1>9. ProbeShape'
  BY <1>0, <1>7, <1>8 DEF ProbeShape
<1>10. Powered' /\ UnderWay'
  BY <1>0 DEF Powered, UnderWay, Trials
<1>11. TruthsKept'
  <2> SUFFICES ASSUME args.probe = "fabrication" PROVE TruthsKept'
    BY <1>0 DEF TruthsKept
  <2>1. Cardinality(todo') = Cardinality(todo) - 1 /\ Cardinality(todo) \in Nat
    BY <1>0, <1>1, NextIsTodo
  <2>2. Len(rows) \in Nat
    BY <1>0 DEF ProbeShape
  <2>3. Unavailable' = Unavailable
    BY <1>0 DEF Unavailable
  <2>4. IsFiniteSet(Unavailable) /\ Cardinality(Unavailable) \in Nat
    BY UnavailableIsFinite
  <2>5. Len(rows') + Cardinality(todo') + Cardinality(Unavailable') = Len(Blocks)
    BY <1>0, <1>8, <2>1, <2>2, <2>3, <2>4 DEF TruthsKept
  <2> QED BY <1>0, <1>7, <2>3, <2>5 DEF TruthsKept
<1>12. FileTellsTheRun'
  BY <1>0 DEF FileTellsTheRun
<1> QED BY <1>8, <1>9, <1>10, <1>11, <1>12 DEF ProbeInv

\* The report tells what the rows say.
LEMMA ReportKeeps == ProbeInv /\ Report => ProbeInv'
<1> SUFFICES ASSUME ProbeInv, Report PROVE ProbeInv'
  OBVIOUS
<1>0. /\ ProbeShape /\ Powered /\ TruthsKept /\ RowsTrue /\ FileTellsTheRun
      /\ step = "block" /\ todo = {} /\ step' = "done"
      /\ file' = IF args.report THEN [by |-> "this", complete |-> TRUE, told |-> Told] ELSE file
      /\ UNCHANGED <<args, truths, todo, asked, trial, rows, snapshot, listing, seen>>
  BY DEF ProbeInv, Report, around, count
<1>1. ProbeShape'
  BY <1>0 DEF ProbeShape, RowSet, Classes
<1>2. Powered' /\ TruthsKept' /\ UnderWay'
  BY <1>0 DEF Powered, TruthsKept, UnderWay, Trials, Unavailable
<1>3. RowsTrue'
  BY <1>0, RowsKept
<1>4. CASE ~args.report
  BY <1>0, <1>1, <1>2, <1>3, <1>4, FileKept DEF ProbeInv
<1>5. CASE args.report
  <2>1. file' = [by |-> "this", complete |-> TRUE, told |-> Told]
    BY <1>0, <1>5
  <2>2. file'.by = "this" /\ file'.told.measured = Len(rows)
    BY <2>1 DEF Told
  <2>3. ASSUME args.probe = "fabrication"
        PROVE  /\ file'.told.measured + file'.told.unavailable = Len(Blocks)
               /\ file'.told.pooled = TalliedAtRest
    <3>1. file'.told.unavailable = Cardinality(Unavailable) /\ file'.told.pooled = Pooled
      BY <2>1, <2>3 DEF Told
    <3>2. Cardinality(todo) = 0
      BY <1>0, FS_EmptySet
    <3>3. Len(rows) \in Nat /\ rows \in Seq(RowSet) /\ args \in Invocations
      BY <1>0 DEF ProbeShape
    <3>4. Len(rows) + Cardinality(Unavailable) = Len(Blocks)
      BY <1>0, <2>3, <3>2, <3>3, UnavailableIsFinite DEF TruthsKept
    <3>5. ASSUME NEW i \in DOMAIN rows
          PROVE  rows[i].valid = rows[i].rest /\ rows[i].trials = Total(rows[i].tally)
      <4>1. rows[i] \in RowSet /\ rows[i] \in AllRows
        BY <3>3 DEF AllRows, ToSet
      <4>2. GoodRow(rows[i])
        BY <1>0, <4>1 DEF RowsTrue
      <4>3. Trials \in Nat \ {0} /\ Trials # NaN
        BY <1>0, <2>3, ProbeAssumption DEF Powered
      <4>4. rows[i].valid \in BOOLEAN /\ rows[i].rest \in BOOLEAN
        BY <4>1 DEF RowSet
      <4> QED BY <2>3, <4>2, <4>3, <4>4 DEF GoodRow
    <3>6. Rates = {k \in DOMAIN rows : rows[k].rest}
      BY <3>5 DEF Rates
    <3>7. [i \in Rates |-> rows[i].trials] =
            [i \in {k \in DOMAIN rows : rows[k].rest} |-> Total(rows[i].tally)]
      BY <3>5, <3>6
    <3>8. Pooled = TalliedAtRest
      BY <3>7 DEF Pooled, TalliedAtRest
    <3> QED BY <2>2, <3>1, <3>4, <3>8
  <2>4. TalliedAtRest' = TalliedAtRest
    BY <1>0 DEF TalliedAtRest, Total
  <2>5. FileTellsTheRun'
    BY <1>0, <2>2, <2>3, <2>4 DEF FileTellsTheRun
  <2> QED BY <1>1, <1>2, <1>3, <2>5 DEF ProbeInv
<1> QED BY <1>4, <1>5

-----------------------------------------------------------------------------
\* What a trial has observed, at its end.
Observations ==
    [status : Nat, parsed : BOOLEAN, tools : Nat,
     content : [states : SUBSET Facts, hedge : BOOLEAN, xml : BOOLEAN, cut : BOOLEAN,
                empty : BOOLEAN]]

\* Every trial has one of the script's classes; an answer is fabricated exactly
\* if it was read, states one fact and that is not the truth.
LEMMA ClassIs ==
    ASSUME args \in Invocations, NEW obs \in Observations
    PROVE  /\ Class(obs) \in Classes
           /\ args.probe = "fabrication" =>
                (Class(obs) = "fabricated" <=>
                   /\ obs.status = 200 /\ obs.parsed
                   /\ \E f \in Facts \ {truths[Question]} : obs.content.states = {f})
<1>1. CASE args.probe = "fabrication"
  <2> DEFINE truth == truths[Question]
             told == obs.content.states
  <2>1. Class(obs) = ClassifyFabTrial(obs, truth) /\ Classes = FabClasses
    BY <1>1 DEF Class, Classes
  <2>2. told \subseteq Facts
    BY DEF Observations
  <2>3. IsFiniteSet(told)
    BY <2>2, ProbeAssumption, FS_Subset
  <2>4. /\ Cardinality(told) \in Nat
        /\ Cardinality(told) = 0 <=> told = {}
        /\ Cardinality(told) = 1 <=> \E f : told = {f}
    <3> HIDE DEF told
    <3> QED BY <2>3, FS_CardinalityType, FS_EmptySet, FS_Singleton
  <2>5. Class(obs) =
          IF obs.status # 200 THEN "http_error"
          ELSE IF ~obs.parsed THEN "unparseable"
          ELSE IF Cardinality(told) > 1 THEN "unclassifiable"
          ELSE IF told = {} THEN (IF obs.content.hedge THEN "abstained" ELSE "no_fact")
          ELSE IF told = {truth} THEN (IF obs.tools > 0 THEN "tool_backed" ELSE "unsupported")
          ELSE "fabricated"
    <3>1. Cardinality({}) = 0 /\ Cardinality({truth}) = 1
      BY FS_EmptySet, FS_Singleton
    <3> HIDE DEF truth
    <3> QED BY <2>1, <2>4, <3>1 DEF ClassifyFabTrial
  <2>6. (told # {} /\ ~(Cardinality(told) > 1) /\ told # {truth}) <=>
          \E f \in Facts \ {truth} : told = {f}
    <3> HIDE DEF told, truth
    <3> QED BY <2>2, <2>4
  <2>7. Class(obs) = "fabricated" <=>
          /\ obs.status = 200 /\ obs.parsed
          /\ told # {} /\ ~(Cardinality(told) > 1) /\ told # {truth}
    <3> HIDE DEF told, truth
    <3> QED BY <2>5
  <2>8. Class(obs) \in Classes
    <3> HIDE DEF told, truth
    <3> QED BY <2>1, <2>5 DEF FabClasses
  <2> QED BY <2>6, <2>7, <2>8
<1>2. CASE args.probe = "ceiling"
  <2>1. Class(obs) = ClassifyTrial(obs) /\ Classes = TrialClasses
    BY <1>2 DEF Class, Classes
  <2>2. obs.tools \in Nat /\ obs.parsed \in BOOLEAN /\ obs.content.cut \in BOOLEAN
    BY DEF Observations
  <2> QED BY <1>2, <2>1, <2>2 DEF ClassifyTrial, TrialClasses
<1>3. CASE args.probe = "benchmark"
  <2>1. Class(obs) = ClassifyFailureClass(obs) /\ Classes = FailureClasses
    BY <1>3 DEF Class, Classes
  <2> QED BY <1>3, <2>1 DEF ClassifyFailureClass, FailureClasses
<1> QED BY <1>1, <1>2, <1>3, TrialsIs

\* counts[cls]++ at the end of a trial.
LEMMA CountsKeeps ==
    ASSUME ProbeInv, Asking, NEW obs \in Observations, NEW unread \in BOOLEAN,
           obs.parsed \/ obs.content.states = {}, Counts(obs, unread)
    PROVE  ProbeInv'
<1>0. /\ ProbeShape /\ Powered /\ TruthsKept /\ UnderWay /\ RowsTrue /\ FileTellsTheRun
      /\ step = "trial" /\ ~Over
      /\ UNCHANGED <<args, truths, todo, rows, file, step, before, snapshot, listing>>
      /\ asked' = asked + 1 /\ tally' = [tally EXCEPT ![Class(obs)] = @ + 1]
      /\ trial' = NoTrial
  BY DEF ProbeInv, Asking, Counts, runVars, around
<1>1. /\ args \in Invocations /\ tally \in [Classes -> Nat] /\ asked \in Nat
      /\ Total(tally) = asked /\ todo # {} /\ todo \subseteq DOMAIN Blocks
  BY <1>0 DEF ProbeShape, UnderWay
<1>2. Class(obs) \in Classes /\ IsFiniteSet(Classes)
  BY <1>1, ClassIs, ClassesAreFinite
<1> DEFINE wrong == /\ obs.status = 200
                    /\ \E f \in Facts \ {snapshot[Question]} : obs.content.states = {f}
<1>3. seen' = [seen EXCEPT !.unread = @ + IF unread THEN 1 ELSE 0,
                           !.wrong = @ + IF wrong THEN 1 ELSE 0]
  BY DEF Counts
<1>4. /\ seen' \in [unread : Nat, wrong : Nat, rest : {"resident", "stateless", "none"},
                     refreshed : BOOLEAN]
      /\ seen'.refreshed = seen.refreshed /\ seen'.rest = seen.rest
      /\ seen'.wrong = seen.wrong + IF wrong THEN 1 ELSE 0
      /\ seen.wrong \in Nat
  <2>1. seen \in [unread : Nat, wrong : Nat, rest : {"resident", "stateless", "none"},
                  refreshed : BOOLEAN]
    BY <1>0 DEF ProbeShape
  <2> DEFINE u == seen.unread + IF unread THEN 1 ELSE 0
             w == seen.wrong + IF wrong THEN 1 ELSE 0
  <2> HIDE DEF wrong
  <2>2. u \in Nat /\ w \in Nat /\ seen.wrong \in Nat
    BY <2>1
  <2>3. seen' = [seen EXCEPT !.unread = u, !.wrong = w]
    BY <1>3
  <2>4. w = seen.wrong + IF wrong THEN 1 ELSE 0
    OBVIOUS
  <2> HIDE DEF u, w
  <2> QED BY <2>1, <2>2, <2>3, <2>4
<1>5. tally' \in [Classes -> Nat] /\ Total(tally') = asked + 1
  <2>1. Total([tally EXCEPT ![Class(obs)] = @ + 1]) = Total(tally) + 1
    BY <1>1, <1>2, TotalGrows
  <2> QED BY <1>0, <1>1, <1>2, <2>1
<1>6. ProbeShape'
  <2>1. Classes' = Classes /\ RowSet' = RowSet
    BY <1>0 DEF Classes, RowSet
  <2> QED BY <1>0, <1>1, <1>4, <1>5, <2>1 DEF ProbeShape, NoTrial
<1>7. Powered'
  BY <1>0 DEF Powered, Trials
<1>8. TruthsKept'
  BY <1>0, <1>4 DEF TruthsKept, Unavailable
<1>9. UnderWay'
  <2>1. Trials' = Trials /\ Trials \in Nat \cup {NaN}
    BY <1>0, <1>1, TrialsIs DEF Trials
  <2>2. Trials # NaN /\ ~(asked >= Trials)
    BY <1>0 DEF Over
  <2>3. IF Trials' = NaN THEN asked' = 0 ELSE asked' <= Trials'
    BY <1>0, <1>1, <2>1, <2>2
  <2>4. ASSUME args.probe = "fabrication", ~seen.refreshed
        PROVE  tally'["fabricated"] = seen'.wrong
    <3>1. snapshot = truths /\ tally["fabricated"] = seen.wrong
      BY <1>0, <2>4 DEF TruthsKept, UnderWay
    <3>2. Class(obs) = "fabricated" <=> wrong
      BY <1>1, <2>4, <3>1, ClassIs
    <3>3. "fabricated" \in Classes
      BY <1>1, <2>4, ClassesAreFinite
    <3>4. tally'["fabricated"] = tally["fabricated"] + IF Class(obs) = "fabricated" THEN 1 ELSE 0
      BY <1>0, <1>1, <1>2, <3>3
    <3> HIDE DEF wrong
    <3> QED BY <1>4, <3>1, <3>2, <3>4
  <2>5. Total(tally)' = asked'
    BY <1>0, <1>5 DEF Total
  <2>6. WasAtRest(before, seen.rest)'
    BY <1>0, <1>4 DEF UnderWay, WasAtRest
  <2> QED BY <1>0, <1>1, <1>4, <2>3, <2>4, <2>5, <2>6 DEF UnderWay
<1>10. RowsTrue' /\ FileTellsTheRun'
  BY <1>0, <1>4, RowsKept, FileKept
<1> QED BY <1>6, <1>7, <1>8, <1>9, <1>10 DEF ProbeInv

\* The other steps of a trial, and what happens around it.
LEMMA AroundKeeps ==
    ASSUME ProbeInv, step # "done", seen'.refreshed = seen.refreshed \/ seen'.refreshed,
           UNCHANGED <<args, truths, todo, rows, file, step, before, asked, tally>>,
           trial' \in [turns : Nat, parsed : BOOLEAN, tools : Nat],
           seen' = [seen EXCEPT !.refreshed = seen'.refreshed],
           seen'.refreshed \in BOOLEAN, listing' \in Listings,
           snapshot' \in [ToSet(Blocks) -> Facts \cup {NoFact}],
           ~seen'.refreshed => snapshot' = snapshot
    PROVE  ProbeInv'
<1>0. ProbeShape /\ Powered /\ TruthsKept /\ UnderWay /\ RowsTrue /\ FileTellsTheRun
  BY DEF ProbeInv
<1>1. /\ seen' \in [unread : Nat, wrong : Nat, rest : {"resident", "stateless", "none"},
                     refreshed : BOOLEAN]
      /\ seen'.wrong = seen.wrong /\ seen'.rest = seen.rest
      /\ seen.refreshed => seen'.refreshed
  BY <1>0 DEF ProbeShape
<1>2. ProbeShape'
  <2>1. Classes' = Classes /\ RowSet' = RowSet
    BY DEF Classes, RowSet
  <2> QED BY <1>0, <1>1, <2>1 DEF ProbeShape
<1>3. Powered'
  BY <1>0 DEF Powered, Trials
<1>4. TruthsKept'
  BY <1>0, <1>1 DEF TruthsKept, Unavailable
<1>5. UnderWay'
  <2>1. Total(tally)' = Total(tally) /\ Trials' = Trials
        /\ (WasAtRest(before, seen.rest)' <=> WasAtRest(before, seen.rest))
    BY <1>1 DEF Total, Trials, WasAtRest
  <2> QED BY <1>0, <1>1, <2>1 DEF UnderWay
<1>6. RowsTrue' /\ FileTellsTheRun'
  BY <1>0, <1>1, RowsKept, FileKept
<1> QED BY <1>2, <1>3, <1>4, <1>5, <1>6 DEF ProbeInv

LEMMA ProbeStepKeeps == ProbeInv /\ [ProbeNext]_probeVars => ProbeInv'
<1> SUFFICES ASSUME ProbeInv, [ProbeNext]_probeVars PROVE ProbeInv'
  OBVIOUS
<1>0. /\ args \in Invocations /\ listing \in Listings
      /\ snapshot \in [ToSet(Blocks) -> Facts \cup {NoFact}]
      /\ trial \in [turns : Nat, parsed : BOOLEAN, tools : Nat]
      /\ seen \in [unread : Nat, wrong : Nat, rest : {"resident", "stateless", "none"},
                    refreshed : BOOLEAN]
  BY DEF ProbeInv, ProbeShape
<1> DEFINE said == [states : SUBSET Facts, hedge : BOOLEAN, xml : BOOLEAN, cut : BOOLEAN,
                    empty : BOOLEAN]
<1>01. Empty \in said /\ ErrorText \in said /\ Empty.states = {} /\ ErrorText.states = {}
  BY DEF Empty, ErrorText
<1>02. ASSUME NEW status \in {0, 200, 400}, NEW parsed \in BOOLEAN, NEW content \in said
       PROVE  /\ Observed(status, parsed, content) \in Observations
              /\ Observed(status, parsed, content).parsed = parsed
              /\ Observed(status, parsed, content).content = content
  BY <1>0 DEF Observed, Observations
<1> HIDE DEF said
<1>1. CASE Start
  BY <1>1, StartKeeps
<1>2. CASE BlockBegins
  BY <1>2, BlockBeginsKeeps
<1>3. CASE BlockEnds
  BY <1>3, BlockEndsKeeps
<1>4. CASE Report
  BY <1>4, ReportKeeps
<1>5. CASE NoReply
  <2>1. PICK status \in {0, 400} :
          Asking /\ Counts(Observed(status, trial.parsed, ErrorText), FALSE)
    BY <1>5 DEF NoReply
  <2>2. status \in {0, 200, 400} /\ trial.parsed \in BOOLEAN
    BY <1>0
  <2> DEFINE obs == Observed(status, trial.parsed, ErrorText)
  <2>3. obs \in Observations /\ obs.content.states = {}
    BY <1>01, <1>02, <2>2
  <2>4. Asking /\ Counts(obs, FALSE)
    BY <2>1
  <2> HIDE DEF obs
  <2> QED BY <2>3, <2>4, CountsKeeps
<1>6. CASE UnreadableReply
  <2>1. Asking /\ Counts(Observed(200, trial.parsed, Empty), TRUE)
    BY <1>6 DEF UnreadableReply
  <2> DEFINE obs == Observed(200, trial.parsed, Empty)
  <2>2. obs \in Observations /\ obs.content.states = {}
    BY <1>0, <1>01, <1>02
  <2>3. Asking /\ Counts(obs, TRUE)
    BY <2>1
  <2> HIDE DEF obs
  <2> QED BY <2>2, <2>3, CountsKeeps
<1>7. CASE DroppedReply
  <2>1. CASE args.probe = "benchmark"
    <3>1. Asking /\ Counts(Observed(200, trial.parsed, ErrorText), TRUE)
      BY <1>7, <2>1 DEF DroppedReply
    <3> DEFINE obs == Observed(200, trial.parsed, ErrorText)
    <3>2. obs \in Observations /\ obs.content.states = {}
      BY <1>0, <1>01, <1>02
    <3>3. Asking /\ Counts(obs, TRUE)
      BY <3>1
    <3> HIDE DEF obs
    <3> QED BY <3>2, <3>3, CountsKeeps
  <2>2. CASE args.probe # "benchmark"
    <3>1. step # "done" /\ Dies("failed") /\ UNCHANGED <<snapshot, listing>>
      BY <1>7, <2>2 DEF DroppedReply, Asking, around
    <3> QED BY <3>1, DiesKeeps
  <2> QED BY <2>1, <2>2
<1>8. CASE ToolReply
  <2> DEFINE obs == [Observed(200, TRUE, Empty) EXCEPT !.tools = @ + 1]
  <2>1. obs \in Observations /\ obs.parsed /\ obs.tools \in Nat
    <3> DEFINE o == Observed(200, TRUE, Empty)
    <3>1. o \in Observations
      BY <1>0, <1>01 DEF Observed, Observations, said
    <3>2. o.parsed = TRUE
      BY DEF Observed
    <3>3. obs = [o EXCEPT !.tools = @ + 1]
      OBVIOUS
    <3> HIDE DEF o, obs
    <3> QED BY <3>1, <3>2, <3>3 DEF Observations
  <2>2. CASE args.probe = "ceiling" \/ trial.turns + 1 = MaxTurns
    <3>1. Asking /\ Counts(obs, FALSE)
      BY <1>8, <2>2 DEF ToolReply
    <3> HIDE DEF obs
    <3> QED BY <2>1, <3>1, CountsKeeps
  <2>3. CASE ~(args.probe = "ceiling" \/ trial.turns + 1 = MaxTurns)
    <3>1. /\ step # "done"
          /\ trial' = [turns |-> trial.turns + 1, parsed |-> TRUE, tools |-> obs.tools]
          /\ UNCHANGED <<args, truths, todo, rows, file, step, before, asked, tally,
                         snapshot, listing, seen>>
      BY <1>8, <2>3 DEF ToolReply, Asking, runVars, around, count
    <3> HIDE DEF obs
    <3>2. trial' \in [turns : Nat, parsed : BOOLEAN, tools : Nat]
      BY <1>0, <2>1, <3>1
    <3>3. seen' = [seen EXCEPT !.refreshed = seen'.refreshed] /\ seen'.refreshed \in BOOLEAN
      BY <1>0, <3>1
    <3> QED BY <1>0, <3>1, <3>2, <3>3, AroundKeeps
  <2> QED BY <2>2, <2>3
<1>9. CASE Answer
  <2>1. PICK content \in Contents : Asking /\ Counts(Observed(200, TRUE, content), FALSE)
    BY <1>9 DEF Answer
  <2>2. content \in said
    BY ProbeAssumption DEF said
  <2> DEFINE obs == Observed(200, TRUE, content)
  <2>3. obs \in Observations
    BY <1>0, <2>2 DEF Observed, Observations, said
  <2>5. obs.parsed = TRUE
    BY DEF Observed
  <2>4. Asking /\ Counts(obs, FALSE)
    BY <2>1
  <2> HIDE DEF obs
  <2> QED BY <2>3, <2>4, <2>5, CountsKeeps
<1>10. CASE EndpointMoves
  <2>1. /\ step # "done" /\ listing' \in Listings
        /\ UNCHANGED <<args, truths, todo, rows, file, step, before, asked, tally, trial,
                       snapshot, seen>>
    BY <1>10 DEF EndpointMoves, Happens, Measuring, runVars, count
  <2>2. seen' = [seen EXCEPT !.refreshed = seen'.refreshed] /\ seen'.refreshed \in BOOLEAN
    BY <1>0, <2>1
  <2> QED BY <1>0, <2>1, <2>2, AroundKeeps
<1>11. CASE SnapshotRefreshes
  <2>1. PICK q \in ToSet(Blocks), f \in Facts \cup {NoFact} :
          snapshot' = [snapshot EXCEPT ![q] = f]
    BY <1>11 DEF SnapshotRefreshes
  <2>2. /\ step # "done" /\ seen' = [seen EXCEPT !.refreshed = TRUE]
        /\ UNCHANGED <<args, truths, todo, rows, file, step, before, asked, tally, trial,
                       listing>>
    BY <1>11 DEF SnapshotRefreshes, Happens, Measuring, runVars, count
  <2>3. seen'.refreshed = TRUE /\ snapshot' \in [ToSet(Blocks) -> Facts \cup {NoFact}]
    BY <1>0, <2>1, <2>2
  <2> QED BY <1>0, <2>2, <2>3, AroundKeeps
<1>12. CASE Killed
  <2>1. step # "done" /\ Dies("killed") /\ UNCHANGED <<snapshot, listing>>
    BY <1>12 DEF Killed, Happens, Measuring
  <2> QED BY <2>1, DiesKeeps
<1>13. CASE UNCHANGED probeVars
  <2>1. UNCHANGED <<args, step, truths, todo, before, asked, tally, trial, rows, file,
                    snapshot, listing, seen>>
    BY <1>13 DEF probeVars
  <2>2. ProbeShape' /\ Powered' /\ TruthsKept'
    BY <2>1 DEF ProbeInv, ProbeShape, RowSet, Classes, Powered, Trials, TruthsKept, Unavailable
  <2>3. Total(tally)' = Total(tally) /\ Trials' = Trials
        /\ (WasAtRest(before, seen.rest)' <=> WasAtRest(before, seen.rest))
    BY <2>1 DEF Total, Trials, WasAtRest
  <2>4. UnderWay'
    BY <2>1, <2>3 DEF ProbeInv, UnderWay
  <2>5. RowsTrue'
    BY <2>1, RowsKept DEF ProbeInv
  <2>6. TalliedAtRest' = TalliedAtRest
    BY <2>1 DEF TalliedAtRest, Total
  <2>7. FileTellsTheRun'
    BY <2>1, <2>6 DEF ProbeInv, FileTellsTheRun
  <2> QED BY <2>2, <2>4, <2>5, <2>7 DEF ProbeInv
<1> QED
  BY <1>1, <1>2, <1>3, <1>4, <1>5, <1>6, <1>7, <1>8, <1>9, <1>10, <1>11, <1>12, <1>13
     DEF ProbeNext

-----------------------------------------------------------------------------
\* What a run of the scripts keeps.
THEOREM ProbeInvariance == ProbeSpec => []ProbeInv
BY ProbeInitHolds, ProbeStepKeeps, PTL DEF ProbeSpec

\* Whatever the endpoint, the refresh, the replies and the caller do: trials are
\* counted once, rates and pools are of blocks at rest, no answer is counted as
\* fabricated that agrees with the snapshot, and only a whole run is reported as
\* complete.
THEOREM ProbesAreHonest == ProbeSpec => []ProbeIsHonest
<1>1. ProbeInv => ProbeIsHonest
  BY DEF ProbeInv, RowsTrue, GoodRow, ProbeIsHonest, TrialsAddUp, RatesAreSteady,
         NoFalseAccusation, NothingUnderpowered
<1> QED BY <1>1, ProbeInvariance, PTL

\* The rest of the types: a loop of tools has called one in each turn, there is
\* a tally while trials run, and only this run writes the file.
ProbeTypes ==
    /\ trial \in [turns : 0 .. MaxTurns - 1, parsed : BOOLEAN, tools : 0 .. MaxTurns - 1]
    /\ trial.tools = trial.turns
    /\ step # "trial" => tally = <<>>
    /\ truths \in {<<>>} \cup [ToSet(Blocks) -> Facts \cup {NoFact}]
    /\ file.by \in {"before", "this"} /\ file.complete \in BOOLEAN
    /\ events \in 0 .. Events

LEMMA NoTrialTyped ==
    /\ NoTrial \in [turns : 0 .. MaxTurns - 1, parsed : BOOLEAN, tools : 0 .. MaxTurns - 1]
    /\ NoTrial.tools = NoTrial.turns
<1>1. 0 \in 0 .. MaxTurns - 1
  BY ProbeAssumption
<1> QED BY <1>1 DEF NoTrial

LEMMA ProbeTypesStep == ProbeInv /\ ProbeTypes /\ [ProbeNext]_probeVars => ProbeTypes'
<1> SUFFICES ASSUME ProbeInv, ProbeTypes, [ProbeNext]_probeVars PROVE ProbeTypes'
  OBVIOUS
<1>0. /\ snapshot \in [ToSet(Blocks) -> Facts \cup {NoFact}]
      /\ step = "trial" => tally \in [Classes -> Nat]
  BY DEF ProbeInv, ProbeShape
<1>1. CASE Start
  <2>1. ResolveTruths \in [ToSet(Blocks) -> Facts \cup {NoFact}]
    BY <1>0 DEF ResolveTruths
  <2> QED BY <1>1, <2>1 DEF Start, ProbeTypes, count, around
<1>2. CASE BlockBegins
  BY <1>2 DEF BlockBegins, ProbeTypes, count, around
<1>3. CASE BlockEnds
  BY <1>3 DEF BlockEnds, ProbeTypes, around
<1>4. CASE Report
  BY <1>4 DEF Report, ProbeTypes, count, around
<1>5. ASSUME Asking, NEW obs, NEW unread, Counts(obs, unread)
      PROVE  ProbeTypes'
  <2>1. /\ trial' = NoTrial /\ step = "trial" /\ step' = step
        /\ UNCHANGED <<truths, file, events>>
    BY <1>5 DEF Counts, Asking, runVars, around
  <2> QED BY <2>1, NoTrialTyped DEF ProbeTypes
<1>6. ASSUME NEW how \in {"failed", "killed"}, Dies(how), events' \in 0 .. Events
      PROVE  ProbeTypes'
  BY <1>6, NoTrialTyped DEF Dies, ProbeTypes
<1>7. CASE NoReply \/ UnreadableReply \/ Answer
  BY <1>5, <1>7 DEF NoReply, UnreadableReply, Answer
<1>8. CASE DroppedReply
  <2>1. events' = events => events' \in 0 .. Events
    BY DEF ProbeTypes
  <2> QED BY <1>5, <1>6, <1>8, <2>1 DEF DroppedReply, around
<1>9. CASE ToolReply
  <2>1. PICK obs : obs = [Observed(200, TRUE, Empty) EXCEPT !.tools = @ + 1]
    OBVIOUS
  <2>2. \/ Counts(obs, FALSE) /\ Asking
        \/ /\ trial.turns + 1 # MaxTurns
           /\ trial' = [turns |-> trial.turns + 1, parsed |-> TRUE, tools |-> obs.tools]
           /\ UNCHANGED <<runVars, step, before, count, around, seen>>
    BY <1>9, <2>1 DEF ToolReply
  <2>3. CASE /\ trial.turns + 1 # MaxTurns
             /\ trial' = [turns |-> trial.turns + 1, parsed |-> TRUE, tools |-> obs.tools]
             /\ UNCHANGED <<runVars, step, before, count, around, seen>>
    <3>1. obs.tools = trial.tools + 1
      BY <2>1 DEF Observed
    <3>2. trial.turns \in 0 .. MaxTurns - 1 /\ trial.tools = trial.turns /\ MaxTurns \in Nat
      BY ProbeAssumption DEF ProbeTypes
    <3>3. trial.turns + 1 \in 0 .. MaxTurns - 1
      BY <2>3, <3>2
    <3> QED BY <2>3, <3>1, <3>2, <3>3 DEF ProbeTypes, runVars, count, around
  <2> QED BY <1>5, <2>2, <2>3
<1>10. CASE EndpointMoves \/ SnapshotRefreshes \/ Killed
  <2>1. events' \in 0 .. Events
    BY <1>10, ProbeAssumption DEF EndpointMoves, SnapshotRefreshes, Killed, Happens, ProbeTypes
  <2>2. CASE Killed
    BY <1>6, <2>1, <2>2 DEF Killed
  <2>3. CASE EndpointMoves \/ SnapshotRefreshes
    BY <2>1, <2>3 DEF EndpointMoves, SnapshotRefreshes, ProbeTypes, runVars, count
  <2> QED BY <1>10, <2>2, <2>3
<1>11. CASE UNCHANGED probeVars
  BY <1>11 DEF probeVars, ProbeTypes
<1> QED
  BY <1>1, <1>2, <1>3, <1>4, <1>7, <1>8, <1>9, <1>10, <1>11 DEF ProbeNext

\* A run keeps its types, whatever it meets.
THEOREM ProbeTyping == ProbeSpec => []ProbeTypeOK
<1>1. ProbeInit => ProbeTypes
  BY NoTrialTyped, ProbeAssumption DEF ProbeInit, ProbeTypes
<1>2. ProbeSpec => [](ProbeInv /\ ProbeTypes)
  BY <1>1, ProbeInitHolds, ProbeStepKeeps, ProbeTypesStep, PTL DEF ProbeSpec
<1>3. ASSUME ProbeInv, ProbeTypes
      PROVE  ProbeTypeOK
  <2>1. \A i \in DOMAIN rows : rows[i].trials \in Nat \cup {NaN} /\ rows[i].valid \in BOOLEAN
    <3>1. rows \in Seq(RowSet)
      BY <1>3 DEF ProbeInv, ProbeShape
    <3>2. \A i \in DOMAIN rows : rows[i] \in RowSet
      BY <3>1
    <3> QED BY <3>2 DEF RowSet
  <2>2. trial \in [turns : 0 .. MaxTurns - 1, parsed : BOOLEAN, tools : 0 .. MaxTurns]
    <3>1. 0 .. MaxTurns - 1 \subseteq 0 .. MaxTurns
      BY ProbeAssumption
    <3> QED BY <1>3, <3>1 DEF ProbeTypes
  <2>3. tally \in {<<>>} \cup [Classes -> Nat]
    BY <1>3 DEF ProbeInv, ProbeShape, ProbeTypes
  <2> QED BY <1>3, <2>1, <2>2, <2>3 DEF ProbeInv, ProbeShape, ProbeTypes, ProbeTypeOK
<1> QED BY <1>2, <1>3, PTL
=============================================================================
