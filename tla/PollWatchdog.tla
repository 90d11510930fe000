---------------------------- MODULE PollWatchdog ----------------------------
(***************************************************************************)
(* The receiver of approvals and its watchdog: pollLoop in                 *)
(* src/notifiers/telegram-approval.ts.  A failed poll is retried after a   *)
(* growing pause; after MaxErrors of them in a row, when a probe finds the *)
(* network reachable, the process exits for launchd to restart it, not     *)
(* more often than a record in the approval store allows.                  *)
(*                                                                         *)
(* Time is kept as ages that stop growing at Top: whoever compares them    *)
(* compares with less.  Each step of the loop says how long it took.       *)
(***************************************************************************)
EXTENDS Naturals

CONSTANTS
    MaxErrors,   \* MAX_CONSECUTIVE_POLL_ERRORS
    Base, Cap,   \* BACKOFF_BASE_MS, BACKOFF_CAP_MS
    Cooldown,    \* WATCHDOG_COOLDOWN_MS
    WarnAge,     \* RECEIVER_DOWN_WARN_MS
    PollTime,    \* the longest a getUpdates and its updates take
    ProbeTime,   \* PROBE_TIMEOUT_MS
    ReadFaults,  \* may the store fail to open, or a read of it fail?
    WriteFaults  \* may a write to the store fail?

ASSUME WatchdogAssumption ==
    /\ MaxErrors \in Nat \ {0}
    /\ Base \in Nat \ {0} /\ Cap \in Nat
    /\ Cooldown \in Nat /\ WarnAge \in Nat
    /\ PollTime \in Nat /\ ProbeTime \in Nat
    /\ ReadFaults \in BOOLEAN /\ WriteFaults \in BOOLEAN

\* One check of the receiver is followed by the next within Slack.
Slack == ProbeTime + Cap + PollTime
Top == Cooldown + WarnAge + Slack + 1

\* The counters stop where nothing depends on them any more.
CountBound == MaxErrors + Cap

\* For the proofs: the prover knows nothing of powers.
ASSUME PowerAssumption == \A n \in 0 .. CountBound : 2 ^ n \in Nat

VARIABLES
    pc,         \* "poll", "probe", "decide", "sleep" or "down"
    errors,     \* consecutiveErrors
    failures,   \* httpFailures
    pause,      \* the time the loop sleeps next
    healthy,    \* what the probe said
    lag,        \* the age of `now', which is taken before the probe
    successAge, \* age of lastSuccess
    warnedAge,  \* age of lastWarn
    store,      \* is there an approval store?
    recordAge,  \* age of last_watchdog_exit in the store; Top if never
    exitAge,    \* age of the last exit of the watchdog; Top if never
    network,    \* is Telegram reachable?
    wedged      \* does every fetch of this process fail?

loopVars == <<pc, errors, failures, pause, healthy, lag, store>>
ages     == <<successAge, warnedAge, recordAge, exitAge>>
world    == <<network, wedged>>
vars     == <<loopVars, ages, world>>

Ages == 0 .. Top

TypeOK ==
    /\ pc \in {"poll", "probe", "decide", "sleep", "down"}
    /\ errors \in 0 .. CountBound /\ failures \in 0 .. CountBound
    /\ pause \in 0 .. Cap
    /\ healthy \in BOOLEAN /\ store \in BOOLEAN
    /\ lag \in 0 .. ProbeTime
    /\ successAge \in Ages /\ warnedAge \in Ages
    /\ recordAge \in Ages /\ exitAge \in Ages
    /\ network \in BOOLEAN /\ wedged \in BOOLEAN

Init ==
    /\ pc = "poll" /\ errors = 0 /\ failures = 0 /\ pause = 0
    /\ healthy = FALSE /\ lag = 0
    /\ successAge = 0 /\ warnedAge = 0
    /\ recordAge = Top /\ exitAge = Top
    /\ store \in IF ReadFaults THEN BOOLEAN ELSE {TRUE}
    /\ network = TRUE /\ wedged = FALSE

Least(a, b) == IF a <= b THEN a ELSE b
Older(age, d) == Least(Top, age + d)
Another(n) == Least(CountBound, n + 1)

\* nextBackoffMs
Backoff(n) == Least(Cap, Base * 2 ^ (IF n = 0 THEN 0 ELSE n - 1))

\* shouldWarnReceiverDown
Silent(age, warned) == age >= WarnAge /\ warned >= WarnAge

\* maybeWarnReceiverDown, d after the last step.
MaybeWarn(d) ==
    /\ successAge' = Older(successAge, d)
    /\ warnedAge' = IF Silent(Older(successAge, d), Older(warnedAge, d))
                      THEN 0 ELSE Older(warnedAge, d)

StoreAges(d) ==
    /\ recordAge' = Older(recordAge, d)
    /\ exitAge' = Older(exitAge, d)

-----------------------------------------------------------------------------
\* A 2xx answer whose updates were all handled: the next poll follows at once.
PollOk ==
    /\ pc = "poll" /\ network /\ ~wedged
    /\ \E d \in 0 .. PollTime : StoreAges(d) /\ warnedAge' = Older(warnedAge, d)
    /\ errors' = 0 /\ failures' = 0
    /\ successAge' = 0
    /\ UNCHANGED <<pc, pause, healthy, lag, store, world>>

\* Faulty: only the catch looks whether the receiver is down.
PollRefusedQuietly ==
    /\ pc = "poll" /\ network /\ ~wedged
    /\ \E d \in 0 .. PollTime :
         /\ StoreAges(d)
         /\ successAge' = Older(successAge, d)
         /\ warnedAge' = Older(warnedAge, d)
    /\ failures' = Another(failures)
    /\ pause' = Backoff(failures')
    /\ pc' = "sleep"
    /\ UNCHANGED <<errors, healthy, lag, store, world>>

\* Any other status.
PollRefused ==
    /\ pc = "poll" /\ network /\ ~wedged
    /\ \E d \in 0 .. PollTime : StoreAges(d) /\ MaybeWarn(d)
    /\ failures' = Another(failures)
    /\ pause' = Backoff(failures')
    /\ pc' = "sleep"
    /\ UNCHANGED <<errors, healthy, lag, store, world>>

\* Faulty: only the error that reaches the threshold is looked at.
CaughtOnce(n, d) ==
    /\ errors' = n
    /\ StoreAges(d)
    /\ pause' = Backoff(n)
    /\ lag' = 0
    /\ pc' = IF n = MaxErrors THEN "probe" ELSE "sleep"

\* The catch: n errors in a row.
Caught(n, d) ==
    /\ errors' = n
    /\ StoreAges(d)
    /\ pause' = Backoff(n)
    /\ lag' = 0
    /\ pc' = IF n >= MaxErrors THEN "probe" ELSE "sleep"

\* getUpdates throws, or its answer cannot be read.
PollFails ==
    /\ pc = "poll"
    /\ \E d \in 0 .. PollTime : Caught(Another(errors), d) /\ MaybeWarn(d)
    /\ UNCHANGED <<failures, healthy, store, world>>

\* A 2xx answer, and then the handling of an update throws.
UpdateFails ==
    /\ pc = "poll" /\ network /\ ~wedged
    /\ \E d \in 0 .. PollTime :
         /\ Caught(1, d)
         /\ \E since \in 0 .. d :
              /\ successAge' = since
              /\ warnedAge' = IF Silent(since, Older(warnedAge, d))
                                THEN 0 ELSE Older(warnedAge, d)
    /\ failures' = 0
    /\ UNCHANGED <<healthy, store, world>>

\* reachability.check: a connection outside fetch.
Probe ==
    /\ pc = "probe"
    /\ \E d \in 0 .. ProbeTime :
         /\ lag' = d
         /\ StoreAges(d)
         /\ successAge' = Older(successAge, d)
         /\ warnedAge' = Older(warnedAge, d)
    /\ healthy' \in {network, FALSE}
    /\ pc' = "decide"
    /\ UNCHANGED <<errors, failures, pause, store, world>>

\* Faulty: the third condition is not looked at.
CooledDownAlways == TRUE

\* now - lastExit >= WATCHDOG_COOLDOWN_MS, or no exit was ever recorded.
CooledDown == recordAge >= Cooldown + lag

\* Reading the record failed, or there is no store to read.
Unconfirmed ==
    /\ pc = "decide"
    /\ ~store \/ ReadFaults
    /\ pc' = "sleep"
    /\ UNCHANGED <<errors, failures, pause, healthy, lag, store, ages, world>>

StaysUp ==
    /\ pc = "decide" /\ store
    /\ ~healthy \/ ~CooledDown
    /\ pc' = "sleep"
    /\ UNCHANGED <<errors, failures, pause, healthy, lag, store, ages, world>>

\* recordWatchdogExit(now), then process.exit(1) whether or not it was written.
Exits ==
    /\ pc = "decide" /\ store
    /\ healthy /\ CooledDown
    /\ \/ recordAge' = lag
       \/ WriteFaults /\ UNCHANGED recordAge
    /\ exitAge' = 0
    /\ pc' = "down"
    /\ UNCHANGED <<errors, failures, pause, healthy, lag, store, successAge,
                   warnedAge, world>>

\* The pause, and on to the next poll.
Sleep ==
    /\ pc = "sleep"
    /\ StoreAges(pause)
    /\ successAge' = Older(successAge, pause)
    /\ warnedAge' = Older(warnedAge, pause)
    /\ pc' = "poll"
    /\ UNCHANGED <<errors, failures, pause, healthy, lag, store, world>>

\* launchd starts a new process, after an exit or a crash at any point.
Restart ==
    /\ pc' = "poll" /\ errors' = 0 /\ failures' = 0 /\ pause' = 0
    /\ lag' = 0
    /\ store' \in IF ReadFaults THEN BOOLEAN ELSE {TRUE}
    /\ successAge' = 0 /\ warnedAge' = 0
    /\ wedged' = FALSE
    /\ UNCHANGED <<healthy, recordAge, exitAge, network>>

\* The network goes and comes; the fetch layer of a process gets stuck.
NetworkChanges ==
    /\ network' = ~network
    /\ UNCHANGED <<loopVars, ages, wedged>>

Wedges ==
    /\ pc # "down" /\ ~wedged
    /\ wedged' = TRUE
    /\ UNCHANGED <<loopVars, ages, network>>

Loop ==
    \/ PollOk \/ PollRefused \/ PollFails \/ UpdateFails \/ Probe
    \/ Unconfirmed \/ StaysUp \/ Exits \/ Sleep
    \/ (pc = "down" /\ Restart)

Next == Loop \/ Restart \/ NetworkChanges \/ Wedges

Spec == Init /\ [][Next]_vars

\* The loop goes on; a probe of a reachable host succeeds now and then, and so
\* does a read of the record that would allow an exit.
Fairness ==
    /\ WF_vars(Loop)
    /\ SF_vars(Probe /\ healthy')
    /\ SF_vars(Exits)

FairSpec == Spec /\ Fairness

-----------------------------------------------------------------------------
(* Properties *)

\* Two exits of the watchdog are a cooldown apart, across processes and
\* whatever the probe answers; the timestamp that is recorded may be older
\* than the exit by the time of a probe.
RestartsAreSpaced ==
    [][pc # "down" /\ pc' = "down" => exitAge + ProbeTime >= Cooldown]_vars

\* A receiver that gets no updates says so: the last success or the last
\* warning (or the start) is never longer ago than the warning period and
\* one round of the loop.
NeverSilentlyDown ==
    Least(successAge, warnedAge) <= WarnAge + Slack

\* A process whose fetches are stuck is replaced, if the network stays up and
\* the process could open its store.
WedgeIsCleared == <>[](network /\ store) => []<>(~wedged)
=============================================================================
