--------------------------- MODULE MCHostProcesses --------------------------
(* Instances of PollWatchdog, GatewayBridge, ClassifierCascade and ModelProbes *)
(* for TLC.  These processes share nothing: a behaviour follows one of them    *)
(* while the others stand still.                                               *)
EXTENDS PollWatchdog, GatewayBridge, MCClassifierCascade, MCModelProbes

VARIABLE followed

otherVars == <<vars, bridgeVars, cascadeVars, probeVars>>
processVars == <<otherVars, followed>>

\* What is not followed starts in one of its states and stays there.
ProcessesInit ==
    /\ followed \in {"watchdog", "bridge", "pass", "probe"}
    /\ followed # "watchdog" => store = TRUE
    /\ followed # "pass" => setting = CHOOSE s \in Settings : TRUE
    /\ followed # "probe" =>
         /\ args = CHOOSE a \in Invocations : TRUE
         /\ snapshot = CHOOSE s \in Snapshots : TRUE
         /\ listing = NoAnswer
    /\ followed # "bridge" =>
         /\ config = Nowhere /\ held = [i \in Interfaces |-> Nowhere]
         /\ answers = TRUE /\ busy = {}
    /\ Init /\ BridgeInit /\ CascadeInit /\ ProbeInit

Followed(which, A) == followed = which /\ A /\ UNCHANGED followed
OfWatchdog(A) == Followed("watchdog", A /\ UNCHANGED <<bridgeVars, cascadeVars, probeVars>>)
OfBridge(A) == Followed("bridge", A /\ UNCHANGED <<vars, cascadeVars, probeVars>>)
OfPass(A) == Followed("pass", A /\ UNCHANGED <<vars, bridgeVars, probeVars>>)
OfProbe(A) == Followed("probe", A /\ UNCHANGED <<vars, bridgeVars, cascadeVars>>)

ProcessesNext ==
    OfWatchdog(Next) \/ OfBridge(BridgeNext) \/ OfPass(CascadeNext) \/ OfProbe(ProbeNext)

\* The fairness of each; the bridge's timer fires, and each visit is made.
ProcessesFairness ==
    /\ WF_processVars(OfWatchdog(Loop))
    /\ SF_processVars(OfWatchdog(Probe /\ healthy'))
    /\ SF_processVars(OfWatchdog(Exits))
    /\ WF_processVars(OfBridge(TimerFires))
    /\ WF_processVars(OfBridge(CacheAges))
    /\ \A p \in Ports : WF_processVars(OfBridge(Tick(p)))
    /\ WF_processVars(OfPass(CascadeNext /\ stage # "exec"))
    /\ WF_processVars(OfPass(ExecFails))

ProcessesSpec == ProcessesInit /\ [][ProcessesNext]_processVars /\ ProcessesFairness

\* A pass that is followed comes to its end.
ItsPassEnds == followed = "pass" => PassEnds
=============================================================================
