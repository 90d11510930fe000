---------------------------- MODULE GatewayBridge ---------------------------
(***************************************************************************)
(* The TCP forwarder that lets containers reach the loopback-only servers  *)
(* (scripts/mcp-public-bridge.mjs).  A timer visits every port; a visit    *)
(* resolves the gateway of the container network and opens, closes or      *)
(* moves the port's listener.  The address of the gateway comes and goes   *)
(* with the network, and the runtime that declares it may not answer.      *)
(*                                                                         *)
(* A visit is one action: what it calls is synchronous, and `listening' or *)
(* `error' of a socket on an address literal follows before any timer.     *)
(***************************************************************************)
EXTENDS Naturals

CONSTANTS
    Ports,       \* PORTS
    Addresses,   \* IPv4 addresses
    Interfaces,  \* names of network interfaces
    First, Second, \* bridge100 and bridge0
    Override,    \* BRIDGE_HOST, or Nowhere
    Nowhere,     \* null
    Changes      \* bound on the changes of the host's network

ASSUME BridgeAssumption ==
    /\ First \in Interfaces /\ Second \in Interfaces
    /\ Override \in Addresses \cup {Nowhere} /\ Nowhere \notin Addresses
    /\ Changes \in Nat

VARIABLES
    listens,     \* for each port the host it is bound to, or Nowhere
    unbound,     \* the ports without a listener
    declared,    \* declaredCache.value
    fresh,       \* is declaredCache younger than DECLARED_TTL_MS?
    due,         \* the ports the timer has yet to visit
    config,      \* the gateway the container network is configured with
    held,        \* the address each interface holds
    answers,     \* does `container network inspect' answer?
    busy,        \* the ports a stale listener still holds
    changes

program == <<listens, unbound, declared, fresh, due>>
host == <<config, held, answers, busy, changes>>
bridgeVars == <<program, host>>

Somewhere == Addresses \cup {Nowhere}

BridgeTypeOK ==
    /\ listens \in [Ports -> Somewhere] /\ unbound \subseteq Ports
    /\ declared \in Somewhere /\ fresh \in BOOLEAN
    /\ due \subseteq Ports
    /\ config \in Somewhere /\ held \in [Interfaces -> Somewhere]
    /\ answers \in BOOLEAN /\ busy \subseteq Ports
    /\ changes \in 0 .. Changes

BridgeInit ==
    /\ listens = [p \in Ports |-> Nowhere]
    /\ unbound = Ports
    /\ declared = Nowhere /\ fresh = FALSE
    /\ due = Ports
    /\ config \in Somewhere
    /\ held \in [Interfaces -> Somewhere]
    /\ answers \in BOOLEAN
    /\ busy \in {{}, Ports}
    /\ changes = 0

-----------------------------------------------------------------------------
\* addressIsLive
AddressIsLive(a) == \E i \in Interfaces : held[i] = a

\* gatewayFromInterfaces
GatewayFromInterfaces ==
    IF held[First] # Nowhere THEN held[First] ELSE held[Second]

\* gatewayFromRuntime
GatewayFromRuntime == IF answers THEN config ELSE Nowhere

\* declaredGateway: the cached value, or the runtime's while it is read anew.
DeclaredGateway == IF fresh THEN declared ELSE GatewayFromRuntime

\* Faulty: what the network is configured with is believed.
ResolveGatewayBelieving ==
    IF Override # Nowhere THEN Override
    ELSE IF DeclaredGateway # Nowhere THEN DeclaredGateway
    ELSE GatewayFromInterfaces

\* resolveGateway
ResolveGateway ==
    IF Override # Nowhere THEN Override
    ELSE IF DeclaredGateway # Nowhere
      THEN IF AddressIsLive(DeclaredGateway) THEN DeclaredGateway ELSE Nowhere
    ELSE GatewayFromInterfaces

\* Whoever resolves without an override leaves what it read in the cache.
Caches ==
    IF Override # Nowhere THEN UNCHANGED <<declared, fresh>>
    ELSE declared' = DeclaredGateway /\ fresh' = TRUE

Binds(p, a) == AddressIsLive(a) /\ p \notin busy

Close(p) ==
    /\ listens' = [listens EXCEPT ![p] = Nowhere]
    /\ unbound' = unbound \cup {p}

Listen(p, a) ==
    /\ listens' = [listens EXCEPT ![p] = a]
    /\ unbound' = unbound \ {p}

\* tick of a port without a gateway.
TickNowhere(p) ==
    /\ p \in due /\ ResolveGateway = Nowhere
    /\ IF listens[p] # Nowhere THEN Close(p) ELSE UNCHANGED <<listens, unbound>>
    /\ due' = due \ {p} /\ Caches
    /\ UNCHANGED host

\* tick of a port that is bound to the gateway.
TickBound(p) ==
    /\ p \in due
    /\ listens[p] # Nowhere /\ listens[p] = ResolveGateway
    /\ due' = due \ {p} /\ Caches
    /\ UNCHANGED <<listens, unbound, host>>

\* tick of a port that is not: a listener elsewhere is closed, and a new one
\* opened unless the address cannot be bound.
TickBinds(p) ==
    /\ p \in due
    /\ ResolveGateway # Nowhere /\ listens[p] # ResolveGateway
    /\ IF Binds(p, ResolveGateway) THEN Listen(p, ResolveGateway)
       ELSE IF listens[p] # Nowhere THEN Close(p) ELSE UNCHANGED <<listens, unbound>>
    /\ due' = due \ {p} /\ Caches
    /\ UNCHANGED host

\* A listener's socket fails.
ListenerFails(p) ==
    /\ listens[p] # Nowhere /\ changes < Changes
    /\ Close(p)
    /\ changes' = changes + 1
    /\ UNCHANGED <<declared, fresh, due, config, held, answers, busy>>

\* schedule: the timer fires, after FAST_MS or RETRY_MS.
TimerFires ==
    /\ due = {}
    /\ due' = Ports
    /\ UNCHANGED <<listens, unbound, declared, fresh, host>>

\* The declared gateway was read DECLARED_TTL_MS ago.
CacheAges ==
    /\ fresh
    /\ fresh' = FALSE
    /\ UNCHANGED <<listens, unbound, declared, due, host>>

-----------------------------------------------------------------------------
(* The host: vmnet gives an interface the gateway while a container runs. *)

HostChanges ==
    /\ changes < Changes
    /\ changes' = changes + 1
    /\ \/ /\ \E a \in Somewhere \ {config} : config' = a
          /\ UNCHANGED <<held, answers>>
       \/ /\ \E i \in Interfaces, a \in Somewhere :
               /\ a # held[i]
               /\ held' = [held EXCEPT ![i] = a]
          /\ UNCHANGED <<config, answers>>
       \/ /\ answers' = ~answers
          /\ UNCHANGED <<config, held>>
    /\ UNCHANGED <<program, busy>>

StaleListenerLeaves(p) ==
    /\ p \in busy
    /\ busy' = busy \ {p}
    /\ UNCHANGED <<program, config, held, answers, changes>>

Tick(p) == TickNowhere(p) \/ TickBound(p) \/ TickBinds(p)

BridgeRuns == TimerFires \/ CacheAges \/ \E p \in Ports : Tick(p)

BridgeNext ==
    \/ BridgeRuns
    \/ \E p \in Ports : ListenerFails(p) \/ StaleListenerLeaves(p)
    \/ HostChanges

BridgeSpec == BridgeInit /\ [][BridgeNext]_bridgeVars

-----------------------------------------------------------------------------
(* Properties *)

\* Where every listener belongs when the host has come to rest: at the
\* gateway of the declared network if that is up, nowhere if it is down, so
\* that a connection is refused and does not hang.
Rest ==
    IF answers /\ config # Nowhere
      THEN IF AddressIsLive(config) THEN config ELSE Nowhere
    ELSE GatewayFromInterfaces

\* Whatever the network went through, in the end every port that can be bound
\* listens at the gateway of the network there is, and none elsewhere; and the
\* timer goes by what is so: it is fast while a port that a container may call
\* has no listener, and slow when all have.
SettlesOnTheGateway ==
    \A p \in Ports : <>[](p \notin busy =>
        listens[p] = Rest /\ (p \in unbound <=> Rest = Nowhere))
=============================================================================
