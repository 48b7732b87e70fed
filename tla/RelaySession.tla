---------------------------- MODULE RelaySession ----------------------------
(***************************************************************************)
(* relay-core's vehicle sessions (server/relay/relay-core/src/session.rs   *)
(* and main.rs): the QUIC accept loop with its capacity check, one handler *)
(* task per connection (register, accept streams, serve, clean up), the    *)
(* heartbeat handler and the health monitor, all sharing one registry      *)
(* keyed by vehicle.                                                       *)
(*                                                                         *)
(* Time is abstracted: `fresh` says whether a session's last_heartbeat is  *)
(* within the monitor's 45 seconds.  A connection served over a live link  *)
(* gets a heartbeat every 10 seconds, so only other sessions grow stale.   *)
(***************************************************************************)
EXTENDS Integers, FiniteSets

CONSTANTS
    Vehicles,
    Conns,         \* bound: the QUIC connections of a behaviour
    NoConn,
    MaxConns,      \* config.max_connections
    AgentStreams   \* how many streams peers open: the agent of this repository
                   \* opens 3, the protocol both ends document has 4

ASSUME RelayAssumption ==
    /\ NoConn \notin Conns
    /\ MaxConns \in Nat
    /\ AgentStreams \subseteq Nat

VARIABLES
    handler,    \* where the handler task of each connection is
    veh,        \* the vehicle in the connection's certificate
    opens,      \* streams the agent of each vehicle opens
    link,       \* is the QUIC connection up?
    registry,   \* SessionRegistry: the connection whose session a vehicle has
    fresh,      \* is the session's last_heartbeat recent?
    stale,      \* health_monitor's stale_vehicles, still to be removed
    overlapped, \* history: vehicles that had two handlers at once
    reaped      \* history: vehicles the monitor removed

relayVars == <<handler, veh, opens, link, registry, fresh, stale, overlapped, reaped>>

Handling == {"accepting", "serving", "closing"}
ConnStates == {"none", "incoming", "handshake", "closed"} \cup Handling

RelayInit ==
    /\ handler = [c \in Conns |-> "none"]
    /\ veh \in [Conns -> Vehicles]
    /\ opens \in [Vehicles -> AgentStreams]
    /\ link = [c \in Conns |-> FALSE]
    /\ registry = [v \in Vehicles |-> NoConn]
    /\ fresh = [v \in Vehicles |-> FALSE]
    /\ stale = {}
    /\ overlapped = {} /\ reaped = {}

Registered == {v \in Vehicles : registry[v] # NoConn}

\* accept_vehicle_streams awaits four streams.
StreamsAwaited == 4
-----------------------------------------------------------------------------
(* The vehicle and the network (external)                                  *)

\* An agent has one connection at a time: it dials again when it has given up
\* the one before, whatever the relay still thinks of that one.
Dial(c) ==
    /\ handler[c] = "none"
    /\ \A d \in Conns : veh[d] = veh[c] => ~link[d]
    /\ handler' = [handler EXCEPT ![c] = "incoming"]
    /\ link' = [link EXCEPT ![c] = TRUE]
    /\ UNCHANGED <<veh, opens, registry, fresh, stale, overlapped, reaped>>

LinkDrops(c) ==
    /\ link[c]
    /\ link' = [link EXCEPT ![c] = FALSE]
    /\ UNCHANGED <<handler, veh, opens, registry, fresh, stale, overlapped, reaped>>

\* 45 seconds without a heartbeat.
HeartbeatAges(v) ==
    /\ v \in Registered
    /\ handler[registry[v]] # "serving" \/ ~link[registry[v]]
    /\ fresh[v]
    /\ fresh' = [fresh EXCEPT ![v] = FALSE]
    /\ UNCHANGED <<handler, veh, opens, link, registry, stale, overlapped, reaped>>
-----------------------------------------------------------------------------
(* The accept loop's task                                                  *)

Refuse(c) ==
    /\ handler[c] = "incoming"
    /\ Cardinality(Registered) >= MaxConns
    /\ handler' = [handler EXCEPT ![c] = "closed"]
    /\ link' = [link EXCEPT ![c] = FALSE]
    /\ UNCHANGED <<veh, opens, registry, fresh, stale, overlapped, reaped>>

\* Room: the handshake is awaited, and the registry is not looked at again.
Admit(c) ==
    /\ handler[c] = "incoming"
    /\ Cardinality(Registered) < MaxConns
    /\ handler' = [handler EXCEPT ![c] = "handshake"]
    /\ UNCHANGED <<veh, opens, link, registry, fresh, stale, overlapped, reaped>>

\* Mutant: a failed handshake runs the cleanup of handle_connection.
HandshakeFails_Removes(c) ==
    /\ handler[c] = "handshake"
    /\ handler' = [handler EXCEPT ![c] = "closed"]
    /\ link' = [link EXCEPT ![c] = FALSE]
    /\ registry' = [registry EXCEPT ![veh[c]] = NoConn]
    /\ UNCHANGED <<veh, opens, fresh, stale, overlapped, reaped>>

\* The handshake fails, or the certificate names no vehicle.
HandshakeFails(c) ==
    /\ handler[c] = "handshake"
    /\ handler' = [handler EXCEPT ![c] = "closed"]
    /\ link' = [link EXCEPT ![c] = FALSE]
    /\ UNCHANGED <<veh, opens, registry, fresh, stale, overlapped, reaped>>
-----------------------------------------------------------------------------
(* handle_connection                                                       *)

\* registry.insert replaces whatever session the vehicle had.
Register(c) ==
    LET v == veh[c] IN
    /\ handler[c] = "handshake"
    /\ link[c]
    /\ handler' = [handler EXCEPT ![c] = "accepting"]
    /\ registry' = [registry EXCEPT ![v] = c]
    /\ fresh' = [fresh EXCEPT ![v] = TRUE]
    /\ overlapped' = IF \E d \in Conns : veh[d] = v /\ handler[d] \in Handling
                       THEN overlapped \cup {v} ELSE overlapped
    /\ UNCHANGED <<veh, opens, link, stale, reaped>>

AcceptStreams(c) ==
    /\ handler[c] = "accepting"
    /\ link[c]
    /\ opens[veh[c]] >= StreamsAwaited
    /\ handler' = [handler EXCEPT ![c] = "serving"]
    /\ UNCHANGED <<veh, opens, link, registry, fresh, stale, overlapped, reaped>>

\* A heartbeat refreshes the vehicle's session, if it still has one.
Heartbeat(c) ==
    /\ handler[c] = "serving"
    /\ link[c]
    /\ veh[c] \in Registered
    /\ fresh' = [fresh EXCEPT ![veh[c]] = TRUE]
    /\ UNCHANGED <<handler, veh, opens, link, registry, stale, overlapped, reaped>>

\* Mutant: nothing ends a connection that never opened its streams.
NoticeLinkDown_ServingOnly(c) ==
    /\ handler[c] = "serving"
    /\ ~link[c]
    /\ handler' = [handler EXCEPT ![c] = "closing"]
    /\ UNCHANGED <<veh, opens, link, registry, fresh, stale, overlapped, reaped>>

\* The idle timeout or a close frame fails the accept or one of the handlers.
NoticeLinkDown(c) ==
    /\ handler[c] \in {"accepting", "serving"}
    /\ ~link[c]
    /\ handler' = [handler EXCEPT ![c] = "closing"]
    /\ UNCHANGED <<veh, opens, link, registry, fresh, stale, overlapped, reaped>>

\* A handler gives up by itself: oversized frame or failed NATS publish.
HandlerFails(c) ==
    /\ handler[c] = "serving"
    /\ handler' = [handler EXCEPT ![c] = "closing"]
    /\ UNCHANGED <<veh, opens, link, registry, fresh, stale, overlapped, reaped>>

\* Mutant: a failed accept returns without the cleanup.
Cleanup_SkipsRemove(c) ==
    /\ handler[c] = "closing"
    /\ handler' = [handler EXCEPT ![c] = "closed"]
    /\ link' = [link EXCEPT ![c] = FALSE]
    /\ UNCHANGED <<veh, opens, registry, fresh, stale, overlapped, reaped>>

\* registry.remove by vehicle, whoever's session it is; the connection is
\* dropped with the task.
Cleanup(c) ==
    /\ handler[c] = "closing"
    /\ handler' = [handler EXCEPT ![c] = "closed"]
    /\ link' = [link EXCEPT ![c] = FALSE]
    /\ registry' = [registry EXCEPT ![veh[c]] = NoConn]
    /\ UNCHANGED <<veh, opens, fresh, stale, overlapped, reaped>>
-----------------------------------------------------------------------------
(* health_monitor                                                          *)

\* A tick: collect the stale vehicles.
MonitorScan ==
    /\ stale = {}
    /\ stale' = {v \in Registered : ~fresh[v]}
    /\ UNCHANGED <<handler, veh, opens, link, registry, fresh, overlapped, reaped>>

\* Remove them one by one, not looking at last_heartbeat again.
MonitorRemove(v) ==
    /\ v \in stale
    /\ stale' = stale \ {v}
    /\ registry' = [registry EXCEPT ![v] = NoConn]
    /\ reaped' = reaped \cup {v}
    /\ UNCHANGED <<handler, veh, opens, link, fresh, overlapped>>
-----------------------------------------------------------------------------
ConnStep(c) ==
    \/ Dial(c) \/ LinkDrops(c) \/ Refuse(c) \/ Admit(c) \/ HandshakeFails(c)
    \/ Register(c) \/ AcceptStreams(c) \/ Heartbeat(c) \/ NoticeLinkDown(c)
    \/ HandlerFails(c) \/ Cleanup(c)

RelayNext ==
    \/ \E c \in Conns : ConnStep(c)
    \/ \E v \in Vehicles : HeartbeatAges(v) \/ MonitorRemove(v)
    \/ MonitorScan

RelaySpec == RelayInit /\ [][RelayNext]_relayVars

\* The relay's tasks run; vehicles and the network owe nothing.
RelayFairness ==
    \A c \in Conns :
        /\ WF_relayVars(AcceptStreams(c))
        /\ WF_relayVars(NoticeLinkDown(c))
        /\ WF_relayVars(Cleanup(c))

RelayFairSpec == RelaySpec /\ RelayFairness
-----------------------------------------------------------------------------
RelayTypeOK ==
    /\ handler \in [Conns -> ConnStates]
    /\ veh \in [Conns -> Vehicles]
    /\ opens \in [Vehicles -> AgentStreams]
    /\ link \in [Conns -> BOOLEAN]
    /\ registry \in [Vehicles -> Conns \cup {NoConn}]
    /\ fresh \in [Vehicles -> BOOLEAN]
    /\ stale \subseteq Vehicles
    /\ overlapped \subseteq Vehicles
    /\ reaped \subseteq Vehicles

\* A registered session belongs to its vehicle and its handler has not
\* returned: the forwarder never finds a channel nobody will ever drain.
NoDeadSession ==
    \A v \in Registered :
        /\ handler[registry[v]] \in Handling
        /\ veh[registry[v]] = v

\* A connection being handled has its session in the registry unless two
\* handlers of the vehicle overlapped or the monitor removed the vehicle.
HiddenOnlyByOverlapOrReap ==
    \A c \in Conns :
        handler[c] \in Handling /\ registry[veh[c]] # c
            => veh[c] \in overlapped \cup reaped

\* The session of a connection that is down leaves the registry.
DeadSessionsLeave ==
    \A c \in Conns :
        (registry[veh[c]] = c /\ ~link[c]) ~> (registry[veh[c]] # c)

\* A registered vehicle whose link stays up gets its streams served.  With the
\* agent's three streams the relay waits for a fourth as long as the link lives.
VehicleServed ==
    \A c \in Conns :
        (handler[c] = "accepting" /\ link[c]) ~> (handler[c] = "serving" \/ ~link[c])
=============================================================================
