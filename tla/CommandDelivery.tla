--------------------------- MODULE CommandDelivery ---------------------------
(***************************************************************************)
(* The way of a command from JetStream to one vehicle and of its ACK back: *)
(*   - the "command" stream and its durable consumer (external: NATS),     *)
(*   - run_forwarder (server/relay/command-forwarder/src/main.rs),         *)
(*   - the session's command channel and stream 1 (relay-core session.rs), *)
(*   - receive_commands_loop and send_acks_loop (agent/quic-transport),    *)
(*   - the dispatch task and handle_ack (agent/agent-core).                *)
(*                                                                         *)
(* run_forwarder looks into a CommandRegistry it is given.  Its own binary *)
(* gives it an empty one that nobody fills, and relay-core does not call   *)
(* it.  So who fills the registry is external: Embedded says whether the   *)
(* program that runs it puts senders of relay-core's sessions there, as    *)
(* the module's comments tell it to.  QUIC streams are FIFO, take so much  *)
(* and no more until the other end reads, and lose what they carry when    *)
(* the connection goes down.                                               *)
(***************************************************************************)
EXTENDS Integers, Sequences, FiniteSets

CONSTANTS
    Cmds,        \* command ids
    Conns,       \* bound: connections of the vehicle in a behaviour
    None,        \* no command, no connection
    MaxDeliver,  \* max_deliver of the durable consumer
    Embedded,    \* does somebody fill the forwarder's registry?
    ChanCap,     \* capacity of a session's command channel
    Window,      \* what a direction of stream 1 carries unread, in frames
    CmdCap,      \* capacity of the agent's command channel
    AckCap       \* capacity of the agent's ACK channel

ASSUME DeliveryAssumption ==
    /\ None \notin Cmds \cup Conns
    /\ IsFiniteSet(Conns)
    /\ {MaxDeliver, ChanCap, Window, CmdCap, AckCap} \subseteq Nat \ {0}
    /\ Embedded \in BOOLEAN

VARIABLES
    js,        \* state of each message in the consumer
    tries,     \* how often it was delivered to the forwarder
    fwd,       \* the message the forwarder holds
    sent,      \* the forwarder's try_send succeeded, the ACK is still to come
    conn,      \* state of each connection's handler at the relay
    up,        \* is the agent's side of the connection running?
    reg,       \* whose sender the forwarder's registry has
    chan,      \* session command channels
    wire,      \* stream 1, relay to agent
    ackwire,   \* stream 1, agent to relay
    inbox,     \* the agent's command channel
    running,   \* dispatch tasks waiting for the adapter, per command
    acking,    \* dispatch tasks waiting in ack_tx.send, per command and result
    seen,      \* commands an SDK subscriber has not acknowledged yet
    ackq,      \* the agent's ACK channel
    reported,  \* ACKs that reached NATS
    exec,      \* history: executions by the adapter
    failed,    \* history: dispatches that ended in an adapter error
    skipped,   \* history: copies the agent could not decode
    lost       \* history: copies that went down with a connection

jsVars    == <<js, tries, fwd, sent>>
relayVars == <<conn, up, reg, chan, wire, ackwire>>
agentVars == <<inbox, running, acking, seen, ackq, reported>>
histVars  == <<exec, failed, skipped, lost>>
vars == <<jsVars, relayVars, agentVars, histVars>>

Acks == [cmd : Cmds, src : {"hw", "sdk"}, ok : BOOLEAN]

Init ==
    /\ js = [k \in Cmds |-> "none"]
    /\ tries = [k \in Cmds |-> 0]
    /\ fwd = None /\ sent = FALSE
    /\ conn = [c \in Conns |-> "none"]
    /\ up = [c \in Conns |-> FALSE]
    /\ reg = None
    /\ chan = [c \in Conns |-> << >>]
    /\ wire = [c \in Conns |-> << >>]
    /\ ackwire = [c \in Conns |-> << >>]
    /\ inbox = << >>
    /\ running = [k \in Cmds |-> 0]
    /\ acking = [t \in Cmds \X BOOLEAN |-> 0]
    /\ seen = {} /\ ackq = << >> /\ reported = {}
    /\ exec = [k \in Cmds |-> 0]
    /\ failed = [k \in Cmds |-> 0]
    /\ skipped = [k \in Cmds |-> 0]
    /\ lost = [k \in Cmds |-> 0]

\* How often k is in a sequence, and in a family of them.
At(k, s) == {i \in DOMAIN s : s[i] = k}
Occurrences(k, s) == Cardinality(At(k, s))
Total(k, q) == Cardinality(UNION {{c} \X At(k, q[c]) : c \in DOMAIN q})
-----------------------------------------------------------------------------
(* JetStream (external)                                                    *)

\* command-api publishes; every request has an id of its own.
Publish(k) ==
    /\ js[k] = "none"
    /\ js' = [js EXCEPT ![k] = "stored"]
    /\ UNCHANGED <<tries, fwd, sent, relayVars, agentVars, histVars>>

\* The consumer hands a message to the forwarder's pull.
Fetch(k) ==
    /\ fwd = None
    /\ js[k] = "stored"
    /\ js' = [js EXCEPT ![k] = "inflight"]
    /\ tries' = [tries EXCEPT ![k] = @ + 1]
    /\ fwd' = k
    /\ UNCHANGED <<sent, relayVars, agentVars, histVars>>

\* What becomes of a message that was not acknowledged: another delivery, or
\* none once max_deliver is used up.
Unacked(k) == IF tries[k] < MaxDeliver THEN "stored" ELSE "dead"
-----------------------------------------------------------------------------
(* run_forwarder                                                           *)

\* A session's receiver lives from before it is registered to the end of its
\* handlers.
ChanOpen(c) == conn[c] \in {"waiting", "open"}

CanSend == reg # None /\ ChanOpen(reg) /\ Len(chan[reg]) < ChanCap

Forward ==
    /\ fwd # None /\ ~sent
    /\ CanSend
    /\ chan' = [chan EXCEPT ![reg] = Append(@, fwd)]
    /\ sent' = TRUE
    /\ UNCHANGED <<js, tries, fwd, conn, up, reg, wire, ackwire, agentVars, histVars>>

\* Mutant: a command that cannot be sent is acknowledged and so dropped.
Nak_Acks ==
    /\ fwd # None /\ ~sent
    /\ ~CanSend
    /\ js' = [js EXCEPT ![fwd] = "acked"]
    /\ fwd' = None
    /\ UNCHANGED <<tries, sent, relayVars, agentVars, histVars>>

\* No entry, a closed channel or a full one.
Nak ==
    /\ fwd # None /\ ~sent
    /\ ~CanSend
    /\ js' = [js EXCEPT ![fwd] = Unacked(fwd)]
    /\ fwd' = None
    /\ UNCHANGED <<tries, sent, relayVars, agentVars, histVars>>

AckMsg ==
    /\ sent
    /\ js' = [js EXCEPT ![fwd] = "acked"]
    /\ fwd' = None /\ sent' = FALSE
    /\ UNCHANGED <<tries, relayVars, agentVars, histVars>>

\* The acknowledgement is lost, or the forwarder dies before sending it.
AckMsgLost ==
    /\ sent
    /\ js' = [js EXCEPT ![fwd] = Unacked(fwd)]
    /\ fwd' = None /\ sent' = FALSE
    /\ UNCHANGED <<tries, relayVars, agentVars, histVars>>
-----------------------------------------------------------------------------
(* The forwarder's registry (external: no code fills it)                   *)

\* run_forwarder keeps the entry locked from its try_send to the end of the
\* acknowledgement; an insert or a removal waits.
EntryFree == ~sent

\* The sender of a session that relay-core has.
Fill(c) ==
    /\ Embedded /\ EntryFree
    /\ conn[c] \in {"waiting", "open"}
    /\ reg' = c
    /\ UNCHANGED <<jsVars, conn, up, chan, wire, ackwire, agentVars, histVars>>

Unfill ==
    /\ reg # None /\ EntryFree
    /\ reg' = None
    /\ UNCHANGED <<jsVars, conn, up, chan, wire, ackwire, agentVars, histVars>>
-----------------------------------------------------------------------------
(* relay-core: the session's command side                                  *)

\* The agent has one connection at a time.  handle_connection makes the command
\* channel and registers the session ...
Register(c) ==
    /\ conn[c] = "none"
    /\ \A d \in Conns : ~up[d]
    /\ conn' = [conn EXCEPT ![c] = "waiting"]
    /\ up' = [up EXCEPT ![c] = TRUE]
    /\ UNCHANGED <<jsVars, reg, chan, wire, ackwire, agentVars, histVars>>

\* ... and then waits for four streams: with the agent's three for ever, see
\* RelaySession.
AcceptStreams(c) ==
    /\ conn[c] = "waiting"
    /\ conn' = [conn EXCEPT ![c] = "open"]
    /\ UNCHANGED <<jsVars, up, reg, chan, wire, ackwire, agentVars, histVars>>

\* send_commands_from_channel
SendCommand(c) ==
    /\ conn[c] = "open"
    /\ chan[c] # << >> /\ Len(wire[c]) < Window
    /\ wire' = [wire EXCEPT ![c] = Append(@, Head(chan[c]))]
    /\ chan' = [chan EXCEPT ![c] = Tail(@)]
    /\ UNCHANGED <<jsVars, conn, up, reg, ackwire, agentVars, histVars>>

\* receive_command_acks publishes on command.{vehicle}.ack, what has arrived of
\* a connection that is down included.
PublishAck(c) ==
    /\ conn[c] = "open"
    /\ ackwire[c] # << >>
    /\ reported' = reported \cup {Head(ackwire[c])}
    /\ ackwire' = [ackwire EXCEPT ![c] = Tail(@)]
    /\ UNCHANGED <<jsVars, conn, up, reg, chan, wire, inbox, running, acking, seen, ackq,
                   histVars>>

LinkDrops(c) ==
    /\ up[c]
    /\ up' = [up EXCEPT ![c] = FALSE]
    /\ UNCHANGED <<jsVars, conn, reg, chan, wire, ackwire, agentVars, histVars>>

\* One of the handlers ends, because the link is down, NATS does not take a
\* message or a frame is too long, and with it the others: the channel's
\* receiver is dropped.
CloseSession(c) ==
    /\ conn[c] = "open"
    /\ conn' = [conn EXCEPT ![c] = "closing"]
    /\ lost' = [k \in Cmds |-> lost[k] + Occurrences(k, chan[c])]
    /\ chan' = [chan EXCEPT ![c] = << >>]
    /\ UNCHANGED <<jsVars, up, reg, wire, ackwire, agentVars, exec, failed, skipped>>

\* Mutant: a session that never got its streams returns without the cleanup.
Cleanup_ServedOnly(c) ==
    /\ conn[c] = "closing"
    /\ conn' = [conn EXCEPT ![c] = "closed"]
    /\ up' = [up EXCEPT ![c] = FALSE]
    /\ lost' = [k \in Cmds |-> lost[k] + Occurrences(k, chan[c]) + Occurrences(k, wire[c])]
    /\ chan' = [chan EXCEPT ![c] = << >>]
    /\ wire' = [wire EXCEPT ![c] = << >>]
    /\ ackwire' = [ackwire EXCEPT ![c] = << >>]
    /\ UNCHANGED <<jsVars, reg, agentVars, exec, failed, skipped>>

\* The handler returns, after its handlers or because accept_bi failed, and
\* drops the connection and, in the second case, the receiver.
Cleanup(c) ==
    /\ conn[c] = "closing" \/ (conn[c] = "waiting" /\ ~up[c])
    /\ conn' = [conn EXCEPT ![c] = "closed"]
    /\ up' = [up EXCEPT ![c] = FALSE]
    /\ lost' = [k \in Cmds |-> lost[k] + Occurrences(k, chan[c]) + Occurrences(k, wire[c])]
    /\ chan' = [chan EXCEPT ![c] = << >>]
    /\ wire' = [wire EXCEPT ![c] = << >>]
    /\ ackwire' = [ackwire EXCEPT ![c] = << >>]
    /\ UNCHANGED <<jsVars, reg, agentVars, exec, failed, skipped>>
-----------------------------------------------------------------------------
(* The agent                                                               *)

\* receive_commands_loop: cmd_tx.send waits for room.
AgentReceive(c) ==
    /\ up[c] /\ wire[c] # << >>
    /\ Len(inbox) < CmdCap
    /\ inbox' = Append(inbox, Head(wire[c]))
    /\ wire' = [wire EXCEPT ![c] = Tail(@)]
    /\ UNCHANGED <<jsVars, conn, up, reg, chan, ackwire, running, acking, seen, ackq,
                   reported, histVars>>

\* "Failed to decode command envelope -- skipping": nobody is told.
AgentSkips(c) ==
    /\ up[c] /\ wire[c] # << >>
    /\ skipped' = [skipped EXCEPT ![Head(wire[c])] = @ + 1]
    /\ wire' = [wire EXCEPT ![c] = Tail(@)]
    /\ UNCHANGED <<jsVars, conn, up, reg, chan, ackwire, agentVars, exec, failed, lost>>

\* A frame above 65,536 bytes ends the connection.
AgentRefuses(c) ==
    /\ up[c] /\ wire[c] # << >>
    /\ up' = [up EXCEPT ![c] = FALSE]
    /\ UNCHANGED <<jsVars, conn, reg, chan, wire, ackwire, agentVars, histVars>>

ReadCommand(c) == AgentReceive(c) \/ AgentSkips(c) \/ AgentRefuses(c)

\* The dispatch task: broadcast to SDK subscribers, spawn the adapter call.
\* The command id is not looked at.
Dispatch ==
    /\ inbox # << >>
    /\ inbox' = Tail(inbox)
    /\ running' = [running EXCEPT ![Head(inbox)] = @ + 1]
    /\ seen' = seen \cup {Head(inbox)}
    /\ UNCHANGED <<jsVars, relayVars, acking, ackq, reported, histVars>>

\* adapter.send_command returns an ACK, or an error, which the dispatch task
\* turns into a Failed ACK; the task then waits in ack_tx.send.
AdapterReturns(k, ok) ==
    /\ running[k] > 0
    /\ running' = [running EXCEPT ![k] = @ - 1]
    /\ acking' = [acking EXCEPT ![<<k, ok>>] = @ + 1]
    /\ IF ok THEN exec' = [exec EXCEPT ![k] = @ + 1] /\ UNCHANGED failed
             ELSE failed' = [failed EXCEPT ![k] = @ + 1] /\ UNCHANGED exec
    /\ UNCHANGED <<jsVars, relayVars, inbox, seen, ackq, reported, skipped, lost>>

\* There is room in the ACK channel.
QueueAck(k, ok) ==
    /\ acking[<<k, ok>>] > 0
    /\ Len(ackq) < AckCap
    /\ acking' = [acking EXCEPT ![<<k, ok>>] = @ - 1]
    /\ ackq' = Append(ackq, [cmd |-> k, src |-> "hw", ok |-> ok])
    /\ UNCHANGED <<jsVars, relayVars, inbox, running, seen, reported, histVars>>

\* handle_ack: the SDK's ACK is dropped with a 503 when the channel is full.
SdkAck(k, ok) ==
    /\ k \in seen
    /\ seen' = seen \ {k}
    /\ ackq' = IF Len(ackq) < AckCap
                 THEN Append(ackq, [cmd |-> k, src |-> "sdk", ok |-> ok])
                 ELSE ackq
    /\ UNCHANGED <<jsVars, relayVars, inbox, running, acking, reported, histVars>>

\* send_acks_loop takes an ACK from the channel and writes it to stream 1 ...
SendAck(c) ==
    /\ up[c]
    /\ ackq # << >> /\ Len(ackwire[c]) < Window
    /\ ackwire' = [ackwire EXCEPT ![c] = Append(@, Head(ackq))]
    /\ ackq' = Tail(ackq)
    /\ UNCHANGED <<jsVars, conn, up, reg, chan, wire, inbox, running, acking, seen, reported,
                   histVars>>

\* ... which fails if the connection goes down meanwhile.
SendAckLost(c) ==
    /\ up[c]
    /\ ackq # << >>
    /\ ackq' = Tail(ackq)
    /\ up' = [up EXCEPT ![c] = FALSE]
    /\ UNCHANGED <<jsVars, conn, reg, chan, wire, ackwire, inbox, running, acking, seen, reported,
                   histVars>>
-----------------------------------------------------------------------------
Broker == \E k \in Cmds : Publish(k) \/ Fetch(k)

Forwarder == Forward \/ Nak \/ AckMsg \/ AckMsgLost

Relay(c) ==
    \/ Fill(c) \/ Register(c) \/ AcceptStreams(c) \/ SendCommand(c) \/ PublishAck(c)
    \/ LinkDrops(c) \/ CloseSession(c) \/ Cleanup(c)

Agent ==
    \/ Dispatch
    \/ \E k \in Cmds, ok \in BOOLEAN :
          AdapterReturns(k, ok) \/ QueueAck(k, ok) \/ SdkAck(k, ok)
    \/ \E c \in Conns : ReadCommand(c) \/ SendAck(c) \/ SendAckLost(c)

Next == Broker \/ Forwarder \/ Unfill \/ (\E c \in Conns : Relay(c)) \/ Agent

Spec == Init /\ [][Next]_vars

\* The consumer delivers what it holds, the forwarder finishes the message it
\* has, the relay's and the agent's tasks run; nobody owes a publication, a
\* connection, its streams, an entry in the registry or a loss.
Fairness ==
    /\ WF_vars(\E k \in Cmds : Fetch(k))
    /\ WF_vars(Forwarder)
    /\ \A c \in Conns : /\ WF_vars(SendCommand(c))
                         /\ WF_vars(PublishAck(c))
                         /\ WF_vars(~up[c] /\ CloseSession(c))
                         /\ WF_vars(Cleanup(c))
                         /\ WF_vars(ReadCommand(c))
                         /\ WF_vars(SendAck(c))
    /\ WF_vars(Dispatch)
    /\ \A k \in Cmds : WF_vars(\E ok \in BOOLEAN : AdapterReturns(k, ok))

FairSpec == Spec /\ Fairness
-----------------------------------------------------------------------------
JsType ==
    /\ js \in [Cmds -> {"none", "stored", "inflight", "acked", "dead"}]
    /\ tries \in [Cmds -> 0..MaxDeliver]
    /\ fwd \in Cmds \cup {None} /\ sent \in BOOLEAN

RelayType ==
    /\ conn \in [Conns -> {"none", "waiting", "open", "closing", "closed"}]
    /\ up \in [Conns -> BOOLEAN]
    /\ reg \in Conns \cup {None}
    /\ chan \in [Conns -> Seq(Cmds)] /\ \A c \in Conns : Len(chan[c]) <= ChanCap
    /\ wire \in [Conns -> Seq(Cmds)] /\ ackwire \in [Conns -> Seq(Acks)]

AgentType ==
    /\ inbox \in Seq(Cmds) /\ Len(inbox) <= CmdCap
    /\ running \in [Cmds -> Nat] /\ acking \in [Cmds \X BOOLEAN -> Nat]
    /\ seen \subseteq Cmds
    /\ ackq \in Seq(Acks) /\ Len(ackq) <= AckCap
    /\ reported \subseteq Acks

HistType ==
    /\ exec \in [Cmds -> Nat] /\ failed \in [Cmds -> Nat]
    /\ skipped \in [Cmds -> Nat] /\ lost \in [Cmds -> Nat]

TypeOK == JsType /\ RelayType /\ AgentType /\ HistType

\* Copies of a command between the forwarder and the adapter.
Copies(k) == Total(k, chan) + Total(k, wire) + Occurrences(k, inbox) + running[k]

\* What the deliveries of a command have come to so far.
Fates(k) == exec[k] + failed[k] + skipped[k] + lost[k] + Copies(k)

\* Every execution, failure, loss or copy under way stems from a delivery of
\* its own: duplicates come from redelivery only, at most max_deliver of them.
OneFatePerDelivery ==
    \A k \in Cmds : Fates(k) <= tries[k]

\* A command the forwarder has acknowledged, which NATS will not deliver again,
\* is under way, executed, failed, was skipped by the agent, or went down with
\* a connection.
AckedIsAccountedFor ==
    \A k \in Cmds : js[k] = "acked" => Fates(k) > 0

\* What went down with a connection did so with a session that has ended.
LostWithSession ==
    \A k \in Cmds : lost[k] > 0 => \E c \in Conns : conn[c] \in {"closing", "closed"}

\* The hardware ACK that reaches NATS tells what the adapter did.
HardwareAckIsHonest ==
    \A a \in reported : a.src = "hw" =>
        IF a.ok THEN exec[a.cmd] > 0 ELSE failed[a.cmd] > 0

\* What the forwarder, the relay and the agent owe a command at any moment
\* (command-forwarder's ack and nak, session.rs, quic-transport, the dispatcher).
DeliveryInv ==
    /\ TypeOK
    /\ OneFatePerDelivery /\ AckedIsAccountedFor /\ LostWithSession
    /\ HardwareAckIsHonest

\* A copy in the channel of a session that waits for its streams: nobody drains
\* it as long as the connection lives.
Undrained(k) == \E c \in Conns : conn[c] = "waiting" /\ up[c] /\ At(k, chan[c]) # {}

\* There is no other place where an acknowledged command gets stuck on its way
\* to the adapter (session.rs, quic-transport, the dispatcher).
StuckOnlyUndrained ==
    \A k \in Cmds :
        js[k] = "acked" ~> exec[k] + failed[k] + skipped[k] + lost[k] > 0 \/ Undrained(k)

\* command-forwarder, where it finds no entry: "Vehicle not connected to this
\* relay".  With the binary's empty registry that is every command, whoever is
\* connected.
NackedOnlyIfAway ==
    [][fwd # None /\ ~sent /\ fwd' = None /\ reg = None
            => \A c \in Conns : conn[c] # "open"]_vars

\* command-forwarder: "Deduplication happens at the edge agent
\* (CommandEnvelope.command_id)".
ExecutedAtMostOnce == \A k \in Cmds : exec[k] <= 1
=============================================================================
