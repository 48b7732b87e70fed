----------------------------- MODULE CommandApi -----------------------------
(***************************************************************************)
(* The command-api process (server/api/commands/main.go): a session of its *)
(* gRPC face is CommandStream, its REST face is AckStore, and the messages *)
(* of both are the ones of WireCodec.                                      *)
(*                                                                         *)
(* Each face has a NATS subscription and a lock of its own; they share no  *)
(* state, so each of them is explored while the other rests.               *)
(***************************************************************************)
EXTENDS CommandStream, WireCodec

CONSTANTS
    RestCmds,    \* commands posted to the REST face
    Reqs,        \* bound: its Server-Sent-Events requests
    RestAcks,    \* bound: ACKs a vehicle sends for one of its commands
    Ids,         \* vehicle and command ids
    Payloads,    \* payloads and texts
    Times        \* numbers: times and TTLs

ASSUME ApiAssumption ==
    /\ RestAcks \in Nat
    /\ "" \in Payloads /\ "" \notin Ids /\ Times \subseteq Nat

VARIABLES
    face,        \* "grpc" or "rest"
    rEmitted, rSub, acks, aged, waiters, ch, rSt, want, cut, told

Rest == INSTANCE AckStore
            WITH Cmds <- RestCmds, MaxAcks <- RestAcks,
                 emitted <- rEmitted, sub <- rSub, st <- rSt

restVars == <<rEmitted, rSub, acks, aged, waiters, ch, rSt, want, cut, told>>
apiVars == <<face, vars, restVars>>

ApiInit == Init /\ Rest!Init /\ face \in {"grpc", "rest"}

GrpcFace == face = "grpc" /\ Next /\ UNCHANGED <<face, restVars>>

RestFace == face = "rest" /\ Rest!Next /\ UNCHANGED <<face, vars>>

ApiSpec ==
    /\ ApiInit
    /\ [][GrpcFace \/ RestFace]_apiVars
    /\ Fairness /\ Rest!Fairness
-----------------------------------------------------------------------------
(* What may be on the wire                                                 *)

Envelopes ==
    [vehicleID : Ids, commandID : Ids, payload : Payloads, priority : 0..2,
     issuerID : Ids \cup {""}, issuedAt : Times, ttlMs : Times]

AckMessages ==
    [command_id : Ids, status : AckStatus, message : Payloads, ack_time_ns : Times]

\* What the agent makes of a command of command-api.
Received(cmd) ==
    [vehicle_id |-> cmd.vehicleID, command_id |-> cmd.commandID,
     payload |-> cmd.payload, ttl_ms |-> cmd.ttlMs,
     priority |-> IF cmd.priority = 2 THEN "High" ELSE "Normal"]

Mangled ==
    {cmd \in Envelopes :
        LET m == encodeCommandEnvelope(cmd)
        IN  ~decodable(m) \/ decode_command_envelope(m) # Received(cmd)}

\* What command-api makes of an ACK of the agent: its id and nothing else.
Read(ack) ==
    [commandID |-> ack.command_id, vehicleID |-> "", status |-> 0, message |-> "",
     latencyMs |-> 0]

Misheard ==
    {ack \in AckMessages : decodeCommandAck(encode_ack(ack)) # Read(ack)}

\* encodeCommandEnvelope against decode_command_envelope, encode_ack against
\* decodeCommandAck, field by field: a published command reaches the adapter
\* with its target, id, payload and TTL, one priority lower than command-api
\* numbers it; an ACK finds the command it is for, but its status reads
\* pending and its message is lost, whatever the vehicle said.
DecodedAs ==
    /\ stored # {} => Mangled = {}
    /\ sub # << >> => Misheard = {}

\* encode_ack: "must match proto/core/envelope.proto CommandAck": the status of
\* an ACK that comes in is the one the vehicle gave.
AckStatusArrives ==
    sub # << >> =>
        \A ack \in AckMessages :
            decodeCommandAck(encode_ack(ack)).status = statusValue(ack.status)

\* CommandEnvelope: "field 4 - 0=NORMAL, 1=HIGH, 2=EMERGENCY": the agent ranks
\* a published command as command-api did.
PriorityArrives ==
    stored # {} =>
        \A cmd \in Envelopes :
            decode_command_envelope(encodeCommandEnvelope(cmd)).priority
                = <<"Normal", "High", "Emergency">>[cmd.priority + 1]
-----------------------------------------------------------------------------
\* handleCommandStream and startACKListener: no SSE request waits for an ACK
\* that is on file or was handed out without it, and rs.waiters holds live
\* requests only.
RestInv == Rest!NoHungWaiter /\ Rest!OnlyLiveWaiters

\* A waiting SSE request is told the ACK of its command when it comes in,
\* unless its client leaves or the server's write deadline passes first.
RestWaiterHears == Rest!WaiterHears

\* handleCommandStream: "SSE push; resolves as soon as the ACK lands".
RestWaiterResolved == Rest!WaiterResolved
=============================================================================
