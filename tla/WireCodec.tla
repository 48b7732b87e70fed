------------------------------ MODULE WireCodec ------------------------------
(***************************************************************************)
(* The hand-written protobuf codecs at the two ends of the command path.   *)
(* command-api encodes a CommandEnvelope that the agent's QUIC transport   *)
(* decodes; the agent encodes an Ack that command-api decodes.             *)
(*                                                                         *)
(* A message is the sequence of its fields (number, wire type, value); the *)
(* byte layout of varints and strings is left out.  Decoders keep the last *)
(* value of a field they know and skip the others.                         *)
(***************************************************************************)
EXTENDS Integers, Sequences, FiniteSetsExt

Varint == 0
LenDelim == 2

Field(n, w, v) == [num |-> n, wire |-> w, val |-> v]

LastField(m, n, w, default) ==
    LET found == {i \in DOMAIN m : m[i].num = n /\ m[i].wire = w}
    IN  IF found = {} THEN default ELSE m[Max(found)].val

\* A field that is left out when it has its default value.
Optional(present, f) == IF present THEN <<f>> ELSE << >>
-----------------------------------------------------------------------------
(* CommandEnvelope: command-api to agent                                   *)

\* Mutant: the TTL is sent under the number of issued_at.
encodeCommandEnvelope_TtlInSix(cmd) ==
    <<Field(1, LenDelim, cmd.vehicleID), Field(2, LenDelim, cmd.commandID),
      Field(3, LenDelim, cmd.payload), Field(4, Varint, cmd.priority)>>
    \o Optional(cmd.ttlMs > 0, Field(6, Varint, cmd.ttlMs))

encodeCommandEnvelope(cmd) ==
    <<Field(1, LenDelim, cmd.vehicleID), Field(2, LenDelim, cmd.commandID),
      Field(3, LenDelim, cmd.payload), Field(4, Varint, cmd.priority)>>
    \o Optional(cmd.issuerID # "", Field(5, LenDelim, cmd.issuerID))
    \o Optional(cmd.issuedAt > 0, Field(6, Varint, cmd.issuedAt))
    \o Optional(cmd.ttlMs > 0, Field(7, Varint, cmd.ttlMs))

agentPriority(n) ==
    CASE n = 2 -> "High" [] n = 3 -> "Emergency" [] OTHER -> "Normal"

decode_command_envelope(m) ==
    [vehicle_id |-> LastField(m, 1, LenDelim, ""),
     command_id |-> LastField(m, 2, LenDelim, ""),
     payload |-> LastField(m, 3, LenDelim, ""),
     priority |-> agentPriority(LastField(m, 4, Varint, 1)),
     ttl_ms |-> LastField(m, 7, Varint, 0)]

\* The agent skips an envelope without a vehicle or a command id.
decodable(m) ==
    /\ LastField(m, 1, LenDelim, "") # ""
    /\ LastField(m, 2, LenDelim, "") # ""
-----------------------------------------------------------------------------
(* CommandAck: agent to command-api                                        *)

AckStatus == {"Accepted", "Completed", "Rejected", "Failed", "Timeout"}

statusValue(s) ==
    CASE s = "Accepted" -> 1 [] s = "Completed" -> 2 [] s = "Rejected" -> 3
      [] s = "Failed" -> 4 [] s = "Timeout" -> 5

encode_ack(ack) ==
    <<Field(1, LenDelim, ack.command_id), Field(2, Varint, statusValue(ack.status))>>
    \o Optional(ack.message # "", Field(3, LenDelim, ack.message))
    \o <<Field(4, Varint, ack.ack_time_ns)>>

decodeCommandAck(m) ==
    [commandID |-> LastField(m, 1, LenDelim, ""),
     vehicleID |-> LastField(m, 2, LenDelim, ""),
     status |-> LastField(m, 3, Varint, 0),
     message |-> LastField(m, 4, LenDelim, ""),
     latencyMs |-> LastField(m, 5, Varint, 0)]
==============================================================================
