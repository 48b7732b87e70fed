-------------------------- MODULE ProtocolAdapters --------------------------
(***************************************************************************)
(* The hardware side of the edge agent.  agent-core's main builds one      *)
(* protocol adapter, the one the configuration names, and it stays for the *)
(* life of the process: MavlinkAdapter, or the Unix-socket adapter, whose  *)
(* exchange of commands is CustomUnixAdapter and whose bytes on one        *)
(* connection are SocketFraming.                                           *)
(*                                                                         *)
(* The two views of the Unix-socket adapter share no state, so each of     *)
(* them is explored while the other rests.                                 *)
(***************************************************************************)
EXTENDS MavlinkAdapter, Sequences

CONSTANTS
    UnixCalls,     \* send_command calls of the Unix-socket adapter
    Clients,       \* its SDK clients
    BroadcastCap, AckCap,              \* its channels: see CustomUnixAdapter
    MaxFrames, MaxCommands, MaxLength  \* bounds: see SocketFraming

ASSUME UnixAssumption ==
    /\ BroadcastCap \in Nat \ {0} /\ AckCap \in Nat \ {0}
    /\ None \notin UnixCalls \cup {"Completed"}
    /\ MaxFrames \in Nat /\ MaxCommands \in Nat /\ MaxLength \in Nat \ {0}

VARIABLES
    adapter,   \* cfg.adapter, and which view of the Unix-socket adapter
    upc, lockq, expired, inbox, live, cut, got, ackq, given, timely, tainted, uanswer,
    written, wire, prefix, need, payload, handled, commands, cuts, open

Unix == INSTANCE CustomUnixAdapter
            WITH Calls <- UnixCalls, pc <- upc, answer <- uanswer

Bytes == INSTANCE SocketFraming

unixVars ==
    <<upc, lockq, expired, inbox, live, cut, got, ackq, given, timely, tainted, uanswer>>
bytesVars == <<written, wire, prefix, need, payload, handled, commands, cuts, open>>
adapterVars == <<adapter, vars, unixVars, bytesVars>>

Adapters == {"mavlink", "custom_unix", "custom_unix_bytes"}

\* Calls of an adapter that is not built have any type.
AdapterInit ==
    /\ Init /\ Unix!Init /\ Bytes!Init
    /\ adapter \in Adapters
    /\ adapter # "mavlink" => typeOf = [c \in Calls |-> Fallback]

Mavlink ==
    /\ adapter = "mavlink" /\ Next
    /\ UNCHANGED <<adapter, unixVars, bytesVars>>

CustomUnix ==
    /\ adapter = "custom_unix" /\ Unix!Next
    /\ UNCHANGED <<adapter, vars, bytesVars>>

CustomUnixBytes ==
    /\ adapter = "custom_unix_bytes" /\ Bytes!Next
    /\ UNCHANGED <<adapter, vars, unixVars>>

AdapterSpec ==
    /\ AdapterInit
    /\ [][Mavlink \/ CustomUnix \/ CustomUnixBytes]_adapterVars
    /\ Fairness /\ Unix!Fairness
-----------------------------------------------------------------------------
\* custom-unix send_command: a status that a call returns is one that a client
\* gave for that very command, and a command acknowledged in time is reported
\* as Timeout only if other calls had the receiver or a command had cut the
\* framing of the connection the ACK came over.
UnixInv == Unix!AnswerWasGiven /\ Unix!TimelyAckLost

\* custom-unix handle_connection: the payloads it handles are the frames the
\* client wrote unless a command cut the reading of a length prefix.
UnixFramesIntactUnlessCut == Bytes!IntactUnlessCut

\* Every send_command of either adapter returns, so that the dispatcher's task
\* ends and its ACK is sent.
EveryCommandReturns == EveryCallReturns /\ Unix!EveryCallReturns
=============================================================================
