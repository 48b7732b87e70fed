---------------------------- MODULE SocketFraming ----------------------------
(***************************************************************************)
(* The bytes of one Unix-socket connection (custom-unix handle_connection):*)
(* a client writes frames of a length prefix and a payload, and the        *)
(* handler's select reads the prefix in one branch and takes commands to   *)
(* send in the other.  read_exact keeps what it has read in its future:    *)
(* when the command branch wins, the part of a prefix already read is gone.*)
(*                                                                         *)
(* A frame is three pieces: two halves of the prefix and the payload.  The *)
(* prefix of every frame says one payload piece; two halves that do not    *)
(* belong together make a number that is rejected or any small length.     *)
(***************************************************************************)
EXTENDS Integers, Sequences, SequencesExt

CONSTANTS
    MaxFrames,   \* bound: frames the client writes
    MaxCommands, \* bound: commands for this client
    MaxLength    \* bound: pieces of payload a wrong length asks for

VARIABLES
    written,    \* pieces the client has written
    wire,       \* pieces not yet read
    prefix,     \* pieces in the current read of len_buf
    need,       \* pieces of payload still to read; 0 while reading a prefix
    payload,    \* pieces of payload read
    handled,    \* payloads passed to handle_json_frame or handle_proto_frame
    commands,   \* commands sent to the client
    cuts,       \* history: commands that interrupted a partly read prefix
    open        \* the handler runs

vars == <<written, wire, prefix, need, payload, handled, commands, cuts, open>>

Parts == <<"low", "high", "payload">>
Piece(i) == <<i \div 3, Parts[(i % 3) + 1]>>
Pieces == {Piece(i) : i \in 0..(3 * MaxFrames)}

Init ==
    /\ written = 0 /\ wire = << >>
    /\ prefix = << >> /\ need = 0 /\ payload = << >>
    /\ handled = << >>
    /\ commands = 0 /\ cuts = 0
    /\ open = TRUE
-----------------------------------------------------------------------------
\* The client writes; a stream socket may hand over any part of a frame.
ClientWrites ==
    /\ open /\ written < 3 * MaxFrames
    /\ wire' = Append(wire, Piece(written))
    /\ written' = written + 1
    /\ UNCHANGED <<prefix, need, payload, handled, commands, cuts, open>>

\* reader.read_exact(&mut len_buf) goes on.
ReadPrefix ==
    /\ open /\ need = 0 /\ Len(prefix) < 2 /\ wire # << >>
    /\ prefix' = Append(prefix, Head(wire))
    /\ wire' = Tail(wire)
    /\ UNCHANGED <<written, need, payload, handled, commands, cuts, open>>

\* The pieces are the two halves of one prefix.
WellFormed(p) == p[1][2] = "low" /\ p[2] = <<p[1][1], "high">>

\* Mutant: the length counts its own prefix.
Decode_CountsPrefix ==
    /\ open /\ need = 0 /\ Len(prefix) = 2 /\ WellFormed(prefix)
    /\ need' = 2 /\ prefix' = << >>
    /\ UNCHANGED <<written, wire, payload, handled, commands, cuts, open>>

\* The length is read and the payload awaited.
Decode ==
    /\ open /\ need = 0 /\ Len(prefix) = 2 /\ WellFormed(prefix)
    /\ need' = 1 /\ prefix' = << >>
    /\ UNCHANGED <<written, wire, payload, handled, commands, cuts, open>>

\* Bytes that are no prefix: some length in range ...
DecodeWrong ==
    /\ open /\ need = 0 /\ Len(prefix) = 2 /\ ~WellFormed(prefix)
    /\ need' \in 1..MaxLength /\ prefix' = << >>
    /\ UNCHANGED <<written, wire, payload, handled, commands, cuts, open>>

\* ... or one that closes the connection.
DecodeInvalid ==
    /\ open /\ need = 0 /\ Len(prefix) = 2 /\ ~WellFormed(prefix)
    /\ open' = FALSE /\ prefix' = << >>
    /\ UNCHANGED <<written, wire, need, payload, handled, commands, cuts>>

\* reader.read_exact(&mut payload), awaited inside the branch, then the frame's
\* handler.
ReadPayload ==
    /\ open /\ need > 0 /\ wire # << >>
    /\ need' = need - 1
    /\ wire' = Tail(wire)
    /\ IF need = 1
         THEN /\ handled' = Append(handled, Append(payload, Head(wire)))
              /\ payload' = << >>
         ELSE /\ payload' = Append(payload, Head(wire))
              /\ UNCHANGED handled
    /\ UNCHANGED <<written, prefix, commands, cuts, open>>

\* The select takes a command: the read of the prefix is dropped.
CommandSent ==
    /\ open /\ need = 0 /\ Len(prefix) < 2 /\ commands < MaxCommands
    /\ commands' = commands + 1
    /\ cuts' = IF prefix # << >> THEN cuts + 1 ELSE cuts
    /\ prefix' = << >>
    /\ UNCHANGED <<written, wire, need, payload, handled, open>>

\* The client closes, or the write of a command fails.
Closes ==
    /\ open
    /\ open' = FALSE
    /\ UNCHANGED <<written, wire, prefix, need, payload, handled, commands, cuts>>
-----------------------------------------------------------------------------
Next ==
    \/ ClientWrites
    \/ ReadPrefix \/ Decode \/ DecodeWrong \/ DecodeInvalid \/ ReadPayload
    \/ CommandSent \/ Closes

Spec == Init /\ [][Next]_vars
-----------------------------------------------------------------------------
TypeOK ==
    /\ written \in 0..(3 * MaxFrames)
    /\ wire \in Seq(Pieces)
    /\ prefix \in Seq(Pieces) /\ Len(prefix) <= 2
    /\ need \in 0..MaxLength
    /\ payload \in Seq(Pieces)
    /\ handled \in Seq(Seq(Pieces))
    /\ commands \in 0..MaxCommands /\ cuts \in 0..commands
    /\ open \in BOOLEAN

Payload(n) == <<<<n - 1, "payload">>>>

\* custom-unix: what follows a length prefix is one envelope ("Frame: [4 bytes
\* LE length][DataEnvelope proto bytes]"): the payloads handled are the ones
\* the client wrote, in their order.
FramesIntact == \A n \in DOMAIN handled : handled[n] = Payload(n)

\* As long as no command came in the middle of a prefix, they are.
IntactUnlessCut == cuts = 0 => FramesIntact
=============================================================================
