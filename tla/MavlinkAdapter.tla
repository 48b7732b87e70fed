--------------------------- MODULE MavlinkAdapter ---------------------------
(***************************************************************************)
(* Commands in the MAVLink adapter (agent/protocol-adapters/mavlink):      *)
(* concurrent send_command calls, the table pending_acks that data_stream  *)
(* resolves them through, and an autopilot behind UDP.  pending_acks is    *)
(* keyed by the low 16 bits of the MAVLink command type, not by the call.  *)
(*                                                                         *)
(* A call is one task of agent-core's dispatcher; what it returns is       *)
(* answer[c].  An Err becomes the Failed ACK the dispatcher makes of it.   *)
(***************************************************************************)
EXTENDS Integers

CONSTANTS
    Calls,     \* send_command calls
    Types,     \* values of MavlinkCommand.command, a u32
    Known,     \* the ones the dialect's MavCmd has, of 16 bits
    Fallback,  \* MAV_CMD_DO_SET_MODE
    None

U16 == 65536

Results == {"ACCEPTED", "DENIED", "IN_PROGRESS"}
Statuses == {"Accepted", "Rejected", "Failed", "Timeout"}
Replies == [type : Known, call : Calls, result : Results]

ASSUME MavlinkAssumption ==
    /\ Types \subseteq Nat /\ Known \subseteq Types
    /\ \A t \in Known : t < U16
    /\ Fallback \in Known
    /\ None \notin Calls \cup Statuses

VARIABLES
    typeOf,   \* the command type of each call
    pc,       \* where each call is
    pending,  \* pending_acks: key -> the call whose sender it holds
    slot,     \* each call's oneshot: "open", "closed" or the result in it
    frames,   \* calls whose COMMAND_LONG is on its way
    working,  \* calls the autopilot answered with IN_PROGRESS only
    acks,     \* COMMAND_ACKs on their way
    sent,     \* history: every COMMAND_ACK of the autopilot
    late,     \* history: calls whose ack_timeout really passed
    answer    \* status each call returned

vars == <<typeOf, pc, pending, slot, frames, working, acks, sent, late, answer>>
call == <<typeOf, pc, pending, slot, late, answer>>
autopilot == <<frames, working, acks, sent>>

\* from_u32(command).unwrap_or(MAV_CMD_DO_SET_MODE)
WireType(t) == IF t \in Known THEN t ELSE Fallback

\* command as u16: types that differ by a multiple of 2^16 share an entry.
Key(t) == t % U16

Keys == {Key(t) : t \in Types}

\* MavResult to AckStatus; everything unlisted is Failed.
StatusOf(result) ==
    CASE result = "ACCEPTED" -> "Accepted"
      [] result = "DENIED"   -> "Rejected"
      [] OTHER               -> "Failed"

\* Dropping the sender that an entry of pending_acks holds closes its oneshot.
Dropped(s, c) == IF c # None /\ s[c] = "open" THEN [s EXCEPT ![c] = "closed"] ELSE s

Init ==
    /\ typeOf \in [Calls -> Types]
    /\ pc = [c \in Calls |-> "idle"]
    /\ pending = [k \in Keys |-> None]
    /\ slot = [c \in Calls |-> "open"]
    /\ frames = {} /\ working = {} /\ acks = {} /\ sent = {}
    /\ late = {}
    /\ answer = [c \in Calls |-> None]
-----------------------------------------------------------------------------
(* send_command                                                            *)

\* The call ends with the given status.
Returns(c, status) ==
    /\ pc' = [pc EXCEPT ![c] = "done"]
    /\ answer' = [answer EXCEPT ![c] = status]

\* The payload does not decode.
Undecodable(c) ==
    /\ pc[c] = "idle"
    /\ Returns(c, "Failed")
    /\ UNCHANGED <<typeOf, pending, slot, late, autopilot>>

\* The waiter goes into pending_acks before the frame is sent; a sender that was
\* there under the same key is dropped.
Register(c) ==
    /\ pc[c] = "idle"
    /\ pc' = [pc EXCEPT ![c] = "registered"]
    /\ pending' = [pending EXCEPT ![Key(typeOf[c])] = c]
    /\ slot' = Dropped(slot, pending[Key(typeOf[c])])
    /\ UNCHANGED <<typeOf, late, answer, autopilot>>

SendFrame(c) ==
    /\ pc[c] = "registered"
    /\ pc' = [pc EXCEPT ![c] = "waiting"]
    /\ frames' = frames \cup {c}
    /\ UNCHANGED <<typeOf, pending, slot, late, answer, working, acks, sent>>

\* Serialising or sending fails: the entry stays in pending_acks.
SendFails(c) ==
    /\ pc[c] = "registered"
    /\ Returns(c, "Failed")
    /\ UNCHANGED <<typeOf, pending, slot, late, autopilot>>

\* timeout(ack_timeout, rx) ends with what is in the oneshot, ...
GotResult(c) ==
    /\ pc[c] = "waiting" /\ slot[c] \in Results
    /\ Returns(c, StatusOf(slot[c]))
    /\ UNCHANGED <<typeOf, pending, slot, late, autopilot>>

\* ... with an error because the sender was dropped, ...
SenderDropped(c) ==
    /\ pc[c] = "waiting" /\ slot[c] = "closed"
    /\ pc' = [pc EXCEPT ![c] = "giving_up"]
    /\ UNCHANGED <<typeOf, pending, slot, late, answer, autopilot>>

\* ... or because the time is up.
DeadlinePasses(c) ==
    /\ pc[c] = "waiting" /\ slot[c] = "open"
    /\ pc' = [pc EXCEPT ![c] = "giving_up"]
    /\ late' = late \cup {c}
    /\ UNCHANGED <<typeOf, pending, slot, answer, autopilot>>

\* Mutant: a call that times out starts over, for ever.
GiveUp_Retries(c) ==
    /\ pc[c] = "giving_up"
    /\ pending' = [pending EXCEPT ![Key(typeOf[c])] = c]
    /\ slot' = [Dropped(slot, pending[Key(typeOf[c])]) EXCEPT ![c] = "open"]
    /\ pc' = [pc EXCEPT ![c] = "registered"]
    /\ UNCHANGED <<typeOf, late, answer, autopilot>>

\* Both ways, the entry of the key goes, whoever's it is by now.
GiveUp(c) ==
    /\ pc[c] = "giving_up"
    /\ slot' = Dropped(slot, pending[Key(typeOf[c])])
    /\ pending' = [pending EXCEPT ![Key(typeOf[c])] = None]
    /\ Returns(c, "Timeout")
    /\ UNCHANGED <<typeOf, late, autopilot>>
-----------------------------------------------------------------------------
(* data_stream                                                             *)

\* Mutant: IN_PROGRESS takes the entry without an answer.
Receive_SkipsInProgress(a) ==
    /\ a \in acks
    /\ acks' = acks \ {a}
    /\ LET c == pending[a.type] IN
       /\ pending' = [pending EXCEPT ![a.type] = None]
       /\ slot' = IF c # None /\ slot[c] = "open"
                    THEN [slot EXCEPT ![c] = IF a.result = "IN_PROGRESS" THEN "closed" ELSE a.result]
                    ELSE slot
    /\ UNCHANGED <<typeOf, pc, late, answer, frames, working, sent>>

\* A COMMAND_ACK takes the entry of its type, a u16, and resolves that oneshot, if any.
Receive(a) ==
    /\ a \in acks
    /\ acks' = acks \ {a}
    /\ LET c == pending[a.type] IN
       /\ pending' = [pending EXCEPT ![a.type] = None]
       /\ slot' = IF c # None /\ slot[c] = "open"
                    THEN [slot EXCEPT ![c] = a.result] ELSE slot
    /\ UNCHANGED <<typeOf, pc, late, answer, frames, working, sent>>
-----------------------------------------------------------------------------
(* The autopilot and the datagrams                                         *)

Reply(c, result) ==
    LET a == [type |-> WireType(typeOf[c]), call |-> c, result |-> result] IN
    /\ acks' = acks \cup {a}
    /\ sent' = sent \cup {a}

AutopilotAnswers(c, result) ==
    /\ c \in frames
    /\ frames' = frames \ {c}
    /\ working' = IF result = "IN_PROGRESS" THEN working \cup {c} ELSE working
    /\ Reply(c, result)
    /\ UNCHANGED call

AutopilotFinishes(c, result) ==
    /\ c \in working /\ result # "IN_PROGRESS"
    /\ working' = working \ {c}
    /\ Reply(c, result)
    /\ UNCHANGED <<call, frames>>

DatagramLost ==
    /\ \/ \E c \in frames : frames' = frames \ {c} /\ UNCHANGED acks
       \/ \E a \in acks : acks' = acks \ {a} /\ UNCHANGED frames
    /\ UNCHANGED <<call, working, sent>>
-----------------------------------------------------------------------------
Next ==
    \/ \E c \in Calls :
         \/ Undecodable(c) \/ Register(c) \/ SendFrame(c) \/ SendFails(c)
         \/ GotResult(c) \/ SenderDropped(c) \/ DeadlinePasses(c) \/ GiveUp(c)
         \/ \E r \in Results : AutopilotAnswers(c, r) \/ AutopilotFinishes(c, r)
    \/ \E a \in acks : Receive(a)
    \/ DatagramLost

Spec == Init /\ [][Next]_vars

\* The calls' tasks run and their timers fire.
Fairness ==
    \A c \in Calls :
      /\ WF_vars(SendFrame(c) \/ SendFails(c))
      /\ WF_vars(GotResult(c) \/ SenderDropped(c) \/ DeadlinePasses(c))
      /\ WF_vars(GiveUp(c))

FairSpec == Spec /\ Fairness
-----------------------------------------------------------------------------
TypeOK ==
    /\ typeOf \in [Calls -> Types]
    /\ pc \in [Calls -> {"idle", "registered", "waiting", "giving_up", "done"}]
    /\ pending \in [Keys -> Calls \cup {None}]
    /\ slot \in [Calls -> {"open", "closed"} \cup Results]
    /\ frames \subseteq Calls /\ working \subseteq Calls
    /\ acks \subseteq sent /\ sent \subseteq Replies
    /\ late \subseteq Calls
    /\ answer \in [Calls -> Statuses \cup {None}]

\* A call that still waits on an open oneshot is the one its key's entry of
\* pending_acks leads to: no call waits for a result nothing can deliver.
WaiterReachable ==
    \A c \in Calls :
        pc[c] \in {"registered", "waiting"} /\ slot[c] = "open"
            => pending[Key(typeOf[c])] = c

\* An Accepted or Rejected that the adapter returns was said by the autopilot,
\* of a command with the type that the call's key spells, which is another
\* type than the call's if that one has more than 16 bits.
AnswerFromAutopilot ==
    \A c \in Calls : answer[c] \in {"Accepted", "Rejected"} =>
        \E a \in sent : a.type = Key(typeOf[c]) /\ StatusOf(a.result) = answer[c]

\* Every call that was made returns.
EveryCallReturns == \A c \in Calls : pc[c] = "registered" ~> pc[c] = "done"

\* A call is told Timeout before its ack_timeout is up only because of a rival:
\* another call of the same key, which took over its entry in pending_acks or
\* removed it.
EarlyTimeoutByRival ==
    \A c \in Calls : answer[c] = "Timeout" =>
        \/ c \in late
        \/ \E d \in Calls \ {c} : Key(typeOf[d]) = Key(typeOf[c]) /\ pc[d] # "idle"

\* The waiters and the answers of the adapter at any moment (pending_acks,
\* receive loop and send_command in mavlink's lib.rs).
MavlinkInv == WaiterReachable /\ AnswerFromAutopilot /\ EarlyTimeoutByRival
=============================================================================
