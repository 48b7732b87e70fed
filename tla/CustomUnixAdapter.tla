-------------------------- MODULE CustomUnixAdapter --------------------------
(***************************************************************************)
(* Commands in the Unix-socket adapter (agent/protocol-adapters/           *)
(* custom-unix): send_command broadcasts to every connected SDK client and *)
(* then waits, in turn, for the one receiver all ACK frames go to.         *)
(*                                                                         *)
(* The turn is tokio's FIFO mutex around ack_rx: lockq is its queue, and   *)
(* the call at the head holds it.  SocketFraming has the bytes: a command   *)
(* that goes out while the length prefix of an incoming frame is partly    *)
(* read cuts the connection's framing, and what the client sends after     *)
(* that may not be understood.                                             *)
(***************************************************************************)
EXTENDS Integers, Sequences, SequencesExt

CONSTANTS
    Calls,         \* send_command calls, each with a command id of its own
    Clients,       \* SDK client processes
    BroadcastCap,  \* 64: commands a slow client may be behind
    AckCap,        \* 256: ACK frames ack_tx holds
    None

VARIABLES
    pc,       \* where each call is
    lockq,    \* calls that hold (first) or await the mutex
    expired,  \* calls whose deadline has passed
    inbox,    \* per client: commands its broadcast receiver has not taken
    live,     \* connected clients
    cut,      \* connections whose framing a command has cut
    got,      \* per client: commands it has received and not acknowledged
    ackq,     \* ACK frames in the channel
    given,    \* history: ACK frames that clients sent
    timely,   \* history: calls a client acknowledged before the deadline
    tainted,  \* history: calls acknowledged over a connection with a cut
    answer    \* status each call returned

vars == <<pc, lockq, expired, inbox, live, cut, got, ackq, given, timely, tainted, answer>>

FrameStatuses == {"ok", "rejected", "other"}
Frames == [command : Calls, status : FrameStatuses]
Statuses == {"Completed", "Rejected", "Failed", "Timeout"}

StatusOf(status) ==
    CASE status = "ok"       -> "Completed"
      [] status = "rejected" -> "Rejected"
      [] OTHER               -> "Failed"

\* A broadcast receiver that lags skips the oldest command.
Pushed(q, c) == IF Len(q) < BroadcastCap THEN Append(q, c) ELSE Append(Tail(q), c)

Init ==
    /\ pc = [c \in Calls |-> "idle"]
    /\ lockq = << >> /\ expired = {}
    /\ inbox = [k \in Clients |-> << >>]
    /\ live = {} /\ cut = {}
    /\ got = [k \in Clients |-> {}]
    /\ ackq = << >> /\ given = {} /\ timely = {} /\ tainted = {}
    /\ answer = [c \in Calls |-> None]
-----------------------------------------------------------------------------
(* send_command                                                            *)

Returns(c, status) ==
    /\ pc' = [pc EXCEPT ![c] = "done"]
    /\ answer' = [answer EXCEPT ![c] = status]

\* receiver_count() = 0
NobodyThere(c) ==
    /\ pc[c] = "idle" /\ live = {}
    /\ Returns(c, "Rejected")
    /\ UNCHANGED <<lockq, expired, inbox, live, cut, got, ackq, given, timely, tainted>>

\* The command goes to every connection and the five seconds begin.
Broadcast(c) ==
    /\ pc[c] = "idle" /\ live # {}
    /\ inbox' = [k \in Clients |-> IF k \in live THEN Pushed(inbox[k], c) ELSE inbox[k]]
    /\ pc' = [pc EXCEPT ![c] = "locking"]
    /\ UNCHANGED <<lockq, expired, live, cut, got, ackq, given, timely, tainted, answer>>

\* ack_rx.lock().await
Queue(c) ==
    /\ pc[c] = "locking"
    /\ lockq' = Append(lockq, c)
    /\ pc' = [pc EXCEPT ![c] = "queued"]
    /\ UNCHANGED <<expired, inbox, live, cut, got, ackq, given, timely, tainted, answer>>

\* Time: nothing looks at the deadline before the mutex is held.
DeadlinePasses(c) ==
    /\ pc[c] \in {"locking", "queued"} /\ c \notin expired
    /\ expired' = expired \cup {c}
    /\ UNCHANGED <<pc, lockq, inbox, live, cut, got, ackq, given, timely, tainted, answer>>

Holds(c) == lockq # << >> /\ Head(lockq) = c

\* The holder takes a frame: its own ends the call, any other is thrown away.
Receive(c) ==
    /\ Holds(c) /\ ackq # << >>
    /\ ackq' = Tail(ackq)
    /\ IF Head(ackq).command = c
         THEN Returns(c, StatusOf(Head(ackq).status)) /\ lockq' = Tail(lockq)
         ELSE UNCHANGED <<pc, answer, lockq>>
    /\ UNCHANGED <<expired, inbox, live, cut, got, given, timely, tainted>>

\* Mutant: the deadline is looked at before the channel.
TimeOut_First(c) ==
    /\ Holds(c) /\ c \in expired
    /\ Returns(c, "Timeout")
    /\ lockq' = Tail(lockq)
    /\ UNCHANGED <<expired, inbox, live, cut, got, ackq, given, timely, tainted>>

\* timeout_at polls the channel first: only an empty one times out.
TimeOut(c) ==
    /\ Holds(c) /\ ackq = << >> /\ c \in expired
    /\ Returns(c, "Timeout")
    /\ lockq' = Tail(lockq)
    /\ UNCHANGED <<expired, inbox, live, cut, got, ackq, given, timely, tainted>>
-----------------------------------------------------------------------------
(* handle_connection and the SDK client behind it                          *)

\* accept: the connection subscribes to the commands to come.
Connects(k) ==
    /\ k \notin live
    /\ live' = live \cup {k}
    /\ UNCHANGED <<pc, lockq, expired, inbox, cut, got, ackq, given, timely, tainted, answer>>

\* The handler returns on a closed socket, a length out of range or a failed
\* write.
Disconnects(k) ==
    /\ k \in live
    /\ live' = live \ {k}
    /\ cut' = cut \ {k}
    /\ inbox' = [inbox EXCEPT ![k] = << >>]
    /\ got' = [got EXCEPT ![k] = {}]
    /\ UNCHANGED <<pc, lockq, expired, ackq, given, timely, tainted, answer>>

\* The handler's select takes a command, cutting the prefix it was reading if
\* the client was sending something, and writes the command to the client.
Forward(k) ==
    /\ inbox[k] # << >>
    /\ inbox' = [inbox EXCEPT ![k] = Tail(@)]
    /\ got' = [got EXCEPT ![k] = @ \cup {Head(inbox[k])}]
    /\ cut' \in {cut, cut \cup {k}}
    /\ UNCHANGED <<pc, lockq, expired, live, ackq, given, timely, tainted, answer>>

\* The client acknowledges.  The frame does not reach the channel if it is full
\* (try_send); it need not reach it over a connection with a cut.
ClientAcks(k, c, status) ==
    LET ack == [command |-> c, status |-> status] IN
    /\ c \in got[k]
    /\ got' = [got EXCEPT ![k] = @ \ {c}]
    /\ \/ Len(ackq) < AckCap /\ ackq' = Append(ackq, ack)
       \/ (Len(ackq) = AckCap \/ k \in cut) /\ UNCHANGED ackq
    /\ given' = given \cup {ack}
    /\ timely' = IF c \in expired THEN timely ELSE timely \cup {c}
    /\ tainted' = IF k \in cut THEN tainted \cup {c} ELSE tainted
    /\ UNCHANGED <<pc, lockq, expired, inbox, live, cut, answer>>
-----------------------------------------------------------------------------
Next ==
    \/ \E c \in Calls :
         \/ NobodyThere(c) \/ Broadcast(c) \/ Queue(c) \/ DeadlinePasses(c)
         \/ Receive(c) \/ TimeOut(c)
    \/ \E k \in Clients :
         \/ Connects(k) \/ Disconnects(k) \/ Forward(k)
         \/ \E c \in Calls, s \in FrameStatuses : ClientAcks(k, c, s)

Spec == Init /\ [][Next]_vars

\* Time passes and the tasks of the calls run; clients owe nothing.
Fairness ==
    \A c \in Calls :
      /\ WF_vars(Queue(c)) /\ WF_vars(DeadlinePasses(c))
      /\ WF_vars(Receive(c)) /\ WF_vars(TimeOut(c))

FairSpec == Spec /\ Fairness
-----------------------------------------------------------------------------
TypeOK ==
    /\ pc \in [Calls -> {"idle", "locking", "queued", "done"}]
    /\ lockq \in Seq(Calls)
    /\ expired \subseteq Calls
    /\ inbox \in [Clients -> Seq(Calls)]
    /\ \A k \in Clients : Len(inbox[k]) <= BroadcastCap
    /\ live \subseteq Clients /\ cut \subseteq Clients
    /\ got \in [Clients -> SUBSET Calls]
    /\ ackq \in Seq(Frames) /\ Len(ackq) <= AckCap
    /\ given \subseteq Frames /\ timely \subseteq Calls /\ tainted \subseteq Calls
    /\ answer \in [Calls -> Statuses \cup {None}]

\* Whatever the calls throw away of each other, a status that one returns is one
\* that a client gave for that very command.
AnswerWasGiven ==
    \A c \in Calls : answer[c] \in {"Completed", "Failed"} =>
        \E a \in given : a.command = c /\ StatusOf(a.status) = answer[c]

\* Every call that was broadcast returns, although it waits for the mutex
\* without a deadline.
EveryCallReturns == \A c \in Calls : pc[c] = "locking" ~> pc[c] = "done"

\* A command that a client acknowledged in time is answered with Timeout only
\* because of a rival, another call whose frames filled the channel or which
\* threw the ACK away while it had the receiver, or because a command, perhaps
\* this one, had cut the framing of a connection it was acknowledged on.
TimelyAckLost ==
    \A c \in timely : answer[c] = "Timeout" =>
        \/ c \in tainted
        \/ \E d \in Calls \ {c} : pc[d] # "idle"
=============================================================================
