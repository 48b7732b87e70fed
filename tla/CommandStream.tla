--------------------------- MODULE CommandStream ---------------------------
(***************************************************************************)
(* One operator session of command-api's gRPC SendCommand                  *)
(* (server/api/commands/main.go): the receive loop, the ACK router that    *)
(* reads a core NATS subscription, and one goroutine per command waiting   *)
(* for its ACK, its timeout or the end of the stream.  They share the map  *)
(* pendingACKs under a mutex; every critical section is a step.            *)
(*                                                                         *)
(* A request is named by the UUID the server gives it, a retry like any    *)
(* other.                                                                  *)
(***************************************************************************)
EXTENDS Integers, Sequences

CONSTANTS
    Cmds,         \* bound: the requests of a session
    Allowed,      \* requests to a vehicle of the operator's vehicle_set
    SubCap,       \* capacity of the channel Subscribe returns
    MaxAcks,      \* bound: ACKs the vehicle sends for one command
    None

ASSUME StreamAssumption ==
    /\ Allowed \subseteq Cmds
    /\ None \notin Cmds
    /\ SubCap \in Nat /\ MaxAcks \in Nat

VARIABLES
    st,        \* where each request is
    loop,      \* the command published and not yet registered, or None
    stored,    \* command ids the JetStream stream holds or held
    emitted,   \* ACKs the vehicle has sent, per command
    sub,       \* the subscription's channel
    routing,   \* the ACK whose pending channel the router has looked up
    pending,   \* pendingACKs
    ackChan,   \* the channels it points to, of capacity 1
    answers,   \* what the operator was sent
    up         \* is the stream open?

vars == <<st, loop, stored, emitted, sub, routing, pending, ackChan, answers,
          up>>

States == {"none", "published", "waiting", "acked", "late", "done"}

Init ==
    /\ st = [k \in Cmds |-> "none"]
    /\ loop = None
    /\ stored = {}
    /\ emitted = [k \in Cmds |-> 0]
    /\ sub = << >>
    /\ routing = None
    /\ pending = {}
    /\ ackChan = [k \in Cmds |-> 0]
    /\ answers = [k \in Cmds |-> << >>]
    /\ up = TRUE

\* stream.Send; it fails once the stream has ended.
Send(k, a) == answers' = IF up THEN [answers EXCEPT ![k] = Append(@, a)] ELSE answers
-----------------------------------------------------------------------------
(* The receive loop                                                        *)

Reject(k) ==
    /\ up /\ loop = None /\ st[k] = "none"
    /\ k \notin Allowed
    /\ Send(k, "failed")
    /\ st' = [st EXCEPT ![k] = "done"]
    /\ UNCHANGED <<loop, stored, emitted, sub, routing, pending, ackChan, up>>

\* A new UUID is assigned and the command published under it.
Publish(k) ==
    /\ up /\ loop = None /\ st[k] = "none"
    /\ k \in Allowed
    /\ stored' = stored \cup {k}
    /\ loop' = k
    /\ st' = [st EXCEPT ![k] = "published"]
    /\ UNCHANGED <<emitted, sub, routing, pending, ackChan, answers, up>>

\* Publish returns an error; the stream may have the command all the same.
PublishFails(k) ==
    /\ up /\ loop = None /\ st[k] = "none"
    /\ k \in Allowed
    /\ stored' \in {stored, stored \cup {k}}
    /\ Send(k, "failed")
    /\ st' = [st EXCEPT ![k] = "done"]
    /\ UNCHANGED <<loop, emitted, sub, routing, pending, ackChan, up>>

\* Only now does the ACK router get to know the command.
Register ==
    /\ loop # None
    /\ pending' = pending \cup {loop}
    /\ st' = [st EXCEPT ![loop] = "waiting"]
    /\ loop' = None
    /\ UNCHANGED <<stored, emitted, sub, routing, ackChan, answers, up>>
-----------------------------------------------------------------------------
(* The vehicle, NATS and the operator (external)                           *)

\* An ACK is published; the subscription drops it when its channel is full.
VehicleAcks(k) ==
    /\ k \in stored
    /\ emitted[k] < MaxAcks
    /\ emitted' = [emitted EXCEPT ![k] = @ + 1]
    /\ sub' = IF up /\ Len(sub) < SubCap THEN Append(sub, k) ELSE sub
    /\ UNCHANGED <<st, loop, stored, routing, pending, ackChan, answers, up>>

StreamCloses ==
    /\ up
    /\ up' = FALSE
    /\ UNCHANGED <<st, loop, stored, emitted, sub, routing, pending, ackChan,
                   answers>>
-----------------------------------------------------------------------------
(* The ACK router                                                          *)

\* The mutex is held for the lookup only.
RouteLookup ==
    /\ routing = None
    /\ sub # << >>
    /\ sub' = Tail(sub)
    /\ routing' = IF Head(sub) \in pending THEN Head(sub) ELSE None
    /\ UNCHANGED <<st, loop, stored, emitted, pending, ackChan, answers, up>>

\* Mutant: every waiting command gets the ACK.
RouteSend_Broadcast ==
    /\ routing # None
    /\ ackChan' = [k \in Cmds |-> IF k \in pending THEN 1 ELSE ackChan[k]]
    /\ routing' = None
    /\ UNCHANGED <<st, loop, stored, emitted, sub, pending, answers, up>>

\* The ACK is dropped when the channel still holds one.
RouteSend ==
    /\ routing # None
    /\ ackChan' = [ackChan EXCEPT ![routing] = 1]
    /\ routing' = None
    /\ UNCHANGED <<st, loop, stored, emitted, sub, pending, answers, up>>
-----------------------------------------------------------------------------
(* The goroutine of a command                                              *)

WaiterAck(k) ==
    /\ st[k] = "waiting"
    /\ ackChan[k] > 0
    /\ ackChan' = [ackChan EXCEPT ![k] = 0]
    /\ st' = [st EXCEPT ![k] = "acked"]
    /\ UNCHANGED <<loop, stored, emitted, sub, routing, pending, answers, up>>

\* Mutant: the timer is not armed for a command without a TTL.
WaiterTimeout_Never(k) ==
    /\ st[k] = "waiting" /\ ~up
    /\ st' = [st EXCEPT ![k] = "late"]
    /\ UNCHANGED <<loop, stored, emitted, sub, routing, pending, ackChan,
                   answers, up>>

WaiterTimeout(k) ==
    /\ st[k] = "waiting"
    /\ st' = [st EXCEPT ![k] = "late"]
    /\ UNCHANGED <<loop, stored, emitted, sub, routing, pending, ackChan,
                   answers, up>>

WaiterAnswers(k) ==
    /\ st[k] \in {"acked", "late"}
    /\ pending' = pending \ {k}
    /\ Send(k, IF st[k] = "acked" THEN "ack" ELSE "timeout")
    /\ st' = [st EXCEPT ![k] = "done"]
    /\ UNCHANGED <<loop, stored, emitted, sub, routing, ackChan, up>>

\* ctx.Done: the entry stays in a map that dies with the session.
WaiterGone(k) ==
    /\ st[k] = "waiting"
    /\ ~up
    /\ st' = [st EXCEPT ![k] = "done"]
    /\ UNCHANGED <<loop, stored, emitted, sub, routing, pending, ackChan,
                   answers, up>>
-----------------------------------------------------------------------------
Receive(k) == Reject(k) \/ Publish(k) \/ PublishFails(k)

Waiter(k) == WaiterAck(k) \/ WaiterTimeout(k) \/ WaiterAnswers(k) \/ WaiterGone(k)

Router == RouteLookup \/ RouteSend

Next ==
    \/ \E k \in Cmds : Receive(k) \/ VehicleAcks(k) \/ Waiter(k)
    \/ Register \/ Router \/ StreamCloses

Spec == Init /\ [][Next]_vars

\* Goroutines run and timers fire; operator, vehicle and NATS owe nothing.
Fairness ==
    /\ WF_vars(Register)
    /\ WF_vars(Router)
    /\ \A k \in Cmds : WF_vars(Waiter(k))

FairSpec == Spec /\ Fairness
-----------------------------------------------------------------------------
TypeOK ==
    /\ st \in [Cmds -> States]
    /\ loop \in Cmds \cup {None}
    /\ stored \subseteq Cmds
    /\ emitted \in [Cmds -> 0..MaxAcks]
    /\ sub \in Seq(Cmds) /\ Len(sub) <= SubCap
    /\ routing \in Cmds \cup {None}
    /\ pending \subseteq Cmds
    /\ ackChan \in [Cmds -> 0..1]
    /\ answers \in [Cmds -> Seq({"failed", "ack", "timeout"})]
    /\ up \in BOOLEAN

\* The operator is told "ack" only of a command whose vehicle acknowledged it,
\* at most one thing of each command, and nothing reaches a vehicle outside
\* the operator's set.
AnswersAreTrue ==
    \A k \in Cmds :
        /\ Len(answers[k]) <= 1
        /\ answers[k] = <<"ack">> => emitted[k] > 0
        /\ k \in stored => k \in Allowed

\* While the session lives, pendingACKs holds exactly the commands somebody is
\* still waiting for: it does not grow with the commands sent.
PendingIsWaiting ==
    up => pending = {k \in Cmds : st[k] \in {"waiting", "acked", "late"}}

\* A command session at any moment (SendCommand in command-api's main.go).
SessionInv == TypeOK /\ AnswersAreTrue /\ PendingIsWaiting

\* Whatever happens to the ACK, a command gets its answer while the operator
\* stays connected.
EveryCommandAnswered ==
    \A k \in Cmds : st[k] = "published" ~> (answers[k] # << >> \/ ~up)
=============================================================================
