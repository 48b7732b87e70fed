------------------------------ MODULE AckStore ------------------------------
(***************************************************************************)
(* command-api's REST side (server/api/commands/main.go): the listener     *)
(* that files the ACKs of all vehicles in the map acks and wakes the       *)
(* waiting Server-Sent-Events requests, the expiry ticker, and the handler *)
(* of GET /v1/commands/{id}/stream.  One RWMutex guards both maps; every   *)
(* critical section is a step.  A stored ACK is its number among the ACKs  *)
(* of its command.                                                         *)
(***************************************************************************)
EXTENDS Integers, Sequences, SequencesExt

CONSTANTS
    Cmds,      \* commands that were posted
    Reqs,      \* bound: SSE requests
    SubCap,    \* capacity of the channel Subscribe returns
    MaxAcks    \* bound: ACKs a vehicle sends for one command

VARIABLES
    emitted,   \* ACKs sent by the vehicle, per command
    sub,       \* the subscription's channel
    acks,      \* rs.acks: the ACK on file, 0 if there is none
    aged,      \* commands whose ACK on file is more than 5 minutes old
    waiters,   \* rs.waiters
    ch,        \* the channel of each SSE request, of capacity 1
    st,        \* where each SSE request is
    want,      \* the command it asks about
    cut,       \* why its connection carries no answer any more, "no" if it does
    told       \* the ACK it was sent

vars == <<emitted, sub, acks, aged, waiters, ch, st, want, cut, told>>

Entries == [cmd : Cmds, n : 1..MaxAcks]

Init ==
    /\ emitted = [k \in Cmds |-> 0]
    /\ sub = << >>
    /\ acks = [k \in Cmds |-> 0]
    /\ aged = {}
    /\ waiters = [k \in Cmds |-> << >>]
    /\ ch = [r \in Reqs |-> << >>]
    /\ st = [r \in Reqs |-> "none"]
    /\ want \in [Reqs -> Cmds]
    /\ cut = [r \in Reqs |-> "no"]
    /\ told = [r \in Reqs |-> << >>]
-----------------------------------------------------------------------------
(* NATS and time (external)                                                *)

\* The subscription drops an ACK when its channel is full.
VehicleAcks(k) ==
    /\ emitted[k] < MaxAcks
    /\ emitted' = [emitted EXCEPT ![k] = @ + 1]
    /\ sub' = IF Len(sub) < SubCap
                THEN Append(sub, [cmd |-> k, n |-> emitted[k] + 1]) ELSE sub
    /\ UNCHANGED <<acks, aged, waiters, ch, st, want, cut, told>>

\* Five minutes pass since the ACK on file came in.
Age(k) ==
    /\ acks[k] # 0 /\ k \notin aged
    /\ aged' = aged \cup {k}
    /\ UNCHANGED <<emitted, sub, acks, waiters, ch, st, want, cut, told>>
-----------------------------------------------------------------------------
(* startACKListener                                                        *)

\* Mutant: one waiter is served, as if a command had one caller.
Consume_FirstWaiter ==
    /\ sub # << >>
    /\ LET e == Head(sub) IN
        /\ acks' = [acks EXCEPT ![e.cmd] = e.n]
        /\ aged' = aged \ {e.cmd}
        /\ ch' = [r \in Reqs |->
                    IF waiters[e.cmd] # << >> /\ Head(waiters[e.cmd]) = r /\ ch[r] = << >>
                      THEN <<e>> ELSE ch[r]]
        /\ waiters' = [waiters EXCEPT ![e.cmd] = << >>]
    /\ sub' = Tail(sub)
    /\ UNCHANGED <<emitted, st, want, cut, told>>

\* File the ACK over the one on file, serve all its waiters, forget them.
Consume ==
    /\ sub # << >>
    /\ LET e == Head(sub) IN
        /\ acks' = [acks EXCEPT ![e.cmd] = e.n]
        /\ aged' = aged \ {e.cmd}
        /\ ch' = [r \in Reqs |->
                    IF Contains(waiters[e.cmd], r) /\ ch[r] = << >> THEN <<e>> ELSE ch[r]]
        /\ waiters' = [waiters EXCEPT ![e.cmd] = << >>]
    /\ sub' = Tail(sub)
    /\ UNCHANGED <<emitted, st, want, cut, told>>

\* The ticker removes every entry that is too old.
Expire ==
    /\ aged # {}
    /\ acks' = [k \in Cmds |-> IF k \in aged THEN 0 ELSE acks[k]]
    /\ aged' = {}
    /\ UNCHANGED <<emitted, sub, waiters, ch, st, want, cut, told>>
-----------------------------------------------------------------------------
(* handleCommandStream                                                     *)

\* Mutant: the waiter is registered without a look at the ACKs on file.
SseOpen_NoCheck(r) ==
    LET k == want[r] IN
    /\ st[r] = "none"
    /\ st' = [st EXCEPT ![r] = "waiting"]
    /\ waiters' = [waiters EXCEPT ![k] = Append(@, r)]
    /\ UNCHANGED <<emitted, sub, acks, aged, ch, want, cut, told>>

\* Look for the ACK and register in one critical section.
SseOpen(r) ==
    LET k == want[r] IN
    /\ st[r] = "none"
    /\ IF acks[k] # 0
         THEN /\ st' = [st EXCEPT ![r] = "done"]
              /\ told' = [told EXCEPT ![r] = <<[cmd |-> k, n |-> acks[k]]>>]
              /\ UNCHANGED waiters
         ELSE /\ st' = [st EXCEPT ![r] = "waiting"]
              /\ waiters' = [waiters EXCEPT ![k] = Append(@, r)]
              /\ UNCHANGED told
    /\ UNCHANGED <<emitted, sub, acks, aged, ch, want, cut>>

\* The client disconnects, or WriteTimeout (15 s) has passed since the request
\* came in: nothing written from now on arrives.
Cut(r) ==
    /\ st[r] = "waiting"
    /\ cut[r] = "no"
    /\ \E why \in {"left", "late"} : cut' = [cut EXCEPT ![r] = why]
    /\ UNCHANGED <<emitted, sub, acks, aged, waiters, ch, st, want, told>>

\* The handler ignores the error of its write.
SseDeliver(r) ==
    /\ st[r] = "waiting"
    /\ ch[r] # << >>
    /\ told' = [told EXCEPT ![r] = IF cut[r] = "no" THEN ch[r] ELSE @]
    /\ ch' = [ch EXCEPT ![r] = << >>]
    /\ st' = [st EXCEPT ![r] = "leaving"]
    /\ UNCHANGED <<emitted, sub, acks, aged, waiters, want, cut>>

\* The server cancels the request's context: its background read fails when
\* the client is gone and at ReadTimeout, 15 s as well.
SseGone(r) ==
    /\ st[r] = "waiting"
    /\ cut[r] # "no"
    /\ st' = [st EXCEPT ![r] = "leaving"]
    /\ UNCHANGED <<emitted, sub, acks, aged, waiters, ch, want, cut, told>>

\* The deferred function takes the channel off the list, if it is there.
SseDeferred(r) ==
    LET k == want[r] IN
    /\ st[r] = "leaving"
    /\ waiters' = [waiters EXCEPT ![k] = RemoveFirst(@, r)]
    /\ st' = [st EXCEPT ![r] = "done"]
    /\ UNCHANGED <<emitted, sub, acks, aged, ch, want, cut, told>>
-----------------------------------------------------------------------------
Sse(r) == SseOpen(r) \/ Cut(r) \/ SseDeliver(r) \/ SseGone(r) \/ SseDeferred(r)

Next ==
    \/ \E k \in Cmds : VehicleAcks(k) \/ Age(k)
    \/ Consume \/ Expire
    \/ \E r \in Reqs : Sse(r)

Spec == Init /\ [][Next]_vars

\* The listener and the handlers run; clients and vehicles owe nothing.
Fairness ==
    /\ WF_vars(Consume)
    /\ \A r \in Reqs : WF_vars(SseDeliver(r)) /\ WF_vars(SseDeferred(r))

FairSpec == Spec /\ Fairness
-----------------------------------------------------------------------------
TypeOK ==
    /\ emitted \in [Cmds -> 0..MaxAcks]
    /\ sub \in Seq(Entries) /\ Len(sub) <= SubCap
    /\ acks \in [Cmds -> 0..MaxAcks]
    /\ aged \subseteq Cmds
    /\ waiters \in [Cmds -> Seq(Reqs)]
    /\ ch \in [Reqs -> Seq(Entries)] /\ \A r \in Reqs : Len(ch[r]) <= 1
    /\ st \in [Reqs -> {"none", "waiting", "leaving", "done"}]
    /\ want \in [Reqs -> Cmds]
    /\ cut \in [Reqs -> {"no", "left", "late"}]
    /\ told \in [Reqs -> Seq(Entries)]

\* handleCommandStream's lock "eliminates the window where an ACK could arrive
\* ... causing the SSE client to hang forever": a waiting request has its ACK
\* or is on the list of a command that has none on file.
NoHungWaiter ==
    \A r \in Reqs : st[r] = "waiting" =>
        IF ch[r] # << >> THEN ch[r][1].cmd = want[r]
        ELSE Contains(waiters[want[r]], r) /\ acks[want[r]] = 0

\* The lists hold only live requests, each once, so that an ACK is never spent
\* on a request that is over.
OnlyLiveWaiters ==
    \A k \in Cmds :
        /\ IsInjective(waiters[k])
        /\ \A r \in ToSet(waiters[k]) : st[r] \in {"waiting", "leaving"} /\ want[r] = k

AckComesIn(r) == st[r] = "waiting" /\ \E i \in DOMAIN sub : sub[i].cmd = want[r]

\* A request that waits when an ACK of its command comes in is told one,
\* unless its client leaves or it is 15 s old before the ACK is written.
WaiterHears ==
    \A r \in Reqs : AckComesIn(r) ~> (told[r] # << >> \/ cut[r] # "no")

\* "SSE push; resolves as soon as the ACK lands": a client that stays is told.
WaiterResolved ==
    \A r \in Reqs : AckComesIn(r) ~> (told[r] # << >> \/ cut[r] = "left")
=============================================================================
