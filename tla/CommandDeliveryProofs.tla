----------------------- MODULE CommandDeliveryProofs -----------------------
(***************************************************************************)
(* CommandDelivery's safety for any commands, connections, capacities and  *)
(* number of deliveries.                                                   *)
(*                                                                         *)
(* What a command's deliveries have come to (Fates) changes in one place:  *)
(* the forwarder's try_send adds a copy, and every other step of the       *)
(* relay, the link and the agent moves a copy, ends it or loses it         *)
(* (FatesMove).  So the bound needs the message in the forwarder's hands   *)
(* to be counted beside the fates, and the acknowledged command needs the  *)
(* one about to be acknowledged beside it (FateInv).  What is reported of  *)
(* the hardware was already true on the stream, in the ACK channel and in  *)
(* the dispatch task before it (AckInv).                                   *)
(***************************************************************************)
EXTENDS CommandDelivery, FiniteSetTheorems, TLAPS

(***************************************************************************)
(* Counting                                                                *)
(***************************************************************************)

\* The places of a command in a sequence are finitely many.
LEMMA AtFinite ==
    ASSUME NEW S, NEW s \in Seq(S), NEW k
    PROVE  IsFiniteSet(At(k, s)) /\ Occurrences(k, s) \in Nat
<1>1. IsFiniteSet(1 .. Len(s))
  BY FS_Interval
<1>2. At(k, s) \subseteq 1 .. Len(s)
  BY DEF At
<1> QED BY <1>1, <1>2, FS_Subset, FS_CardinalityType DEF Occurrences

\* An empty channel holds nothing.
LEMMA OccEmpty ==
    ASSUME NEW k
    PROVE  Occurrences(k, << >>) = 0
<1>1. At(k, << >>) = {}
  BY DEF At
<1> QED BY <1>1, FS_EmptySet DEF Occurrences

\* Appending a command adds one place for it and none for another.
LEMMA OccAppend ==
    ASSUME NEW S, NEW s \in Seq(S), NEW x \in S, NEW k
    PROVE  Occurrences(k, Append(s, x)) = Occurrences(k, s) + (IF x = k THEN 1 ELSE 0)
<1>1. Len(s) + 1 \notin At(k, s)
  BY DEF At
<1>2. CASE x = k
  <2>1. At(k, Append(s, x)) = At(k, s) \cup {Len(s) + 1}
    BY <1>2 DEF At
  <2> QED BY <1>1, <1>2, <2>1, AtFinite, FS_AddElement DEF Occurrences
<1>3. CASE x # k
  <2>1. At(k, Append(s, x)) = At(k, s)
    BY <1>3 DEF At
  <2> QED BY <1>3, <2>1, AtFinite DEF Occurrences
<1> QED BY <1>2, <1>3

\* Taking the first command moves every other one a place forward.
LEMMA OccTail ==
    ASSUME NEW S, NEW s \in Seq(S), s # << >>, NEW k
    PROVE  Occurrences(k, Tail(s)) = Occurrences(k, s) - (IF Head(s) = k THEN 1 ELSE 0)
<1> DEFINE A == At(k, s) \ {1}
           B == At(k, Tail(s))
           f == [i \in A |-> i - 1]
<1>1. A \subseteq 2 .. Len(s) /\ B \subseteq 1 .. (Len(s) - 1)
  BY DEF At
<1>2. f \in [A -> B]
  BY DEF At
<1>3. \A i, j \in A : f[i] = f[j] => i = j
  BY <1>1
<1>4. \A j \in B : \E i \in A : f[i] = j
  <2> TAKE j \in B
  <2>1. j + 1 \in A
    BY DEF At
  <2>2. f[j + 1] = j
    BY <1>1, <2>1
  <2> QED BY <2>1, <2>2
<1>5. f \in Bijection(A, B)
  BY <1>2, <1>3, <1>4 DEF Bijection, Injection, Surjection, IsInjective
<1>6. IsFiniteSet(A)
  BY AtFinite, FS_RemoveElement
<1>7. Cardinality(B) = Cardinality(A)
  BY <1>5, <1>6, FS_Bijection DEF ExistsBijection
<1>8. (1 \in At(k, s)) <=> (Head(s) = k)
  BY DEF At
<1>9. IsFiniteSet(At(k, s)) /\ Cardinality(At(k, s)) \in Nat
  BY AtFinite DEF Occurrences
<1>10. Cardinality(A) = IF 1 \in At(k, s) THEN Cardinality(At(k, s)) - 1
                       ELSE Cardinality(At(k, s))
  BY <1>9, FS_RemoveElement
<1> HIDE DEF A, B
<1>11. Cardinality(B) = Cardinality(At(k, s)) - (IF Head(s) = k THEN 1 ELSE 0)
  BY <1>7, <1>8, <1>9, <1>10
<1> QED BY <1>11 DEF Occurrences, B

\* The total over a family of channels changes with the channel that changes.
LEMMA TotalUpdate ==
    ASSUME NEW q \in [Conns -> Seq(Cmds)], NEW r \in [Conns -> Seq(Cmds)], NEW d \in Conns,
           \A c \in Conns \ {d} : r[c] = q[c], NEW k
    PROVE  /\ Total(k, q) \in Nat
           /\ Total(k, r) = Total(k, q) - Occurrences(k, q[d]) + Occurrences(k, r[d])
<1> DEFINE P(u) == UNION {{c} \X At(k, u[c]) : c \in DOMAIN u}
           R == UNION {{c} \X At(k, q[c]) : c \in Conns \ {d}}
<1>1. ASSUME NEW c \in Conns, NEW t \in Seq(Cmds)
      PROVE  /\ IsFiniteSet({c} \X At(k, t))
             /\ Cardinality({c} \X At(k, t)) = Occurrences(k, t)
  <2>1. IsFiniteSet({c}) /\ Cardinality({c}) = 1
    BY FS_Singleton
  <2>2. IsFiniteSet(At(k, t)) /\ Cardinality(At(k, t)) \in Nat
    BY AtFinite DEF Occurrences
  <2>3. /\ IsFiniteSet({c} \X At(k, t))
        /\ Cardinality({c} \X At(k, t)) = Cardinality({c}) * Cardinality(At(k, t))
    BY <2>1, <2>2, FS_Product
  <2> QED BY <2>1, <2>2, <2>3 DEF Occurrences
<1>2. IsFiniteSet(R)
  <2> DEFINE F == {{c} \X At(k, q[c]) : c \in Conns \ {d}}
             g == [c \in Conns \ {d} |-> {c} \X At(k, q[c])]
  <2>1. IsFiniteSet(Conns \ {d})
    BY DeliveryAssumption, FS_RemoveElement DEF DeliveryAssumption
  <2>2. g \in Surjection(Conns \ {d}, F)
    BY DEF Surjection
  <2>3. IsFiniteSet(F)
    BY <2>1, <2>2, FS_Surjection
  <2>4. \A T \in F : IsFiniteSet(T)
    <3> TAKE T \in F
    <3>1. PICK c \in Conns \ {d} : T = {c} \X At(k, q[c])
      OBVIOUS
    <3> QED BY <1>1, <3>1
  <2> QED BY <2>3, <2>4, FS_UNION
<1>3. P(q) = R \cup ({d} \X At(k, q[d])) /\ P(r) = R \cup ({d} \X At(k, r[d]))
  <2>1. ASSUME NEW u \in [Conns -> Seq(Cmds)]
        PROVE  P(u) = (UNION {{c} \X At(k, u[c]) : c \in Conns \ {d}}) \cup ({d} \X At(k, u[d]))
    OBVIOUS
  <2>2. \A c \in Conns \ {d} : {c} \X At(k, r[c]) = {c} \X At(k, q[c])
    OBVIOUS
  <2>3. R = UNION {{c} \X At(k, r[c]) : c \in Conns \ {d}}
    BY <2>2
  <2>4. P(q) = R \cup ({d} \X At(k, q[d]))
    BY <2>1
  <2>5. P(r) = (UNION {{c} \X At(k, r[c]) : c \in Conns \ {d}}) \cup ({d} \X At(k, r[d]))
    BY <2>1
  <2> QED BY <2>3, <2>4, <2>5
<1>4. R \cap ({d} \X At(k, q[d])) = {} /\ R \cap ({d} \X At(k, r[d])) = {}
  OBVIOUS
<1>5. ASSUME NEW t \in Seq(Cmds), R \cap ({d} \X At(k, t)) = {}
      PROVE  /\ Cardinality(R \cup ({d} \X At(k, t))) = Cardinality(R) + Occurrences(k, t)
             /\ Cardinality(R) \in Nat /\ Occurrences(k, t) \in Nat
  <2> DEFINE D == {d} \X At(k, t)
  <2>1. IsFiniteSet(D) /\ Cardinality(D) = Occurrences(k, t)
    BY <1>1
  <2>2. Cardinality(R \cup D) = Cardinality(R) + Cardinality(D) - Cardinality(R \cap D)
    BY <1>2, <2>1, FS_Union
  <2>3. Cardinality(R \cap D) = 0
    BY <1>5, FS_EmptySet
  <2>4. Cardinality(R) \in Nat /\ Cardinality(D) \in Nat
    BY <1>2, <2>1, FS_CardinalityType
  <2> HIDE DEF R, D
  <2> QED BY <2>1, <2>2, <2>3, <2>4 DEF D
<1>6. Total(k, q) = Cardinality(R) + Occurrences(k, q[d])
  BY <1>3, <1>4, <1>5 DEF Total
<1>7. Total(k, r) = Cardinality(R) + Occurrences(k, r[d])
  BY <1>3, <1>4, <1>5 DEF Total
<1>8. Cardinality(R) \in Nat /\ Occurrences(k, q[d]) \in Nat /\ Occurrences(k, r[d]) \in Nat
  BY <1>4, <1>5
<1> HIDE DEF R
<1>9. Total(k, r) = Total(k, q) - Occurrences(k, q[d]) + Occurrences(k, r[d])
  BY <1>6, <1>7, <1>8
<1>10. Total(k, q) \in Nat
  BY <1>6, <1>8
<1> QED BY <1>9, <1>10

(***************************************************************************)
(* The inductive invariant                                                 *)
(***************************************************************************)

\* The consumer and the forwarder agree on the message under way, and what is
\* stored may still be delivered.
BrokerInv ==
    /\ sent => fwd # None
    /\ \A k \in Cmds : js[k] = "inflight" <=> fwd = k
    /\ \A k \in Cmds : js[k] = "none" => tries[k] = 0
    /\ \A k \in Cmds : js[k] = "stored" => tries[k] < MaxDeliver

FateInv ==
    \A k \in Cmds :
        /\ Fates(k) + (IF fwd = k /\ ~sent THEN 1 ELSE 0) <= tries[k]
        /\ js[k] = "acked" \/ (fwd = k /\ sent) => Fates(k) > 0

\* What the adapter did, as the hardware ACK a says.
Honest(a) == a.src = "hw" => IF a.ok THEN exec[a.cmd] > 0 ELSE failed[a.cmd] > 0

AckInv ==
    /\ \A k \in Cmds :
         /\ acking[<<k, TRUE>>] > 0 => exec[k] > 0
         /\ acking[<<k, FALSE>>] > 0 => failed[k] > 0
    /\ \A i \in DOMAIN ackq : Honest(ackq[i])
    /\ \A c \in Conns : \A i \in DOMAIN ackwire[c] : Honest(ackwire[c][i])
    /\ \A a \in reported : Honest(a)

Inv == TypeOK /\ BrokerInv /\ FateInv /\ AckInv /\ LostWithSession

\* The broker's and the forwarder's variables stay in order.
LEMMA JsStep ==
    ASSUME TypeOK, BrokerInv, [Next]_vars
    PROVE  JsType' /\ BrokerInv'
<1> USE DeliveryAssumption DEF DeliveryAssumption, TypeOK, JsType, BrokerInv
<1>1. ASSUME NEW k \in Cmds, Publish(k) PROVE JsType' /\ BrokerInv'
  BY <1>1 DEF Publish
<1>2. ASSUME NEW k \in Cmds, Fetch(k) PROVE JsType' /\ BrokerInv'
  BY <1>2 DEF Fetch
<1>3. CASE Forward
  BY <1>3 DEF Forward
<1>4. CASE Nak
  BY <1>4 DEF Nak, Unacked
<1>5. CASE AckMsg
  BY <1>5 DEF AckMsg
<1>6. CASE AckMsgLost
  BY <1>6 DEF AckMsgLost, Unacked
<1>7. CASE UNCHANGED jsVars
  BY <1>7 DEF jsVars
<1>8. ASSUME NEW c \in Conns, Relay(c) PROVE UNCHANGED jsVars
  BY <1>8 DEF Relay, Fill, Register, AcceptStreams, SendCommand, PublishAck, LinkDrops,
              CloseSession, Cleanup
<1>9. Agent \/ Unfill => UNCHANGED jsVars
  BY DEF Agent, Dispatch, AdapterReturns, QueueAck, SdkAck, ReadCommand, AgentReceive, AgentSkips,
         AgentRefuses, SendAck, SendAckLost, Unfill
<1> QED
  BY <1>1, <1>2, <1>3, <1>4, <1>5, <1>6, <1>7, <1>8, <1>9 DEF Next, Broker, Forwarder, vars

\* So do the relay's, ...
LEMMA RelayStep ==
    ASSUME TypeOK, [Next]_vars
    PROVE  RelayType'
<1> USE DeliveryAssumption DEF DeliveryAssumption, TypeOK, RelayType
<1>1. CASE UNCHANGED relayVars
  BY <1>1 DEF relayVars
<1>2. ASSUME NEW k \in Cmds, Publish(k) \/ Fetch(k) PROVE UNCHANGED relayVars
  BY <1>2 DEF Publish, Fetch
<1>3. CASE Forward
  BY <1>3 DEF Forward, CanSend, JsType
<1>4. Nak \/ AckMsg \/ AckMsgLost => UNCHANGED relayVars
  BY DEF Nak, AckMsg, AckMsgLost
<1>5. ASSUME NEW c \in Conns, Relay(c) PROVE RelayType'
  <2>1. CASE Fill(c) \/ Register(c) \/ AcceptStreams(c)
    BY <2>1 DEF Fill, Register, AcceptStreams
  <2>2. CASE SendCommand(c)
    BY <2>2 DEF SendCommand
  <2>3. CASE LinkDrops(c)
    BY <2>3 DEF LinkDrops
  <2>4. CASE CloseSession(c)
    BY <2>4 DEF CloseSession
  <2>5. CASE Cleanup(c)
    BY <2>5 DEF Cleanup
  <2>6. CASE PublishAck(c)
    BY <2>6 DEF PublishAck
  <2> QED BY <1>5, <2>1, <2>2, <2>3, <2>4, <2>5, <2>6 DEF Relay
<1>6. Dispatch => UNCHANGED relayVars
  BY DEF Dispatch
<1>7. ASSUME NEW k \in Cmds, NEW ok \in BOOLEAN,
             AdapterReturns(k, ok) \/ QueueAck(k, ok) \/ SdkAck(k, ok)
      PROVE  UNCHANGED relayVars
  BY <1>7 DEF AdapterReturns, QueueAck, SdkAck
<1>8. ASSUME NEW c \in Conns, ReadCommand(c) PROVE RelayType'
  <2>1. CASE AgentReceive(c)
    BY <2>1 DEF AgentReceive
  <2>2. CASE AgentSkips(c)
    BY <2>2 DEF AgentSkips
  <2>3. CASE AgentRefuses(c)
    BY <2>3 DEF AgentRefuses
  <2> QED BY <1>8, <2>1, <2>2, <2>3 DEF ReadCommand
<1>9. ASSUME NEW c \in Conns, SendAck(c) PROVE RelayType'
  <2>1. Head(ackq) \in Acks
    BY <1>9 DEF SendAck, AgentType
  <2>2. Append(ackwire[c], Head(ackq)) \in Seq(Acks)
    BY <2>1
  <2>3. ackwire' \in [Conns -> Seq(Acks)]
    BY <1>9, <2>2 DEF SendAck
  <2> QED BY <1>9, <2>3 DEF SendAck
<1>10. ASSUME NEW c \in Conns, SendAckLost(c) PROVE RelayType'
  BY <1>10 DEF SendAckLost
<1>11. CASE Unfill
  BY <1>11 DEF Unfill
<1> QED
  BY <1>1, <1>2, <1>3, <1>4, <1>5, <1>6, <1>7, <1>8, <1>9, <1>10, <1>11
  DEF Next, Broker, Forwarder, Agent, vars

\* ... the agent's ...
LEMMA AgentStep ==
    ASSUME TypeOK, [Next]_vars
    PROVE  AgentType'
<1> USE DeliveryAssumption DEF DeliveryAssumption, TypeOK, AgentType
<1>1. CASE UNCHANGED agentVars
  BY <1>1 DEF agentVars
<1>2. ASSUME NEW k \in Cmds, Publish(k) \/ Fetch(k) PROVE UNCHANGED agentVars
  BY <1>2 DEF Publish, Fetch
<1>3. Forwarder => UNCHANGED agentVars
  BY DEF Forwarder, Forward, Nak, AckMsg, AckMsgLost
<1>4. ASSUME NEW c \in Conns, Relay(c) PROVE AgentType'
  <2>1. CASE PublishAck(c)
    <3>1. Head(ackwire[c]) \in Acks
      BY <2>1 DEF PublishAck, RelayType
    <3> QED BY <2>1, <3>1 DEF PublishAck
  <2>2. CASE ~PublishAck(c)
    <3>1. UNCHANGED agentVars
      BY <1>4, <2>2 DEF Relay, Fill, Register, AcceptStreams, SendCommand, LinkDrops,
                        CloseSession, Cleanup
    <3> QED BY <1>1, <3>1
  <2> QED BY <2>1, <2>2
<1>5. CASE Dispatch
  <2>1. Head(inbox) \in Cmds /\ inbox' \in Seq(Cmds) /\ Len(inbox') <= CmdCap
    BY <1>5 DEF Dispatch
  <2> QED BY <1>5, <2>1 DEF Dispatch
<1>6. ASSUME NEW k \in Cmds, NEW ok \in BOOLEAN, AdapterReturns(k, ok) PROVE AgentType'
  <2>1. running' \in [Cmds -> Nat]
    BY <1>6 DEF AdapterReturns
  <2>2. acking' \in [Cmds \X BOOLEAN -> Nat]
    BY <1>6 DEF AdapterReturns
  <2> QED BY <1>6, <2>1, <2>2 DEF AdapterReturns
<1>7. ASSUME NEW k \in Cmds, NEW ok \in BOOLEAN, QueueAck(k, ok) PROVE AgentType'
  <2>1. acking' \in [Cmds \X BOOLEAN -> Nat]
    BY <1>7 DEF QueueAck
  <2>2. [cmd |-> k, src |-> "hw", ok |-> ok] \in Acks
    BY DEF Acks
  <2>3. ackq' \in Seq(Acks) /\ Len(ackq') <= AckCap
    BY <1>7, <2>2 DEF QueueAck
  <2> QED BY <1>7, <2>1, <2>3 DEF QueueAck
<1>8. ASSUME NEW k \in Cmds, NEW ok \in BOOLEAN, SdkAck(k, ok) PROVE AgentType'
  <2>1. [cmd |-> k, src |-> "sdk", ok |-> ok] \in Acks
    BY DEF Acks
  <2>2. ackq' \in Seq(Acks) /\ Len(ackq') <= AckCap
    BY <1>8, <2>1 DEF SdkAck
  <2> QED BY <1>8, <2>2 DEF SdkAck
<1>9. ASSUME NEW c \in Conns, ReadCommand(c) PROVE AgentType'
  <2>1. CASE AgentReceive(c)
    <3>1. inbox' \in Seq(Cmds) /\ Len(inbox') <= CmdCap
      BY <2>1 DEF AgentReceive, RelayType
    <3> QED BY <2>1, <3>1 DEF AgentReceive
  <2>2. CASE AgentSkips(c) \/ AgentRefuses(c)
    BY <1>1, <2>2 DEF AgentSkips, AgentRefuses
  <2> QED BY <1>9, <2>1, <2>2 DEF ReadCommand
<1>10. ASSUME NEW c \in Conns, SendAck(c) \/ SendAckLost(c) PROVE AgentType'
  <2>1. ackq # << >> /\ ackq' = Tail(ackq)
    BY <1>10 DEF SendAck, SendAckLost
  <2>2. ackq' \in Seq(Acks) /\ Len(ackq') <= AckCap
    BY <2>1
  <2> QED BY <1>10, <2>2 DEF SendAck, SendAckLost
<1>11. Unfill => UNCHANGED agentVars
  BY DEF Unfill
<1> QED
  BY <1>1, <1>2, <1>3, <1>4, <1>5, <1>6, <1>7, <1>8, <1>9, <1>10, <1>11
  DEF Next, Broker, Agent, vars

\* ... and the history.
LEMMA HistStep ==
    ASSUME TypeOK, [Next]_vars
    PROVE  HistType'
<1> USE DEF TypeOK, HistType
<1>1. CASE UNCHANGED histVars
  BY <1>1 DEF histVars
<1>2. Broker \/ Forwarder \/ Unfill => UNCHANGED histVars
  BY DEF Broker, Publish, Fetch, Forwarder, Forward, Nak, AckMsg, AckMsgLost, Unfill
<1>3. ASSUME NEW c \in Conns, Relay(c) PROVE HistType'
  <2>1. CASE CloseSession(c)
    <3>1. \A k \in Cmds : Occurrences(k, chan[c]) \in Nat
      BY AtFinite DEF RelayType
    <3> QED BY <2>1, <3>1 DEF CloseSession
  <2>2. CASE Cleanup(c)
    <3>1. \A k \in Cmds : Occurrences(k, chan[c]) \in Nat /\ Occurrences(k, wire[c]) \in Nat
      BY AtFinite DEF RelayType
    <3> QED BY <2>2, <3>1 DEF Cleanup
  <2>3. CASE ~CloseSession(c) /\ ~Cleanup(c)
    BY <1>1, <1>3, <2>3
    DEF Relay, Fill, Register, AcceptStreams, SendCommand, PublishAck, LinkDrops
  <2> QED BY <2>1, <2>2, <2>3
<1>4. ASSUME NEW k \in Cmds, NEW ok \in BOOLEAN, AdapterReturns(k, ok) PROVE HistType'
  BY <1>4 DEF AdapterReturns
<1>5. ASSUME NEW k \in Cmds, NEW ok \in BOOLEAN, QueueAck(k, ok) \/ SdkAck(k, ok)
      PROVE  UNCHANGED histVars
  BY <1>5 DEF QueueAck, SdkAck
<1>6. ASSUME NEW c \in Conns, AgentReceive(c) \/ AgentRefuses(c) \/ SendAck(c) \/ SendAckLost(c)
      PROVE  UNCHANGED histVars
  BY <1>6 DEF AgentReceive, AgentRefuses, SendAck, SendAckLost
<1>7. Dispatch => UNCHANGED histVars
  BY DEF Dispatch
<1>8. ASSUME NEW c \in Conns, AgentSkips(c) PROVE HistType'
  <2>1. Head(wire[c]) \in Cmds
    BY <1>8 DEF AgentSkips, RelayType
  <2> QED BY <1>8, <2>1 DEF AgentSkips
<1> QED
  BY <1>1, <1>2, <1>3, <1>4, <1>5, <1>6, <1>7, <1>8 DEF Next, Agent, ReadCommand, vars

(***************************************************************************)
(* Where the copies of a command go                                        *)
(***************************************************************************)

\* All the counts are numbers.
LEMMA CountType ==
    ASSUME TypeOK, NEW k \in Cmds
    PROVE  /\ Total(k, chan) \in Nat /\ Total(k, wire) \in Nat
           /\ Occurrences(k, inbox) \in Nat /\ running[k] \in Nat
           /\ exec[k] \in Nat /\ failed[k] \in Nat
           /\ skipped[k] \in Nat /\ lost[k] \in Nat
           /\ Fates(k) \in Nat
<1>1. Total(k, chan) \in Nat /\ Total(k, wire) \in Nat
  <2>1. CASE Conns = {}
    <3>1. ASSUME NEW q \in [Conns -> Seq(Cmds)] PROVE Total(k, q) = 0
      <4>1. UNION {{c} \X At(k, q[c]) : c \in DOMAIN q} = {}
        BY <2>1
      <4> QED BY <4>1, FS_EmptySet DEF Total
    <3>2. chan \in [Conns -> Seq(Cmds)] /\ wire \in [Conns -> Seq(Cmds)]
      BY DEF TypeOK, RelayType
    <3>3. Total(k, chan) = 0 /\ Total(k, wire) = 0
      BY <3>1, <3>2
    <3> QED BY <3>3
  <2>2. CASE Conns # {}
    <3>1. PICK d \in Conns : TRUE
      BY <2>2
    <3> QED BY TotalUpdate, <3>1 DEF TypeOK, RelayType
  <2> QED BY <2>1, <2>2
<1>2. Occurrences(k, inbox) \in Nat
  BY AtFinite DEF TypeOK, AgentType
<1>3. /\ running[k] \in Nat /\ exec[k] \in Nat /\ failed[k] \in Nat
      /\ skipped[k] \in Nat /\ lost[k] \in Nat
  BY DEF TypeOK, AgentType, HistType
<1> QED BY <1>1, <1>2, <1>3 DEF Fates, Copies

\* The forwarder's successful try_send adds a copy of the message it holds.
\* Every other step moves copies, ends them in the adapter, or loses them with
\* their session: none appears and none vanishes.
LEMMA FatesMove ==
    ASSUME TypeOK, TypeOK', [Next]_vars, NEW k \in Cmds
    PROVE  Fates(k)' = Fates(k) + (IF ~sent /\ sent' /\ fwd = k THEN 1 ELSE 0)
<1> DEFINE Goal == Fates(k)' = Fates(k) + (IF ~sent /\ sent' /\ fwd = k THEN 1 ELSE 0)
           One(x) == IF x = k THEN 1 ELSE 0
<1> SUFFICES Goal
  OBVIOUS
<1>0. /\ Total(k, chan) \in Nat /\ Total(k, wire) \in Nat
      /\ Occurrences(k, inbox) \in Nat /\ running[k] \in Nat
      /\ exec[k] \in Nat /\ failed[k] \in Nat /\ skipped[k] \in Nat /\ lost[k] \in Nat
  BY CountType
<1>C. chan \in [Conns -> Seq(Cmds)] /\ chan' \in [Conns -> Seq(Cmds)]
  BY DEF TypeOK, RelayType
<1>W. wire \in [Conns -> Seq(Cmds)] /\ wire' \in [Conns -> Seq(Cmds)]
  BY DEF TypeOK, RelayType
<1>1. ASSUME UNCHANGED <<chan, wire, inbox, running, exec, failed, skipped, lost>>, sent' => sent
      PROVE  Goal
  BY <1>0, <1>1 DEF Fates, Copies
<1>S. ASSUME Fates(k)' = Fates(k), sent' = sent
      PROVE  Goal
  <2>1. Fates(k) \in Nat
    BY CountType
  <2> QED BY <1>S, <2>1
<1>2. Broker => Goal
  BY <1>1 DEF Broker, Publish, Fetch, relayVars, agentVars, histVars
<1>3. Nak \/ AckMsg \/ AckMsgLost => Goal
  BY <1>1 DEF Nak, AckMsg, AckMsgLost, relayVars, agentVars, histVars
<1>4. CASE Forward
  <2>1. reg \in Conns /\ chan[reg] \in Seq(Cmds) /\ fwd \in Cmds
    BY <1>4 DEF Forward, CanSend, TypeOK, JsType, RelayType
  <2>2. Append(chan[reg], fwd) \in Seq(Cmds)
    BY <2>1
  <2>3. chan' = [chan EXCEPT ![reg] = Append(chan[reg], fwd)]
    BY <1>4 DEF Forward
  <2>4. Total(k, chan') = Total(k, chan) - Occurrences(k, chan[reg])
                            + Occurrences(k, Append(chan[reg], fwd))
    <3>1. chan'[reg] = Append(chan[reg], fwd)
      BY <1>C, <2>1, <2>3
    <3>2. \A e \in Conns \ {reg} : chan'[e] = chan[e]
      BY <1>C, <2>1, <2>3
    <3>3. Total(k, chan') = Total(k, chan) - Occurrences(k, chan[reg]) + Occurrences(k, chan'[reg])
      BY <1>C, <2>1, <3>2, TotalUpdate
    <3> QED BY <3>1, <3>3
  <2>5. Occurrences(k, Append(chan[reg], fwd)) = Occurrences(k, chan[reg]) + One(fwd)
    BY <2>1, OccAppend
  <2>6. Occurrences(k, chan[reg]) \in Nat
    BY <2>1, AtFinite
  <2>7. Total(k, chan') = Total(k, chan) + One(fwd)
    BY <1>0, <2>4, <2>5, <2>6
  <2>8. ~sent /\ sent' /\ UNCHANGED <<wire, inbox, running, exec, failed, skipped, lost>>
    BY <1>4 DEF Forward, agentVars, histVars
  <2> QED BY <1>0, <2>7, <2>8 DEF Fates, Copies
<1>5. ASSUME NEW c \in Conns,
             Fill(c) \/ Register(c) \/ AcceptStreams(c) \/ PublishAck(c) \/ LinkDrops(c)
      PROVE  Goal
  BY <1>1, <1>5
  DEF Fill, Register, AcceptStreams, PublishAck, LinkDrops, jsVars, agentVars, histVars
<1>6. ASSUME NEW c \in Conns, SendCommand(c) PROVE Goal
  <2>1. chan[c] \in Seq(Cmds) /\ chan[c] # << >> /\ wire[c] \in Seq(Cmds)
    BY <1>6 DEF SendCommand, TypeOK, RelayType
  <2> DEFINE x == Head(chan[c])
  <2>2. x \in Cmds /\ Tail(chan[c]) \in Seq(Cmds) /\ Append(wire[c], x) \in Seq(Cmds)
    BY <2>1
  <2>3. /\ wire' = [wire EXCEPT ![c] = Append(wire[c], x)]
        /\ chan' = [chan EXCEPT ![c] = Tail(chan[c])]
        /\ UNCHANGED <<sent, inbox, running, exec, failed, skipped, lost>>
    BY <1>6 DEF SendCommand, jsVars, agentVars, histVars
  <2>4. Occurrences(k, Tail(chan[c])) = Occurrences(k, chan[c]) - One(x)
    BY <2>1, OccTail
  <2>5. Occurrences(k, Append(wire[c], x)) = Occurrences(k, wire[c]) + One(x)
    BY <2>1, <2>2, OccAppend
  <2> HIDE DEF x
  <2>6. Total(k, chan') = Total(k, chan) - Occurrences(k, chan[c])
                            + Occurrences(k, Tail(chan[c]))
    <3>1. chan'[c] = Tail(chan[c])
      BY <1>C, <2>3
    <3>2. \A e \in Conns \ {c} : chan'[e] = chan[e]
      BY <1>C, <2>3
    <3>3. Total(k, chan') = Total(k, chan) - Occurrences(k, chan[c]) + Occurrences(k, chan'[c])
      BY <1>C, <3>2, TotalUpdate
    <3> QED BY <3>1, <3>3
  <2>7. Total(k, wire') = Total(k, wire) - Occurrences(k, wire[c])
                            + Occurrences(k, Append(wire[c], x))
    <3>1. wire'[c] = Append(wire[c], x)
      BY <1>W, <2>3
    <3>2. \A e \in Conns \ {c} : wire'[e] = wire[e]
      BY <1>W, <2>3
    <3>3. Total(k, wire') = Total(k, wire) - Occurrences(k, wire[c]) + Occurrences(k, wire'[c])
      BY <1>W, <3>2, TotalUpdate
    <3> QED BY <3>1, <3>3
  <2>8. Occurrences(k, chan[c]) \in Nat /\ Occurrences(k, wire[c]) \in Nat
    BY <2>1, AtFinite
  <2>9. Total(k, chan') + Total(k, wire') = Total(k, chan) + Total(k, wire)
    BY <1>0, <2>4, <2>5, <2>6, <2>7, <2>8
  <2>10. Total(k, chan') \in Int /\ Total(k, wire') \in Int
    BY <1>0, <2>4, <2>5, <2>6, <2>7, <2>8
  <2>11. Fates(k)' = exec[k] + failed[k] + skipped[k] + lost[k]
                      + (Total(k, chan') + Total(k, wire') + Occurrences(k, inbox) + running[k])
    BY <2>3 DEF Fates, Copies
  <2>12. Fates(k)' = Fates(k)
    BY <1>0, <2>9, <2>10, <2>11 DEF Fates, Copies
  <2>13. sent' = sent
    BY <2>3
  <2> QED BY <1>S, <2>12, <2>13
<1>7. ASSUME NEW c \in Conns, CloseSession(c) PROVE Goal
  <2>1. chan[c] \in Seq(Cmds) /\ << >> \in Seq(Cmds)
    BY DEF TypeOK, RelayType
  <2>2. /\ chan' = [chan EXCEPT ![c] = << >>]
        /\ lost'[k] = lost[k] + Occurrences(k, chan[c])
        /\ UNCHANGED <<sent, wire, inbox, running, exec, failed, skipped>>
    BY <1>7 DEF CloseSession, jsVars, agentVars
  <2>3. Total(k, chan') = Total(k, chan) - Occurrences(k, chan[c]) + Occurrences(k, << >>)
    <3>1. chan'[c] = << >>
      BY <1>C, <2>2
    <3>2. \A e \in Conns \ {c} : chan'[e] = chan[e]
      BY <1>C, <2>2
    <3>3. Total(k, chan') = Total(k, chan) - Occurrences(k, chan[c]) + Occurrences(k, chan'[c])
      BY <1>C, <3>2, TotalUpdate
    <3> QED BY <3>1, <3>3
  <2>4. Occurrences(k, chan[c]) \in Nat
    BY <2>1, AtFinite
  <2>5. Occurrences(k, << >>) = 0
    BY OccEmpty
  <2>6. Fates(k)' = exec[k] + failed[k] + skipped[k] + lost'[k]
                      + (Total(k, chan') + Total(k, wire) + Occurrences(k, inbox) + running[k])
    BY <2>2 DEF Fates, Copies
  <2>7. Total(k, chan') = Total(k, chan) - Occurrences(k, chan[c])
    BY <1>0, <2>3, <2>4, <2>5
  <2>8. lost'[k] = lost[k] + Occurrences(k, chan[c])
    BY <2>2
  <2>9. Fates(k)' = Fates(k)
    BY <1>0, <2>4, <2>6, <2>7, <2>8 DEF Fates, Copies
  <2>10. sent' = sent
    BY <2>2
  <2> QED BY <1>S, <2>9, <2>10
<1>14. ASSUME NEW c \in Conns, Cleanup(c) PROVE Goal
  <2>1. chan[c] \in Seq(Cmds) /\ wire[c] \in Seq(Cmds) /\ << >> \in Seq(Cmds)
    BY DEF TypeOK, RelayType
  <2>2. /\ wire' = [wire EXCEPT ![c] = << >>]
        /\ chan' = [chan EXCEPT ![c] = << >>]
        /\ lost'[k] = lost[k] + Occurrences(k, chan[c]) + Occurrences(k, wire[c])
        /\ UNCHANGED <<sent, inbox, running, exec, failed, skipped>>
    BY <1>14 DEF Cleanup, jsVars, agentVars
  <2>3. Total(k, chan') = Total(k, chan) - Occurrences(k, chan[c]) + Occurrences(k, << >>)
    <3>1. chan'[c] = << >>
      BY <1>C, <2>2
    <3>2. \A e \in Conns \ {c} : chan'[e] = chan[e]
      BY <1>C, <2>2
    <3>3. Total(k, chan') = Total(k, chan) - Occurrences(k, chan[c]) + Occurrences(k, chan'[c])
      BY <1>C, <3>2, TotalUpdate
    <3> QED BY <3>1, <3>3
  <2>4. Total(k, wire') = Total(k, wire) - Occurrences(k, wire[c]) + Occurrences(k, << >>)
    <3>1. wire'[c] = << >>
      BY <1>W, <2>2
    <3>2. \A e \in Conns \ {c} : wire'[e] = wire[e]
      BY <1>W, <2>2
    <3>3. Total(k, wire') = Total(k, wire) - Occurrences(k, wire[c]) + Occurrences(k, wire'[c])
      BY <1>W, <3>2, TotalUpdate
    <3> QED BY <3>1, <3>3
  <2>5. Occurrences(k, chan[c]) \in Nat /\ Occurrences(k, wire[c]) \in Nat
    BY <2>1, AtFinite
  <2>6. Occurrences(k, << >>) = 0
    BY OccEmpty
  <2>7. Fates(k)' = exec[k] + failed[k] + skipped[k] + lost'[k]
                      + (Total(k, chan') + Total(k, wire') + Occurrences(k, inbox) + running[k])
    BY <2>2 DEF Fates, Copies
  <2>8. lost'[k] = lost[k] + Occurrences(k, chan[c]) + Occurrences(k, wire[c])
    BY <2>2
  <2>9. /\ Total(k, chan') = Total(k, chan) - Occurrences(k, chan[c])
        /\ Total(k, wire') = Total(k, wire) - Occurrences(k, wire[c])
    BY <1>0, <2>3, <2>4, <2>5, <2>6
  <2>10. Fates(k)' = Fates(k)
    BY <1>0, <2>5, <2>7, <2>8, <2>9 DEF Fates, Copies
  <2>11. sent' = sent
    BY <2>2
  <2> QED BY <1>S, <2>10, <2>11
<1>8. ASSUME NEW c \in Conns, AgentReceive(c) PROVE Goal
  <2>1. wire[c] \in Seq(Cmds) /\ wire[c] # << >> /\ inbox \in Seq(Cmds)
    BY <1>8 DEF AgentReceive, TypeOK, RelayType, AgentType
  <2> DEFINE x == Head(wire[c])
  <2>2. x \in Cmds /\ Tail(wire[c]) \in Seq(Cmds)
    BY <2>1
  <2>3. /\ wire' = [wire EXCEPT ![c] = Tail(wire[c])]
        /\ inbox' = Append(inbox, x)
        /\ UNCHANGED <<sent, chan, running, exec, failed, skipped, lost>>
    BY <1>8 DEF AgentReceive, jsVars, histVars
  <2>4. Occurrences(k, Tail(wire[c])) = Occurrences(k, wire[c]) - One(x)
    BY <2>1, OccTail
  <2>5. Occurrences(k, inbox') = Occurrences(k, inbox) + One(x)
    BY <2>1, <2>2, <2>3, OccAppend
  <2> HIDE DEF x
  <2>6. Total(k, wire') = Total(k, wire) - Occurrences(k, wire[c])
                            + Occurrences(k, Tail(wire[c]))
    <3>1. wire'[c] = Tail(wire[c])
      BY <1>W, <2>3
    <3>2. \A e \in Conns \ {c} : wire'[e] = wire[e]
      BY <1>W, <2>3
    <3>3. Total(k, wire') = Total(k, wire) - Occurrences(k, wire[c]) + Occurrences(k, wire'[c])
      BY <1>W, <3>2, TotalUpdate
    <3> QED BY <3>1, <3>3
  <2>7. Occurrences(k, wire[c]) \in Nat
    BY <2>1, AtFinite
  <2>8. Total(k, wire') = Total(k, wire) - One(x)
    BY <1>0, <2>4, <2>6, <2>7
  <2>9. Fates(k)' = exec[k] + failed[k] + skipped[k] + lost[k]
                      + (Total(k, chan) + Total(k, wire') + Occurrences(k, inbox') + running[k])
    BY <2>3 DEF Fates, Copies
  <2>10. Fates(k)' = Fates(k)
    BY <1>0, <2>5, <2>8, <2>9 DEF Fates, Copies
  <2>11. sent' = sent
    BY <2>3
  <2> QED BY <1>S, <2>10, <2>11
<1>9. CASE Dispatch
  <2>1. inbox \in Seq(Cmds) /\ inbox # << >>
    BY <1>9 DEF Dispatch, TypeOK, AgentType
  <2> DEFINE x == Head(inbox)
  <2>2. x \in Cmds
    BY <2>1
  <2>3. Occurrences(k, inbox') = Occurrences(k, inbox) - One(x)
    BY <1>9, <2>1, OccTail DEF Dispatch
  <2> HIDE DEF x
  <2>4. /\ running' = [running EXCEPT ![x] = running[x] + 1]
        /\ UNCHANGED <<sent, chan, wire, exec, failed, skipped, lost>>
    BY <1>9 DEF Dispatch, jsVars, relayVars, histVars, x
  <2>5. running'[k] = running[k] + One(x)
    BY <1>0, <2>2, <2>4 DEF TypeOK, AgentType
  <2> QED BY <1>0, <2>3, <2>4, <2>5 DEF Fates, Copies
<1>10. ASSUME NEW j \in Cmds, NEW ok \in BOOLEAN, AdapterReturns(j, ok) PROVE Goal
  <2>1. UNCHANGED <<sent, chan, wire, inbox, skipped, lost>>
    BY <1>10 DEF AdapterReturns, jsVars, relayVars
  <2>2. running'[k] = running[k] - One(j)
    BY <1>0, <1>10 DEF AdapterReturns, TypeOK, AgentType
  <2>3. exec'[k] + failed'[k] = exec[k] + failed[k] + One(j)
    BY <1>0, <1>10 DEF AdapterReturns, TypeOK, HistType
  <2>4. exec'[k] \in Nat /\ failed'[k] \in Nat
    BY <1>0, <1>10 DEF AdapterReturns, TypeOK, HistType
  <2> QED BY <1>0, <2>1, <2>2, <2>3, <2>4 DEF Fates, Copies
<1>11. ASSUME NEW j \in Cmds, NEW ok \in BOOLEAN, QueueAck(j, ok) \/ SdkAck(j, ok) PROVE Goal
  BY <1>1, <1>11 DEF QueueAck, SdkAck, jsVars, relayVars, histVars
<1>12. ASSUME NEW c \in Conns, SendAck(c) \/ SendAckLost(c) PROVE Goal
  BY <1>1, <1>12 DEF SendAck, SendAckLost, jsVars, histVars
<1>13. CASE UNCHANGED vars
  BY <1>1, <1>13 DEF vars, jsVars, relayVars, agentVars, histVars
<1>15. ASSUME NEW c \in Conns, AgentSkips(c) PROVE Goal
  <2>1. wire[c] \in Seq(Cmds) /\ wire[c] # << >>
    BY <1>15 DEF AgentSkips, TypeOK, RelayType
  <2> DEFINE x == Head(wire[c])
  <2>2. x \in Cmds /\ Tail(wire[c]) \in Seq(Cmds)
    BY <2>1
  <2>3. /\ wire' = [wire EXCEPT ![c] = Tail(wire[c])]
        /\ skipped' = [skipped EXCEPT ![x] = skipped[x] + 1]
        /\ UNCHANGED <<sent, chan, inbox, running, exec, failed, lost>>
    BY <1>15 DEF AgentSkips, jsVars, agentVars
  <2>4. Occurrences(k, Tail(wire[c])) = Occurrences(k, wire[c]) - One(x)
    BY <2>1, OccTail
  <2> HIDE DEF x
  <2>5. skipped'[k] = skipped[k] + One(x)
    <3>1. skipped \in [Cmds -> Nat] /\ skipped' = [skipped EXCEPT ![x] = skipped[x] + 1]
      BY <2>3 DEF TypeOK, HistType
    <3>2. x \in Cmds
      BY <2>2
    <3> QED BY <3>1, <3>2
  <2>6. Total(k, wire') = Total(k, wire) - Occurrences(k, wire[c])
                            + Occurrences(k, Tail(wire[c]))
    <3>1. wire'[c] = Tail(wire[c])
      BY <1>W, <2>3
    <3>2. \A e \in Conns \ {c} : wire'[e] = wire[e]
      BY <1>W, <2>3
    <3>3. Total(k, wire') = Total(k, wire) - Occurrences(k, wire[c]) + Occurrences(k, wire'[c])
      BY <1>W, <3>2, TotalUpdate
    <3> QED BY <3>1, <3>3
  <2>7. Occurrences(k, wire[c]) \in Nat
    BY <2>1, AtFinite
  <2>8. Total(k, wire') = Total(k, wire) - One(x)
    BY <1>0, <2>4, <2>6, <2>7
  <2>9. Fates(k)' = exec[k] + failed[k] + skipped'[k] + lost[k]
                      + (Total(k, chan) + Total(k, wire') + Occurrences(k, inbox) + running[k])
    BY <2>3 DEF Fates, Copies
  <2>10. Fates(k) = exec[k] + failed[k] + skipped[k] + lost[k]
                      + (Total(k, chan) + Total(k, wire) + Occurrences(k, inbox) + running[k])
    BY DEF Fates, Copies
  <2>11. One(x) \in Nat
    OBVIOUS
  <2> DEFINE n == One(x)
  <2>m. n = One(x)
    OBVIOUS
  <2> HIDE DEF n
  <2>k. skipped'[k] = skipped[k] + n /\ Total(k, wire') = Total(k, wire) - n /\ n \in Nat
    BY <2>m, <2>5, <2>8, <2>11
  <2> HIDE DEF One
  <2>12. Fates(k)' = Fates(k)
    BY <1>0, <2>k, <2>9, <2>10
  <2>13. sent' = sent
    BY <2>3
  <2> QED BY <1>S, <2>12, <2>13
<1>16. ASSUME NEW c \in Conns, AgentRefuses(c) PROVE Goal
  BY <1>1, <1>16 DEF AgentRefuses, jsVars, agentVars, histVars
<1>17. Unfill => Goal
  BY <1>1 DEF Unfill, jsVars, agentVars, histVars
<1> HIDE DEF Goal
<1> QED
  BY <1>2, <1>3, <1>4, <1>5, <1>6, <1>7, <1>8, <1>9, <1>10, <1>11, <1>12, <1>13,
     <1>14, <1>15, <1>16, <1>17
  DEF Next, Forwarder, Relay, Agent, ReadCommand

\* Hence the fates stay within the deliveries.
LEMMA FateStep ==
    ASSUME TypeOK, TypeOK', BrokerInv, FateInv, [Next]_vars
    PROVE  FateInv'
<1> SUFFICES ASSUME NEW k \in Cmds
             PROVE  /\ Fates(k)' + (IF fwd' = k /\ ~sent' THEN 1 ELSE 0) <= tries'[k]
                    /\ js'[k] = "acked" \/ (fwd' = k /\ sent') => Fates(k)' > 0
  BY DEF FateInv
<1>1. Fates(k) \in Nat /\ Fates(k)' = Fates(k) + (IF ~sent /\ sent' /\ fwd = k THEN 1 ELSE 0)
  BY CountType, FatesMove
<1>2. /\ Fates(k) + (IF fwd = k /\ ~sent THEN 1 ELSE 0) <= tries[k]
      /\ js[k] = "acked" \/ (fwd = k /\ sent) => Fates(k) > 0
  BY DEF FateInv
<1>3. tries[k] \in Nat /\ fwd \in Cmds \cup {None} /\ sent \in BOOLEAN /\ k # None
  BY DeliveryAssumption DEF TypeOK, JsType
<1>4. ASSUME NEW j \in Cmds, Publish(j) \/ Fetch(j)
      PROVE  /\ sent' = sent /\ (js'[k] = "acked" => js[k] = "acked")
             /\ \/ fwd' = fwd /\ tries' = tries
                \/ ~sent /\ fwd = None /\ fwd' = j
                   /\ tries'[k] = tries[k] + (IF j = k THEN 1 ELSE 0)
  BY <1>3, <1>4 DEF Publish, Fetch, BrokerInv, TypeOK, JsType
<1>5. CASE Forward
  <2>1. ~sent /\ sent' /\ UNCHANGED <<fwd, js, tries>>
    BY <1>5 DEF Forward
  <2> QED BY <1>1, <1>2, <1>3, <2>1
<1>6. CASE Nak \/ AckMsgLost
  <2>1. fwd' = None /\ ~sent' /\ tries' = tries /\ (js'[k] = "acked" => js[k] = "acked")
    BY <1>3, <1>6 DEF Nak, AckMsgLost, Unacked, BrokerInv, TypeOK, JsType
  <2> QED BY <1>1, <1>2, <1>3, <2>1
<1>7. CASE AckMsg
  <2>1. sent /\ fwd' = None /\ ~sent' /\ tries' = tries /\ (js'[k] = "acked" => js[k] = "acked" \/ fwd = k)
    BY <1>3, <1>7 DEF AckMsg, BrokerInv, TypeOK, JsType
  <2> QED BY <1>1, <1>2, <1>3, <2>1
<1>8. CASE UNCHANGED jsVars
  <2>1. UNCHANGED <<js, tries, fwd, sent>>
    BY <1>8 DEF jsVars
  <2> QED BY <1>1, <1>2, <1>3, <2>1
<1>9. ASSUME NEW c \in Conns, Relay(c) PROVE UNCHANGED jsVars
  BY <1>9 DEF Relay, Fill, Register, AcceptStreams, SendCommand, PublishAck, LinkDrops,
              CloseSession, Cleanup
<1>10. Agent \/ Unfill => UNCHANGED jsVars
  BY DEF Agent, Dispatch, AdapterReturns, QueueAck, SdkAck, ReadCommand, AgentReceive, AgentSkips,
         AgentRefuses, SendAck, SendAckLost, Unfill
<1>11. CASE Broker
  <2>1. PICK j \in Cmds : Publish(j) \/ Fetch(j)
    BY <1>11 DEF Broker
  <2> QED BY <1>1, <1>2, <1>3, <1>4, <2>1
<1> QED
  BY <1>5, <1>6, <1>7, <1>8, <1>9, <1>10, <1>11 DEF Next, Forwarder, vars

(***************************************************************************)
(* What the hardware ACKs say                                              *)
(***************************************************************************)

\* What the adapter has done it does not undo: an honest ACK stays honest.
LEMMA HistGrows ==
    ASSUME TypeOK, [Next]_vars, NEW k \in Cmds
    PROVE  (exec[k] > 0 => exec'[k] > 0) /\ (failed[k] > 0 => failed'[k] > 0)
<1>1. CASE UNCHANGED <<exec, failed>>
  BY <1>1
<1>2. ASSUME NEW j \in Cmds, NEW ok \in BOOLEAN, AdapterReturns(j, ok)
      PROVE  (exec[k] > 0 => exec'[k] > 0) /\ (failed[k] > 0 => failed'[k] > 0)
  BY <1>2 DEF AdapterReturns, TypeOK, HistType
<1>3. CASE ~\E j \in Cmds, ok \in BOOLEAN : AdapterReturns(j, ok)
  <2>1. UNCHANGED <<exec, failed>>
    BY <1>3 DEF Next, Broker, Publish, Fetch, Forwarder, Forward, Nak, AckMsg, AckMsgLost,
                Unfill, Relay, Fill, Register, AcceptStreams, SendCommand, PublishAck, LinkDrops,
                CloseSession, Cleanup, Agent, Dispatch, QueueAck, SdkAck, ReadCommand,
                AgentReceive, AgentSkips, AgentRefuses, SendAck, SendAckLost, vars, histVars
  <2> QED BY <1>1, <2>1
<1> QED BY <1>2, <1>3

\* What an ACK rests on does not go away.
LEMMA HonestStays ==
    ASSUME TypeOK, [Next]_vars, NEW a \in Acks, Honest(a)
    PROVE  Honest(a)'
<1>1. a.cmd \in Cmds
  BY DEF Acks
<1> QED BY <1>1, HistGrows DEF Honest

\* The dispatch task's result, the ACK channel and what was reported agree with
\* what the adapter did.
LEMMA AckStep ==
    ASSUME TypeOK, AckInv, [Next]_vars
    PROVE  AckInv'
<1> DEFINE Task == \A k \in Cmds : /\ acking[<<k, TRUE>>] > 0 => exec[k] > 0
                                   /\ acking[<<k, FALSE>>] > 0 => failed[k] > 0
           Queue == \A i \in DOMAIN ackq : Honest(ackq[i])
           Carried == \A c \in Conns : \A i \in DOMAIN ackwire[c] : Honest(ackwire[c][i])
           Told == \A a \in reported : Honest(a)
<1>0. Task /\ Queue /\ Carried /\ Told
  BY DEF AckInv
<1>t. /\ acking \in [Cmds \X BOOLEAN -> Nat] /\ ackq \in Seq(Acks) /\ reported \subseteq Acks
      /\ exec \in [Cmds -> Nat] /\ failed \in [Cmds -> Nat]
      /\ ackwire \in [Conns -> Seq(Acks)]
  BY DEF TypeOK, AgentType, HistType, RelayType
<1>1. ASSUME UNCHANGED acking PROVE Task'
  <2> SUFFICES ASSUME NEW k \in Cmds
               PROVE  /\ acking[<<k, TRUE>>] > 0 => exec'[k] > 0
                      /\ acking[<<k, FALSE>>] > 0 => failed'[k] > 0
    BY <1>1
  <2> QED BY <1>0, HistGrows
<1>2. ASSUME UNCHANGED ackq PROVE Queue'
  <2> SUFFICES ASSUME NEW i \in DOMAIN ackq PROVE Honest(ackq[i])'
    BY <1>2
  <2>1. ackq[i] \in Acks /\ Honest(ackq[i])
    BY <1>0, <1>t
  <2>2. ackq'[i] = ackq[i]
    BY <1>2
  <2> QED BY <2>1, <2>2, HonestStays DEF Honest
<1>3. ASSUME UNCHANGED reported PROVE Told'
  <2> SUFFICES ASSUME NEW a \in reported PROVE Honest(a)'
    BY <1>3
  <2> QED BY <1>0, <1>t, HonestStays
<1>c. ASSUME NEW d \in Conns, NEW i \in DOMAIN ackwire[d], NEW a, a = ackwire[d][i]
      PROVE  a \in Acks /\ Honest(a)'
  <2>1. ackwire[d] \in Seq(Acks)
    BY <1>t
  <2>2. a \in Acks /\ Honest(a)
    BY <1>0, <1>c, <2>1
  <2> QED BY <2>2, HonestStays
<1>d. ASSUME NEW d \in Conns, ackwire'[d] = ackwire[d], NEW i \in DOMAIN ackwire'[d]
      PROVE  Honest(ackwire[d][i])'
  <2>1. PICK a : a = ackwire[d][i]
    OBVIOUS
  <2>2. i \in DOMAIN ackwire[d]
    BY <1>d
  <2>3. Honest(a)'
    BY <1>c, <2>1, <2>2
  <2>4. ackwire'[d][i] = a
    BY <1>d, <2>1
  <2> QED BY <2>3, <2>4 DEF Honest
<1>w. ASSUME UNCHANGED ackwire PROVE Carried'
  <2> SUFFICES ASSUME NEW d \in Conns, NEW i \in DOMAIN ackwire'[d]
               PROVE  Honest(ackwire[d][i])'
    OBVIOUS
  <2> QED BY <1>d, <1>w
<1>4. ASSUME ackq # << >>, ackq' = Tail(ackq) PROVE Queue'
  <2> SUFFICES ASSUME NEW i \in DOMAIN ackq' PROVE Honest(ackq[i])'
    OBVIOUS
  <2>1. i + 1 \in DOMAIN ackq /\ ackq'[i] = ackq[i + 1]
    BY <1>4, <1>t
  <2>2. ackq[i + 1] \in Acks /\ Honest(ackq[i + 1])
    BY <1>0, <1>t, <2>1
  <2> QED BY <2>1, <2>2, HonestStays DEF Honest
<1>5. ASSUME NEW a \in Acks, Honest(a), ackq' = Append(ackq, a) PROVE Queue'
  <2> SUFFICES ASSUME NEW i \in DOMAIN ackq' PROVE Honest(ackq[i])'
    OBVIOUS
  <2>1. (i \in DOMAIN ackq /\ ackq'[i] = ackq[i]) \/ ackq'[i] = a
    BY <1>5, <1>t
  <2>2. i \in DOMAIN ackq => ackq[i] \in Acks /\ Honest(ackq[i])
    BY <1>0, <1>t
  <2> QED BY <1>5, <2>1, <2>2, HonestStays DEF Honest
<1>6. ASSUME NEW k \in Cmds, NEW ok \in BOOLEAN, AdapterReturns(k, ok) PROVE AckInv'
  <2>1. Task'
    <3> SUFFICES ASSUME NEW j \in Cmds
                 PROVE  /\ acking'[<<j, TRUE>>] > 0 => exec'[j] > 0
                        /\ acking'[<<j, FALSE>>] > 0 => failed'[j] > 0
      OBVIOUS
    <3>1. CASE ok
      <4>1. acking' = [acking EXCEPT ![<<k, TRUE>>] = @ + 1] /\ exec' = [exec EXCEPT ![k] = @ + 1]
            /\ failed' = failed
        BY <1>6, <3>1 DEF AdapterReturns
      <4>2. acking'[<<j, FALSE>>] = acking[<<j, FALSE>>]
        BY <1>t, <4>1
      <4>3. j # k => acking'[<<j, TRUE>>] = acking[<<j, TRUE>>]
        BY <1>t, <4>1
      <4>4. exec'[j] = exec[j] \/ (j = k /\ exec'[j] > 0)
        BY <1>t, <4>1
      <4>5. j = k => exec'[j] > 0
        BY <1>t, <4>1
      <4> QED BY <1>0, <4>1, <4>2, <4>3, <4>4, <4>5
    <3>2. CASE ~ok
      <4>1. acking' = [acking EXCEPT ![<<k, FALSE>>] = @ + 1]
            /\ failed' = [failed EXCEPT ![k] = @ + 1] /\ exec' = exec
        BY <1>6, <3>2 DEF AdapterReturns
      <4>2. acking'[<<j, TRUE>>] = acking[<<j, TRUE>>]
        BY <1>t, <4>1
      <4>3. j # k => acking'[<<j, FALSE>>] = acking[<<j, FALSE>>]
        BY <1>t, <4>1
      <4>4. failed'[j] = failed[j] \/ (j = k /\ failed'[j] > 0)
        BY <1>t, <4>1
      <4>5. j = k => failed'[j] > 0
        BY <1>t, <4>1
      <4> QED BY <1>0, <4>1, <4>2, <4>3, <4>4, <4>5
    <3> QED BY <3>1, <3>2
  <2>2. UNCHANGED <<ackq, ackwire, reported>>
    BY <1>6 DEF AdapterReturns, relayVars
  <2> QED BY <1>2, <1>3, <1>w, <2>1, <2>2 DEF AckInv
<1>7. ASSUME NEW k \in Cmds, NEW ok \in BOOLEAN, QueueAck(k, ok) PROVE AckInv'
  <2> DEFINE a == [cmd |-> k, src |-> "hw", ok |-> ok]
  <2>1. a \in Acks
    BY DEF Acks
  <2>2. acking[<<k, ok>>] > 0 /\ ackq' = Append(ackq, a)
        /\ UNCHANGED <<ackwire, reported, exec, failed>>
        /\ acking' = [acking EXCEPT ![<<k, ok>>] = @ - 1]
    BY <1>7 DEF QueueAck, relayVars, histVars
  <2>3. Honest(a)
    BY <1>0, <2>2 DEF Honest
  <2> HIDE DEF a
  <2>4. Queue'
    BY <1>5, <2>1, <2>2, <2>3
  <2>5. \A t \in Cmds \X BOOLEAN : acking'[t] > 0 => acking[t] > 0
    BY <1>t, <2>2
  <2>6. Task'
    BY <1>0, <1>t, <2>2, <2>5
  <2> QED BY <1>3, <1>w, <2>2, <2>4, <2>6 DEF AckInv
<1>8. ASSUME NEW k \in Cmds, NEW ok \in BOOLEAN, SdkAck(k, ok) PROVE AckInv'
  <2> DEFINE a == [cmd |-> k, src |-> "sdk", ok |-> ok]
  <2>1. a \in Acks /\ Honest(a)
    BY DEF Acks, Honest
  <2>2. (ackq' = Append(ackq, a) \/ ackq' = ackq) /\ UNCHANGED <<acking, ackwire, reported>>
    BY <1>8 DEF SdkAck, relayVars
  <2> HIDE DEF a
  <2> QED BY <1>1, <1>2, <1>3, <1>5, <1>w, <2>1, <2>2 DEF AckInv
<1>9. ASSUME NEW c \in Conns, SendAck(c) PROVE AckInv'
  <2> PICK a : a = Head(ackq)
    OBVIOUS
  <2>1. /\ ackq # << >> /\ ackq' = Tail(ackq) /\ UNCHANGED <<acking, reported>>
        /\ ackwire' = [ackwire EXCEPT ![c] = Append(ackwire[c], a)]
    BY <1>9 DEF SendAck
  <2>2. a \in Acks /\ Honest(a)
    BY <1>0, <1>t, <2>1
  <2>3. Honest(a)'
    BY <2>2, HonestStays
  <2>4. Carried'
    <3> SUFFICES ASSUME NEW d \in Conns, NEW i \in DOMAIN ackwire'[d]
                 PROVE  Honest(ackwire[d][i])'
      OBVIOUS
    <3>1. CASE d # c
      <4>1. ackwire'[d] = ackwire[d]
        BY <1>t, <2>1, <3>1
      <4> QED BY <1>d, <4>1
    <3>2. CASE d = c
      <4>1. ackwire'[d] = Append(ackwire[d], a) /\ ackwire[d] \in Seq(Acks)
        BY <1>t, <2>1, <3>2
      <4>2. (i \in DOMAIN ackwire[d] /\ ackwire'[d][i] = ackwire[d][i]) \/ ackwire'[d][i] = a
        BY <4>1
      <4>3. PICK b : b = ackwire'[d][i]
        OBVIOUS
      <4>4. ASSUME i \in DOMAIN ackwire[d], b = ackwire[d][i]
            PROVE  Honest(b)'
        BY <1>c, <4>4, Zenon
      <4>5. Honest(b)'
        BY <2>3, <4>2, <4>3, <4>4
      <4> QED BY <4>3, <4>5 DEF Honest
    <3> QED BY <3>1, <3>2
  <2> QED BY <1>1, <1>3, <1>4, <2>1, <2>4 DEF AckInv
<1>10. ASSUME NEW c \in Conns, SendAckLost(c) PROVE AckInv'
  <2>1. ackq # << >> /\ ackq' = Tail(ackq) /\ UNCHANGED <<acking, ackwire, reported>>
    BY <1>10 DEF SendAckLost
  <2> QED BY <1>1, <1>3, <1>4, <1>w, <2>1 DEF AckInv
<1>15. ASSUME NEW c \in Conns, PublishAck(c) PROVE AckInv'
  <2>1. /\ ackwire[c] # << >> /\ reported' = reported \cup {Head(ackwire[c])}
        /\ ackwire' = [ackwire EXCEPT ![c] = Tail(ackwire[c])]
        /\ UNCHANGED <<acking, ackq>>
    BY <1>15 DEF PublishAck
  <2>2. ackwire[c] \in Seq(Acks)
    BY <1>t
  <2>3. Told'
    <3> SUFFICES ASSUME NEW a \in reported' PROVE Honest(a)'
      OBVIOUS
    <3>1. 1 \in DOMAIN ackwire[c] /\ Head(ackwire[c]) = ackwire[c][1]
      BY <2>1, <2>2
    <3>2. CASE a \in reported
      BY <1>0, <1>t, <3>2, HonestStays
    <3>3. CASE a = ackwire[c][1]
      BY <1>c, <3>1, <3>3
    <3> QED BY <2>1, <3>1, <3>2, <3>3
  <2>4. Carried'
    <3> SUFFICES ASSUME NEW d \in Conns, NEW i \in DOMAIN ackwire'[d]
                 PROVE  Honest(ackwire[d][i])'
      OBVIOUS
    <3>1. CASE d # c
      <4>1. ackwire'[d] = ackwire[d]
        BY <1>t, <2>1, <3>1
      <4> QED BY <1>d, <4>1
    <3>2. CASE d = c
      <4>1. ackwire'[d] = Tail(ackwire[d])
        BY <1>t, <2>1, <3>2
      <4>2. i + 1 \in DOMAIN ackwire[d] /\ ackwire'[d][i] = ackwire[d][i + 1]
        <5>1. ackwire[d] \in Seq(Acks) /\ ackwire[d] # << >>
          BY <2>1, <2>2, <3>2
        <5>2. i \in DOMAIN Tail(ackwire[d])
          BY <4>1
        <5>3. i + 1 \in DOMAIN ackwire[d] /\ Tail(ackwire[d])[i] = ackwire[d][i + 1]
          BY <5>1, <5>2
        <5> QED BY <4>1, <5>3
      <4>3. PICK b : b = ackwire'[d][i]
        OBVIOUS
      <4>4. Honest(b)'
        BY <1>c, <4>2, <4>3
      <4> QED BY <4>3, <4>4 DEF Honest
    <3> QED BY <3>1, <3>2
  <2> QED BY <1>1, <1>2, <2>1, <2>3, <2>4 DEF AckInv
<1>16. ASSUME NEW c \in Conns, Cleanup(c) PROVE AckInv'
  <2>1. /\ ackwire' = [ackwire EXCEPT ![c] = << >>]
        /\ UNCHANGED <<acking, ackq, reported>>
    BY <1>16 DEF Cleanup, agentVars
  <2>2. Carried'
    <3> SUFFICES ASSUME NEW d \in Conns, NEW i \in DOMAIN ackwire'[d]
                 PROVE  Honest(ackwire[d][i])'
      OBVIOUS
    <3>1. d # c
      BY <1>t, <2>1
    <3>2. ackwire'[d] = ackwire[d]
      BY <1>t, <2>1, <3>1
    <3> QED BY <1>d, <3>2
  <2> QED BY <1>1, <1>2, <1>3, <2>1, <2>2 DEF AckInv
<1>11. CASE UNCHANGED <<acking, ackq, ackwire, reported>>
  BY <1>1, <1>2, <1>3, <1>w, <1>11 DEF AckInv
<1>12. Broker \/ Forwarder \/ Unfill => UNCHANGED <<acking, ackq, ackwire, reported>>
  BY DEF Broker, Publish, Fetch, Forwarder, Forward, Nak, AckMsg, AckMsgLost, Unfill, agentVars,
         relayVars
<1>13. ASSUME NEW c \in Conns, ReadCommand(c) \/ (Relay(c) /\ ~PublishAck(c) /\ ~Cleanup(c))
       PROVE  UNCHANGED <<acking, ackq, ackwire, reported>>
  BY <1>13 DEF Relay, Fill, Register, AcceptStreams, SendCommand, LinkDrops, CloseSession,
               ReadCommand, AgentReceive, AgentSkips, AgentRefuses, agentVars
<1>14. Dispatch \/ UNCHANGED vars => UNCHANGED <<acking, ackq, ackwire, reported>>
  BY DEF Dispatch, vars, agentVars, relayVars
<1> HIDE DEF Task, Queue, Carried, Told
<1> QED
  BY <1>6, <1>7, <1>8, <1>9, <1>10, <1>11, <1>12, <1>13, <1>14, <1>15, <1>16 DEF Next, Agent

\* Only the end of a session loses copies, and a session that has ended stays so.
LEMMA LostStep ==
    ASSUME TypeOK, LostWithSession, [Next]_vars
    PROVE  LostWithSession'
<1> DEFINE Ended == \E c \in Conns : conn[c] \in {"closing", "closed"}
<1>c. conn \in [Conns -> {"none", "waiting", "open", "closing", "closed"}]
  BY DEF TypeOK, RelayType
<1>0. \A k \in Cmds : lost[k] > 0 => Ended
  BY DEF LostWithSession
<1>1. CASE UNCHANGED <<conn, lost>>
  BY <1>0, <1>1 DEF LostWithSession
<1>2. ASSUME NEW c \in Conns, CloseSession(c) \/ Cleanup(c) PROVE LostWithSession'
  <2>1. conn'[c] \in {"closing", "closed"}
    BY <1>c, <1>2 DEF CloseSession, Cleanup
  <2> QED BY <2>1 DEF LostWithSession
<1>3. ASSUME NEW c \in Conns, Register(c) \/ AcceptStreams(c) PROVE LostWithSession'
  <2>1. lost' = lost
    BY <1>3 DEF Register, AcceptStreams, histVars
  <2>2. conn[c] \notin {"closing", "closed"} /\ \A d \in Conns \ {c} : conn'[d] = conn[d]
    BY <1>c, <1>3 DEF Register, AcceptStreams
  <2>3. Ended => Ended'
    BY <2>2
  <2> QED BY <1>0, <2>1, <2>3 DEF LostWithSession
<1>4. Broker \/ Forwarder \/ Unfill \/ Agent => UNCHANGED <<conn, lost>>
  BY DEF Broker, Publish, Fetch, Forwarder, Forward, Nak, AckMsg, AckMsgLost, Unfill, Agent,
         Dispatch, AdapterReturns, QueueAck, SdkAck, ReadCommand, AgentReceive, AgentSkips,
         AgentRefuses, SendAck, SendAckLost, relayVars, histVars
<1>5. ASSUME NEW c \in Conns, Fill(c) \/ SendCommand(c) \/ PublishAck(c) \/ LinkDrops(c)
      PROVE  UNCHANGED <<conn, lost>>
  BY <1>5 DEF Fill, SendCommand, PublishAck, LinkDrops, histVars
<1>6. UNCHANGED vars => UNCHANGED <<conn, lost>>
  BY DEF vars, relayVars, histVars
<1> HIDE DEF Ended
<1> QED BY <1>1, <1>2, <1>3, <1>4, <1>5, <1>6 DEF Next, Relay

(***************************************************************************)
(* The theorem                                                             *)
(***************************************************************************)

\* Nothing has been delivered at the start.
LEMMA InitInv == Init => Inv
<1> SUFFICES ASSUME Init PROVE Inv
  OBVIOUS
<1> USE DEF Init
<1>0. << >> \in Seq(Cmds) /\ << >> \in Seq(Acks)
  OBVIOUS
<1>1. JsType /\ HistType
  <2>1. 0 \in 0 .. MaxDeliver
    BY DeliveryAssumption DEF DeliveryAssumption
  <2>2. tries \in [Cmds -> 0 .. MaxDeliver]
    BY <2>1
  <2> QED BY <2>2 DEF JsType, HistType
<1>2. RelayType
  BY <1>0, DeliveryAssumption DEF DeliveryAssumption, RelayType
<1>3. AgentType
  BY <1>0, DeliveryAssumption DEF DeliveryAssumption, AgentType
<1>4. BrokerInv
  BY DeliveryAssumption DEF DeliveryAssumption, BrokerInv
<1>5. AckInv
  <2>1. \A k \in Cmds : acking[<<k, TRUE>>] = 0 /\ acking[<<k, FALSE>>] = 0
    OBVIOUS
  <2>2. DOMAIN ackq = {} /\ reported = {}
    OBVIOUS
  <2>3. \A c \in Conns : DOMAIN ackwire[c] = {}
    OBVIOUS
  <2> QED BY <2>1, <2>2, <2>3 DEF AckInv
<1>6. ASSUME NEW k \in Cmds PROVE Fates(k) = 0
  <2>1. ASSUME NEW q, q = [c \in Conns |-> << >>] PROVE Total(k, q) = 0
    <3>1. \A c \in DOMAIN q : {c} \X At(k, q[c]) = {}
      BY <2>1 DEF At
    <3>2. UNION {{c} \X At(k, q[c]) : c \in DOMAIN q} = {}
      BY <3>1
    <3> QED BY <3>2, FS_EmptySet DEF Total
  <2>2. Total(k, chan) = 0 /\ Total(k, wire) = 0
    BY <2>1
  <2>3. Occurrences(k, inbox) = 0
    BY OccEmpty
  <2>4. exec[k] = 0 /\ failed[k] = 0 /\ skipped[k] = 0 /\ lost[k] = 0 /\ running[k] = 0
    OBVIOUS
  <2> QED BY <2>2, <2>3, <2>4 DEF Fates, Copies
<1>7. FateInv
  BY <1>6, DeliveryAssumption DEF DeliveryAssumption, FateInv
<1>8. LostWithSession
  BY DEF LostWithSession
<1> QED BY <1>1, <1>2, <1>3, <1>4, <1>5, <1>7, <1>8 DEF Inv, TypeOK

\* Every step from JetStream to the adapter and back keeps the invariant.
LEMMA InvStep == Inv /\ [Next]_vars => Inv'
<1> SUFFICES ASSUME Inv, [Next]_vars PROVE Inv'
  OBVIOUS
<1> USE DEF Inv
<1>1. JsType' /\ BrokerInv' /\ RelayType' /\ AgentType' /\ HistType'
  BY JsStep, RelayStep, AgentStep, HistStep
<1>2. TypeOK'
  BY <1>1 DEF TypeOK
<1>3. FateInv'
  BY <1>2, FateStep
<1>4. AckInv'
  BY AckStep
<1>5. LostWithSession'
  BY LostStep
<1> QED BY <1>2, <1>1, <1>3, <1>4, <1>5

\* Whatever the broker redelivers, the relay loses and the adapter answers, and
\* however many commands, connections and places in the channels and on the wire
\* there are, and whoever fills the forwarder's registry: a command's executions,
\* failures, skipped and lost copies and copies under way never outnumber its
\* deliveries, an acknowledged command is accounted for, what is lost went with a
\* session that has ended, and the hardware ACK that reaches NATS tells what the
\* adapter did.
THEOREM DeliverySafe == Spec => []DeliveryInv
<1>1. Inv => DeliveryInv
  <2> SUFFICES ASSUME Inv PROVE DeliveryInv
    OBVIOUS
  <2>1. OneFatePerDelivery /\ AckedIsAccountedFor
    <3> SUFFICES ASSUME NEW k \in Cmds
                 PROVE  Fates(k) <= tries[k] /\ (js[k] = "acked" => Fates(k) > 0)
      BY DEF OneFatePerDelivery, AckedIsAccountedFor
    <3>1. Fates(k) \in Nat /\ tries[k] \in Nat
      BY CountType, DeliveryAssumption DEF DeliveryAssumption, Inv, TypeOK, JsType
    <3>2. Fates(k) + (IF fwd = k /\ ~sent THEN 1 ELSE 0) <= tries[k]
          /\ (js[k] = "acked" => Fates(k) > 0)
      BY DEF Inv, FateInv
    <3> QED BY <3>1, <3>2
  <2>2. HardwareAckIsHonest
    BY DEF Inv, AckInv, Honest, HardwareAckIsHonest
  <2> QED BY <2>1, <2>2 DEF Inv, DeliveryInv
<1> QED BY InitInv, InvStep, <1>1, PTL DEF Spec
=============================================================================
