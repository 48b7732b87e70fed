-------------------------- MODULE CommandApiProofs --------------------------
(***************************************************************************)
(* The safety of command-api for any number of commands, requests and      *)
(* ACKs, any capacity of the subscriptions, and the agreement of its codec *)
(* with the agent's for any ids, payloads and times.                       *)
(***************************************************************************)
EXTENDS CommandApi, TLAPS

(***************************************************************************)
(* The gRPC session.  A command is not answered before its goroutine is    *)
(* done (Unanswered), the loop's command is published and nothing else     *)
(* (LoopInv), and whatever moves towards the operator as an ACK was sent   *)
(* by the vehicle (Heard).                                                 *)
(***************************************************************************)

LoopInv == loop # None => st[loop] = "published"

Unanswered == \A k \in Cmds : st[k] # "done" => answers[k] = << >>

Heard ==
    /\ \A i \in DOMAIN sub : emitted[sub[i]] > 0
    /\ routing # None => emitted[routing] > 0
    /\ \A k \in Cmds : ackChan[k] > 0 \/ st[k] = "acked" => emitted[k] > 0

GrpcInv == SessionInv /\ LoopInv /\ Unanswered /\ Heard

AnswerTexts == {"failed", "ack", "timeout"}

\* What stream.Send appends is one of the answers.
LEMMA SendType ==
    ASSUME answers \in [Cmds -> Seq(AnswerTexts)], NEW k \in Cmds, NEW a \in AnswerTexts,
           Send(k, a)
    PROVE  answers' \in [Cmds -> Seq(AnswerTexts)]
<1>1. Append(answers[k], a) \in Seq(AnswerTexts)
  OBVIOUS
<1> QED BY <1>1 DEF Send

\* The variables of a session keep their types.
LEMMA SessionType ==
    ASSUME TypeOK, [Next]_vars
    PROVE  TypeOK'
<1> USE DEF TypeOK, States
<1>1. ASSUME NEW k \in Cmds, Reject(k) PROVE TypeOK'
  <2>1. answers' \in [Cmds -> Seq({"failed", "ack", "timeout"})]
    BY <1>1, SendType DEF Reject, AnswerTexts
  <2> QED BY <1>1, <2>1 DEF Reject
<1>2. ASSUME NEW k \in Cmds, Publish(k) PROVE TypeOK'
  BY <1>2 DEF Publish
<1>3. ASSUME NEW k \in Cmds, PublishFails(k) PROVE TypeOK'
  <2>1. answers' \in [Cmds -> Seq({"failed", "ack", "timeout"})]
    BY <1>3, SendType DEF PublishFails, AnswerTexts
  <2> QED BY <1>3, <2>1 DEF PublishFails
<1>4. ASSUME NEW k \in Cmds, VehicleAcks(k) PROVE TypeOK'
  <2>1. sub' \in Seq(Cmds) /\ Len(sub') <= SubCap
    <3>1. CASE up /\ Len(sub) < SubCap
      <4>1. sub' = Append(sub, k)
        BY <1>4, <3>1 DEF VehicleAcks
      <4>2. Append(sub, k) \in Seq(Cmds) /\ Len(Append(sub, k)) = Len(sub) + 1
        OBVIOUS
      <4>3. Len(sub) \in Nat /\ SubCap \in Nat
        BY StreamAssumption DEF StreamAssumption
      <4> QED BY <3>1, <4>1, <4>2, <4>3
    <3>2. CASE ~(up /\ Len(sub) < SubCap)
      BY <1>4, <3>2 DEF VehicleAcks
    <3> QED BY <3>1, <3>2
  <2>2. emitted' \in [Cmds -> 0 .. MaxAcks]
    <3>1. emitted[k] + 1 \in 0 .. MaxAcks
      BY <1>4, StreamAssumption DEF VehicleAcks, StreamAssumption
    <3> QED BY <1>4, <3>1 DEF VehicleAcks
  <2> QED BY <1>4, <2>1, <2>2 DEF VehicleAcks
<1>5. ASSUME NEW k \in Cmds, WaiterAck(k) PROVE TypeOK'
  BY <1>5 DEF WaiterAck
<1>6. ASSUME NEW k \in Cmds, WaiterTimeout(k) PROVE TypeOK'
  BY <1>6 DEF WaiterTimeout
<1>7. ASSUME NEW k \in Cmds, WaiterAnswers(k) PROVE TypeOK'
  <2>1. answers' \in [Cmds -> Seq({"failed", "ack", "timeout"})]
    BY <1>7, SendType DEF WaiterAnswers, AnswerTexts
  <2> QED BY <1>7, <2>1 DEF WaiterAnswers
<1>8. ASSUME NEW k \in Cmds, WaiterGone(k) PROVE TypeOK'
  BY <1>8 DEF WaiterGone
<1>9. CASE Register
  BY <1>9 DEF Register
<1>10. CASE RouteLookup
  <2>1. Head(sub) \in Cmds /\ sub' \in Seq(Cmds) /\ Len(sub') = Len(sub) - 1
    BY <1>10 DEF RouteLookup
  <2>2. Len(sub) \in Nat /\ SubCap \in Nat
    BY StreamAssumption DEF StreamAssumption
  <2>3. Len(sub') <= SubCap
    BY <2>1, <2>2
  <2> QED BY <1>10, <2>1, <2>3 DEF RouteLookup
<1>11. CASE RouteSend
  BY <1>11 DEF RouteSend
<1>12. CASE StreamCloses
  BY <1>12 DEF StreamCloses
<1>13. CASE UNCHANGED vars
  BY <1>13 DEF vars
<1> QED BY <1>1, <1>2, <1>3, <1>4, <1>5, <1>6, <1>7, <1>8, <1>9, <1>10, <1>11, <1>12, <1>13 DEF Next, Receive, Waiter, Router

\* The command of the loop is published until it is registered.
LEMMA LoopStep ==
    ASSUME TypeOK, LoopInv, [Next]_vars
    PROVE  LoopInv'
<1> USE StreamAssumption DEF StreamAssumption, TypeOK, LoopInv
<1>1. ASSUME NEW k \in Cmds, Reject(k) PROVE LoopInv'
  BY <1>1 DEF Reject, Send
<1>2. ASSUME NEW k \in Cmds, Publish(k) PROVE LoopInv'
  BY <1>2 DEF Publish
<1>3. ASSUME NEW k \in Cmds, PublishFails(k) PROVE LoopInv'
  BY <1>3 DEF PublishFails, Send
<1>4. ASSUME NEW k \in Cmds, VehicleAcks(k) PROVE LoopInv'
  BY <1>4 DEF VehicleAcks
<1>5. ASSUME NEW k \in Cmds, WaiterAck(k) PROVE LoopInv'
  BY <1>5 DEF WaiterAck
<1>6. ASSUME NEW k \in Cmds, WaiterTimeout(k) PROVE LoopInv'
  BY <1>6 DEF WaiterTimeout
<1>7. ASSUME NEW k \in Cmds, WaiterAnswers(k) PROVE LoopInv'
  BY <1>7 DEF WaiterAnswers, Send
<1>8. ASSUME NEW k \in Cmds, WaiterGone(k) PROVE LoopInv'
  BY <1>8 DEF WaiterGone
<1>9. CASE Register
  BY <1>9 DEF Register
<1>10. CASE RouteLookup
  BY <1>10 DEF RouteLookup
<1>11. CASE RouteSend
  BY <1>11 DEF RouteSend
<1>12. CASE StreamCloses
  BY <1>12 DEF StreamCloses
<1>13. CASE UNCHANGED vars
  BY <1>13 DEF vars
<1> QED BY <1>1, <1>2, <1>3, <1>4, <1>5, <1>6, <1>7, <1>8, <1>9, <1>10, <1>11, <1>12, <1>13 DEF Next, Receive, Waiter, Router

\* A command has no answer before its goroutine is done.
LEMMA UnansweredStep ==
    ASSUME TypeOK, LoopInv, Unanswered, [Next]_vars
    PROVE  Unanswered'
<1> USE DEF Unanswered
<1>1. ASSUME NEW k \in Cmds, Reject(k) PROVE Unanswered'
  <2>1. /\ st' = [st EXCEPT ![k] = "done"]
        /\ \A j \in Cmds : j # k => answers'[j] = answers[j]
    BY <1>1 DEF Reject, Send, TypeOK
  <2> QED BY <2>1 DEF TypeOK
<1>2. ASSUME NEW k \in Cmds, Publish(k) PROVE Unanswered'
  BY <1>2 DEF Publish, TypeOK
<1>3. ASSUME NEW k \in Cmds, PublishFails(k) PROVE Unanswered'
  <2>1. /\ st' = [st EXCEPT ![k] = "done"]
        /\ \A j \in Cmds : j # k => answers'[j] = answers[j]
    BY <1>3 DEF PublishFails, Send, TypeOK
  <2> QED BY <2>1 DEF TypeOK
<1>4. ASSUME NEW k \in Cmds, VehicleAcks(k) PROVE Unanswered'
  BY <1>4 DEF VehicleAcks
<1>5. ASSUME NEW k \in Cmds, WaiterAck(k) PROVE Unanswered'
  BY <1>5 DEF WaiterAck, TypeOK
<1>6. ASSUME NEW k \in Cmds, WaiterTimeout(k) PROVE Unanswered'
  BY <1>6 DEF WaiterTimeout, TypeOK
<1>7. ASSUME NEW k \in Cmds, WaiterAnswers(k) PROVE Unanswered'
  <2>1. /\ st' = [st EXCEPT ![k] = "done"]
        /\ \A j \in Cmds : j # k => answers'[j] = answers[j]
    BY <1>7 DEF WaiterAnswers, Send, TypeOK
  <2> QED BY <2>1 DEF TypeOK
<1>8. ASSUME NEW k \in Cmds, WaiterGone(k) PROVE Unanswered'
  BY <1>8 DEF WaiterGone, TypeOK
<1>9. CASE Register
  <2>1. loop \in Cmds /\ st[loop] # "done"
    BY <1>9 DEF Register, LoopInv, TypeOK
  <2> QED BY <1>9, <2>1 DEF Register, TypeOK
<1>10. CASE RouteLookup
  BY <1>10 DEF RouteLookup
<1>11. CASE RouteSend
  BY <1>11 DEF RouteSend
<1>12. CASE StreamCloses
  BY <1>12 DEF StreamCloses
<1>13. CASE UNCHANGED vars
  BY <1>13 DEF vars
<1> QED BY <1>1, <1>2, <1>3, <1>4, <1>5, <1>6, <1>7, <1>8, <1>9, <1>10, <1>11, <1>12, <1>13 DEF Next, Receive, Waiter, Router

\* What is on its way to the operator as an ACK was sent by the vehicle.
LEMMA HeardStep ==
    ASSUME TypeOK, Heard, [Next]_vars
    PROVE  Heard'
<1> USE DEF Heard
<1>1. ASSUME NEW k \in Cmds, Reject(k) PROVE Heard'
  <2>1. UNCHANGED <<emitted, sub, routing, ackChan>>
    BY <1>1 DEF Reject
  <2>2. \A j \in Cmds : st'[j] = "acked" => st[j] = "acked"
    BY <1>1 DEF Reject, TypeOK
  <2> QED BY <2>1, <2>2
<1>2. ASSUME NEW k \in Cmds, Publish(k) PROVE Heard'
  <2>1. UNCHANGED <<emitted, sub, routing, ackChan>>
    BY <1>2 DEF Publish
  <2>2. \A j \in Cmds : st'[j] = "acked" => st[j] = "acked"
    BY <1>2 DEF Publish, TypeOK
  <2> QED BY <2>1, <2>2
<1>3. ASSUME NEW k \in Cmds, PublishFails(k) PROVE Heard'
  <2>1. UNCHANGED <<emitted, sub, routing, ackChan>>
    BY <1>3 DEF PublishFails
  <2>2. \A j \in Cmds : st'[j] = "acked" => st[j] = "acked"
    BY <1>3 DEF PublishFails, TypeOK
  <2> QED BY <2>1, <2>2
<1>4. ASSUME NEW k \in Cmds, VehicleAcks(k) PROVE Heard'
  <2>1. /\ UNCHANGED <<routing, ackChan, st>>
        /\ sub' = sub \/ sub' = Append(sub, k)
        /\ emitted' = [emitted EXCEPT ![k] = @ + 1]
    BY <1>4 DEF VehicleAcks
  <2>2. emitted[k] \in Nat
    BY StreamAssumption DEF StreamAssumption, TypeOK
  <2>3. emitted'[k] > 0 /\ \A j \in Cmds : emitted[j] > 0 => emitted'[j] > 0
    BY <2>1, <2>2 DEF TypeOK
  <2>4. ASSUME NEW i \in DOMAIN sub' PROVE emitted'[sub'[i]] > 0
    <3>1. sub \in Seq(Cmds)
      BY DEF TypeOK
    <3>2. CASE sub' = Append(sub, k) /\ i \notin DOMAIN sub
      <4>1. sub'[i] = k
        BY <3>1, <3>2
      <4> QED BY <2>3, <4>1
    <3>3. CASE i \in DOMAIN sub
      <4>1. sub'[i] = sub[i] /\ sub[i] \in Cmds
        BY <2>1, <3>1, <3>3
      <4> QED BY <2>3, <3>3, <4>1
    <3> QED BY <2>1, <3>2, <3>3
  <2>5. routing' # None => emitted'[routing'] > 0
    BY <2>1, <2>3 DEF TypeOK
  <2>6. ASSUME NEW j \in Cmds, ackChan'[j] > 0 \/ st'[j] = "acked" PROVE emitted'[j] > 0
    BY <2>1, <2>3, <2>6
  <2> QED BY <2>4, <2>5, <2>6
<1>5. ASSUME NEW k \in Cmds, WaiterAck(k) PROVE Heard'
  <2>1. UNCHANGED <<emitted, sub, routing>> /\ ackChan[k] > 0
    BY <1>5 DEF WaiterAck
  <2>2. ASSUME NEW j \in Cmds, ackChan'[j] > 0 \/ st'[j] = "acked" PROVE emitted'[j] > 0
    <3>1. CASE j = k
      BY <2>1, <3>1
    <3>2. CASE j # k
      <4>1. ackChan'[j] = ackChan[j] /\ st'[j] = st[j]
        BY <1>5, <3>2 DEF WaiterAck, TypeOK
      <4> QED BY <2>1, <2>2, <4>1
    <3> QED BY <3>1, <3>2
  <2> QED BY <2>1, <2>2
<1>6. ASSUME NEW k \in Cmds, WaiterTimeout(k) PROVE Heard'
  <2>1. UNCHANGED <<emitted, sub, routing, ackChan>>
    BY <1>6 DEF WaiterTimeout
  <2>2. \A j \in Cmds : st'[j] = "acked" => st[j] = "acked"
    BY <1>6 DEF WaiterTimeout, TypeOK
  <2> QED BY <2>1, <2>2
<1>7. ASSUME NEW k \in Cmds, WaiterAnswers(k) PROVE Heard'
  <2>1. UNCHANGED <<emitted, sub, routing, ackChan>>
    BY <1>7 DEF WaiterAnswers
  <2>2. \A j \in Cmds : st'[j] = "acked" => st[j] = "acked"
    BY <1>7 DEF WaiterAnswers, TypeOK
  <2> QED BY <2>1, <2>2
<1>8. ASSUME NEW k \in Cmds, WaiterGone(k) PROVE Heard'
  <2>1. UNCHANGED <<emitted, sub, routing, ackChan>>
    BY <1>8 DEF WaiterGone
  <2>2. \A j \in Cmds : st'[j] = "acked" => st[j] = "acked"
    BY <1>8 DEF WaiterGone, TypeOK
  <2> QED BY <2>1, <2>2
<1>9. CASE Register
  <2>1. UNCHANGED <<emitted, sub, routing, ackChan>>
    BY <1>9 DEF Register
  <2>2. \A j \in Cmds : st'[j] = "acked" => st[j] = "acked"
    BY <1>9 DEF Register, TypeOK
  <2> QED BY <2>1, <2>2
<1>10. CASE RouteLookup
  <2>1. sub \in Seq(Cmds) /\ sub # << >>
    BY <1>10 DEF RouteLookup, TypeOK
  <2>2. Head(sub) = sub[1] /\ 1 \in DOMAIN sub
    BY <2>1
  <2>3. ASSUME NEW i \in DOMAIN sub' PROVE emitted'[sub'[i]] > 0
    <3>1. sub' = Tail(sub) /\ emitted' = emitted
      BY <1>10 DEF RouteLookup
    <3>2. i + 1 \in DOMAIN sub /\ sub'[i] = sub[i + 1]
      BY <2>1, <3>1
    <3> QED BY <3>1, <3>2
  <2>4. UNCHANGED <<emitted, ackChan, st>> /\ routing' \in {Head(sub), None}
    BY <1>10 DEF RouteLookup
  <2> QED BY <2>2, <2>3, <2>4
<1>11. CASE RouteSend
  <2>1. UNCHANGED <<emitted, sub, st>> /\ routing # None /\ routing' = None
    BY <1>11 DEF RouteSend
  <2>2. ASSUME NEW j \in Cmds, ackChan'[j] > 0 \/ st'[j] = "acked" PROVE emitted'[j] > 0
    <3>1. CASE j = routing
      BY <2>1, <3>1
    <3>2. CASE j # routing
      <4>1. ackChan'[j] = ackChan[j]
        BY <1>11, <3>2 DEF RouteSend, TypeOK
      <4> QED BY <2>1, <2>2, <4>1
    <3> QED BY <3>1, <3>2
  <2> QED BY <2>1, <2>2
<1>12. CASE StreamCloses
  <2>1. UNCHANGED <<emitted, sub, routing, ackChan>>
    BY <1>12 DEF StreamCloses
  <2>2. \A j \in Cmds : st'[j] = "acked" => st[j] = "acked"
    BY <1>12 DEF StreamCloses, TypeOK
  <2> QED BY <2>1, <2>2
<1>13. CASE UNCHANGED vars
  BY <1>13 DEF vars
<1> QED BY <1>1, <1>2, <1>3, <1>4, <1>5, <1>6, <1>7, <1>8, <1>9, <1>10, <1>11, <1>12, <1>13 DEF Next, Receive, Waiter, Router

\* The operator is told the truth, once.
LEMMA AnswersStep ==
    ASSUME TypeOK, Unanswered, Heard, AnswersAreTrue, [Next]_vars
    PROVE  AnswersAreTrue'
<1> USE DEF AnswersAreTrue
<1>1. ASSUME NEW k \in Cmds, Reject(k) PROVE AnswersAreTrue'
  <2>1. answers[k] = << >> /\ emitted' = emitted
    BY <1>1 DEF Reject, Unanswered
  <2>2. answers' = answers \/ answers' = [answers EXCEPT ![k] = Append(@, "failed")]
    BY <1>1 DEF Reject, Send
  <2>3. stored' \subseteq Allowed
    BY <1>1 DEF Reject, TypeOK
  <2>4. Append(answers[k], "failed") = <<"failed">> /\ Len(<<"failed">>) = 1
    BY <2>1
  <2>5. ASSUME NEW j \in Cmds PROVE Len(answers'[j]) <= 1 /\ (answers'[j] = <<"ack">> => emitted'[j] > 0)
    <3>1. CASE j = k /\ answers' # answers
      <4>1. answers'[j] = <<"failed">>
        BY <2>2, <2>4, <3>1 DEF TypeOK
      <4>2. <<"failed">> # <<"ack">>
        OBVIOUS
      <4> QED BY <2>4, <4>1, <4>2
    <3>2. CASE j # k \/ answers' = answers
      <4>1. answers'[j] = answers[j]
        BY <2>2, <3>2 DEF TypeOK
      <4> QED BY <2>1, <4>1
    <3> QED BY <3>1, <3>2
  <2> QED BY <2>3, <2>5
<1>2. ASSUME NEW k \in Cmds, Publish(k) PROVE AnswersAreTrue'
  <2>1. UNCHANGED <<answers, emitted>> /\ stored' = stored \cup {k} /\ k \in Allowed
    BY <1>2 DEF Publish
  <2> QED BY <2>1
<1>3. ASSUME NEW k \in Cmds, PublishFails(k) PROVE AnswersAreTrue'
  <2>1. answers[k] = << >> /\ emitted' = emitted
    BY <1>3 DEF PublishFails, Unanswered
  <2>2. answers' = answers \/ answers' = [answers EXCEPT ![k] = Append(@, "failed")]
    BY <1>3 DEF PublishFails, Send
  <2>3. stored' \subseteq Allowed
    BY <1>3 DEF PublishFails, TypeOK
  <2>4. Append(answers[k], "failed") = <<"failed">> /\ Len(<<"failed">>) = 1
    BY <2>1
  <2>5. ASSUME NEW j \in Cmds PROVE Len(answers'[j]) <= 1 /\ (answers'[j] = <<"ack">> => emitted'[j] > 0)
    <3>1. CASE j = k /\ answers' # answers
      <4>1. answers'[j] = <<"failed">>
        BY <2>2, <2>4, <3>1 DEF TypeOK
      <4>2. <<"failed">> # <<"ack">>
        OBVIOUS
      <4> QED BY <2>4, <4>1, <4>2
    <3>2. CASE j # k \/ answers' = answers
      <4>1. answers'[j] = answers[j]
        BY <2>2, <3>2 DEF TypeOK
      <4> QED BY <2>1, <4>1
    <3> QED BY <3>1, <3>2
  <2> QED BY <2>3, <2>5
<1>4. ASSUME NEW k \in Cmds, VehicleAcks(k) PROVE AnswersAreTrue'
  <2>1. UNCHANGED <<answers, stored>> /\ emitted' = [emitted EXCEPT ![k] = @ + 1]
    BY <1>4 DEF VehicleAcks
  <2>2. emitted[k] \in Nat
    BY StreamAssumption DEF StreamAssumption, TypeOK
  <2>3. \A j \in Cmds : emitted[j] > 0 => emitted'[j] > 0
    BY <2>1, <2>2 DEF TypeOK
  <2> QED BY <2>1, <2>3
<1>5. ASSUME NEW k \in Cmds, WaiterAck(k) PROVE AnswersAreTrue'
  <2>1. UNCHANGED <<answers, emitted, stored>>
    BY <1>5 DEF WaiterAck
  <2> QED BY <2>1
<1>6. ASSUME NEW k \in Cmds, WaiterTimeout(k) PROVE AnswersAreTrue'
  <2>1. UNCHANGED <<answers, emitted, stored>>
    BY <1>6 DEF WaiterTimeout
  <2> QED BY <2>1
<1>7. ASSUME NEW k \in Cmds, WaiterAnswers(k) PROVE AnswersAreTrue'
  <2> DEFINE t == IF st[k] = "acked" THEN "ack" ELSE "timeout"
  <2>1. answers[k] = << >> /\ emitted' = emitted
    BY <1>7 DEF WaiterAnswers, Unanswered
  <2>2. answers' = answers \/ answers' = [answers EXCEPT ![k] = Append(@, t)]
    BY <1>7 DEF WaiterAnswers, Send
  <2>3. stored' \subseteq Allowed
    BY <1>7 DEF WaiterAnswers, TypeOK
  <2>4. Append(answers[k], t) = <<t>> /\ Len(<<t>>) = 1
    BY <2>1
  <2>5. ASSUME NEW j \in Cmds PROVE Len(answers'[j]) <= 1 /\ (answers'[j] = <<"ack">> => emitted'[j] > 0)
    <3>1. CASE j = k /\ answers' # answers
      <4>1. answers'[j] = <<t>>
        BY <2>2, <2>4, <3>1 DEF TypeOK
      <4>2. CASE st[k] = "acked"
        <5>1. emitted[k] > 0
          BY <4>2 DEF Heard
        <5> QED BY <2>1, <2>4, <3>1, <4>1, <5>1
      <4>3. CASE st[k] # "acked"
        <5>1. <<t>> # <<"ack">>
          BY <4>3
        <5> QED BY <2>4, <4>1, <5>1
      <4> QED BY <4>2, <4>3
    <3>2. CASE j # k \/ answers' = answers
      <4>1. answers'[j] = answers[j]
        BY <2>2, <3>2 DEF TypeOK
      <4> QED BY <2>1, <4>1
    <3> QED BY <3>1, <3>2
  <2> QED BY <2>3, <2>5
<1>8. ASSUME NEW k \in Cmds, WaiterGone(k) PROVE AnswersAreTrue'
  <2>1. UNCHANGED <<answers, emitted, stored>>
    BY <1>8 DEF WaiterGone
  <2> QED BY <2>1
<1>9. CASE Register
  <2>1. UNCHANGED <<answers, emitted, stored>>
    BY <1>9 DEF Register
  <2> QED BY <2>1
<1>10. CASE RouteLookup
  <2>1. UNCHANGED <<answers, emitted, stored>>
    BY <1>10 DEF RouteLookup
  <2> QED BY <2>1
<1>11. CASE RouteSend
  <2>1. UNCHANGED <<answers, emitted, stored>>
    BY <1>11 DEF RouteSend
  <2> QED BY <2>1
<1>12. CASE StreamCloses
  <2>1. UNCHANGED <<answers, emitted, stored>>
    BY <1>12 DEF StreamCloses
  <2> QED BY <2>1
<1>13. CASE UNCHANGED vars
  BY <1>13 DEF vars
<1> QED BY <1>1, <1>2, <1>3, <1>4, <1>5, <1>6, <1>7, <1>8, <1>9, <1>10, <1>11, <1>12, <1>13 DEF Next, Receive, Waiter, Router

\* pendingACKs is the set of commands somebody waits for.
LEMMA PendingStep ==
    ASSUME TypeOK, LoopInv, PendingIsWaiting, [Next]_vars
    PROVE  PendingIsWaiting'
<1> USE StreamAssumption DEF StreamAssumption, TypeOK, LoopInv, PendingIsWaiting
<1>1. ASSUME NEW k \in Cmds, Reject(k) PROVE PendingIsWaiting'
  BY <1>1 DEF Reject, Send
<1>2. ASSUME NEW k \in Cmds, Publish(k) PROVE PendingIsWaiting'
  BY <1>2 DEF Publish
<1>3. ASSUME NEW k \in Cmds, PublishFails(k) PROVE PendingIsWaiting'
  BY <1>3 DEF PublishFails, Send
<1>4. ASSUME NEW k \in Cmds, VehicleAcks(k) PROVE PendingIsWaiting'
  BY <1>4 DEF VehicleAcks
<1>5. ASSUME NEW k \in Cmds, WaiterAck(k) PROVE PendingIsWaiting'
  BY <1>5 DEF WaiterAck
<1>6. ASSUME NEW k \in Cmds, WaiterTimeout(k) PROVE PendingIsWaiting'
  BY <1>6 DEF WaiterTimeout
<1>7. ASSUME NEW k \in Cmds, WaiterAnswers(k) PROVE PendingIsWaiting'
  BY <1>7 DEF WaiterAnswers, Send
<1>8. ASSUME NEW k \in Cmds, WaiterGone(k) PROVE PendingIsWaiting'
  BY <1>8 DEF WaiterGone
<1>9. CASE Register
  BY <1>9 DEF Register
<1>10. CASE RouteLookup
  BY <1>10 DEF RouteLookup
<1>11. CASE RouteSend
  BY <1>11 DEF RouteSend
<1>12. CASE StreamCloses
  BY <1>12 DEF StreamCloses
<1>13. CASE UNCHANGED vars
  BY <1>13 DEF vars
<1> QED BY <1>1, <1>2, <1>3, <1>4, <1>5, <1>6, <1>7, <1>8, <1>9, <1>10, <1>11, <1>12, <1>13 DEF Next, Receive, Waiter, Router

\* A session starts without commands.
LEMMA GrpcInit == Init => GrpcInv
<1> SUFFICES ASSUME Init PROVE GrpcInv
  OBVIOUS
<1>0. << >> \in Seq(Cmds) /\ << >> \in Seq({"failed", "ack", "timeout"}) /\ Len(<< >>) = 0 /\ DOMAIN << >> = {}
  OBVIOUS
<1>1. sub \in Seq(Cmds) /\ Len(sub) <= SubCap
  BY <1>0, StreamAssumption DEF Init, StreamAssumption
<1>2. emitted \in [Cmds -> 0 .. MaxAcks] /\ ackChan \in [Cmds -> 0 .. 1]
  BY StreamAssumption DEF Init, StreamAssumption
<1>3. answers \in [Cmds -> Seq({"failed", "ack", "timeout"})]
  BY <1>0 DEF Init
<1>4. TypeOK
  BY <1>1, <1>2, <1>3 DEF Init, TypeOK, States
<1>5. AnswersAreTrue
  <2>1. << >> # <<"ack">> /\ Len(<< >>) <= 1
    BY <1>0
  <2> QED BY <2>1 DEF Init, AnswersAreTrue
<1>6. PendingIsWaiting
  BY DEF Init, PendingIsWaiting
<1>7. LoopInv /\ Unanswered
  BY DEF Init, LoopInv, Unanswered
<1>8. Heard
  BY <1>0 DEF Init, Heard
<1> QED BY <1>4, <1>5, <1>6, <1>7, <1>8 DEF GrpcInv, SessionInv

\* Every step of a session keeps the invariant.
LEMMA GrpcStep == GrpcInv /\ [Next]_vars => GrpcInv'
BY SessionType, LoopStep, UnansweredStep, HeardStep, AnswersStep, PendingStep DEF GrpcInv, SessionInv

\* Whatever the vehicle, NATS and the operator do, a SendCommand session tells
\* the operator at most one thing of a command, "ack" only of one its vehicle
\* acknowledged, publishes nothing outside the operator's vehicle_set, and
\* keeps pendingACKs to the commands somebody waits for.
THEOREM SessionSafe == ApiSpec => []SessionInv
<1>1. ApiInit => GrpcInv
  BY GrpcInit DEF ApiInit
<1>2. GrpcInv /\ [GrpcFace \/ RestFace]_apiVars => GrpcInv'
  BY GrpcStep DEF GrpcFace, RestFace, apiVars
<1>3. GrpcInv => SessionInv
  BY DEF GrpcInv
<1> QED BY <1>1, <1>2, <1>3, PTL DEF ApiSpec

(***************************************************************************)
(* The REST face.  What a request's channel holds is an ACK of the command *)
(* it asks about (ChannelInv): the lists only hold requests for their own  *)
(* command.  LiveLists and Answerable say OnlyLiveWaiters and NoHungWaiter *)
(* with the membership the provers understand.                             *)
(***************************************************************************)

ChannelInv == \A r \in Reqs : ch[r] # << >> => ch[r][1].cmd = want[r]

In(s, r) == \E i \in DOMAIN s : s[i] = r

Listed(s, r) == Append(s, r)

LiveLists ==
    \A k \in RestCmds :
        /\ Rest!IsInjective(waiters[k])
        /\ \A r \in Reqs : In(waiters[k], r) => rSt[r] \in {"waiting", "leaving"} /\ want[r] = k

Answerable ==
    \A r \in Reqs : rSt[r] = "waiting" =>
        \/ ch[r] # << >> /\ ch[r][1].cmd = want[r]
        \/ ch[r] = << >> /\ In(waiters[want[r]], r) /\ acks[want[r]] = 0

RestIInv == Rest!TypeOK /\ ChannelInv /\ LiveLists /\ Answerable

\* Membership of the lists, as the model says it and as the proofs do.
LEMMA Membership ==
    ASSUME NEW s \in Seq(Reqs), NEW r
    PROVE  /\ Rest!Contains(s, r) <=> In(s, r)
           /\ r \in Rest!ToSet(s) <=> In(s, r)
BY DEF Rest!Contains, Rest!ToSet, In

\* append(waiters, ch): the list grows by the request.
LEMMA AppendIn ==
    ASSUME NEW s \in Seq(Reqs), NEW r \in Reqs
    PROVE  /\ Listed(s, r) \in Seq(Reqs)
           /\ \A q : In(Listed(s, r), q) <=> In(s, q) \/ q = r
           /\ Rest!IsInjective(s) /\ ~In(s, r) => Rest!IsInjective(Listed(s, r))
<1> DEFINE a == Append(s, r)
<1>1. /\ a \in Seq(Reqs) /\ Len(a) = Len(s) + 1 /\ a[Len(s) + 1] = r /\ Len(s) \in Nat
      /\ DOMAIN s = 1 .. Len(s) /\ DOMAIN a = 1 .. Len(s) + 1
      /\ \A i \in 1 .. Len(s) : a[i] = s[i]
  OBVIOUS
<1> HIDE DEF a
<1>2. \A i \in DOMAIN a : i \in DOMAIN s \/ i = Len(s) + 1
  BY <1>1
<1>3. \A i \in DOMAIN s : i \in DOMAIN a /\ a[i] = s[i]
  BY <1>1
<1>4. Len(s) + 1 \in DOMAIN a
  BY <1>1
<1>5. \A q : In(a, q) <=> In(s, q) \/ q = r
  BY <1>1, <1>2, <1>3, <1>4 DEF In
<1>6. ASSUME Rest!IsInjective(s), ~In(s, r) PROVE Rest!IsInjective(a)
  BY <1>1, <1>2, <1>3, <1>6 DEF In, Rest!IsInjective
<1> QED BY <1>1, <1>5, <1>6 DEF a, Listed

\* The deferred loop: the channel is cut out of the list where it is found first.
LEMMA RemoveIn ==
    ASSUME NEW s \in Seq(Reqs), NEW r \in Reqs, Rest!IsInjective(s)
    PROVE  /\ Rest!RemoveFirst(s, r) \in Seq(Reqs)
           /\ \A q : In(Rest!RemoveFirst(s, r), q) <=> In(s, q) /\ q # r
           /\ Rest!IsInjective(Rest!RemoveFirst(s, r))
<1> DEFINE t == Rest!RemoveFirst(s, r)
<1>1. CASE ~In(s, r)
  <2>1. t = s
    BY <1>1 DEF Rest!RemoveFirst, In
  <2> QED BY <1>1, <2>1 DEF In
<1>2. CASE In(s, r)
  <2>1. PICK m \in DOMAIN s : s[m] = r
    BY <1>2 DEF In
  <2>2. DOMAIN s = 1 .. Len(s) /\ Len(s) \in Nat /\ m \in 1 .. Len(s)
    OBVIOUS
  <2>3. {i \in 1 .. Len(s) : s[i] = r} = {m}
    BY <2>1, <2>2 DEF Rest!IsInjective
  <2>4. Rest!Min({m}) = m
    BY <2>2 DEF Rest!Min
  <2>5. t = Rest!RemoveAt(s, m)
    BY <2>2, <2>3, <2>4 DEF Rest!RemoveFirst, Rest!SelectInSeq
  <2>6. t = SubSeq(s, 1, m - 1) \o SubSeq(s, m + 1, Len(s))
    BY <2>5 DEF Rest!RemoveAt
  <2> HIDE DEF t
  <2> DEFINE u == SubSeq(s, 1, m - 1)
             v == SubSeq(s, m + 1, Len(s))
  <2>7. /\ u \in Seq(Reqs) /\ Len(u) = m - 1
        /\ \A i \in 1 .. (m - 1) : u[i] = s[i]
    BY <2>2
  <2>8. /\ v \in Seq(Reqs) /\ Len(v) = Len(s) - m
        /\ \A i \in 1 .. (Len(s) - m) : v[i] = s[m + i]
    BY <2>2
  <2>9. /\ t \in Seq(Reqs) /\ Len(t) = Len(u) + Len(v)
        /\ \A i \in 1 .. Len(t) : t[i] = IF i <= Len(u) THEN u[i] ELSE v[i - Len(u)]
    BY <2>6, <2>7, <2>8
  <2>10. Len(t) = Len(s) - 1 /\ DOMAIN t = 1 .. (Len(s) - 1)
    BY <2>2, <2>7, <2>8, <2>9
  <2> HIDE DEF u, v
  <2>11. ASSUME NEW i \in DOMAIN t
         PROVE  t[i] = IF i < m THEN s[i] ELSE s[i + 1]
    <3>1. i \in 1 .. (Len(s) - 1) /\ i \in 1 .. Len(t)
      BY <2>2, <2>10
    <3>2. CASE i < m
      <4>1. i <= Len(u) /\ i \in 1 .. (m - 1)
        BY <2>2, <2>7, <3>1, <3>2
      <4> QED BY <2>7, <2>9, <3>1, <3>2, <4>1
    <3>3. CASE ~(i < m)
      <4>1. ~(i <= Len(u)) /\ i - Len(u) \in 1 .. (Len(s) - m) /\ m + (i - Len(u)) = i + 1
        BY <2>2, <2>7, <3>1, <3>3
      <4> QED BY <2>8, <2>9, <3>1, <3>3, <4>1
    <3> QED BY <3>2, <3>3
  <2> DEFINE g(i) == IF i < m THEN i ELSE i + 1
  <2>12. ASSUME NEW i \in DOMAIN t PROVE g(i) \in DOMAIN s /\ g(i) # m /\ t[i] = s[g(i)]
    BY <2>2, <2>10, <2>11
  <2>13. ASSUME NEW j \in DOMAIN s, j # m PROVE \E i \in DOMAIN t : t[i] = s[j]
    <3>1. CASE j < m
      <4>1. j \in DOMAIN t
        BY <2>2, <2>10, <3>1
      <4> QED BY <2>11, <3>1, <4>1
    <3>2. CASE ~(j < m)
      <4>1. j - 1 \in DOMAIN t /\ ~(j - 1 < m) /\ j - 1 + 1 = j
        BY <2>2, <2>10, <2>13, <3>2
      <4> QED BY <2>11, <4>1
    <3> QED BY <3>1, <3>2
  <2>14. ASSUME NEW q PROVE In(t, q) <=> In(s, q) /\ q # r
    <3>1. ASSUME In(t, q) PROVE In(s, q) /\ q # r
      <4>1. PICK i \in DOMAIN t : t[i] = q
        BY <3>1 DEF In
      <4>2. g(i) \in DOMAIN s /\ g(i) # m /\ q = s[g(i)]
        BY <2>12, <4>1
      <4> HIDE DEF g
      <4> QED BY <2>1, <4>2 DEF In, Rest!IsInjective
    <3>2. ASSUME In(s, q), q # r PROVE In(t, q)
      <4>1. PICK j \in DOMAIN s : s[j] = q
        BY <3>2 DEF In
      <4>2. j # m
        BY <2>1, <3>2, <4>1
      <4> QED BY <2>13, <4>1, <4>2 DEF In
    <3> QED BY <3>1, <3>2
  <2>15. Rest!IsInjective(t)
    <3> SUFFICES ASSUME NEW a \in DOMAIN t, NEW b \in DOMAIN t, t[a] = t[b] PROVE a = b
      BY DEF Rest!IsInjective
    <3>1. g(a) = g(b)
      <4>1. /\ g(a) \in DOMAIN s /\ t[a] = s[g(a)]
            /\ g(b) \in DOMAIN s /\ t[b] = s[g(b)]
        BY <2>12
      <4> HIDE DEF g
      <4> QED BY <4>1 DEF Rest!IsInjective
    <3> QED BY <2>2, <2>10, <3>1
  <2> QED BY <2>9, <2>14, <2>15 DEF t
<1> QED BY <1>1, <1>2

\* The variables of the REST face keep their types.
LEMMA RestType ==
    ASSUME Rest!TypeOK, LiveLists, [Rest!Next]_(Rest!vars)
    PROVE  Rest!TypeOK'
<1> USE DEF Rest!TypeOK
<1>0. RestAcks \in Nat
  BY ApiAssumption DEF ApiAssumption
<1>1. ASSUME NEW k \in RestCmds, Rest!VehicleAcks(k) PROVE Rest!TypeOK'
  <2>1. rSub' \in Seq(Rest!Entries) /\ Len(rSub') <= SubCap
    <3> DEFINE e == [cmd |-> k, n |-> rEmitted[k] + 1]
    <3>1. rSub \in Seq(Rest!Entries) /\ Len(rSub) \in Nat /\ Len(rSub) <= SubCap /\ SubCap \in Nat
      BY StreamAssumption DEF StreamAssumption
    <3>2. rEmitted[k] + 1 \in 1 .. RestAcks
      BY <1>1, <1>0 DEF Rest!VehicleAcks
    <3>3. e \in Rest!Entries
      BY <3>2 DEF Rest!Entries
    <3>4. CASE Len(rSub) < SubCap
      <4>1. rSub' = Append(rSub, e)
        BY <1>1, <3>4 DEF Rest!VehicleAcks
      <4> HIDE DEF e
      <4>2. Append(rSub, e) \in Seq(Rest!Entries) /\ Len(Append(rSub, e)) = Len(rSub) + 1
        BY <3>1, <3>3
      <4> QED BY <3>1, <3>4, <4>1, <4>2
    <3>5. CASE ~(Len(rSub) < SubCap)
      BY <1>1, <3>1, <3>5 DEF Rest!VehicleAcks
    <3> QED BY <3>4, <3>5
  <2>2. rEmitted' \in [RestCmds -> 0 .. RestAcks]
    <3>1. rEmitted[k] + 1 \in 0 .. RestAcks
      BY <1>1, <1>0 DEF Rest!VehicleAcks
    <3> QED BY <1>1, <3>1 DEF Rest!VehicleAcks
  <2> QED BY <1>1, <2>1, <2>2 DEF Rest!VehicleAcks
<1>2. ASSUME NEW k \in RestCmds, Rest!Age(k) PROVE Rest!TypeOK'
  BY <1>2 DEF Rest!Age
<1>3. CASE Rest!Consume
  <2> DEFINE e == Head(rSub)
  <2>1. e \in Rest!Entries /\ Tail(rSub) \in Seq(Rest!Entries) /\ Len(Tail(rSub)) = Len(rSub) - 1
    BY <1>3 DEF Rest!Consume
  <2>2. e.cmd \in RestCmds /\ e.n \in 0 .. RestAcks
    BY <1>0, <2>1 DEF Rest!Entries
  <2>3. Len(rSub) \in Nat /\ Len(rSub) <= SubCap /\ SubCap \in Nat
    BY StreamAssumption DEF StreamAssumption
  <2>4. rSub' \in Seq(Rest!Entries) /\ Len(rSub') <= SubCap
    <3>1. rSub' = Tail(rSub)
      BY <1>3 DEF Rest!Consume
    <3>2. Len(Tail(rSub)) <= SubCap
      BY <2>1, <2>3
    <3> QED BY <2>1, <3>1, <3>2
  <2>5. acks' \in [RestCmds -> 0 .. RestAcks]
    BY <1>3, <2>2 DEF Rest!Consume
  <2>6. waiters' \in [RestCmds -> Seq(Reqs)]
    <3>1. << >> \in Seq(Reqs)
      OBVIOUS
    <3> QED BY <1>3, <2>2, <3>1 DEF Rest!Consume
  <2>7. ch' \in [Reqs -> Seq(Rest!Entries)] /\ \A r \in Reqs : Len(ch'[r]) <= 1
    <3>1. <<e>> \in Seq(Rest!Entries) /\ Len(<<e>>) = 1
      BY <2>1
    <3>2. ch' = [r \in Reqs |->
                   IF Rest!Contains(waiters[e.cmd], r) /\ ch[r] = << >> THEN <<e>> ELSE ch[r]]
      BY <1>3 DEF Rest!Consume
    <3> HIDE DEF e
    <3>3. ASSUME NEW r \in Reqs PROVE ch'[r] \in Seq(Rest!Entries) /\ Len(ch'[r]) <= 1
      BY <3>1, <3>2
    <3> QED BY <3>2, <3>3
  <2> QED BY <1>3, <2>4, <2>5, <2>6, <2>7 DEF Rest!Consume
<1>4. CASE Rest!Expire
  BY <1>4, <1>0 DEF Rest!Expire
<1>5. ASSUME NEW r \in Reqs, Rest!SseOpen(r) PROVE Rest!TypeOK'
  <2>1. want[r] \in RestCmds /\ waiters[want[r]] \in Seq(Reqs)
    OBVIOUS
  <2>2. Append(waiters[want[r]], r) \in Seq(Reqs)
    BY <2>1, AppendIn DEF Listed
  <2>3. waiters' \in [RestCmds -> Seq(Reqs)]
    BY <1>5, <2>1, <2>2 DEF Rest!SseOpen
  <2>4. told' \in [Reqs -> Seq(Rest!Entries)]
    <3>1. CASE acks[want[r]] # 0
      <4>1. acks[want[r]] \in 1 .. RestAcks
        BY <1>0, <2>1, <3>1
      <4>2. [cmd |-> want[r], n |-> acks[want[r]]] \in Rest!Entries
        BY <2>1, <4>1 DEF Rest!Entries
      <4>3. <<[cmd |-> want[r], n |-> acks[want[r]]]>> \in Seq(Rest!Entries)
        BY <4>2
      <4> QED BY <1>5, <3>1, <4>3 DEF Rest!SseOpen
    <3>2. CASE acks[want[r]] = 0
      BY <1>5, <3>2 DEF Rest!SseOpen
    <3> QED BY <3>1, <3>2
  <2> QED BY <1>5, <2>3, <2>4 DEF Rest!SseOpen
<1>6. ASSUME NEW r \in Reqs, Rest!SseDeliver(r) PROVE Rest!TypeOK'
  <2>1. << >> \in Seq(Rest!Entries) /\ Len(<< >>) <= 1
    OBVIOUS
  <2>2. ch' \in [Reqs -> Seq(Rest!Entries)] /\ \A q \in Reqs : Len(ch'[q]) <= 1
    BY <1>6, <2>1 DEF Rest!SseDeliver
  <2> QED BY <1>6, <2>2 DEF Rest!SseDeliver
<1>7. ASSUME NEW r \in Reqs, Rest!SseGone(r) PROVE Rest!TypeOK'
  BY <1>7 DEF Rest!SseGone
<1>8. ASSUME NEW r \in Reqs, Rest!SseDeferred(r) PROVE Rest!TypeOK'
  <2>1. want[r] \in RestCmds /\ waiters[want[r]] \in Seq(Reqs) /\ Rest!IsInjective(waiters[want[r]])
    BY DEF LiveLists
  <2>2. Rest!RemoveFirst(waiters[want[r]], r) \in Seq(Reqs)
    BY <2>1, RemoveIn
  <2>3. waiters' = [waiters EXCEPT ![want[r]] = Rest!RemoveFirst(waiters[want[r]], r)]
    BY <1>8 DEF Rest!SseDeferred
  <2>4. waiters' \in [RestCmds -> Seq(Reqs)]
    BY <2>1, <2>2, <2>3
  <2> QED BY <1>8, <2>4 DEF Rest!SseDeferred
<1>9. CASE UNCHANGED Rest!vars
  BY <1>9 DEF Rest!vars
<1>10. ASSUME NEW r \in Reqs, Rest!Cut(r) PROVE Rest!TypeOK'
  BY <1>10 DEF Rest!Cut
<1> QED BY <1>1, <1>2, <1>3, <1>4, <1>5, <1>6, <1>7, <1>8, <1>9, <1>10 DEF Rest!Next, Rest!Sse

\* The lists in terms of membership.
LEMMA Lists ==
    ASSUME Rest!TypeOK
    PROVE  (Rest!OnlyLiveWaiters <=> LiveLists) /\ (Rest!NoHungWaiter <=> Answerable)
<1>1. \A k \in RestCmds : waiters[k] \in Seq(Reqs)
  BY DEF Rest!TypeOK
<1>2. \A k \in RestCmds : \A r : r \in Rest!ToSet(waiters[k]) <=> In(waiters[k], r)
  BY <1>1, Membership
<1>3. \A r \in Reqs : want[r] \in RestCmds
  BY DEF Rest!TypeOK
<1>4. \A r \in Reqs : Rest!Contains(waiters[want[r]], r) <=> In(waiters[want[r]], r)
  BY <1>1, <1>3, Membership
<1>5. Rest!OnlyLiveWaiters <=> LiveLists
  <2>1. ASSUME NEW k \in RestCmds, NEW r, In(waiters[k], r) PROVE r \in Reqs
    BY <1>1, <2>1 DEF In
  <2> QED BY <1>2, <2>1 DEF Rest!OnlyLiveWaiters, LiveLists
<1>6. Rest!NoHungWaiter <=> Answerable
  BY <1>4 DEF Rest!NoHungWaiter, Answerable
<1> QED BY <1>5, <1>6

\* A channel holds an ACK of the command its request asks about.
LEMMA ChannelStep ==
    ASSUME Rest!TypeOK, LiveLists, ChannelInv, [Rest!Next]_(Rest!vars)
    PROVE  ChannelInv'
<1> USE DEF ChannelInv
<1>1. ASSUME NEW k \in RestCmds, Rest!VehicleAcks(k) PROVE ChannelInv'
  <2>1. UNCHANGED <<ch, want>>
    BY <1>1 DEF Rest!VehicleAcks
  <2> QED BY <2>1
<1>2. ASSUME NEW k \in RestCmds, Rest!Age(k) PROVE ChannelInv'
  <2>1. UNCHANGED <<ch, want>>
    BY <1>2 DEF Rest!Age
  <2> QED BY <2>1
<1>3. CASE Rest!Consume
  <2> DEFINE e == Head(rSub)
  <2>1. e \in Rest!Entries /\ e.cmd \in RestCmds
    <3>1. rSub \in Seq(Rest!Entries) /\ rSub # << >>
      BY <1>3 DEF Rest!Consume, Rest!TypeOK
    <3>2. e \in Rest!Entries
      BY <3>1
    <3> QED BY <3>2 DEF Rest!Entries
  <2>2. want' = want /\ ch' = [r \in Reqs |->
                   IF Rest!Contains(waiters[e.cmd], r) /\ ch[r] = << >> THEN <<e>> ELSE ch[r]]
    BY <1>3 DEF Rest!Consume
  <2>3. waiters[e.cmd] \in Seq(Reqs)
    BY <2>1 DEF Rest!TypeOK
  <2> HIDE DEF e
  <2>4. ASSUME NEW r \in Reqs, ch'[r] # << >> PROVE ch'[r][1].cmd = want[r]
    <3>1. CASE Rest!Contains(waiters[e.cmd], r) /\ ch[r] = << >>
      <4>1. In(waiters[e.cmd], r)
        BY <2>3, <3>1, Membership
      <4>2. want[r] = e.cmd
        BY <2>1, <4>1 DEF LiveLists
      <4>3. ch'[r] = <<e>>
        BY <2>2, <3>1
      <4> QED BY <4>2, <4>3
    <3>2. CASE ~(Rest!Contains(waiters[e.cmd], r) /\ ch[r] = << >>)
      <4>1. ch'[r] = ch[r]
        BY <2>2, <3>2
      <4> QED BY <2>4, <4>1
    <3> QED BY <3>1, <3>2
  <2> QED BY <2>2, <2>4
<1>4. CASE Rest!Expire
  <2>1. UNCHANGED <<ch, want>>
    BY <1>4 DEF Rest!Expire
  <2> QED BY <2>1
<1>5. ASSUME NEW r \in Reqs, Rest!SseOpen(r) PROVE ChannelInv'
  <2>1. UNCHANGED <<ch, want>>
    BY <1>5 DEF Rest!SseOpen
  <2> QED BY <2>1
<1>6. ASSUME NEW r \in Reqs, Rest!SseDeliver(r) PROVE ChannelInv'
  BY <1>6 DEF Rest!SseDeliver, Rest!TypeOK
<1>7. ASSUME NEW r \in Reqs, Rest!SseGone(r) PROVE ChannelInv'
  <2>1. UNCHANGED <<ch, want>>
    BY <1>7 DEF Rest!SseGone
  <2> QED BY <2>1
<1>8. ASSUME NEW r \in Reqs, Rest!SseDeferred(r) PROVE ChannelInv'
  <2>1. UNCHANGED <<ch, want>>
    BY <1>8 DEF Rest!SseDeferred
  <2> QED BY <2>1
<1>9. CASE UNCHANGED Rest!vars
  BY <1>9 DEF Rest!vars
<1>10. ASSUME NEW r \in Reqs, Rest!Cut(r) PROVE ChannelInv'
  <2>1. UNCHANGED <<ch, want>>
    BY <1>10 DEF Rest!Cut
  <2> QED BY <2>1
<1> QED BY <1>1, <1>2, <1>3, <1>4, <1>5, <1>6, <1>7, <1>8, <1>9, <1>10 DEF Rest!Next, Rest!Sse

\* The lists hold live requests for their own command, each once.
LEMMA ListsStep ==
    ASSUME Rest!TypeOK, LiveLists, [Rest!Next]_(Rest!vars)
    PROVE  LiveLists'
<1> USE DEF LiveLists
<1>1. ASSUME NEW k \in RestCmds, Rest!VehicleAcks(k) PROVE LiveLists'
  <2>1. UNCHANGED <<waiters, rSt, want>>
    BY <1>1 DEF Rest!VehicleAcks
  <2> QED BY <2>1
<1>2. ASSUME NEW k \in RestCmds, Rest!Age(k) PROVE LiveLists'
  <2>1. UNCHANGED <<waiters, rSt, want>>
    BY <1>2 DEF Rest!Age
  <2> QED BY <2>1
<1>3. CASE Rest!Consume
  <2> DEFINE e == Head(rSub)
  <2>1. waiters' = [waiters EXCEPT ![e.cmd] = << >>] /\ UNCHANGED <<rSt, want>>
    BY <1>3 DEF Rest!Consume
  <2> HIDE DEF e
  <2>2. DOMAIN << >> = {}
    OBVIOUS
  <2>3. ASSUME NEW k \in RestCmds
        PROVE  waiters'[k] = waiters[k] \/ waiters'[k] = << >>
    BY <2>1 DEF Rest!TypeOK
  <2>4. Rest!IsInjective(<< >>) /\ \A r : ~In(<< >>, r)
    BY <2>2 DEF Rest!IsInjective, In
  <2> QED BY <2>1, <2>3, <2>4
<1>4. CASE Rest!Expire
  <2>1. UNCHANGED <<waiters, rSt, want>>
    BY <1>4 DEF Rest!Expire
  <2> QED BY <2>1
<1>5. ASSUME NEW r \in Reqs, Rest!SseOpen(r) PROVE LiveLists'
  <2>1. want[r] \in RestCmds /\ waiters[want[r]] \in Seq(Reqs)
    BY DEF Rest!TypeOK
  <2>2. \A k \in RestCmds : ~In(waiters[k], r)
    BY <1>5 DEF Rest!SseOpen
  <2>3. want' = want /\ \A q \in Reqs : q # r => rSt'[q] = rSt[q]
    BY <1>5 DEF Rest!SseOpen, Rest!TypeOK
  <2>4. CASE waiters' = waiters
    BY <2>2, <2>3, <2>4
  <2>5. CASE acks[want[r]] = 0
    <3>1. /\ waiters' = [waiters EXCEPT ![want[r]] = Append(@, r)]
          /\ rSt' = [rSt EXCEPT ![r] = "waiting"]
      BY <1>5, <2>5 DEF Rest!SseOpen
    <3>2. rSt'[r] = "waiting"
      BY <3>1 DEF Rest!TypeOK
    <3>3. /\ waiters'[want[r]] = Listed(waiters[want[r]], r)
          /\ \A k \in RestCmds \ {want[r]} : waiters'[k] = waiters[k]
      BY <2>1, <3>1 DEF Rest!TypeOK, Listed
    <3>4. ASSUME NEW k \in RestCmds
          PROVE  /\ Rest!IsInjective(waiters'[k])
                 /\ \A q \in Reqs : In(waiters'[k], q) => rSt'[q] \in {"waiting", "leaving"} /\ want[q] = k
      <4>1. CASE k = want[r]
        <5>1. Rest!IsInjective(waiters'[k])
          BY <2>1, <2>2, <3>3, <4>1, AppendIn
        <5>2. \A q : In(waiters'[k], q) <=> In(waiters[k], q) \/ q = r
          BY <2>1, <3>3, <4>1, AppendIn
        <5> QED BY <2>3, <3>2, <4>1, <5>1, <5>2
      <4>2. CASE k # want[r]
        <5>1. waiters'[k] = waiters[k]
          BY <3>3, <4>2
        <5> QED BY <2>2, <2>3, <5>1
      <4> QED BY <4>1, <4>2
    <3> QED BY <2>3, <3>4
  <2> QED BY <1>5, <2>4, <2>5 DEF Rest!SseOpen
<1>6. ASSUME NEW r \in Reqs, Rest!SseDeliver(r) PROVE LiveLists'
  <2>1. /\ UNCHANGED <<waiters, want>> /\ rSt' = [rSt EXCEPT ![r] = "leaving"]
    BY <1>6 DEF Rest!SseDeliver
  <2>2. \A q \in Reqs : rSt[q] \in {"waiting", "leaving"} => rSt'[q] \in {"waiting", "leaving"}
    BY <2>1 DEF Rest!TypeOK
  <2> QED BY <2>1, <2>2
<1>7. ASSUME NEW r \in Reqs, Rest!SseGone(r) PROVE LiveLists'
  <2>1. /\ UNCHANGED <<waiters, want>> /\ rSt' = [rSt EXCEPT ![r] = "leaving"]
    BY <1>7 DEF Rest!SseGone
  <2>2. \A q \in Reqs : rSt[q] \in {"waiting", "leaving"} => rSt'[q] \in {"waiting", "leaving"}
    BY <2>1 DEF Rest!TypeOK
  <2> QED BY <2>1, <2>2
<1>8. ASSUME NEW r \in Reqs, Rest!SseDeferred(r) PROVE LiveLists'
  <2> DEFINE w == waiters[want[r]]
  <2>1. want[r] \in RestCmds /\ w \in Seq(Reqs) /\ Rest!IsInjective(w)
    BY DEF Rest!TypeOK
  <2>2. /\ waiters' = [waiters EXCEPT ![want[r]] = Rest!RemoveFirst(w, r)]
        /\ rSt' = [rSt EXCEPT ![r] = "done"] /\ want' = want
    BY <1>8 DEF Rest!SseDeferred
  <2>3. \A q \in Reqs : q # r => rSt'[q] = rSt[q]
    BY <2>2 DEF Rest!TypeOK
  <2>4. /\ waiters'[want[r]] = Rest!RemoveFirst(w, r)
        /\ \A k \in RestCmds \ {want[r]} : waiters'[k] = waiters[k]
    BY <2>1, <2>2 DEF Rest!TypeOK
  <2>5. ASSUME NEW k \in RestCmds
        PROVE  /\ Rest!IsInjective(waiters'[k])
               /\ \A q \in Reqs : In(waiters'[k], q) => rSt'[q] \in {"waiting", "leaving"} /\ want[q] = k
    <3>1. CASE k = want[r]
      <4>1. /\ Rest!IsInjective(waiters'[k])
            /\ \A q : In(waiters'[k], q) <=> In(waiters[k], q) /\ q # r
        BY <2>1, <2>4, <3>1, RemoveIn
      <4> QED BY <2>3, <4>1
    <3>2. CASE k # want[r]
      <4>1. waiters'[k] = waiters[k] /\ ~In(waiters[k], r)
        BY <2>4, <3>2
      <4> QED BY <2>3, <4>1
    <3> QED BY <3>1, <3>2
  <2> QED BY <2>2, <2>5
<1>9. CASE UNCHANGED Rest!vars
  BY <1>9 DEF Rest!vars
<1>10. ASSUME NEW r \in Reqs, Rest!Cut(r) PROVE LiveLists'
  <2>1. UNCHANGED <<waiters, rSt, want>>
    BY <1>10 DEF Rest!Cut
  <2> QED BY <2>1
<1> QED BY <1>1, <1>2, <1>3, <1>4, <1>5, <1>6, <1>7, <1>8, <1>9, <1>10 DEF Rest!Next, Rest!Sse

\* A waiting request has its ACK or is on the list of a command that has none on file.
LEMMA AnswerableStep ==
    ASSUME Rest!TypeOK, LiveLists, ChannelInv, ChannelInv', Answerable, [Rest!Next]_(Rest!vars)
    PROVE  Answerable'
<1> USE DEF Answerable
<1>1. ASSUME NEW k \in RestCmds, Rest!VehicleAcks(k) PROVE Answerable'
  <2>1. UNCHANGED <<rSt, ch, want, waiters, acks>>
    BY <1>1 DEF Rest!VehicleAcks
  <2> QED BY <2>1
<1>2. ASSUME NEW k \in RestCmds, Rest!Age(k) PROVE Answerable'
  <2>1. UNCHANGED <<rSt, ch, want, waiters, acks>>
    BY <1>2 DEF Rest!Age
  <2> QED BY <2>1
<1>3. CASE Rest!Consume
  <2> DEFINE e == Head(rSub)
  <2>1. /\ acks' = [acks EXCEPT ![e.cmd] = e.n]
        /\ waiters' = [waiters EXCEPT ![e.cmd] = << >>]
        /\ ch' = [r \in Reqs |->
                     IF Rest!Contains(waiters[e.cmd], r) /\ ch[r] = << >> THEN <<e>> ELSE ch[r]]
        /\ UNCHANGED <<rSt, want>>
    BY <1>3 DEF Rest!Consume
  <2> HIDE DEF e
  <2> SUFFICES ASSUME NEW r \in Reqs, rSt'[r] = "waiting"
               PROVE  \/ ch'[r] # << >> /\ ch'[r][1].cmd = want'[r]
                      \/ ch'[r] = << >> /\ In(waiters'[want'[r]], r) /\ acks'[want'[r]] = 0
    OBVIOUS
  <2>2. want[r] \in RestCmds /\ waiters[want[r]] \in Seq(Reqs) /\ want'[r] = want[r] /\ rSt[r] = "waiting"
    BY <2>1 DEF Rest!TypeOK
  <2>3. CASE ch[r] # << >>
    <3>1. ch'[r] = ch[r]
      BY <2>1, <2>3
    <3> QED BY <2>2, <2>3, <3>1
  <2>4. CASE ch[r] = << >> /\ want[r] = e.cmd
    <3>1. Rest!Contains(waiters[e.cmd], r)
      BY <2>2, <2>4, Membership
    <3>2. ch'[r] = <<e>>
      BY <2>1, <2>4, <3>1
    <3>3. <<e>> # << >> /\ <<e>>[1] = e
      OBVIOUS
    <3> QED BY <2>2, <2>4, <3>2, <3>3
  <2>5. CASE ch[r] = << >> /\ want[r] # e.cmd
    <3>1. acks'[want[r]] = acks[want[r]] /\ waiters'[want[r]] = waiters[want[r]]
      BY <2>1, <2>2, <2>5 DEF Rest!TypeOK
    <3>2. CASE ch'[r] = << >>
      BY <2>2, <2>5, <3>1, <3>2
    <3>3. CASE ch'[r] # << >>
      BY <2>2, <3>3 DEF ChannelInv
    <3> QED BY <3>2, <3>3
  <2> QED BY <2>3, <2>4, <2>5
<1>4. CASE Rest!Expire
  <2>1. UNCHANGED <<rSt, ch, want, waiters>> /\ \A k \in RestCmds : acks[k] = 0 => acks'[k] = 0
    BY <1>4 DEF Rest!Expire, Rest!TypeOK
  <2>2. \A r \in Reqs : want[r] \in RestCmds
    BY DEF Rest!TypeOK
  <2> QED BY <2>1, <2>2
<1>5. ASSUME NEW r \in Reqs, Rest!SseOpen(r) PROVE Answerable'
  <2>1. UNCHANGED <<ch, want, acks>> /\ \A q \in Reqs : q # r => rSt'[q] = rSt[q]
    BY <1>5 DEF Rest!SseOpen, Rest!TypeOK
  <2>2. want[r] \in RestCmds /\ waiters[want[r]] \in Seq(Reqs)
    BY DEF Rest!TypeOK
  <2>3. ASSUME NEW k \in RestCmds, NEW q, In(waiters[k], q) PROVE In(waiters'[k], q)
    <3>1. waiters'[k] = waiters[k] \/ (k = want[r] /\ waiters'[k] = Listed(waiters[want[r]], r))
      BY <1>5 DEF Rest!SseOpen, Rest!TypeOK, Listed
    <3> QED BY <2>2, <2>3, <3>1, AppendIn
  <2>4. ASSUME NEW q \in Reqs, rSt'[q] = "waiting"
        PROVE  \/ ch[q] # << >> /\ ch[q][1].cmd = want[q]
               \/ ch[q] = << >> /\ In(waiters'[want[q]], q) /\ acks[want[q]] = 0
    <3>1. CASE q # r
      <4>1. rSt[q] = "waiting" /\ want[q] \in RestCmds
        BY <2>1, <2>4, <3>1 DEF Rest!TypeOK
      <4> QED BY <2>3, <4>1
    <3>2. CASE q = r /\ ch[r] # << >>
      BY <3>2 DEF ChannelInv
    <3>3. CASE q = r /\ ch[r] = << >>
      <4>1. acks[want[r]] = 0
        BY <1>5, <2>4, <3>3 DEF Rest!SseOpen, Rest!TypeOK
      <4>2. waiters'[want[r]] = Listed(waiters[want[r]], r)
        BY <1>5, <2>2, <4>1 DEF Rest!SseOpen, Rest!TypeOK, Listed
      <4>3. In(waiters'[want[r]], r)
        BY <2>2, <4>2, AppendIn
      <4> QED BY <3>3, <4>1, <4>3
    <3> QED BY <3>1, <3>2, <3>3
  <2> QED BY <2>1, <2>4
<1>6. ASSUME NEW r \in Reqs, Rest!SseDeliver(r) PROVE Answerable'
  <2>1. /\ UNCHANGED <<waiters, want, acks>>
        /\ \A q \in Reqs : rSt'[q] = "waiting" => rSt[q] = "waiting" /\ ch'[q] = ch[q]
    BY <1>6 DEF Rest!SseDeliver, Rest!TypeOK
  <2> QED BY <2>1
<1>7. ASSUME NEW r \in Reqs, Rest!SseGone(r) PROVE Answerable'
  <2>1. /\ UNCHANGED <<waiters, want, acks, ch>>
        /\ \A q \in Reqs : rSt'[q] = "waiting" => rSt[q] = "waiting"
    BY <1>7 DEF Rest!SseGone, Rest!TypeOK
  <2> QED BY <2>1
<1>8. ASSUME NEW r \in Reqs, Rest!SseDeferred(r) PROVE Answerable'
  <2> DEFINE w == waiters[want[r]]
  <2>1. want[r] \in RestCmds /\ w \in Seq(Reqs) /\ Rest!IsInjective(w)
    BY DEF Rest!TypeOK, LiveLists
  <2>2. /\ waiters' = [waiters EXCEPT ![want[r]] = Rest!RemoveFirst(w, r)]
        /\ UNCHANGED <<want, acks, ch>>
    BY <1>8 DEF Rest!SseDeferred
  <2>3. \A q \in Reqs : rSt'[q] = "waiting" => rSt[q] = "waiting" /\ q # r
    BY <1>8 DEF Rest!SseDeferred, Rest!TypeOK
  <2>4. /\ waiters'[want[r]] = Rest!RemoveFirst(w, r)
        /\ \A k \in RestCmds \ {want[r]} : waiters'[k] = waiters[k]
    BY <2>1, <2>2 DEF Rest!TypeOK
  <2>5. ASSUME NEW k \in RestCmds, NEW q, q # r, In(waiters[k], q) PROVE In(waiters'[k], q)
    <3>1. CASE k = want[r]
      BY <2>1, <2>4, <2>5, <3>1, RemoveIn
    <3>2. CASE k # want[r]
      <4>1. waiters'[k] = waiters[k]
        BY <2>4, <3>2
      <4> QED BY <2>5, <4>1
    <3> QED BY <3>1, <3>2
  <2>6. \A q \in Reqs : want[q] \in RestCmds
    BY DEF Rest!TypeOK
  <2> QED BY <2>2, <2>3, <2>5, <2>6
<1>9. CASE UNCHANGED Rest!vars
  BY <1>9 DEF Rest!vars
<1>10. ASSUME NEW r \in Reqs, Rest!Cut(r) PROVE Answerable'
  <2>1. UNCHANGED <<rSt, ch, want, waiters, acks>>
    BY <1>10 DEF Rest!Cut
  <2> QED BY <2>1
<1> QED BY <1>1, <1>2, <1>3, <1>4, <1>5, <1>6, <1>7, <1>8, <1>9, <1>10 DEF Rest!Next, Rest!Sse

\* The ACK store starts empty.
LEMMA RestInit == Rest!Init => RestIInv
<1> SUFFICES ASSUME Rest!Init PROVE RestIInv
  OBVIOUS
<1>0. << >> \in Seq(Reqs) /\ << >> \in Seq(Rest!Entries) /\ Len(<< >>) = 0 /\ DOMAIN << >> = {}
  OBVIOUS
<1>1. rSub \in Seq(Rest!Entries) /\ Len(rSub) <= SubCap
  BY <1>0, StreamAssumption DEF Rest!Init, StreamAssumption
<1>2. rEmitted \in [RestCmds -> 0 .. RestAcks] /\ acks \in [RestCmds -> 0 .. RestAcks]
  <2>1. RestAcks \in Nat
    BY ApiAssumption DEF ApiAssumption
  <2> QED BY <2>1 DEF Rest!Init
<1>3. waiters \in [RestCmds -> Seq(Reqs)] /\ told \in [Reqs -> Seq(Rest!Entries)]
  BY <1>0 DEF Rest!Init
<1>4. ch \in [Reqs -> Seq(Rest!Entries)] /\ \A r \in Reqs : Len(ch[r]) <= 1
  BY <1>0 DEF Rest!Init
<1>5. Rest!TypeOK
  BY <1>1, <1>2, <1>3, <1>4 DEF Rest!Init, Rest!TypeOK
<1>6. ChannelInv /\ Answerable
  BY DEF Rest!Init, ChannelInv, Answerable
<1>7. Rest!IsInjective(<< >>) /\ \A r : ~In(<< >>, r)
  BY <1>0 DEF Rest!IsInjective, In
<1>8. LiveLists
  BY <1>7 DEF Rest!Init, LiveLists
<1> QED BY <1>5, <1>6, <1>8 DEF RestIInv

\* Every step of the listener, the ticker and the requests keeps the invariant.
LEMMA RestStep == RestIInv /\ [Rest!Next]_(Rest!vars) => RestIInv'
BY RestType, ChannelStep, ListsStep, AnswerableStep DEF RestIInv

\* However many SSE requests, ACKs and expiries of handleCommandStream and
\* startACKListener interleave: a waiting request has its ACK or is on the list
\* of a command without one on file, and rs.waiters holds live requests only,
\* each once and under its own command.
THEOREM RestSafe == ApiSpec => []RestInv
<1>1. ApiInit => RestIInv
  BY RestInit DEF ApiInit
<1>2. RestIInv /\ [GrpcFace \/ RestFace]_apiVars => RestIInv'
  BY RestStep DEF GrpcFace, RestFace, apiVars, restVars, Rest!vars
<1>3. RestIInv => RestInv
  BY Lists DEF RestIInv, RestInv
<1> QED BY <1>1, <1>2, <1>3, PTL DEF ApiSpec

(***************************************************************************)
(* The codecs.  A message says a value under a field number when one field *)
(* has that number, the wire type and the value; it is silent about a      *)
(* number no field has.  The decoder's last value is then the value said,  *)
(* or the default.                                                         *)
(***************************************************************************)

Says(m, n, w, v) ==
    \E i \in DOMAIN m : m[i] = Field(n, w, v) /\ \A j \in DOMAIN m : m[j].num = n => j = i

Silent(m, n) == \A j \in DOMAIN m : m[j].num # n

Plus(m, f) == m \o <<f>>

\* The decoder finds what the message says ...
LEMMA Said ==
    ASSUME NEW F, NEW m \in Seq(F), NEW n, NEW w, NEW v, NEW d, Says(m, n, w, v)
    PROVE  LastField(m, n, w, d) = v
<1>1. PICK i \in DOMAIN m : m[i] = Field(n, w, v) /\ \A j \in DOMAIN m : m[j].num = n => j = i
  BY DEF Says
<1>2. m[i].num = n /\ m[i].wire = w /\ m[i].val = v
  BY <1>1 DEF Field
<1>3. {j \in DOMAIN m : m[j].num = n /\ m[j].wire = w} = {i}
  BY <1>1, <1>2
<1>4. i \in Int
  OBVIOUS
<1>5. Max({i}) = i
  BY <1>4 DEF Max
<1> QED BY <1>2, <1>3, <1>5 DEF LastField

\* ... and takes the default where it is silent.
LEMMA Unsaid ==
    ASSUME NEW m, NEW n, NEW w, NEW d, Silent(m, n)
    PROVE  LastField(m, n, w, d) = d
<1>1. {j \in DOMAIN m : m[j].num = n /\ m[j].wire = w} = {}
  BY DEF Silent
<1> QED BY <1>1 DEF LastField

\* A field that is left out, and one that is not.
LEMMA OptionalField ==
    ASSUME NEW F, NEW m \in Seq(F), NEW f
    PROVE  /\ m \o Optional(FALSE, f) = m
           /\ m \o Optional(TRUE, f) = Plus(m, f)
<1>1. m \o << >> = m
  OBVIOUS
<1> QED BY <1>1 DEF Optional, Plus

\* A field of another wire type is not read.
LEMMA OtherWire ==
    ASSUME NEW m, NEW n, NEW w, NEW v, NEW x, NEW d, Says(m, n, w, v), x # w
    PROVE  LastField(m, n, x, d) = d
<1>1. \A j \in DOMAIN m : m[j].num = n => m[j].wire = w
  BY DEF Says, Field
<1>2. {j \in DOMAIN m : m[j].num = n /\ m[j].wire = x} = {}
  BY <1>1
<1> QED BY <1>2 DEF LastField

\* One more field says its value and disturbs no other number.
LEMMA OneMore ==
    ASSUME NEW F, NEW m \in Seq(F), NEW r, NEW g, NEW u, NEW x,
           Field(g, u, x) \in F, r = Plus(m, Field(g, u, x))
    PROVE  /\ r \in Seq(F)
           /\ \A n, w, v : n # g /\ Says(m, n, w, v) => Says(r, n, w, v)
           /\ \A n : n # g /\ Silent(m, n) => Silent(r, n)
           /\ Silent(m, g) => Says(r, g, u, x)
<1> DEFINE f == Field(g, u, x)
           k == Len(m) + 1
<1>1. f.num = g
  BY DEF Field
<1>2. r = m \o <<f>>
  BY DEF Plus
<1> HIDE DEF f
<1>3. f \in F
  BY DEF f
<1>4. <<f>> \in Seq(F) /\ Len(<<f>>) = 1 /\ <<f>>[1] = f
  BY <1>3
<1>5. /\ r \in Seq(F) /\ Len(r) = k /\ Len(m) \in Nat /\ r[k] = f
      /\ \A j \in 1 .. Len(m) : r[j] = m[j]
  BY <1>2, <1>3, <1>4
<1>6. DOMAIN r = 1 .. k /\ DOMAIN m = 1 .. Len(m)
  BY <1>5
<1>7. k \in DOMAIN r /\ k \notin DOMAIN m
  BY <1>5, <1>6
<1>8. \A j \in DOMAIN m : j \in DOMAIN r /\ r[j] = m[j]
  BY <1>5, <1>6
<1>9. \A j \in DOMAIN r : j \in DOMAIN m \/ j = k
  BY <1>5, <1>6
<1> HIDE DEF k
<1>10. ASSUME NEW n, NEW w, NEW v, n # g, Says(m, n, w, v) PROVE Says(r, n, w, v)
  <2>1. PICK i \in DOMAIN m : m[i] = Field(n, w, v) /\ \A j \in DOMAIN m : m[j].num = n => j = i
    BY <1>10 DEF Says
  <2>2. i \in DOMAIN r /\ r[i] = Field(n, w, v)
    BY <1>8, <2>1
  <2>3. ASSUME NEW j \in DOMAIN r, r[j].num = n PROVE j = i
    <3>1. j # k
      BY <1>1, <1>5, <1>10, <2>3
    <3>2. j \in DOMAIN m /\ m[j].num = n
      BY <1>8, <1>9, <2>3, <3>1
    <3> QED BY <2>1, <3>2
  <2> QED BY <2>2, <2>3 DEF Says
<1>11. ASSUME NEW n, n # g, Silent(m, n) PROVE Silent(r, n)
  BY <1>1, <1>5, <1>8, <1>9, <1>11 DEF Silent
<1>12. ASSUME Silent(m, g) PROVE Says(r, g, u, x)
  <2>1. r[k] = Field(g, u, x)
    BY <1>5 DEF f
  <2>2. ASSUME NEW j \in DOMAIN r, r[j].num = g PROVE j = k
    BY <1>8, <1>9, <1>12, <2>2 DEF Silent
  <2> QED BY <1>7, <2>1, <2>2 DEF Says
<1> QED BY <1>5, <1>10, <1>11, <1>12

\* Every command command-api publishes decodes at the agent, with its target,
\* id, payload and TTL; its priority is read on the agent's own scale.
LEMMA NoneMangled == Mangled = {}
<1> SUFFICES ASSUME NEW cmd \in Envelopes
             PROVE  LET m == encodeCommandEnvelope(cmd)
                    IN  decodable(m) /\ decode_command_envelope(m) = Received(cmd)
  BY DEF Mangled
<1> DEFINE f1 == Field(1, LenDelim, cmd.vehicleID)
           f2 == Field(2, LenDelim, cmd.commandID)
           f3 == Field(3, LenDelim, cmd.payload)
           f4 == Field(4, Varint, cmd.priority)
           f5 == Field(5, LenDelim, cmd.issuerID)
           f6 == Field(6, Varint, cmd.issuedAt)
           f7 == Field(7, Varint, cmd.ttlMs)
           F == {f1, f2, f3, f4, f5, f6, f7}
           a == <<f1, f2, f3, f4>>
           b == a \o Optional(cmd.issuerID # "", f5)
           c == b \o Optional(cmd.issuedAt > 0, f6)
           m == c \o Optional(cmd.ttlMs > 0, f7)
<1>1. /\ cmd.vehicleID \in Ids /\ cmd.commandID \in Ids
      /\ cmd.ttlMs \in Times /\ cmd.issuedAt \in Times
  BY DEF Envelopes
<1>2. cmd.vehicleID # "" /\ cmd.commandID # ""
  BY <1>1, ApiAssumption DEF ApiAssumption
<1>3. cmd.ttlMs \in Nat /\ cmd.issuedAt \in Nat
  BY <1>1, ApiAssumption DEF ApiAssumption
<1>4. a \in Seq(F) /\ DOMAIN a = 1 .. 4
  OBVIOUS
<1>5. a[1].num = 1 /\ a[2].num = 2 /\ a[3].num = 3 /\ a[4].num = 4
  BY DEF Field
<1>6. \A j \in DOMAIN a : a[j].num = j /\ j < 5
  <2>1. \A j \in 1 .. 4 : j = 1 \/ j = 2 \/ j = 3 \/ j = 4
    OBVIOUS
  <2> HIDE DEF a
  <2> QED BY <1>4, <1>5, <2>1
<1>7. /\ Says(a, 1, LenDelim, cmd.vehicleID) /\ Says(a, 2, LenDelim, cmd.commandID)
      /\ Says(a, 3, LenDelim, cmd.payload) /\ Says(a, 4, Varint, cmd.priority) /\ Silent(a, 7)
  <2>1. a[1] = f1 /\ a[2] = f2 /\ a[3] = f3 /\ a[4] = f4
    OBVIOUS
  <2>2. 1 \in DOMAIN a /\ 2 \in DOMAIN a /\ 3 \in DOMAIN a /\ 4 \in DOMAIN a
    BY <1>4
  <2> HIDE DEF a
  <2>3. \A j \in DOMAIN a : a[j].num = j /\ j # 7
    BY <1>4, <1>6
  <2> QED BY <2>1, <2>2, <2>3 DEF Says, Silent
<1>8. f5 \in F /\ f6 \in F /\ f7 \in F
  OBVIOUS
<1>12. m = encodeCommandEnvelope(cmd)
  BY DEF encodeCommandEnvelope
<1> HIDE DEF F, a, b, c, m, f5, f6, f7
<1>e. IF cmd.issuerID # "" THEN b = Plus(a, f5) ELSE b = a
  <2>1. CASE cmd.issuerID # ""
    <3>1. Optional(cmd.issuerID # "", f5) = Optional(TRUE, f5)
      BY <2>1 DEF Optional
    <3> QED BY <1>4, <2>1, <3>1, OptionalField DEF b
  <2>2. CASE ~(cmd.issuerID # "")
    <3>1. Optional(cmd.issuerID # "", f5) = Optional(FALSE, f5)
      BY <2>2 DEF Optional
    <3> QED BY <1>4, <2>2, <3>1, OptionalField DEF b
  <2> QED BY <2>1, <2>2
<1>9. /\ b \in Seq(F) /\ Silent(b, 7)
      /\ Says(b, 1, LenDelim, cmd.vehicleID) /\ Says(b, 2, LenDelim, cmd.commandID)
      /\ Says(b, 3, LenDelim, cmd.payload) /\ Says(b, 4, Varint, cmd.priority)
  <2>1. CASE b = a
    BY <1>4, <1>7, <2>1
  <2>2. CASE b = Plus(a, f5)
    <3>1. /\ b \in Seq(F)
          /\ \A n, w, v : n # 5 /\ Says(a, n, w, v) => Says(b, n, w, v)
          /\ \A n : n # 5 /\ Silent(a, n) => Silent(b, n)
      BY <1>4, <1>8, <2>2, OneMore DEF f5
    <3> QED BY <1>7, <3>1
  <2> QED BY <1>e, <2>1, <2>2
<1>f. IF cmd.issuedAt > 0 THEN c = Plus(b, f6) ELSE c = b
  <2>1. CASE cmd.issuedAt > 0
    <3>1. Optional(cmd.issuedAt > 0, f6) = Optional(TRUE, f6)
      BY <2>1 DEF Optional
    <3> QED BY <1>9, <2>1, <3>1, OptionalField DEF c
  <2>2. CASE ~(cmd.issuedAt > 0)
    <3>1. Optional(cmd.issuedAt > 0, f6) = Optional(FALSE, f6)
      BY <2>2 DEF Optional
    <3> QED BY <1>9, <2>2, <3>1, OptionalField DEF c
  <2> QED BY <2>1, <2>2
<1>10. /\ c \in Seq(F) /\ Silent(c, 7)
       /\ Says(c, 1, LenDelim, cmd.vehicleID) /\ Says(c, 2, LenDelim, cmd.commandID)
       /\ Says(c, 3, LenDelim, cmd.payload) /\ Says(c, 4, Varint, cmd.priority)
  <2>1. CASE c = b
    BY <1>9, <2>1
  <2>2. CASE c = Plus(b, f6)
    <3>1. /\ c \in Seq(F)
          /\ \A n, w, v : n # 6 /\ Says(b, n, w, v) => Says(c, n, w, v)
          /\ \A n : n # 6 /\ Silent(b, n) => Silent(c, n)
      BY <1>8, <1>9, <2>2, OneMore DEF f6
    <3> QED BY <1>9, <3>1
  <2> QED BY <1>f, <2>1, <2>2
<1>g. IF cmd.ttlMs > 0 THEN m = Plus(c, f7) ELSE m = c
  <2>1. CASE cmd.ttlMs > 0
    <3>1. Optional(cmd.ttlMs > 0, f7) = Optional(TRUE, f7)
      BY <2>1 DEF Optional
    <3> QED BY <1>10, <2>1, <3>1, OptionalField DEF m
  <2>2. CASE ~(cmd.ttlMs > 0)
    <3>1. Optional(cmd.ttlMs > 0, f7) = Optional(FALSE, f7)
      BY <2>2 DEF Optional
    <3> QED BY <1>10, <2>2, <3>1, OptionalField DEF m
  <2> QED BY <2>1, <2>2
<1>11. /\ m \in Seq(F)
       /\ Says(m, 1, LenDelim, cmd.vehicleID) /\ Says(m, 2, LenDelim, cmd.commandID)
       /\ Says(m, 3, LenDelim, cmd.payload) /\ Says(m, 4, Varint, cmd.priority)
       /\ cmd.ttlMs > 0 => Says(m, 7, Varint, cmd.ttlMs)
       /\ ~(cmd.ttlMs > 0) => Silent(m, 7)
  <2>1. CASE ~(cmd.ttlMs > 0)
    BY <1>g, <1>10, <2>1
  <2>2. CASE cmd.ttlMs > 0
    <3>1. m = Plus(c, f7)
      BY <1>g, <2>2
    <3>2. /\ m \in Seq(F)
          /\ \A n, w, v : n # 7 /\ Says(c, n, w, v) => Says(m, n, w, v)
          /\ Silent(c, 7) => Says(m, 7, Varint, cmd.ttlMs)
      BY <1>8, <1>10, <3>1, OneMore DEF f7
    <3> QED BY <1>10, <2>2, <3>2
  <2> QED BY <2>1, <2>2
<1>13. /\ LastField(m, 1, LenDelim, "") = cmd.vehicleID
       /\ LastField(m, 2, LenDelim, "") = cmd.commandID
       /\ LastField(m, 3, LenDelim, "") = cmd.payload
       /\ LastField(m, 4, Varint, 1) = cmd.priority
  <2> HIDE DEF f1, f2, f3, f4
  <2>1. \A n, w, v, d : Says(m, n, w, v) => LastField(m, n, w, d) = v
    BY <1>11, Said
  <2>2. /\ Says(m, 1, LenDelim, cmd.vehicleID) /\ Says(m, 2, LenDelim, cmd.commandID)
        /\ Says(m, 3, LenDelim, cmd.payload) /\ Says(m, 4, Varint, cmd.priority)
    BY <1>11
  <2>3. LastField(m, 1, LenDelim, "") = cmd.vehicleID
    <3>1. Says(m, 1, LenDelim, cmd.vehicleID)
      BY <2>2
    <3> QED BY <2>1, <3>1, Zenon
  <2>4. LastField(m, 2, LenDelim, "") = cmd.commandID
    <3>1. Says(m, 2, LenDelim, cmd.commandID)
      BY <2>2
    <3> QED BY <2>1, <3>1, Zenon
  <2>5. LastField(m, 3, LenDelim, "") = cmd.payload
    <3>1. Says(m, 3, LenDelim, cmd.payload)
      BY <2>2
    <3> QED BY <2>1, <3>1, Zenon
  <2>6. LastField(m, 4, Varint, 1) = cmd.priority
    <3>1. Says(m, 4, Varint, cmd.priority)
      BY <2>2
    <3> QED BY <2>1, <3>1, Zenon
  <2> QED BY <2>3, <2>4, <2>5, <2>6
<1>14. LastField(m, 7, Varint, 0) = cmd.ttlMs
  <2>1. CASE cmd.ttlMs > 0
    BY <1>11, <2>1, Said
  <2>2. CASE ~(cmd.ttlMs > 0)
    <3>1. cmd.ttlMs = 0
      BY <1>3, <2>2
    <3> QED BY <1>11, <2>2, <3>1, Unsaid
  <2> QED BY <2>1, <2>2
<1>15. decodable(m)
  BY <1>2, <1>13 DEF decodable
<1>16. agentPriority(cmd.priority) = IF cmd.priority = 2 THEN "High" ELSE "Normal"
  <2>1. cmd.priority \in 0 .. 2
    BY DEF Envelopes
  <2>2. cmd.priority # 3
    BY <2>1
  <2> QED BY <2>2 DEF agentPriority
<1>17. decode_command_envelope(m) = Received(cmd)
  BY <1>13, <1>14, <1>16 DEF decode_command_envelope, Received
<1> QED BY <1>12, <1>15, <1>17

\* Every ACK the agent encodes carries the id of its command to command-api.
LEMMA NoneMisheard == Misheard = {}
<1> SUFFICES ASSUME NEW ack \in AckMessages
             PROVE  decodeCommandAck(encode_ack(ack)) = Read(ack)
  BY DEF Misheard
<1> DEFINE f1 == Field(1, LenDelim, ack.command_id)
           f2 == Field(2, Varint, statusValue(ack.status))
           f3 == Field(3, LenDelim, ack.message)
           f4 == Field(4, Varint, ack.ack_time_ns)
           F == {f1, f2, f3, f4}
           a == <<f1, f2>>
           b == a \o Optional(ack.message # "", f3)
           m == b \o Optional(TRUE, f4)
<1>1. a \in Seq(F) /\ DOMAIN a = {1, 2} /\ a[1] = f1 /\ a[2] = f2
  OBVIOUS
<1>2. f1.num = 1 /\ f2.num = 2
  BY DEF Field
<1>3. /\ Says(a, 1, LenDelim, ack.command_id)
      /\ Says(a, 2, Varint, statusValue(ack.status))
      /\ Silent(a, 3) /\ Silent(a, 4) /\ Silent(a, 5)
  <2> HIDE DEF a
  <2>1. Says(a, 1, LenDelim, ack.command_id)
    BY <1>1, <1>2 DEF Says
  <2>2. Says(a, 2, Varint, statusValue(ack.status))
    BY <1>1, <1>2 DEF Says
  <2>3. \A j \in DOMAIN a : a[j].num = 1 \/ a[j].num = 2
    BY <1>1, <1>2
  <2> QED BY <2>1, <2>2, <2>3 DEF Silent
<1>4. f3 \in F /\ f4 \in F
  OBVIOUS
<1>7. m = encode_ack(ack)
  BY DEF encode_ack, Optional
<1> HIDE DEF F, a, b, m, f1, f2, f3, f4
<1>e. IF ack.message # "" THEN b = Plus(a, f3) ELSE b = a
  <2>1. CASE ack.message # ""
    <3>1. Optional(ack.message # "", f3) = Optional(TRUE, f3)
      BY <2>1 DEF Optional
    <3> QED BY <1>1, <2>1, <3>1, OptionalField DEF b
  <2>2. CASE ~(ack.message # "")
    <3>1. Optional(ack.message # "", f3) = Optional(FALSE, f3)
      BY <2>2 DEF Optional
    <3> QED BY <1>1, <2>2, <3>1, OptionalField DEF b
  <2> QED BY <2>1, <2>2
<1>5. /\ b \in Seq(F) /\ Says(b, 1, LenDelim, ack.command_id)
      /\ Says(b, 2, Varint, statusValue(ack.status)) /\ Silent(b, 4) /\ Silent(b, 5)
      /\ Silent(b, 3) \/ Says(b, 3, LenDelim, ack.message)
  <2>1. CASE b = a
    BY <1>1, <1>3, <2>1
  <2>2. CASE b = Plus(a, f3)
    <3>1. /\ b \in Seq(F)
          /\ \A n, w, v : n # 3 /\ Says(a, n, w, v) => Says(b, n, w, v)
          /\ \A n : n # 3 /\ Silent(a, n) => Silent(b, n)
          /\ Silent(a, 3) => Says(b, 3, LenDelim, ack.message)
      BY <1>1, <1>4, <2>2, OneMore DEF f3
    <3> QED BY <1>3, <3>1
  <2> QED BY <1>e, <2>1, <2>2
<1>f. m = Plus(b, f4)
  BY <1>5, OptionalField DEF m
<1>6. /\ m \in Seq(F) /\ Says(m, 1, LenDelim, ack.command_id)
      /\ Says(m, 2, Varint, statusValue(ack.status)) /\ Silent(m, 5)
      /\ Says(m, 4, Varint, ack.ack_time_ns)
      /\ Silent(m, 3) \/ Says(m, 3, LenDelim, ack.message)
  <2>1. /\ m \in Seq(F)
        /\ \A n, w, v : n # 4 /\ Says(b, n, w, v) => Says(m, n, w, v)
        /\ \A n : n # 4 /\ Silent(b, n) => Silent(m, n)
        /\ Silent(b, 4) => Says(m, 4, Varint, ack.ack_time_ns)
    BY <1>f, <1>4, <1>5, OneMore DEF f4
  <2> QED BY <1>5, <2>1
<1>8. LastField(m, 1, LenDelim, "") = ack.command_id
  <2>1. Says(m, 1, LenDelim, ack.command_id)
    BY <1>6
  <2>2. \A n, w, v, d : Says(m, n, w, v) => LastField(m, n, w, d) = v
    BY <1>6, Said
  <2> QED BY <2>1, <2>2, Zenon
<1>w. Varint # LenDelim /\ LenDelim # Varint
  BY DEF Varint, LenDelim
<1>v. \A n, w, v, x, d : Says(m, n, w, v) /\ x # w => LastField(m, n, x, d) = d
  BY OtherWire
<1>9. LastField(m, 2, LenDelim, "") = ""
  <2>1. Says(m, 2, Varint, statusValue(ack.status))
    BY <1>6
  <2> QED BY <1>v, <1>w, <2>1, Zenon
<1>10. LastField(m, 3, Varint, 0) = 0
  <2>1. CASE Silent(m, 3)
    BY <2>1, Unsaid
  <2>2. CASE Says(m, 3, LenDelim, ack.message)
    BY <1>w, <2>2, OtherWire
  <2> QED BY <1>6, <2>1, <2>2
<1>11. LastField(m, 4, LenDelim, "") = ""
  <2>1. Says(m, 4, Varint, ack.ack_time_ns)
    BY <1>6
  <2> QED BY <1>v, <1>w, <2>1, Zenon
<1>12. LastField(m, 5, Varint, 0) = 0
  BY <1>6, Unsaid
<1> QED BY <1>7, <1>8, <1>9, <1>10, <1>11, <1>12 DEF decodeCommandAck, Read

\* The hand-written codecs of command-api and of the agent read each other's
\* messages as DecodedAs says, field by field, for any ids, payloads,
\* priorities, times and TTLs: the ids survive, the status of an ACK does not.
THEOREM CodecsSafe == ApiSpec => []DecodedAs
<1>1. DecodedAs
  BY NoneMangled, NoneMisheard DEF DecodedAs
<1> QED BY <1>1, PTL
=============================================================================
