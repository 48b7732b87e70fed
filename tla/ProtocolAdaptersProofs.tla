----------------------- MODULE ProtocolAdaptersProofs -----------------------
(***************************************************************************)
(* The safety of both protocol adapters for any number of calls, of SDK    *)
(* clients, of command types and of frames, and any capacity of the        *)
(* channels.                                                               *)
(***************************************************************************)
EXTENDS ProtocolAdapters, TLAPS

(***************************************************************************)
(* MAVLink.  An entry of pending_acks is of the key it is filed under      *)
(* (EntryInv), so that what Receive puts into its oneshot was said of the  *)
(* type that key spells (SlotInv).  A call that gives up before its time   *)
(* found its oneshot closed, which a rival did (RivalInv).                 *)
(***************************************************************************)

Rival(c) == \E d \in Calls \ {c} : Key(typeOf[d]) = Key(typeOf[c]) /\ pc[d] # "idle"

EntryInv ==
    \A k \in Keys : pending[k] # None =>
        Key(typeOf[pending[k]]) = k /\ pc[pending[k]] # "idle"

SlotInv ==
    \A c \in Calls : slot[c] \in Results =>
        \E a \in sent : a.type = Key(typeOf[c]) /\ a.result = slot[c]

RivalInv ==
    \A c \in Calls :
        /\ pc[c] = "idle" => slot[c] = "open"
        /\ pc[c] \in {"registered", "waiting"} /\ slot[c] = "closed" => Rival(c)
        /\ pc[c] = "giving_up" => c \in late \/ Rival(c)

MavInv ==
    TypeOK /\ EntryInv /\ SlotInv /\ RivalInv
    /\ WaiterReachable /\ AnswerFromAutopilot /\ EarlyTimeoutByRival

\* What the proofs need of the constants: every type has its key, and a type of
\* the dialect is one.
Constants ==
    /\ Known \subseteq Types /\ Known \subseteq Keys /\ Fallback \in Known
    /\ None \notin Calls \cup Statuses
    /\ \A t \in Types : Key(t) \in Keys

LEMMA KeyType == Constants
<1>1. /\ Types \subseteq Nat /\ Known \subseteq Types /\ Fallback \in Known
      /\ \A t \in Known : t < U16
      /\ None \notin Calls \cup Statuses
  BY MavlinkAssumption DEF MavlinkAssumption
<1>2. \A t \in Types : Key(t) \in Keys
  BY DEF Keys
<1>3. ASSUME NEW t \in Known PROVE Key(t) = t
  <2>1. t \in Nat /\ t < U16
    BY <1>1
  <2>2. t % U16 = t
    BY <2>1 DEF U16
  <2> QED BY <2>2 DEF Key
<1>4. Known \subseteq Keys
  BY <1>1, <1>2, <1>3
<1> QED BY <1>1, <1>2, <1>4 DEF Constants

\* A call that has begun stays begun, and its key is its key: a rival remains one.
LEMMA RivalStays ==
    ASSUME TypeOK, [Next]_vars, NEW c \in Calls, Rival(c)
    PROVE  Rival(c)'
<1>1. PICK d \in Calls \ {c} : Key(typeOf[d]) = Key(typeOf[c]) /\ pc[d] # "idle"
  BY DEF Rival
<1>2. typeOf' = typeOf
  BY DEF Next, Undecodable, Register, SendFrame, SendFails, GotResult, SenderDropped,
         DeadlinePasses, GiveUp, AutopilotAnswers, AutopilotFinishes, Receive, DatagramLost,
         vars, call
<1>3. pc' = pc \/ \E e \in Calls, w \in {"registered", "waiting", "giving_up", "done"} :
                    pc' = [pc EXCEPT ![e] = w]
  BY DEF Next, Undecodable, Register, SendFrame, SendFails, GotResult, SenderDropped, Returns,
         DeadlinePasses, GiveUp, AutopilotAnswers, AutopilotFinishes, Receive, DatagramLost,
         vars, call
<1>4. pc'[d] # "idle"
  BY <1>1, <1>3 DEF TypeOK
<1> QED BY <1>1, <1>2, <1>4 DEF Rival

\* The variables of the MAVLink adapter keep their types.
LEMMA MavType ==
    ASSUME TypeOK, [Next]_vars
    PROVE  TypeOK'
<1> USE KeyType DEF Constants, TypeOK
<1>1. ASSUME NEW c \in Calls, Undecodable(c) PROVE TypeOK'
  BY <1>1 DEF Undecodable, Returns, Statuses, autopilot
<1>2. ASSUME NEW c \in Calls, Register(c) PROVE TypeOK'
  <2>1. Key(typeOf[c]) \in Keys /\ slot' \in [Calls -> {"open", "closed"} \cup Results]
    BY <1>2 DEF Register, Dropped
  <2> QED BY <1>2, <2>1 DEF Register, autopilot
<1>3. ASSUME NEW c \in Calls, SendFrame(c) PROVE TypeOK'
  BY <1>3 DEF SendFrame, autopilot
<1>4. ASSUME NEW c \in Calls, SendFails(c) PROVE TypeOK'
  BY <1>4 DEF SendFails, Returns, Statuses, autopilot
<1>5. ASSUME NEW c \in Calls, GotResult(c) PROVE TypeOK'
  <2>1. StatusOf(slot[c]) \in Statuses
    BY DEF StatusOf, Statuses
  <2> QED BY <1>5, <2>1 DEF GotResult, Returns, autopilot
<1>6. ASSUME NEW c \in Calls, SenderDropped(c) PROVE TypeOK'
  BY <1>6 DEF SenderDropped, autopilot
<1>7. ASSUME NEW c \in Calls, DeadlinePasses(c) PROVE TypeOK'
  BY <1>7 DEF DeadlinePasses, autopilot
<1>8. ASSUME NEW c \in Calls, GiveUp(c) PROVE TypeOK'
  <2>1. Key(typeOf[c]) \in Keys /\ slot' \in [Calls -> {"open", "closed"} \cup Results]
    BY <1>8 DEF GiveUp, Dropped
  <2> QED BY <1>8, <2>1 DEF GiveUp, Returns, Statuses, autopilot
<1>9. ASSUME NEW c \in Calls, NEW r \in Results, AutopilotAnswers(c, r) PROVE TypeOK'
  <2>1. [type |-> WireType(typeOf[c]), call |-> c, result |-> r] \in Replies
    BY DEF WireType, Replies
  <2> QED BY <1>9, <2>1 DEF AutopilotAnswers, Reply, call
<1>10. ASSUME NEW c \in Calls, NEW r \in Results, AutopilotFinishes(c, r) PROVE TypeOK'
  <2>1. [type |-> WireType(typeOf[c]), call |-> c, result |-> r] \in Replies
    BY DEF WireType, Replies
  <2> QED BY <1>10, <2>1 DEF AutopilotFinishes, Reply, call
<1>11. ASSUME NEW a \in acks, Receive(a) PROVE TypeOK'
  <2>1. a.type \in Keys /\ a.result \in Results
    BY DEF Replies
  <2>2. slot' \in [Calls -> {"open", "closed"} \cup Results]
    BY <1>11, <2>1 DEF Receive
  <2> QED BY <1>11, <2>1, <2>2 DEF Receive
<1>12. CASE DatagramLost
  BY <1>12 DEF DatagramLost, call
<1>13. CASE UNCHANGED vars
  BY <1>13 DEF vars
<1> QED BY <1>1, <1>2, <1>3, <1>4, <1>5, <1>6, <1>7, <1>8, <1>9, <1>10, <1>11, <1>12, <1>13 DEF Next

\* An entry of pending_acks stays under the key of its call.
LEMMA EntryStep ==
    ASSUME TypeOK, EntryInv, [Next]_vars
    PROVE  EntryInv'
<1> USE KeyType DEF Constants, TypeOK, EntryInv
<1>1. ASSUME NEW c \in Calls, Undecodable(c) PROVE EntryInv'
  BY <1>1 DEF Undecodable, Returns, autopilot
<1>2. ASSUME NEW c \in Calls, Register(c) PROVE EntryInv'
  BY <1>2 DEF Register, Dropped, autopilot
<1>3. ASSUME NEW c \in Calls, SendFrame(c) PROVE EntryInv'
  BY <1>3 DEF SendFrame, autopilot
<1>4. ASSUME NEW c \in Calls, SendFails(c) PROVE EntryInv'
  BY <1>4 DEF SendFails, Returns, autopilot
<1>5. ASSUME NEW c \in Calls, GotResult(c) PROVE EntryInv'
  BY <1>5 DEF GotResult, Returns, autopilot
<1>6. ASSUME NEW c \in Calls, SenderDropped(c) PROVE EntryInv'
  BY <1>6 DEF SenderDropped, autopilot
<1>7. ASSUME NEW c \in Calls, DeadlinePasses(c) PROVE EntryInv'
  BY <1>7 DEF DeadlinePasses, autopilot
<1>8. ASSUME NEW c \in Calls, GiveUp(c) PROVE EntryInv'
  BY <1>8 DEF GiveUp, Returns, Dropped, autopilot
<1>9. ASSUME NEW c \in Calls, NEW r \in Results, AutopilotAnswers(c, r) PROVE EntryInv'
  BY <1>9 DEF AutopilotAnswers, Reply, call
<1>10. ASSUME NEW c \in Calls, NEW r \in Results, AutopilotFinishes(c, r) PROVE EntryInv'
  BY <1>10 DEF AutopilotFinishes, Reply, call
<1>11. ASSUME NEW a \in acks, Receive(a) PROVE EntryInv'
  <2>1. a.type \in Keys
    BY DEF Replies
  <2> QED BY <1>11, <2>1 DEF Receive
<1>12. CASE DatagramLost
  BY <1>12 DEF DatagramLost, call
<1>13. CASE UNCHANGED vars
  BY <1>13 DEF vars
<1> QED BY <1>1, <1>2, <1>3, <1>4, <1>5, <1>6, <1>7, <1>8, <1>9, <1>10, <1>11, <1>12, <1>13 DEF Next

\* What is in a oneshot the autopilot said of the type its key spells.
LEMMA SlotStep ==
    ASSUME TypeOK, EntryInv, SlotInv, [Next]_vars
    PROVE  SlotInv'
<1> USE KeyType DEF Constants, TypeOK, SlotInv, Results
<1>1. ASSUME NEW c \in Calls, Undecodable(c) PROVE SlotInv'
  BY <1>1 DEF Undecodable, Returns, autopilot
<1>2. ASSUME NEW c \in Calls, Register(c) PROVE SlotInv'
  BY <1>2 DEF Register, Dropped, autopilot
<1>3. ASSUME NEW c \in Calls, SendFrame(c) PROVE SlotInv'
  BY <1>3 DEF SendFrame, autopilot
<1>4. ASSUME NEW c \in Calls, SendFails(c) PROVE SlotInv'
  BY <1>4 DEF SendFails, Returns, autopilot
<1>5. ASSUME NEW c \in Calls, GotResult(c) PROVE SlotInv'
  BY <1>5 DEF GotResult, Returns, autopilot
<1>6. ASSUME NEW c \in Calls, SenderDropped(c) PROVE SlotInv'
  BY <1>6 DEF SenderDropped, autopilot
<1>7. ASSUME NEW c \in Calls, DeadlinePasses(c) PROVE SlotInv'
  BY <1>7 DEF DeadlinePasses, autopilot
<1>8. ASSUME NEW c \in Calls, GiveUp(c) PROVE SlotInv'
  BY <1>8 DEF GiveUp, Returns, Dropped, autopilot
<1>9. ASSUME NEW c \in Calls, NEW r \in Results, AutopilotAnswers(c, r) PROVE SlotInv'
  BY <1>9 DEF AutopilotAnswers, Reply, call
<1>10. ASSUME NEW c \in Calls, NEW r \in Results, AutopilotFinishes(c, r) PROVE SlotInv'
  BY <1>10 DEF AutopilotFinishes, Reply, call
<1>11. ASSUME NEW a \in acks, Receive(a) PROVE SlotInv'
  <2>1. a \in sent /\ a.type \in Keys
    BY DEF Replies
  <2>2. pending[a.type] # None => Key(typeOf[pending[a.type]]) = a.type
    BY <2>1 DEF EntryInv
  <2>3. ASSUME NEW d \in Calls, slot'[d] \in Results
        PROVE  \E b \in sent : b.type = Key(typeOf[d]) /\ b.result = slot'[d]
    <3>1. CASE slot'[d] = slot[d]
      BY <2>3, <3>1
    <3>2. CASE slot'[d] # slot[d]
      <4>1. d = pending[a.type] /\ d # None /\ slot'[d] = a.result
        BY <1>11, <3>2 DEF Receive
      <4> QED BY <2>1, <2>2, <4>1
    <3> QED BY <3>1, <3>2
  <2> QED BY <1>11, <2>3 DEF Receive
<1>12. CASE DatagramLost
  BY <1>12 DEF DatagramLost, call
<1>13. CASE UNCHANGED vars
  BY <1>13 DEF vars
<1> QED BY <1>1, <1>2, <1>3, <1>4, <1>5, <1>6, <1>7, <1>8, <1>9, <1>10, <1>11, <1>12, <1>13 DEF Next

\* No call waits on a oneshot nothing leads to.
LEMMA ReachStep ==
    ASSUME TypeOK, EntryInv, RivalInv, WaiterReachable, [Next]_vars
    PROVE  WaiterReachable'
<1> USE KeyType DEF Constants, TypeOK, WaiterReachable
<1>1. ASSUME NEW c \in Calls, Undecodable(c) PROVE WaiterReachable'
  BY <1>1 DEF Undecodable, Returns, autopilot
<1>2. ASSUME NEW c \in Calls, Register(c) PROVE WaiterReachable'
  BY <1>2 DEF Register, Dropped, autopilot
<1>3. ASSUME NEW c \in Calls, SendFrame(c) PROVE WaiterReachable'
  BY <1>3 DEF SendFrame, autopilot
<1>4. ASSUME NEW c \in Calls, SendFails(c) PROVE WaiterReachable'
  BY <1>4 DEF SendFails, Returns, autopilot
<1>5. ASSUME NEW c \in Calls, GotResult(c) PROVE WaiterReachable'
  BY <1>5 DEF GotResult, Returns, autopilot
<1>6. ASSUME NEW c \in Calls, SenderDropped(c) PROVE WaiterReachable'
  BY <1>6 DEF SenderDropped, autopilot
<1>7. ASSUME NEW c \in Calls, DeadlinePasses(c) PROVE WaiterReachable'
  BY <1>7 DEF DeadlinePasses, autopilot
<1>8. ASSUME NEW c \in Calls, GiveUp(c) PROVE WaiterReachable'
  BY <1>8 DEF GiveUp, Returns, Dropped, autopilot
<1>9. ASSUME NEW c \in Calls, NEW r \in Results, AutopilotAnswers(c, r) PROVE WaiterReachable'
  BY <1>9 DEF AutopilotAnswers, Reply, call
<1>10. ASSUME NEW c \in Calls, NEW r \in Results, AutopilotFinishes(c, r) PROVE WaiterReachable'
  BY <1>10 DEF AutopilotFinishes, Reply, call
<1>11. ASSUME NEW a \in acks, Receive(a) PROVE WaiterReachable'
  <2>1. a.type \in Keys /\ a.result \in Results
    BY DEF Replies
  <2> QED BY <1>11, <2>1 DEF Receive, Results
<1>12. CASE DatagramLost
  BY <1>12 DEF DatagramLost, call
<1>13. CASE UNCHANGED vars
  BY <1>13 DEF vars
<1> QED BY <1>1, <1>2, <1>3, <1>4, <1>5, <1>6, <1>7, <1>8, <1>9, <1>10, <1>11, <1>12, <1>13 DEF Next

\* A oneshot is closed under a waiting call by a rival only.
LEMMA RivalStep ==
    ASSUME TypeOK, EntryInv, RivalInv, [Next]_vars
    PROVE  RivalInv'
<1> USE KeyType DEF Constants, TypeOK, RivalInv
<1>0. \A e \in Calls : Rival(e) => Rival(e)'
  BY RivalStays
<1>1. ASSUME NEW c \in Calls, Undecodable(c) PROVE RivalInv'
  BY <1>0, <1>1 DEF Undecodable, Returns, autopilot
<1>2. ASSUME NEW c \in Calls, Register(c) PROVE RivalInv'
  <2> DEFINE d == pending[Key(typeOf[c])]
  <2>1. d # None => d \in Calls /\ Key(typeOf[d]) = Key(typeOf[c]) /\ pc[d] # "idle"
    BY DEF EntryInv
  <2>2. pc[c] = "idle" /\ pc'[c] = "registered" /\ pc'[c] # "idle" /\ UNCHANGED <<typeOf, late>>
    BY <1>2 DEF Register
  <2>3. \A e \in Calls : slot'[e] = slot[e] \/ (e = d /\ slot'[e] = "closed")
    BY <1>2 DEF Register, Dropped
  <2> HIDE DEF d
  <2>4. \A e \in Calls \ {c} : e = d => Rival(e)'
    BY <2>1, <2>2 DEF Rival
  <2>5. \A e \in Calls \ {c} : pc'[e] = pc[e]
    BY <1>2 DEF Register
  <2>6. d # c /\ slot[c] = "open"
    BY <2>1, <2>2
  <2> QED BY <1>0, <2>1, <2>2, <2>3, <2>4, <2>5, <2>6
<1>3. ASSUME NEW c \in Calls, SendFrame(c) PROVE RivalInv'
  BY <1>0, <1>3 DEF SendFrame, autopilot
<1>4. ASSUME NEW c \in Calls, SendFails(c) PROVE RivalInv'
  BY <1>0, <1>4 DEF SendFails, Returns, autopilot
<1>5. ASSUME NEW c \in Calls, GotResult(c) PROVE RivalInv'
  BY <1>0, <1>5 DEF GotResult, Returns, autopilot
<1>6. ASSUME NEW c \in Calls, SenderDropped(c) PROVE RivalInv'
  BY <1>0, <1>6 DEF SenderDropped, autopilot
<1>7. ASSUME NEW c \in Calls, DeadlinePasses(c) PROVE RivalInv'
  BY <1>0, <1>7 DEF DeadlinePasses, autopilot
<1>8. ASSUME NEW c \in Calls, GiveUp(c) PROVE RivalInv'
  <2> DEFINE d == pending[Key(typeOf[c])]
  <2>1. d # None => d \in Calls /\ Key(typeOf[d]) = Key(typeOf[c]) /\ pc[d] # "idle"
    BY DEF EntryInv
  <2>2. pc'[c] = "done" /\ pc'[c] # "idle" /\ UNCHANGED <<typeOf, late>>
    BY <1>8 DEF GiveUp, Returns
  <2>3. \A e \in Calls : slot'[e] = slot[e] \/ (e = d /\ slot'[e] = "closed")
    BY <1>8 DEF GiveUp, Dropped
  <2> HIDE DEF d
  <2>4. \A e \in Calls \ {c} : e = d => Rival(e)'
    BY <2>1, <2>2 DEF Rival
  <2>5. \A e \in Calls \ {c} : pc'[e] = pc[e]
    BY <1>8 DEF GiveUp, Returns
  <2> QED BY <1>0, <2>1, <2>2, <2>3, <2>4, <2>5
<1>9. ASSUME NEW c \in Calls, NEW r \in Results, AutopilotAnswers(c, r) PROVE RivalInv'
  BY <1>0, <1>9 DEF AutopilotAnswers, Reply, call
<1>10. ASSUME NEW c \in Calls, NEW r \in Results, AutopilotFinishes(c, r) PROVE RivalInv'
  BY <1>0, <1>10 DEF AutopilotFinishes, Reply, call
<1>11. ASSUME NEW a \in acks, Receive(a) PROVE RivalInv'
  <2>1. a.result \in Results /\ UNCHANGED <<pc, late>>
    BY <1>11 DEF Receive, Replies
  <2>2. \A e \in Calls : slot'[e] = slot[e] \/ (slot'[e] \in Results /\ e = pending[a.type])
    BY <1>11, <2>1 DEF Receive
  <2>3. a.type \in Keys
    BY DEF Replies
  <2>4. pending[a.type] # None => pc[pending[a.type]] # "idle"
    BY <2>3 DEF EntryInv
  <2> QED BY <1>0, <2>1, <2>2, <2>4 DEF Results
<1>12. CASE DatagramLost
  BY <1>0, <1>12 DEF DatagramLost, call
<1>13. CASE UNCHANGED vars
  BY <1>0, <1>13 DEF vars
<1> QED BY <1>1, <1>2, <1>3, <1>4, <1>5, <1>6, <1>7, <1>8, <1>9, <1>10, <1>11, <1>12, <1>13 DEF Next

\* An Accepted or Rejected comes from the oneshot.
LEMMA AnswerStep ==
    ASSUME TypeOK, SlotInv, AnswerFromAutopilot, [Next]_vars
    PROVE  AnswerFromAutopilot'
<1> USE KeyType DEF Constants, TypeOK, AnswerFromAutopilot, Statuses
<1>1. ASSUME NEW c \in Calls, Undecodable(c) PROVE AnswerFromAutopilot'
  BY <1>1 DEF Undecodable, Returns, autopilot
<1>2. ASSUME NEW c \in Calls, Register(c) PROVE AnswerFromAutopilot'
  BY <1>2 DEF Register, Dropped, autopilot
<1>3. ASSUME NEW c \in Calls, SendFrame(c) PROVE AnswerFromAutopilot'
  BY <1>3 DEF SendFrame, autopilot
<1>4. ASSUME NEW c \in Calls, SendFails(c) PROVE AnswerFromAutopilot'
  BY <1>4 DEF SendFails, Returns, autopilot
<1>5. ASSUME NEW c \in Calls, GotResult(c) PROVE AnswerFromAutopilot'
  <2>1. \E a \in sent : a.type = Key(typeOf[c]) /\ a.result = slot[c]
    BY <1>5 DEF GotResult, SlotInv
  <2>2. UNCHANGED <<typeOf, sent>> /\ answer' = [answer EXCEPT ![c] = StatusOf(slot[c])]
    BY <1>5 DEF GotResult, Returns, autopilot
  <2> QED BY <2>1, <2>2
<1>6. ASSUME NEW c \in Calls, SenderDropped(c) PROVE AnswerFromAutopilot'
  BY <1>6 DEF SenderDropped, autopilot
<1>7. ASSUME NEW c \in Calls, DeadlinePasses(c) PROVE AnswerFromAutopilot'
  BY <1>7 DEF DeadlinePasses, autopilot
<1>8. ASSUME NEW c \in Calls, GiveUp(c) PROVE AnswerFromAutopilot'
  BY <1>8 DEF GiveUp, Returns, Dropped, autopilot
<1>9. ASSUME NEW c \in Calls, NEW r \in Results, AutopilotAnswers(c, r) PROVE AnswerFromAutopilot'
  BY <1>9 DEF AutopilotAnswers, Reply, call
<1>10. ASSUME NEW c \in Calls, NEW r \in Results, AutopilotFinishes(c, r) PROVE AnswerFromAutopilot'
  BY <1>10 DEF AutopilotFinishes, Reply, call
<1>11. ASSUME NEW a \in acks, Receive(a) PROVE AnswerFromAutopilot'
  BY <1>11 DEF Receive
<1>12. CASE DatagramLost
  BY <1>12 DEF DatagramLost, call
<1>13. CASE UNCHANGED vars
  BY <1>13 DEF vars
<1> QED BY <1>1, <1>2, <1>3, <1>4, <1>5, <1>6, <1>7, <1>8, <1>9, <1>10, <1>11, <1>12, <1>13 DEF Next

\* A Timeout comes from a call that gave up.
LEMMA EarlyStep ==
    ASSUME TypeOK, RivalInv, EarlyTimeoutByRival, [Next]_vars
    PROVE  EarlyTimeoutByRival'
<1> USE KeyType DEF Constants, TypeOK, Statuses
<1>0. \A e \in Calls : Rival(e) => Rival(e)'
  BY RivalStays
<1>p. \A e \in Calls : answer[e] = "Timeout" => e \in late \/ Rival(e)
  BY DEF EarlyTimeoutByRival, Rival
<1>q. (\A e \in Calls : answer'[e] = "Timeout" => e \in late' \/ Rival(e)') => EarlyTimeoutByRival'
  BY DEF EarlyTimeoutByRival, Rival
<1>1. ASSUME NEW c \in Calls, Undecodable(c) PROVE EarlyTimeoutByRival'
  BY <1>0, <1>p, <1>q, <1>1 DEF Undecodable, Returns, autopilot
<1>2. ASSUME NEW c \in Calls, Register(c) PROVE EarlyTimeoutByRival'
  BY <1>0, <1>p, <1>q, <1>2 DEF Register, Dropped, autopilot
<1>3. ASSUME NEW c \in Calls, SendFrame(c) PROVE EarlyTimeoutByRival'
  BY <1>0, <1>p, <1>q, <1>3 DEF SendFrame, autopilot
<1>4. ASSUME NEW c \in Calls, SendFails(c) PROVE EarlyTimeoutByRival'
  BY <1>0, <1>p, <1>q, <1>4 DEF SendFails, Returns, autopilot
<1>5. ASSUME NEW c \in Calls, GotResult(c) PROVE EarlyTimeoutByRival'
  <2>1. StatusOf(slot[c]) # "Timeout" /\ UNCHANGED late
    BY <1>5 DEF GotResult, StatusOf
  <2>2. answer' = [answer EXCEPT ![c] = StatusOf(slot[c])]
    BY <1>5 DEF GotResult, Returns
  <2> QED BY <1>0, <1>p, <1>q, <2>1, <2>2
<1>6. ASSUME NEW c \in Calls, SenderDropped(c) PROVE EarlyTimeoutByRival'
  BY <1>0, <1>p, <1>q, <1>6 DEF SenderDropped, autopilot
<1>7. ASSUME NEW c \in Calls, DeadlinePasses(c) PROVE EarlyTimeoutByRival'
  BY <1>0, <1>p, <1>q, <1>7 DEF DeadlinePasses, autopilot
<1>8. ASSUME NEW c \in Calls, GiveUp(c) PROVE EarlyTimeoutByRival'
  <2>1. UNCHANGED late /\ (c \in late \/ Rival(c))
    BY <1>8 DEF GiveUp, RivalInv
  <2>2. answer' = [answer EXCEPT ![c] = "Timeout"]
    BY <1>8 DEF GiveUp, Returns
  <2> QED BY <1>0, <1>p, <1>q, <2>1, <2>2
<1>9. ASSUME NEW c \in Calls, NEW r \in Results, AutopilotAnswers(c, r) PROVE EarlyTimeoutByRival'
  BY <1>0, <1>p, <1>q, <1>9 DEF AutopilotAnswers, Reply, call
<1>10. ASSUME NEW c \in Calls, NEW r \in Results, AutopilotFinishes(c, r) PROVE EarlyTimeoutByRival'
  BY <1>0, <1>p, <1>q, <1>10 DEF AutopilotFinishes, Reply, call
<1>11. ASSUME NEW a \in acks, Receive(a) PROVE EarlyTimeoutByRival'
  BY <1>0, <1>p, <1>q, <1>11 DEF Receive
<1>12. CASE DatagramLost
  BY <1>0, <1>p, <1>q, <1>12 DEF DatagramLost, call
<1>13. CASE UNCHANGED vars
  BY <1>0, <1>p, <1>q, <1>13 DEF vars
<1> QED BY <1>1, <1>2, <1>3, <1>4, <1>5, <1>6, <1>7, <1>8, <1>9, <1>10, <1>11, <1>12, <1>13 DEF Next

\* The MAVLink adapter starts with no call.
LEMMA MavInit == Init => MavInv
BY KeyType
   DEF Constants, Init, MavInv, TypeOK, EntryInv, SlotInv, RivalInv, WaiterReachable,
       AnswerFromAutopilot, EarlyTimeoutByRival, Statuses, Results

\* Every step of a call and of the receiver keeps the invariant.
LEMMA MavStep == MavInv /\ [Next]_vars => MavInv'
BY MavType, EntryStep, SlotStep, RivalStep, ReachStep, AnswerStep, EarlyStep DEF MavInv

\* What is explored of one adapter is a behaviour of that adapter.
LEMMA OneAdapter ==
    ASSUME [Mavlink \/ CustomUnix \/ CustomUnixBytes]_adapterVars
    PROVE  [Next]_vars /\ [Unix!Next]_(Unix!vars) /\ [Bytes!Next]_(Bytes!vars)
BY DEF Mavlink, CustomUnix, CustomUnixBytes, adapterVars, unixVars, bytesVars, Unix!vars, Bytes!vars

\* However many send_command calls of whatever types race for the entries of
\* pending_acks (mavlink's lib.rs), and whatever datagrams are lost: a call that
\* waits can be reached, an Accepted or Rejected was said by the autopilot to a
\* command of the type its key spells, and a Timeout before its time is a rival's
\* doing.
THEOREM MavlinkSafe == AdapterSpec => []MavlinkInv
<1>1. AdapterInit => MavInv
  BY MavInit DEF AdapterInit
<1>2. MavInv /\ [Mavlink \/ CustomUnix \/ CustomUnixBytes]_adapterVars => MavInv'
  BY MavStep, OneAdapter
<1>3. MavInv => MavlinkInv
  BY DEF MavInv, MavlinkInv
<1> QED BY <1>1, <1>2, <1>3, PTL DEF AdapterSpec

(***************************************************************************)
(* The Unix socket.  A call is in the mutex's queue once, while it waits   *)
(* (QueueInv); commands and their ACK frames are of calls that have begun, *)
(* and a frame in the channel was given (BegunInv).  An ACK in time is in  *)
(* the channel until its call takes it, unless another call has begun or   *)
(* the connection it came over had its framing cut (TimelyInv): the        *)
(* channel was full of that call's frames, the call threw the ACK away, or *)
(* it was never understood.                                                *)
(***************************************************************************)

UnixRival(c) == \E d \in UnixCalls \ {c} : upc[d] # "idle"

\* What may lose the ACK of c.
Excused(c) == c \in tainted \/ UnixRival(c)

QueueInv ==
    /\ \A i \in DOMAIN lockq : upc[lockq[i]] = "queued"
    /\ \A i, j \in DOMAIN lockq : lockq[i] = lockq[j] => i = j

InboxBegun == \A k \in Clients : \A i \in DOMAIN inbox[k] : upc[inbox[k][i]] # "idle"

GotBegun == \A k \in Clients : \A c \in got[k] : upc[c] # "idle"

FramesGiven == \A i \in DOMAIN ackq : upc[ackq[i].command] # "idle" /\ ackq[i] \in given

TimelyBegun == \A c \in timely : upc[c] # "idle"

BegunInv == InboxBegun /\ GotBegun /\ FramesGiven /\ TimelyBegun

TimelyInv ==
    \A c \in timely : upc[c] \in {"locking", "queued"} =>
        Excused(c) \/ \E i \in DOMAIN ackq : ackq[i].command = c

LateInv == \A c \in UnixCalls : uanswer[c] = "Timeout" => c \in expired

UnixIInv ==
    Unix!TypeOK /\ QueueInv /\ BegunInv /\ TimelyInv /\ LateInv
    /\ Unix!AnswerWasGiven /\ Unix!TimelyAckLost

\* The variables of the Unix-socket adapter keep their types.
LEMMA UnixType ==
    ASSUME Unix!TypeOK, [Unix!Next]_(Unix!vars)
    PROVE  Unix!TypeOK'
<1> USE DEF Unix!TypeOK
<1>1. ASSUME NEW c \in UnixCalls, Unix!NobodyThere(c) PROVE Unix!TypeOK'
  BY <1>1 DEF Unix!NobodyThere, Unix!Returns, Unix!Statuses
<1>2. ASSUME NEW c \in UnixCalls, Unix!Broadcast(c) PROVE Unix!TypeOK'
  <2>1. \A q \in Clients : LET n == Unix!Pushed(inbox[q], c) IN n \in Seq(UnixCalls) /\ Len(n) <= BroadcastCap
    <3> SUFFICES ASSUME NEW q \in Clients
                 PROVE  Unix!Pushed(inbox[q], c) \in Seq(UnixCalls) /\ Len(Unix!Pushed(inbox[q], c)) <= BroadcastCap
      OBVIOUS
    <3>1. inbox[q] \in Seq(UnixCalls) /\ Len(inbox[q]) <= BroadcastCap
      OBVIOUS
    <3>2. BroadcastCap \in Nat \ {0}
      BY UnixAssumption DEF UnixAssumption
    <3>3. CASE Len(inbox[q]) < BroadcastCap
      BY <3>1, <3>2, <3>3 DEF Unix!Pushed
    <3>4. CASE ~(Len(inbox[q]) < BroadcastCap)
      <4>1. inbox[q] # << >>
        BY <3>2, <3>4
      <4>2. Tail(inbox[q]) \in Seq(UnixCalls) /\ Len(Tail(inbox[q])) = Len(inbox[q]) - 1
        BY <3>1, <4>1
      <4> QED BY <3>1, <3>2, <3>4, <4>2 DEF Unix!Pushed
    <3> QED BY <3>3, <3>4
  <2>2. inbox' = [q \in Clients |-> IF q \in live THEN Unix!Pushed(inbox[q], c) ELSE inbox[q]]
    BY <1>2 DEF Unix!Broadcast
  <2>3. inbox' \in [Clients -> Seq(UnixCalls)] /\ \A q \in Clients : Len(inbox'[q]) <= BroadcastCap
    BY <2>1, <2>2
  <2>4. upc' \in [UnixCalls -> {"idle", "locking", "queued", "done"}]
    BY <1>2 DEF Unix!Broadcast
  <2> QED BY <1>2, <2>3, <2>4 DEF Unix!Broadcast
<1>3. ASSUME NEW c \in UnixCalls, Unix!Queue(c) PROVE Unix!TypeOK'
  <2>1. lockq' \in Seq(UnixCalls)
    BY <1>3 DEF Unix!Queue
  <2> QED BY <1>3, <2>1 DEF Unix!Queue
<1>4. ASSUME NEW c \in UnixCalls, Unix!DeadlinePasses(c) PROVE Unix!TypeOK'
  BY <1>4 DEF Unix!DeadlinePasses
<1>5. ASSUME NEW c \in UnixCalls, Unix!Receive(c) PROVE Unix!TypeOK'
  <2>1. ackq' \in Seq(Unix!Frames) /\ Len(ackq') <= AckCap
    BY <1>5, UnixAssumption DEF Unix!Receive, UnixAssumption
  <2>2. lockq' \in Seq(UnixCalls)
    <3>1. lockq' = lockq \/ (lockq # << >> /\ lockq' = Tail(lockq))
      BY <1>5 DEF Unix!Receive, Unix!Holds
    <3>2. CASE lockq' = lockq
      BY <3>2
    <3>3. CASE lockq # << >> /\ lockq' = Tail(lockq)
      BY <3>3
    <3> QED BY <3>1, <3>2, <3>3
  <2>3. Unix!StatusOf(Head(ackq).status) \in Unix!Statuses
    BY DEF Unix!StatusOf, Unix!Statuses
  <2>4. /\ upc' \in [UnixCalls -> {"idle", "locking", "queued", "done"}]
        /\ uanswer' \in [UnixCalls -> Unix!Statuses \cup {None}]
    BY <1>5, <2>3 DEF Unix!Receive, Unix!Returns
  <2> QED BY <1>5, <2>1, <2>2, <2>4 DEF Unix!Receive
<1>6. ASSUME NEW c \in UnixCalls, Unix!TimeOut(c) PROVE Unix!TypeOK'
  <2>1. lockq' \in Seq(UnixCalls)
    BY <1>6 DEF Unix!TimeOut, Unix!Holds
  <2> QED BY <1>6, <2>1 DEF Unix!TimeOut, Unix!Returns, Unix!Statuses
<1>7. ASSUME NEW k \in Clients, Unix!Connects(k) PROVE Unix!TypeOK'
  BY <1>7 DEF Unix!Connects
<1>8. ASSUME NEW k \in Clients, Unix!Disconnects(k) PROVE Unix!TypeOK'
  <2>1. << >> \in Seq(UnixCalls) /\ Len(<< >>) = 0
    OBVIOUS
  <2>2. inbox' \in [Clients -> Seq(UnixCalls)] /\ \A q \in Clients : Len(inbox'[q]) <= BroadcastCap
    BY <1>8, <2>1, UnixAssumption DEF Unix!Disconnects, UnixAssumption
  <2>3. got' \in [Clients -> SUBSET UnixCalls]
    BY <1>8 DEF Unix!Disconnects
  <2> QED BY <1>8, <2>2, <2>3 DEF Unix!Disconnects
<1>9. ASSUME NEW k \in Clients, Unix!Forward(k) PROVE Unix!TypeOK'
  <2>1. inbox[k] \in Seq(UnixCalls) /\ inbox[k] # << >> /\ Len(inbox[k]) <= BroadcastCap
    BY <1>9 DEF Unix!Forward
  <2>2. /\ Tail(inbox[k]) \in Seq(UnixCalls) /\ Head(inbox[k]) \in UnixCalls
        /\ Len(Tail(inbox[k])) <= BroadcastCap
    BY <2>1, UnixAssumption DEF UnixAssumption
  <2>3. inbox' \in [Clients -> Seq(UnixCalls)] /\ \A q \in Clients : Len(inbox'[q]) <= BroadcastCap
    BY <1>9, <2>2 DEF Unix!Forward
  <2>4. got' \in [Clients -> SUBSET UnixCalls]
    BY <1>9, <2>2 DEF Unix!Forward
  <2>5. cut' \subseteq Clients
    BY <1>9 DEF Unix!Forward
  <2> QED BY <1>9, <2>3, <2>4, <2>5 DEF Unix!Forward
<1>10. ASSUME NEW k \in Clients, NEW c \in UnixCalls, NEW w \in Unix!FrameStatuses, Unix!ClientAcks(k, c, w) PROVE Unix!TypeOK'
  <2> DEFINE ack == [command |-> c, status |-> w]
  <2>1. ack \in Unix!Frames
    BY DEF Unix!Frames
  <2>2. /\ ackq' = ackq \/ (Len(ackq) < AckCap /\ ackq' = Append(ackq, ack))
        /\ given' = given \cup {ack} /\ got' = [got EXCEPT ![k] = @ \ {c}]
        /\ timely' = (IF c \in expired THEN timely ELSE timely \cup {c})
        /\ tainted' \subseteq tainted \cup {c}
        /\ UNCHANGED <<upc, lockq, expired, inbox, live, cut, uanswer>>
    BY <1>10 DEF Unix!ClientAcks
  <2> HIDE DEF ack
  <2>3. AckCap \in Nat
    BY UnixAssumption DEF UnixAssumption
  <2>4. ackq' \in Seq(Unix!Frames) /\ Len(ackq') <= AckCap
    <3>1. CASE ackq' = ackq
      BY <3>1
    <3>2. CASE Len(ackq) < AckCap /\ ackq' = Append(ackq, ack)
      BY <3>2, <2>1, <2>3
    <3> QED BY <2>2, <3>1, <3>2
  <2>5. given' \subseteq Unix!Frames /\ timely' \subseteq UnixCalls /\ got' \in [Clients -> SUBSET UnixCalls]
    BY <2>1, <2>2
  <2>6. tainted' \subseteq UnixCalls
    BY <2>2
  <2> QED BY <2>2, <2>4, <2>5, <2>6
<1>11. CASE UNCHANGED Unix!vars
  BY <1>11 DEF Unix!vars
<1> QED BY <1>1, <1>2, <1>3, <1>4, <1>5, <1>6, <1>7, <1>8, <1>9, <1>10, <1>11 DEF Unix!Next

\* A call that has begun stays begun.
LEMMA BegunStays ==
    ASSUME Unix!TypeOK, NEW b \in UnixCalls, upc[b] # "idle", [Unix!Next]_(Unix!vars)
    PROVE  upc'[b] # "idle"
<1> USE DEF Unix!TypeOK
<1>1. ASSUME NEW c \in UnixCalls, Unix!NobodyThere(c) PROVE upc'[b] # "idle"
  BY <1>1 DEF Unix!NobodyThere, Unix!Returns
<1>2. ASSUME NEW c \in UnixCalls, Unix!Broadcast(c) PROVE upc'[b] # "idle"
  BY <1>2 DEF Unix!Broadcast
<1>3. ASSUME NEW c \in UnixCalls, Unix!Queue(c) PROVE upc'[b] # "idle"
  BY <1>3 DEF Unix!Queue
<1>4. ASSUME NEW c \in UnixCalls, Unix!DeadlinePasses(c) PROVE upc'[b] # "idle"
  BY <1>4 DEF Unix!DeadlinePasses
<1>5. ASSUME NEW c \in UnixCalls, Unix!Receive(c) PROVE upc'[b] # "idle"
  BY <1>5 DEF Unix!Receive, Unix!Returns, Unix!Holds
<1>6. ASSUME NEW c \in UnixCalls, Unix!TimeOut(c) PROVE upc'[b] # "idle"
  BY <1>6 DEF Unix!TimeOut, Unix!Returns, Unix!Holds
<1>7. ASSUME NEW k \in Clients, Unix!Connects(k) PROVE upc'[b] # "idle"
  BY <1>7 DEF Unix!Connects
<1>8. ASSUME NEW k \in Clients, Unix!Disconnects(k) PROVE upc'[b] # "idle"
  BY <1>8 DEF Unix!Disconnects
<1>9. ASSUME NEW k \in Clients, Unix!Forward(k) PROVE upc'[b] # "idle"
  BY <1>9 DEF Unix!Forward
<1>10. ASSUME NEW k \in Clients, NEW c \in UnixCalls, NEW w \in Unix!FrameStatuses, Unix!ClientAcks(k, c, w) PROVE upc'[b] # "idle"
  BY <1>10 DEF Unix!ClientAcks
<1>11. CASE UNCHANGED Unix!vars
  BY <1>11 DEF Unix!vars
<1> QED BY <1>1, <1>2, <1>3, <1>4, <1>5, <1>6, <1>7, <1>8, <1>9, <1>10, <1>11 DEF Unix!Next

\* An excuse remains one.
LEMMA ExcusedStays ==
    ASSUME Unix!TypeOK, [Unix!Next]_(Unix!vars), NEW b \in UnixCalls, Excused(b)
    PROVE  Excused(b)'
<1>1. tainted \subseteq tainted'
  BY DEF Unix!Next, Unix!NobodyThere, Unix!Broadcast, Unix!Queue, Unix!DeadlinePasses, Unix!Receive,
         Unix!TimeOut, Unix!Connects, Unix!Disconnects, Unix!Forward, Unix!ClientAcks, Unix!vars
<1>2. UnixRival(b) => UnixRival(b)'
  BY BegunStays DEF UnixRival
<1> QED BY <1>1, <1>2 DEF Excused

\* A call is in the queue once and while it waits.
LEMMA QueueStep ==
    ASSUME Unix!TypeOK, QueueInv, [Unix!Next]_(Unix!vars)
    PROVE  QueueInv'
<1> USE DEF Unix!TypeOK, QueueInv
<1>1. ASSUME NEW c \in UnixCalls, Unix!NobodyThere(c) PROVE QueueInv'
  BY <1>1 DEF Unix!NobodyThere, Unix!Returns
<1>2. ASSUME NEW c \in UnixCalls, Unix!Broadcast(c) PROVE QueueInv'
  BY <1>2 DEF Unix!Broadcast
<1>3. ASSUME NEW c \in UnixCalls, Unix!Queue(c) PROVE QueueInv'
  BY <1>3 DEF Unix!Queue
<1>4. ASSUME NEW c \in UnixCalls, Unix!DeadlinePasses(c) PROVE QueueInv'
  BY <1>4 DEF Unix!DeadlinePasses
<1>5. ASSUME NEW c \in UnixCalls, Unix!Receive(c) PROVE QueueInv'
  <2>1. CASE lockq' = lockq /\ upc' = upc
    BY <2>1
  <2>2. CASE lockq' = Tail(lockq) /\ upc' = [upc EXCEPT ![c] = "done"]
    <3>1. lockq # << >> /\ lockq[1] = c
      BY <1>5 DEF Unix!Receive, Unix!Holds
    <3> QED BY <2>2, <3>1
  <2> QED BY <1>5, <2>1, <2>2 DEF Unix!Receive, Unix!Returns
<1>6. ASSUME NEW c \in UnixCalls, Unix!TimeOut(c) PROVE QueueInv'
  <2>1. lockq # << >> /\ lockq[1] = c /\ lockq' = Tail(lockq) /\ upc' = [upc EXCEPT ![c] = "done"]
    BY <1>6 DEF Unix!TimeOut, Unix!Holds, Unix!Returns
  <2> QED BY <2>1
<1>7. ASSUME NEW k \in Clients, Unix!Connects(k) PROVE QueueInv'
  BY <1>7 DEF Unix!Connects
<1>8. ASSUME NEW k \in Clients, Unix!Disconnects(k) PROVE QueueInv'
  BY <1>8 DEF Unix!Disconnects
<1>9. ASSUME NEW k \in Clients, Unix!Forward(k) PROVE QueueInv'
  BY <1>9 DEF Unix!Forward
<1>10. ASSUME NEW k \in Clients, NEW c \in UnixCalls, NEW w \in Unix!FrameStatuses, Unix!ClientAcks(k, c, w) PROVE QueueInv'
  BY <1>10 DEF Unix!ClientAcks
<1>11. CASE UNCHANGED Unix!vars
  BY <1>11 DEF Unix!vars
<1> QED BY <1>1, <1>2, <1>3, <1>4, <1>5, <1>6, <1>7, <1>8, <1>9, <1>10, <1>11 DEF Unix!Next

\* A broadcast adds the command and keeps or drops what was there.
LEMMA PushedFrom ==
    ASSUME NEW q \in Seq(UnixCalls), NEW c \in UnixCalls, NEW i \in DOMAIN Unix!Pushed(q, c)
    PROVE  Unix!Pushed(q, c)[i] = c \/ \E j \in DOMAIN q : Unix!Pushed(q, c)[i] = q[j]
<1>1. CASE Len(q) < BroadcastCap
  <2>1. Unix!Pushed(q, c) = Append(q, c)
    BY <1>1 DEF Unix!Pushed
  <2> QED BY <2>1
<1>2. CASE ~(Len(q) < BroadcastCap)
  <2>0. q # << >>
    BY <1>2, UnixAssumption DEF UnixAssumption
  <2>1. Unix!Pushed(q, c) = Append(Tail(q), c)
    BY <1>2 DEF Unix!Pushed
  <2>2. Tail(q) \in Seq(UnixCalls) /\ \A m \in DOMAIN Tail(q) : m + 1 \in DOMAIN q /\ Tail(q)[m] = q[m + 1]
    BY <2>0
  <2>3. \/ i \in DOMAIN Tail(q) /\ Unix!Pushed(q, c)[i] = Tail(q)[i]
        \/ Unix!Pushed(q, c)[i] = c
    BY <2>1, <2>2
  <2> QED BY <2>2, <2>3
<1> QED BY <1>1, <1>2

\* Commands on their way to a client are of calls that have begun.
LEMMA InboxStep ==
    ASSUME Unix!TypeOK, InboxBegun, [Unix!Next]_(Unix!vars)
    PROVE  InboxBegun'
<1> USE DEF Unix!TypeOK, InboxBegun
<1>b. \A b \in UnixCalls : upc[b] # "idle" => upc'[b] # "idle"
  BY BegunStays
<1>1. ASSUME NEW c \in UnixCalls, Unix!NobodyThere(c) PROVE InboxBegun'
  BY <1>b, <1>1 DEF Unix!NobodyThere, Unix!Returns
<1>2. ASSUME NEW c \in UnixCalls, Unix!Broadcast(c) PROVE InboxBegun'
  <2> SUFFICES ASSUME NEW k \in Clients, NEW i \in DOMAIN inbox'[k] PROVE upc'[inbox'[k][i]] # "idle"
    OBVIOUS
  <2>1. upc'[c] # "idle"
    BY <1>2 DEF Unix!Broadcast
  <2>2. CASE k \in live
    <3>1. inbox'[k] = Unix!Pushed(inbox[k], c) /\ inbox[k] \in Seq(UnixCalls)
      BY <1>2, <2>2 DEF Unix!Broadcast
    <3>2. inbox'[k][i] = c \/ \E j \in DOMAIN inbox[k] : inbox'[k][i] = inbox[k][j]
      BY <3>1, PushedFrom
    <3> QED BY <1>b, <2>1, <3>1, <3>2
  <2>3. CASE k \notin live
    <3>1. inbox'[k] = inbox[k]
      BY <1>2, <2>3 DEF Unix!Broadcast
    <3> QED BY <1>b, <3>1
  <2> QED BY <2>2, <2>3
<1>3. ASSUME NEW c \in UnixCalls, Unix!Queue(c) PROVE InboxBegun'
  BY <1>b, <1>3 DEF Unix!Queue
<1>4. ASSUME NEW c \in UnixCalls, Unix!DeadlinePasses(c) PROVE InboxBegun'
  BY <1>b, <1>4 DEF Unix!DeadlinePasses
<1>5. ASSUME NEW c \in UnixCalls, Unix!Receive(c) PROVE InboxBegun'
  BY <1>b, <1>5 DEF Unix!Receive, Unix!Returns, Unix!Holds
<1>6. ASSUME NEW c \in UnixCalls, Unix!TimeOut(c) PROVE InboxBegun'
  BY <1>b, <1>6 DEF Unix!TimeOut, Unix!Returns, Unix!Holds
<1>7. ASSUME NEW k \in Clients, Unix!Connects(k) PROVE InboxBegun'
  BY <1>b, <1>7 DEF Unix!Connects
<1>8. ASSUME NEW k \in Clients, Unix!Disconnects(k) PROVE InboxBegun'
  BY <1>b, <1>8 DEF Unix!Disconnects
<1>9. ASSUME NEW k \in Clients, Unix!Forward(k) PROVE InboxBegun'
  <2> SUFFICES ASSUME NEW q \in Clients, NEW i \in DOMAIN inbox'[q] PROVE upc'[inbox'[q][i]] # "idle"
    OBVIOUS
  <2>1. upc' = upc /\ inbox[k] # << >> /\ inbox' = [inbox EXCEPT ![k] = Tail(inbox[k])]
    BY <1>9 DEF Unix!Forward
  <2>2. CASE q = k
    <3>1. inbox'[q] = Tail(inbox[q]) /\ inbox[q] \in Seq(UnixCalls) /\ inbox[q] # << >>
      BY <2>1, <2>2
    <3>2. i + 1 \in DOMAIN inbox[q] /\ inbox'[q][i] = inbox[q][i + 1]
      BY <3>1
    <3> QED BY <2>1, <3>2
  <2>3. CASE q # k
    BY <2>1, <2>3
  <2> QED BY <2>2, <2>3
<1>10. ASSUME NEW k \in Clients, NEW c \in UnixCalls, NEW w \in Unix!FrameStatuses, Unix!ClientAcks(k, c, w) PROVE InboxBegun'
  BY <1>b, <1>10 DEF Unix!ClientAcks
<1>11. CASE UNCHANGED Unix!vars
  BY <1>b, <1>11 DEF Unix!vars
<1> QED BY <1>1, <1>2, <1>3, <1>4, <1>5, <1>6, <1>7, <1>8, <1>9, <1>10, <1>11 DEF Unix!Next

\* So are the commands a client has.
LEMMA GotStep ==
    ASSUME Unix!TypeOK, InboxBegun, GotBegun, [Unix!Next]_(Unix!vars)
    PROVE  GotBegun'
<1> USE DEF Unix!TypeOK, GotBegun
<1>b. \A b \in UnixCalls : upc[b] # "idle" => upc'[b] # "idle"
  BY BegunStays
<1>1. ASSUME NEW c \in UnixCalls, Unix!NobodyThere(c) PROVE GotBegun'
  BY <1>b, <1>1 DEF Unix!NobodyThere, Unix!Returns
<1>2. ASSUME NEW c \in UnixCalls, Unix!Broadcast(c) PROVE GotBegun'
  BY <1>b, <1>2 DEF Unix!Broadcast
<1>3. ASSUME NEW c \in UnixCalls, Unix!Queue(c) PROVE GotBegun'
  BY <1>b, <1>3 DEF Unix!Queue
<1>4. ASSUME NEW c \in UnixCalls, Unix!DeadlinePasses(c) PROVE GotBegun'
  BY <1>b, <1>4 DEF Unix!DeadlinePasses
<1>5. ASSUME NEW c \in UnixCalls, Unix!Receive(c) PROVE GotBegun'
  BY <1>b, <1>5 DEF Unix!Receive, Unix!Returns, Unix!Holds
<1>6. ASSUME NEW c \in UnixCalls, Unix!TimeOut(c) PROVE GotBegun'
  BY <1>b, <1>6 DEF Unix!TimeOut, Unix!Returns, Unix!Holds
<1>7. ASSUME NEW k \in Clients, Unix!Connects(k) PROVE GotBegun'
  BY <1>b, <1>7 DEF Unix!Connects
<1>8. ASSUME NEW k \in Clients, Unix!Disconnects(k) PROVE GotBegun'
  BY <1>b, <1>8 DEF Unix!Disconnects
<1>9. ASSUME NEW k \in Clients, Unix!Forward(k) PROVE GotBegun'
  <2>1. upc[Head(inbox[k])] # "idle"
    BY <1>9 DEF Unix!Forward, InboxBegun
  <2> QED BY <1>9, <2>1 DEF Unix!Forward
<1>10. ASSUME NEW k \in Clients, NEW c \in UnixCalls, NEW w \in Unix!FrameStatuses, Unix!ClientAcks(k, c, w) PROVE GotBegun'
  BY <1>b, <1>10 DEF Unix!ClientAcks
<1>11. CASE UNCHANGED Unix!vars
  BY <1>b, <1>11 DEF Unix!vars
<1> QED BY <1>1, <1>2, <1>3, <1>4, <1>5, <1>6, <1>7, <1>8, <1>9, <1>10, <1>11 DEF Unix!Next

\* The ACK frames in the channel were given, for calls that have begun.
LEMMA FramesStep ==
    ASSUME Unix!TypeOK, GotBegun, FramesGiven, [Unix!Next]_(Unix!vars)
    PROVE  FramesGiven'
<1> USE DEF Unix!TypeOK, FramesGiven
<1>b. \A b \in UnixCalls : upc[b] # "idle" => upc'[b] # "idle"
  BY BegunStays
<1>f. \A i \in DOMAIN ackq : ackq[i].command \in UnixCalls
  BY DEF Unix!Frames
<1>1. ASSUME NEW c \in UnixCalls, Unix!NobodyThere(c) PROVE FramesGiven'
  BY <1>b, <1>f, <1>1 DEF Unix!NobodyThere, Unix!Returns
<1>2. ASSUME NEW c \in UnixCalls, Unix!Broadcast(c) PROVE FramesGiven'
  BY <1>b, <1>f, <1>2 DEF Unix!Broadcast
<1>3. ASSUME NEW c \in UnixCalls, Unix!Queue(c) PROVE FramesGiven'
  BY <1>b, <1>f, <1>3 DEF Unix!Queue
<1>4. ASSUME NEW c \in UnixCalls, Unix!DeadlinePasses(c) PROVE FramesGiven'
  BY <1>b, <1>f, <1>4 DEF Unix!DeadlinePasses
<1>5. ASSUME NEW c \in UnixCalls, Unix!Receive(c) PROVE FramesGiven'
  <2>1. ackq # << >> /\ ackq' = Tail(ackq) /\ given' = given
    BY <1>5 DEF Unix!Receive
  <2>2. \A i \in DOMAIN ackq' : i + 1 \in DOMAIN ackq /\ ackq'[i] = ackq[i + 1]
    BY <2>1
  <2>3. \A i \in DOMAIN ackq : ackq[i].command \in UnixCalls
    BY DEF Unix!Frames
  <2> QED BY <1>b, <2>1, <2>2, <2>3
<1>6. ASSUME NEW c \in UnixCalls, Unix!TimeOut(c) PROVE FramesGiven'
  BY <1>b, <1>f, <1>6 DEF Unix!TimeOut, Unix!Returns, Unix!Holds
<1>7. ASSUME NEW k \in Clients, Unix!Connects(k) PROVE FramesGiven'
  BY <1>b, <1>f, <1>7 DEF Unix!Connects
<1>8. ASSUME NEW k \in Clients, Unix!Disconnects(k) PROVE FramesGiven'
  BY <1>b, <1>f, <1>8 DEF Unix!Disconnects
<1>9. ASSUME NEW k \in Clients, Unix!Forward(k) PROVE FramesGiven'
  BY <1>b, <1>f, <1>9 DEF Unix!Forward
<1>10. ASSUME NEW k \in Clients, NEW c \in UnixCalls, NEW w \in Unix!FrameStatuses, Unix!ClientAcks(k, c, w) PROVE FramesGiven'
  <2> DEFINE ack == [command |-> c, status |-> w]
  <2>1. /\ ackq' = ackq \/ (Len(ackq) < AckCap /\ ackq' = Append(ackq, ack))
        /\ given' = given \cup {ack} /\ upc' = upc /\ c \in got[k]
    BY <1>10 DEF Unix!ClientAcks
  <2>2. upc[ack.command] # "idle"
    BY <2>1 DEF GotBegun
  <2>4. ack \in Unix!Frames
    BY DEF Unix!Frames
  <2> HIDE DEF ack
  <2>3. \A i \in DOMAIN ackq' : ackq'[i] = ack \/ (i \in DOMAIN ackq /\ ackq'[i] = ackq[i])
    <3>1. CASE ackq' = ackq
      BY <3>1
    <3>2. CASE Len(ackq) < AckCap /\ ackq' = Append(ackq, ack)
      BY <3>2, <2>4
    <3> QED BY <2>1, <3>1, <3>2
  <2> QED BY <2>1, <2>2, <2>3
<1>11. CASE UNCHANGED Unix!vars
  BY <1>b, <1>f, <1>11 DEF Unix!vars
<1> QED BY <1>1, <1>2, <1>3, <1>4, <1>5, <1>6, <1>7, <1>8, <1>9, <1>10, <1>11 DEF Unix!Next

\* So are the ones acknowledged in time.
LEMMA TimelyBegunStep ==
    ASSUME Unix!TypeOK, GotBegun, TimelyBegun, [Unix!Next]_(Unix!vars)
    PROVE  TimelyBegun'
<1> USE DEF Unix!TypeOK, TimelyBegun
<1>b. \A b \in UnixCalls : upc[b] # "idle" => upc'[b] # "idle"
  BY BegunStays
<1>1. ASSUME NEW c \in UnixCalls, Unix!NobodyThere(c) PROVE TimelyBegun'
  BY <1>b, <1>1 DEF Unix!NobodyThere, Unix!Returns
<1>2. ASSUME NEW c \in UnixCalls, Unix!Broadcast(c) PROVE TimelyBegun'
  BY <1>b, <1>2 DEF Unix!Broadcast
<1>3. ASSUME NEW c \in UnixCalls, Unix!Queue(c) PROVE TimelyBegun'
  BY <1>b, <1>3 DEF Unix!Queue
<1>4. ASSUME NEW c \in UnixCalls, Unix!DeadlinePasses(c) PROVE TimelyBegun'
  BY <1>b, <1>4 DEF Unix!DeadlinePasses
<1>5. ASSUME NEW c \in UnixCalls, Unix!Receive(c) PROVE TimelyBegun'
  BY <1>b, <1>5 DEF Unix!Receive, Unix!Returns, Unix!Holds
<1>6. ASSUME NEW c \in UnixCalls, Unix!TimeOut(c) PROVE TimelyBegun'
  BY <1>b, <1>6 DEF Unix!TimeOut, Unix!Returns, Unix!Holds
<1>7. ASSUME NEW k \in Clients, Unix!Connects(k) PROVE TimelyBegun'
  BY <1>b, <1>7 DEF Unix!Connects
<1>8. ASSUME NEW k \in Clients, Unix!Disconnects(k) PROVE TimelyBegun'
  BY <1>b, <1>8 DEF Unix!Disconnects
<1>9. ASSUME NEW k \in Clients, Unix!Forward(k) PROVE TimelyBegun'
  BY <1>b, <1>9 DEF Unix!Forward
<1>10. ASSUME NEW k \in Clients, NEW c \in UnixCalls, NEW w \in Unix!FrameStatuses, Unix!ClientAcks(k, c, w) PROVE TimelyBegun'
  <2>1. upc' = upc /\ c \in got[k] /\ timely' \subseteq timely \cup {c}
    BY <1>10 DEF Unix!ClientAcks
  <2> QED BY <2>1 DEF GotBegun
<1>11. CASE UNCHANGED Unix!vars
  BY <1>b, <1>11 DEF Unix!vars
<1> QED BY <1>1, <1>2, <1>3, <1>4, <1>5, <1>6, <1>7, <1>8, <1>9, <1>10, <1>11 DEF Unix!Next

\* An ACK in time stays in the channel, or there is a rival.
LEMMA TimelyStep ==
    ASSUME Unix!TypeOK, QueueInv, BegunInv, TimelyInv, [Unix!Next]_(Unix!vars)
    PROVE  TimelyInv'
<1> USE DEF Unix!TypeOK, TimelyInv
<1>r. \A b \in UnixCalls : Excused(b) => Excused(b)'
  BY ExcusedStays
<1>1. ASSUME NEW c \in UnixCalls, Unix!NobodyThere(c) PROVE TimelyInv'
  BY <1>r, <1>1 DEF Unix!NobodyThere, Unix!Returns
<1>2. ASSUME NEW c \in UnixCalls, Unix!Broadcast(c) PROVE TimelyInv'
  <2>1. UNCHANGED <<timely, ackq>> /\ upc' = [upc EXCEPT ![c] = "locking"] /\ upc[c] = "idle"
    BY <1>2 DEF Unix!Broadcast
  <2>2. c \notin timely
    BY <2>1 DEF BegunInv, TimelyBegun
  <2> QED BY <1>r, <2>1, <2>2
<1>3. ASSUME NEW c \in UnixCalls, Unix!Queue(c) PROVE TimelyInv'
  BY <1>r, <1>3 DEF Unix!Queue
<1>4. ASSUME NEW c \in UnixCalls, Unix!DeadlinePasses(c) PROVE TimelyInv'
  BY <1>r, <1>4 DEF Unix!DeadlinePasses
<1>5. ASSUME NEW c \in UnixCalls, Unix!Receive(c) PROVE TimelyInv'
  <2>1. ackq # << >> /\ ackq' = Tail(ackq) /\ timely' = timely /\ lockq # << >> /\ lockq[1] = c
    BY <1>5 DEF Unix!Receive, Unix!Holds
  <2>2. \/ Head(ackq).command = c /\ upc' = [upc EXCEPT ![c] = "done"]
        \/ Head(ackq).command # c /\ upc' = upc
    BY <1>5 DEF Unix!Receive, Unix!Returns
  <2>3. upc'[c] # "idle"
    BY <2>1, <2>2 DEF QueueInv
  <2> SUFFICES ASSUME NEW e \in timely, upc'[e] \in {"locking", "queued"},
                      ~Excused(e)'
               PROVE  \E i \in DOMAIN ackq' : ackq'[i].command = e
    BY <2>1
  <2>4. e = c /\ upc' = upc /\ Head(ackq).command # c
    BY <2>2, <2>3 DEF Excused, UnixRival
  <2>5. PICK i \in DOMAIN ackq : ackq[i].command = e
    BY <1>r, <2>4
  <2>6. i # 1
    BY <2>1, <2>4, <2>5
  <2>7. i - 1 \in DOMAIN ackq' /\ ackq'[i - 1] = ackq[i]
    BY <2>1, <2>6
  <2> QED BY <2>5, <2>7
<1>6. ASSUME NEW c \in UnixCalls, Unix!TimeOut(c) PROVE TimelyInv'
  BY <1>r, <1>6 DEF Unix!TimeOut, Unix!Returns, Unix!Holds
<1>7. ASSUME NEW k \in Clients, Unix!Connects(k) PROVE TimelyInv'
  BY <1>r, <1>7 DEF Unix!Connects
<1>8. ASSUME NEW k \in Clients, Unix!Disconnects(k) PROVE TimelyInv'
  BY <1>r, <1>8 DEF Unix!Disconnects
<1>9. ASSUME NEW k \in Clients, Unix!Forward(k) PROVE TimelyInv'
  BY <1>r, <1>9 DEF Unix!Forward
<1>10. ASSUME NEW k \in Clients, NEW c \in UnixCalls, NEW w \in Unix!FrameStatuses, Unix!ClientAcks(k, c, w) PROVE TimelyInv'
  <2> DEFINE ack == [command |-> c, status |-> w]
  <2>1. /\ ackq' = ackq \/ (Len(ackq) < AckCap /\ ackq' = Append(ackq, ack))
        /\ upc' = upc /\ timely' \subseteq timely \cup {c}
    BY <1>10 DEF Unix!ClientAcks
  <2>l. \/ Len(ackq) < AckCap /\ ackq' = Append(ackq, ack)
        \/ Len(ackq) = AckCap
        \/ c \in tainted'
    BY <1>10 DEF Unix!ClientAcks
  <2>2. ack \in Unix!Frames /\ ack.command = c
    BY DEF Unix!Frames
  <2> HIDE DEF ack
  <2>3. \A i \in DOMAIN ackq : i \in DOMAIN ackq' /\ ackq'[i] = ackq[i]
    <3>1. CASE ackq' = ackq
      BY <3>1
    <3>2. CASE Len(ackq) < AckCap /\ ackq' = Append(ackq, ack)
      BY <3>2, <2>2
    <3> QED BY <2>1, <3>1, <3>2
  <2>4. Excused(c)' \/ \E i \in DOMAIN ackq' : ackq'[i].command = c
    <3>1. CASE Len(ackq) < AckCap /\ ackq' = Append(ackq, ack)
      <4>1. Len(ackq) + 1 \in DOMAIN ackq' /\ ackq'[Len(ackq) + 1] = ack
        BY <2>2, <3>1
      <4> QED BY <2>2, <4>1
    <3>2. CASE Len(ackq) = AckCap
      <4>1. 1 \in DOMAIN ackq
        BY <3>2, UnixAssumption DEF UnixAssumption
      <4>2. ackq[1].command \in UnixCalls /\ upc[ackq[1].command] # "idle"
        BY <4>1 DEF Unix!Frames, BegunInv, FramesGiven
      <4>3. UnixRival(c)' \/ ackq[1].command = c
        BY <2>1, <4>2 DEF UnixRival
      <4> QED BY <2>3, <4>1, <4>3 DEF Excused
    <3>3. CASE c \in tainted'
      BY <3>3 DEF Excused
    <3> QED BY <2>l, <3>1, <3>2, <3>3
  <2> QED BY <1>r, <2>1, <2>3, <2>4
<1>11. CASE UNCHANGED Unix!vars
  BY <1>r, <1>11 DEF Unix!vars
<1> QED BY <1>1, <1>2, <1>3, <1>4, <1>5, <1>6, <1>7, <1>8, <1>9, <1>10, <1>11 DEF Unix!Next

\* A call that timed out is past its deadline.
LEMMA LateStep ==
    ASSUME Unix!TypeOK, LateInv, [Unix!Next]_(Unix!vars)
    PROVE  LateInv'
<1> USE DEF Unix!TypeOK, LateInv
<1>1. ASSUME NEW c \in UnixCalls, Unix!NobodyThere(c) PROVE LateInv'
  BY <1>1 DEF Unix!NobodyThere, Unix!Returns
<1>2. ASSUME NEW c \in UnixCalls, Unix!Broadcast(c) PROVE LateInv'
  BY <1>2 DEF Unix!Broadcast
<1>3. ASSUME NEW c \in UnixCalls, Unix!Queue(c) PROVE LateInv'
  BY <1>3 DEF Unix!Queue
<1>4. ASSUME NEW c \in UnixCalls, Unix!DeadlinePasses(c) PROVE LateInv'
  BY <1>4 DEF Unix!DeadlinePasses
<1>5. ASSUME NEW c \in UnixCalls, Unix!Receive(c) PROVE LateInv'
  <2>1. Unix!StatusOf(Head(ackq).status) # "Timeout" /\ expired' = expired
    BY <1>5 DEF Unix!StatusOf, Unix!Receive
  <2> QED BY <1>5, <2>1 DEF Unix!Receive, Unix!Returns
<1>6. ASSUME NEW c \in UnixCalls, Unix!TimeOut(c) PROVE LateInv'
  BY <1>6 DEF Unix!TimeOut, Unix!Returns, Unix!Holds
<1>7. ASSUME NEW k \in Clients, Unix!Connects(k) PROVE LateInv'
  BY <1>7 DEF Unix!Connects
<1>8. ASSUME NEW k \in Clients, Unix!Disconnects(k) PROVE LateInv'
  BY <1>8 DEF Unix!Disconnects
<1>9. ASSUME NEW k \in Clients, Unix!Forward(k) PROVE LateInv'
  BY <1>9 DEF Unix!Forward
<1>10. ASSUME NEW k \in Clients, NEW c \in UnixCalls, NEW w \in Unix!FrameStatuses, Unix!ClientAcks(k, c, w) PROVE LateInv'
  BY <1>10 DEF Unix!ClientAcks
<1>11. CASE UNCHANGED Unix!vars
  BY <1>11 DEF Unix!vars
<1> QED BY <1>1, <1>2, <1>3, <1>4, <1>5, <1>6, <1>7, <1>8, <1>9, <1>10, <1>11 DEF Unix!Next

\* A status that a call returns was given for it.
LEMMA GivenStep ==
    ASSUME Unix!TypeOK, BegunInv, Unix!AnswerWasGiven, [Unix!Next]_(Unix!vars)
    PROVE  Unix!AnswerWasGiven'
<1> USE DEF Unix!TypeOK, Unix!AnswerWasGiven
<1>1. ASSUME NEW c \in UnixCalls, Unix!NobodyThere(c) PROVE Unix!AnswerWasGiven'
  BY <1>1 DEF Unix!NobodyThere, Unix!Returns
<1>2. ASSUME NEW c \in UnixCalls, Unix!Broadcast(c) PROVE Unix!AnswerWasGiven'
  BY <1>2 DEF Unix!Broadcast
<1>3. ASSUME NEW c \in UnixCalls, Unix!Queue(c) PROVE Unix!AnswerWasGiven'
  BY <1>3 DEF Unix!Queue
<1>4. ASSUME NEW c \in UnixCalls, Unix!DeadlinePasses(c) PROVE Unix!AnswerWasGiven'
  BY <1>4 DEF Unix!DeadlinePasses
<1>5. ASSUME NEW c \in UnixCalls, Unix!Receive(c) PROVE Unix!AnswerWasGiven'
  <2>1. given' = given /\ ackq # << >>
    BY <1>5 DEF Unix!Receive
  <2>2. Head(ackq) \in given
    BY <2>1 DEF BegunInv, FramesGiven
  <2>3. CASE Head(ackq).command = c
    <3>1. uanswer' = [uanswer EXCEPT ![c] = Unix!StatusOf(Head(ackq).status)]
      BY <1>5, <2>3 DEF Unix!Receive, Unix!Returns
    <3> QED BY <2>1, <2>2, <2>3, <3>1
  <2>4. CASE Head(ackq).command # c
    <3>1. uanswer' = uanswer
      BY <1>5, <2>4 DEF Unix!Receive
    <3> QED BY <2>1, <3>1
  <2> QED BY <2>3, <2>4
<1>6. ASSUME NEW c \in UnixCalls, Unix!TimeOut(c) PROVE Unix!AnswerWasGiven'
  BY <1>6 DEF Unix!TimeOut, Unix!Returns, Unix!Holds
<1>7. ASSUME NEW k \in Clients, Unix!Connects(k) PROVE Unix!AnswerWasGiven'
  BY <1>7 DEF Unix!Connects
<1>8. ASSUME NEW k \in Clients, Unix!Disconnects(k) PROVE Unix!AnswerWasGiven'
  BY <1>8 DEF Unix!Disconnects
<1>9. ASSUME NEW k \in Clients, Unix!Forward(k) PROVE Unix!AnswerWasGiven'
  BY <1>9 DEF Unix!Forward
<1>10. ASSUME NEW k \in Clients, NEW c \in UnixCalls, NEW w \in Unix!FrameStatuses, Unix!ClientAcks(k, c, w) PROVE Unix!AnswerWasGiven'
  <2>1. uanswer' = uanswer /\ given \subseteq given'
    BY <1>10 DEF Unix!ClientAcks
  <2> QED BY <2>1
<1>11. CASE UNCHANGED Unix!vars
  BY <1>11 DEF Unix!vars
<1> QED BY <1>1, <1>2, <1>3, <1>4, <1>5, <1>6, <1>7, <1>8, <1>9, <1>10, <1>11 DEF Unix!Next

\* A call acknowledged in time times out only beside a rival or a cut.
LEMMA LostStep ==
    ASSUME Unix!TypeOK, QueueInv, TimelyInv, LateInv, Unix!TimelyAckLost, [Unix!Next]_(Unix!vars)
    PROVE  Unix!TimelyAckLost'
<1> USE DEF Unix!TypeOK
<1>r. \A b \in UnixCalls : Excused(b) => Excused(b)'
  BY ExcusedStays
<1>p. \A b \in timely : uanswer[b] = "Timeout" => Excused(b)
  BY DEF Unix!TimelyAckLost, Excused, UnixRival
<1>q. (\A b \in timely' : uanswer'[b] = "Timeout" => Excused(b)') => Unix!TimelyAckLost'
  BY DEF Unix!TimelyAckLost, Excused, UnixRival
<1>1. ASSUME NEW c \in UnixCalls, Unix!NobodyThere(c) PROVE Unix!TimelyAckLost'
  BY <1>r, <1>p, <1>q, <1>1 DEF Unix!NobodyThere, Unix!Returns
<1>2. ASSUME NEW c \in UnixCalls, Unix!Broadcast(c) PROVE Unix!TimelyAckLost'
  BY <1>r, <1>p, <1>q, <1>2 DEF Unix!Broadcast
<1>3. ASSUME NEW c \in UnixCalls, Unix!Queue(c) PROVE Unix!TimelyAckLost'
  BY <1>r, <1>p, <1>q, <1>3 DEF Unix!Queue
<1>4. ASSUME NEW c \in UnixCalls, Unix!DeadlinePasses(c) PROVE Unix!TimelyAckLost'
  BY <1>r, <1>p, <1>q, <1>4 DEF Unix!DeadlinePasses
<1>5. ASSUME NEW c \in UnixCalls, Unix!Receive(c) PROVE Unix!TimelyAckLost'
  <2>1. Unix!StatusOf(Head(ackq).status) # "Timeout" /\ timely' = timely
    BY <1>5 DEF Unix!StatusOf, Unix!Receive
  <2> QED BY <1>r, <1>p, <1>q, <1>5, <2>1 DEF Unix!Receive, Unix!Returns
<1>6. ASSUME NEW c \in UnixCalls, Unix!TimeOut(c) PROVE Unix!TimelyAckLost'
  <2>1. timely' = timely /\ uanswer' = [uanswer EXCEPT ![c] = "Timeout"]
    BY <1>6 DEF Unix!TimeOut, Unix!Returns
  <2>2. DOMAIN ackq = {} /\ lockq # << >> /\ lockq[1] = c
    BY <1>6 DEF Unix!TimeOut, Unix!Holds
  <2>3. upc[c] = "queued"
    BY <2>2 DEF QueueInv
  <2>4. c \in timely => Excused(c)
    BY <2>2, <2>3 DEF TimelyInv
  <2> QED BY <1>r, <1>p, <1>q, <2>1, <2>4
<1>7. ASSUME NEW k \in Clients, Unix!Connects(k) PROVE Unix!TimelyAckLost'
  BY <1>r, <1>p, <1>q, <1>7 DEF Unix!Connects
<1>8. ASSUME NEW k \in Clients, Unix!Disconnects(k) PROVE Unix!TimelyAckLost'
  BY <1>r, <1>p, <1>q, <1>8 DEF Unix!Disconnects
<1>9. ASSUME NEW k \in Clients, Unix!Forward(k) PROVE Unix!TimelyAckLost'
  BY <1>r, <1>p, <1>q, <1>9 DEF Unix!Forward
<1>10. ASSUME NEW k \in Clients, NEW c \in UnixCalls, NEW w \in Unix!FrameStatuses, Unix!ClientAcks(k, c, w) PROVE Unix!TimelyAckLost'
  <2>1. uanswer' = uanswer /\ timely' \subseteq timely \cup {c} /\ (c \in expired => timely' = timely)
    BY <1>10 DEF Unix!ClientAcks
  <2> QED BY <1>r, <1>p, <1>q, <2>1 DEF LateInv
<1>11. CASE UNCHANGED Unix!vars
  BY <1>r, <1>p, <1>q, <1>11 DEF Unix!vars
<1> QED BY <1>1, <1>2, <1>3, <1>4, <1>5, <1>6, <1>7, <1>8, <1>9, <1>10, <1>11 DEF Unix!Next

\* The Unix-socket adapter starts with no call.
LEMMA UnixInit == Unix!Init => UnixIInv
<1> SUFFICES ASSUME Unix!Init PROVE UnixIInv
  OBVIOUS
<1>0. << >> \in Seq(UnixCalls) /\ << >> \in Seq(Unix!Frames) /\ Len(<< >>) = 0 /\ DOMAIN << >> = {}
  OBVIOUS
<1>1. inbox \in [Clients -> Seq(UnixCalls)] /\ \A k \in Clients : Len(inbox[k]) <= BroadcastCap
  BY <1>0, UnixAssumption DEF UnixAssumption, Unix!Init
<1>2. lockq \in Seq(UnixCalls) /\ ackq \in Seq(Unix!Frames) /\ Len(ackq) <= AckCap
  BY <1>0, UnixAssumption DEF UnixAssumption, Unix!Init
<1>3. Unix!TypeOK
  BY <1>1, <1>2 DEF Unix!Init, Unix!TypeOK
<1>4. QueueInv
  BY <1>0 DEF Unix!Init, QueueInv
<1>5. BegunInv
  BY <1>0 DEF Unix!Init, BegunInv, InboxBegun, GotBegun, FramesGiven, TimelyBegun
<1>6. TimelyInv /\ LateInv /\ Unix!AnswerWasGiven /\ Unix!TimelyAckLost
  BY UnixAssumption, MavlinkAssumption
     DEF UnixAssumption, MavlinkAssumption, Statuses, Unix!Init, TimelyInv, LateInv,
         Unix!AnswerWasGiven, Unix!TimelyAckLost
<1> QED BY <1>3, <1>4, <1>5, <1>6 DEF UnixIInv

\* Every step of a call, the lock and the connection keeps the invariant.
LEMMA UnixStep == UnixIInv /\ [Unix!Next]_(Unix!vars) => UnixIInv'
BY UnixType, QueueStep, InboxStep, GotStep, FramesStep, TimelyBegunStep, TimelyStep, LateStep,
   GivenStep, LostStep DEF UnixIInv, BegunInv

\* Although all calls of send_command share one receiver of ACK frames
\* (custom-unix's lib.rs) and throw away each other's: whatever the number of
\* calls and clients and the size of the channels, a status that a call returns
\* was given for that very command, and a command acknowledged in time comes to
\* a Timeout only beside another call, or where a command had cut the framing of
\* the connection its ACK came over.
THEOREM UnixSafe == AdapterSpec => []UnixInv
<1>1. AdapterInit => UnixIInv
  BY UnixInit DEF AdapterInit
<1>2. UnixIInv /\ [Mavlink \/ CustomUnix \/ CustomUnixBytes]_adapterVars => UnixIInv'
  BY UnixStep, OneAdapter
<1>3. UnixIInv => UnixInv
  BY DEF UnixIInv, UnixInv
<1> QED BY <1>1, <1>2, <1>3, PTL DEF AdapterSpec

(***************************************************************************)
(* The bytes of a connection.  What is on the wire is what the client      *)
(* wrote last (WireInv).  As long as no command cut a prefix, the reader   *)
(* stands where it believes to stand: behind whole frames and the part of  *)
(* a prefix it has read, or before a payload (Aligned).                    *)
(***************************************************************************)

\* How many pieces the handler has read.
Taken == written - Len(wire)

WireInv == \A i \in DOMAIN wire : wire[i] = Bytes!Piece(Taken + i - 1)

InPrefix ==
    /\ need = 0
    /\ Taken = 3 * Len(handled) + Len(prefix)
    /\ \A i \in DOMAIN prefix : prefix[i] = Bytes!Piece(3 * Len(handled) + i - 1)

BeforePayload == need = 1 /\ prefix = << >> /\ Taken = 3 * Len(handled) + 2

Aligned ==
    cuts = 0 => payload = << >> /\ Bytes!FramesIntact /\ (InPrefix \/ BeforePayload)

BytesInv == Bytes!TypeOK /\ WireInv /\ Aligned

\* A frame is the two halves of its prefix and its payload.
LEMMA PieceOf ==
    ASSUME NEW h \in Nat
    PROVE  /\ Bytes!Piece(3 * h) = <<h, "low">>
           /\ Bytes!Piece(3 * h + 1) = <<h, "high">>
           /\ Bytes!Piece(3 * h + 2) = <<h, "payload">>
<1>1. (3 * h) \div 3 = h /\ (3 * h) % 3 = 0
  OBVIOUS
<1>2. (3 * h + 1) \div 3 = h /\ (3 * h + 1) % 3 = 1
  OBVIOUS
<1>3. (3 * h + 2) \div 3 = h /\ (3 * h + 2) % 3 = 2
  OBVIOUS
<1> QED BY <1>1, <1>2, <1>3 DEF Bytes!Piece, Bytes!Parts

\* A sequence stays one of its elements when one is appended.
LEMMA Appended ==
    ASSUME NEW S, NEW s \in Seq(S), NEW e \in S
    PROVE  Append(s, e) \in Seq(S)
OBVIOUS

\* The variables of the connection keep their types.
LEMMA BytesType ==
    ASSUME Bytes!TypeOK, [Bytes!Next]_(Bytes!vars)
    PROVE  Bytes!TypeOK'
<1> USE UnixAssumption DEF UnixAssumption, Bytes!TypeOK
<1>0. << >> \in Seq(Bytes!Pieces) /\ Len(<< >>) = 0
  OBVIOUS
<1>1. CASE Bytes!ClientWrites
  <2>1. Bytes!Piece(written) \in Bytes!Pieces
    BY <1>1 DEF Bytes!ClientWrites, Bytes!Pieces
  <2>2. wire' \in Seq(Bytes!Pieces)
    BY <1>1, <2>1 DEF Bytes!ClientWrites
  <2>3. written' \in 0 .. (3 * MaxFrames)
    BY <1>1 DEF Bytes!ClientWrites
  <2> QED BY <1>1, <2>2, <2>3 DEF Bytes!ClientWrites
<1>2. CASE Bytes!ReadPrefix
  <2>1. Head(wire) \in Bytes!Pieces /\ wire' \in Seq(Bytes!Pieces)
    BY <1>2 DEF Bytes!ReadPrefix
  <2>2. prefix' \in Seq(Bytes!Pieces) /\ Len(prefix') <= 2
    BY <1>2, <2>1 DEF Bytes!ReadPrefix
  <2> QED BY <1>2, <2>1, <2>2 DEF Bytes!ReadPrefix
<1>3. CASE Bytes!Decode
  <2>1. prefix' \in Seq(Bytes!Pieces) /\ Len(prefix') <= 2 /\ need' \in 0 .. MaxLength
    BY <1>0, <1>3 DEF Bytes!Decode
  <2> QED BY <1>3, <2>1 DEF Bytes!Decode
<1>4. CASE Bytes!DecodeWrong
  <2>1. prefix' \in Seq(Bytes!Pieces) /\ Len(prefix') <= 2 /\ need' \in 0 .. MaxLength
    BY <1>0, <1>4 DEF Bytes!DecodeWrong
  <2> QED BY <1>4, <2>1 DEF Bytes!DecodeWrong
<1>5. CASE Bytes!DecodeInvalid
  <2>1. prefix' \in Seq(Bytes!Pieces) /\ Len(prefix') <= 2
    BY <1>0, <1>5 DEF Bytes!DecodeInvalid
  <2> QED BY <1>5, <2>1 DEF Bytes!DecodeInvalid
<1>6. CASE Bytes!ReadPayload
  <2>1. Head(wire) \in Bytes!Pieces /\ wire' \in Seq(Bytes!Pieces)
    BY <1>6 DEF Bytes!ReadPayload
  <2>2. need' \in 0 .. MaxLength
    BY <1>6 DEF Bytes!ReadPayload
  <2>3. Append(payload, Head(wire)) \in Seq(Bytes!Pieces)
    BY <2>1
  <2>4. payload' \in Seq(Bytes!Pieces)
    BY <1>0, <1>6, <2>3 DEF Bytes!ReadPayload
  <2>5. handled' = handled \/ handled' = Append(handled, Append(payload, Head(wire)))
    BY <1>6 DEF Bytes!ReadPayload
  <2>6. handled' \in Seq(Seq(Bytes!Pieces))
    <3>1. handled \in Seq(Seq(Bytes!Pieces))
      OBVIOUS
    <3>2. Append(handled, Append(payload, Head(wire))) \in Seq(Seq(Bytes!Pieces))
      BY <2>3, <3>1, Appended
    <3> QED BY <2>5, <3>1, <3>2
  <2> QED BY <1>6, <2>1, <2>2, <2>4, <2>6 DEF Bytes!ReadPayload
<1>7. CASE Bytes!CommandSent
  <2>1. prefix' \in Seq(Bytes!Pieces) /\ Len(prefix') <= 2
    BY <1>0, <1>7 DEF Bytes!CommandSent
  <2>2. commands' \in 0 .. MaxCommands /\ cuts' \in 0 .. commands'
    BY <1>7 DEF Bytes!CommandSent
  <2> QED BY <1>7, <2>1, <2>2 DEF Bytes!CommandSent
<1>8. CASE Bytes!Closes
  BY <1>8 DEF Bytes!Closes
<1>9. CASE UNCHANGED Bytes!vars
  BY <1>9 DEF Bytes!vars
<1> QED BY <1>1, <1>2, <1>3, <1>4, <1>5, <1>6, <1>7, <1>8, <1>9 DEF Bytes!Next

\* The wire is a queue of what the client wrote.
LEMMA WireStep ==
    ASSUME Bytes!TypeOK, WireInv, [Bytes!Next]_(Bytes!vars)
    PROVE  WireInv'
<1>t. wire \in Seq(Bytes!Pieces) /\ written \in Nat /\ Len(wire) \in Nat
  BY UnixAssumption DEF UnixAssumption, Bytes!TypeOK
<1>1. CASE UNCHANGED <<wire, written>>
  BY <1>1 DEF WireInv, Taken
<1>2. CASE Bytes!ClientWrites
  <2>1. wire' = Append(wire, Bytes!Piece(written)) /\ written' = written + 1
    BY <1>2 DEF Bytes!ClientWrites
  <2>2. Len(wire') = Len(wire) + 1 /\ DOMAIN wire' = 1 .. Len(wire) + 1
    BY <1>t, <2>1
  <2>3. Taken' = Taken /\ Taken \in Int
    BY <1>t, <2>1, <2>2 DEF Taken
  <2>4. ASSUME NEW i \in DOMAIN wire' PROVE wire'[i] = Bytes!Piece(Taken' + i - 1)
    <3>1. CASE i = Len(wire) + 1
      <4>1. wire'[i] = Bytes!Piece(written)
        BY <1>t, <2>1, <3>1
      <4>2. Taken' + i - 1 = written
        BY <1>t, <2>3, <3>1 DEF Taken
      <4> QED BY <4>1, <4>2
    <3>2. CASE i # Len(wire) + 1
      <4>1. i \in DOMAIN wire /\ wire'[i] = wire[i]
        BY <1>t, <2>1, <2>2, <3>2
      <4> QED BY <2>3, <4>1 DEF WireInv
    <3> QED BY <3>1, <3>2
  <2> QED BY <2>4 DEF WireInv
<1>3. ASSUME wire # << >>, wire' = Tail(wire), written' = written PROVE WireInv'
  <2>1. Len(wire') = Len(wire) - 1 /\ DOMAIN wire' = 1 .. Len(wire) - 1
    BY <1>t, <1>3
  <2>2. Taken' = Taken + 1 /\ Taken \in Int
    BY <1>t, <1>3, <2>1 DEF Taken
  <2>3. ASSUME NEW i \in DOMAIN wire' PROVE wire'[i] = Bytes!Piece(Taken' + i - 1)
    <3>1. i \in Int /\ i + 1 \in DOMAIN wire /\ wire'[i] = wire[i + 1]
      BY <1>t, <1>3, <2>1
    <3>2. Taken' + i - 1 = Taken + (i + 1) - 1
      BY <2>2, <3>1
    <3> QED BY <3>1, <3>2 DEF WireInv
  <2> QED BY <2>3 DEF WireInv
<1>4. Bytes!ReadPrefix \/ Bytes!ReadPayload => wire # << >> /\ wire' = Tail(wire) /\ written' = written
  BY DEF Bytes!ReadPrefix, Bytes!ReadPayload
<1>5. Bytes!Decode \/ Bytes!DecodeWrong \/ Bytes!DecodeInvalid \/ Bytes!CommandSent \/ Bytes!Closes
        \/ UNCHANGED Bytes!vars => UNCHANGED <<wire, written>>
  BY DEF Bytes!Decode, Bytes!DecodeWrong, Bytes!DecodeInvalid, Bytes!CommandSent, Bytes!Closes,
         Bytes!vars
<1> QED BY <1>1, <1>2, <1>3, <1>4, <1>5 DEF Bytes!Next

\* What is read next is the next piece.
LEMMA NextPiece ==
    ASSUME Bytes!TypeOK, WireInv, wire # << >>
    PROVE  Head(wire) = Bytes!Piece(Taken)
<1>1. wire \in Seq(Bytes!Pieces)
  BY DEF Bytes!TypeOK
<1>2. 1 \in DOMAIN wire /\ Head(wire) = wire[1] /\ Len(wire) \in Nat
  BY <1>1
<1>3. written \in Int
  BY UnixAssumption DEF UnixAssumption, Bytes!TypeOK
<1>4. Taken + 1 - 1 = Taken
  BY <1>2, <1>3 DEF Taken
<1> QED BY <1>2, <1>4 DEF WireInv

\* The reader stays aligned while no command cuts a prefix.
LEMMA AlignedStep ==
    ASSUME Bytes!TypeOK, WireInv, Aligned, [Bytes!Next]_(Bytes!vars)
    PROVE  Aligned'
<1> SUFFICES ASSUME cuts' = 0
             PROVE  payload' = << >> /\ Bytes!FramesIntact' /\ (InPrefix' \/ BeforePayload')
  BY DEF Aligned
<1> DEFINE h == Len(handled)
<1>t. /\ wire \in Seq(Bytes!Pieces) /\ written \in Nat /\ Len(wire) \in Nat /\ Taken \in Int
      /\ prefix \in Seq(Bytes!Pieces) /\ handled \in Seq(Seq(Bytes!Pieces)) /\ h \in Nat
      /\ Len(prefix) \in Nat /\ cuts \in Nat
  <2>1. /\ wire \in Seq(Bytes!Pieces) /\ prefix \in Seq(Bytes!Pieces)
        /\ handled \in Seq(Seq(Bytes!Pieces)) /\ Len(prefix) <= 2
    BY DEF Bytes!TypeOK
  <2>2. Len(wire) \in Nat /\ h \in Nat /\ Len(prefix) \in Nat
    <3>1. Len(wire) \in Nat
      BY <2>1
    <3>2. h \in Nat
      BY <2>1
    <3>3. Len(prefix) \in Nat /\ Len(prefix) <= 2
      BY <2>1
    <3> QED BY <3>1, <3>2, <3>3
  <2>3. written \in Nat /\ cuts \in Nat
    BY UnixAssumption DEF UnixAssumption, Bytes!TypeOK
  <2>4. Taken \in Int
    BY <2>2, <2>3 DEF Taken
  <2> QED BY <2>1, <2>2, <2>3, <2>4
<1>0. cuts = 0
  BY <1>t DEF Bytes!Next, Bytes!vars, Bytes!ClientWrites, Bytes!ReadPrefix, Bytes!Decode,
     Bytes!DecodeWrong, Bytes!DecodeInvalid, Bytes!ReadPayload, Bytes!CommandSent, Bytes!Closes
<1>a. payload = << >> /\ Bytes!FramesIntact /\ (InPrefix \/ BeforePayload)
  BY <1>0 DEF Aligned
<1>1. CASE Taken' = Taken /\ UNCHANGED <<prefix, need, payload, handled>>
  BY <1>a, <1>1 DEF InPrefix, BeforePayload, Bytes!FramesIntact
<1>2. CASE Bytes!ClientWrites
  <2>1. Len(wire') = Len(wire) + 1 /\ written' = written + 1
    BY <1>t, <1>2 DEF Bytes!ClientWrites
  <2>2. Taken' = Taken
    BY <1>t, <2>1 DEF Taken
  <2> QED BY <1>1, <1>2, <2>2 DEF Bytes!ClientWrites
<1>3. ASSUME wire # << >>, wire' = Tail(wire), written' = written PROVE Taken' = Taken + 1
  BY <1>t, <1>3 DEF Taken
<1>4. CASE Bytes!ReadPrefix
  <2>1. /\ wire # << >> /\ wire' = Tail(wire) /\ written' = written /\ need = 0 /\ need' = 0
        /\ Len(prefix) < 2 /\ prefix' = Append(prefix, Head(wire)) /\ UNCHANGED <<payload, handled>>
    BY <1>4 DEF Bytes!ReadPrefix
  <2>2. Taken' = Taken + 1 /\ Head(wire) = Bytes!Piece(Taken) /\ Head(wire) \in Bytes!Pieces
    BY <1>t, <1>3, <2>1, NextPiece
  <2>3. Taken = 3 * h + Len(prefix) /\ \A i \in DOMAIN prefix : prefix[i] = Bytes!Piece(3 * h + i - 1)
    BY <1>a, <2>1 DEF InPrefix, BeforePayload
  <2>4. Len(prefix') = Len(prefix) + 1 /\ DOMAIN prefix' = 1 .. Len(prefix) + 1
    BY <1>t, <2>1, <2>2
  <2>5. ASSUME NEW i \in DOMAIN prefix' PROVE prefix'[i] = Bytes!Piece(3 * h + i - 1)
    <3>1. CASE i = Len(prefix) + 1
      <4>1. prefix'[i] = Head(wire)
        BY <1>t, <2>1, <2>2, <3>1
      <4>2. 3 * h + i - 1 = Taken
        BY <1>t, <2>3, <3>1
      <4> QED BY <2>2, <4>1, <4>2
    <3>2. CASE i # Len(prefix) + 1
      <4>1. i \in DOMAIN prefix /\ prefix'[i] = prefix[i]
        BY <1>t, <2>1, <2>2, <2>4, <3>2
      <4> QED BY <2>3, <4>1
    <3> QED BY <3>1, <3>2
  <2>6. Taken' = 3 * h + Len(prefix')
    BY <1>t, <2>2, <2>3, <2>4
  <2>7. InPrefix'
    BY <2>1, <2>5, <2>6 DEF InPrefix
  <2> QED BY <1>a, <2>1, <2>7 DEF Bytes!FramesIntact
<1>5. ASSUME need = 0, Len(prefix) = 2 PROVE Bytes!WellFormed(prefix) /\ Taken = 3 * h + 2
  <2>1. Taken = 3 * h + 2 /\ \A i \in DOMAIN prefix : prefix[i] = Bytes!Piece(3 * h + i - 1)
    BY <1>a, <1>5 DEF InPrefix, BeforePayload
  <2>2. 1 \in DOMAIN prefix /\ 2 \in DOMAIN prefix
    BY <1>t, <1>5
  <2>3. 3 * h + 1 - 1 = 3 * h /\ 3 * h + 2 - 1 = 3 * h + 1
    BY <1>t
  <2>4. prefix[1] = Bytes!Piece(3 * h) /\ prefix[2] = Bytes!Piece(3 * h + 1)
    BY <2>1, <2>2, <2>3
  <2>5. prefix[1] = <<h, "low">> /\ prefix[2] = <<h, "high">>
    BY <1>t, <2>4, PieceOf
  <2> QED BY <2>1, <2>5 DEF Bytes!WellFormed
<1>6. CASE Bytes!Decode
  <2>1. /\ need = 0 /\ Len(prefix) = 2 /\ need' = 1 /\ prefix' = << >>
        /\ UNCHANGED <<wire, written, payload, handled>>
    BY <1>6 DEF Bytes!Decode
  <2>2. BeforePayload'
    BY <1>5, <2>1 DEF BeforePayload, Taken
  <2> QED BY <1>a, <2>1, <2>2 DEF Bytes!FramesIntact
<1>7. CASE Bytes!DecodeWrong \/ Bytes!DecodeInvalid
  BY <1>5, <1>7 DEF Bytes!DecodeWrong, Bytes!DecodeInvalid
<1>8. CASE Bytes!ReadPayload
  <2>1. need = 1 /\ prefix = << >> /\ Taken = 3 * h + 2
    BY <1>a, <1>8 DEF Bytes!ReadPayload, InPrefix, BeforePayload
  <2>2. /\ wire # << >> /\ wire' = Tail(wire) /\ written' = written /\ need' = 0 /\ prefix' = << >>
        /\ payload' = << >> /\ handled' = Append(handled, Append(payload, Head(wire)))
    BY <1>8, <2>1 DEF Bytes!ReadPayload
  <2>3. Taken' = 3 * h + 3 /\ Head(wire) = <<h, "payload">>
    <3>1. Taken' = Taken + 1 /\ Head(wire) = Bytes!Piece(Taken)
      BY <1>3, <2>2, NextPiece
    <3>2. Bytes!Piece(3 * h + 2) = <<h, "payload">>
      BY <1>t, PieceOf
    <3>3. Head(wire) = <<h, "payload">>
      BY <2>1, <3>1, <3>2
    <3>4. Taken' = 3 * h + 3
      BY <1>t, <2>1, <3>1
    <3> QED BY <3>3, <3>4
  <2>4. Append(payload, Head(wire)) = <<<<h, "payload">>>>
    BY <1>a, <2>3
  <2>5. Append(payload, Head(wire)) \in Seq(Bytes!Pieces)
    <3>1. Head(wire) \in Bytes!Pieces
      BY <1>t, <2>2
    <3>2. payload \in Seq(Bytes!Pieces)
      BY DEF Bytes!TypeOK
    <3> QED BY <3>1, <3>2
  <2>6. Len(handled') = h + 1 /\ DOMAIN handled' = 1 .. h + 1
    BY <1>t, <2>2, <2>5
  <2>7. ASSUME NEW n \in DOMAIN handled' PROVE handled'[n] = Bytes!Payload(n)
    <3>1. CASE n = h + 1
      <4>1. handled'[n] = <<<<h, "payload">>>>
        BY <1>t, <2>2, <2>4, <2>5, <3>1
      <4>2. n - 1 = h
        BY <1>t, <3>1
      <4> QED BY <4>1, <4>2 DEF Bytes!Payload
    <3>2. CASE n # h + 1
      <4>1. n \in DOMAIN handled /\ handled'[n] = handled[n]
        BY <1>t, <2>2, <2>5, <2>6, <3>2
      <4> QED BY <1>a, <4>1 DEF Bytes!FramesIntact
    <3> QED BY <3>1, <3>2
  <2>8. InPrefix'
    <3>1. Len(prefix') = 0 /\ DOMAIN prefix' = {}
      BY <2>2
    <3>2. Taken' = 3 * Len(handled') + Len(prefix')
      BY <1>t, <2>3, <2>6, <3>1
    <3> QED BY <2>2, <3>1, <3>2 DEF InPrefix
  <2> QED BY <2>2, <2>7, <2>8 DEF Bytes!FramesIntact
<1>9. CASE Bytes!CommandSent
  <2>1. prefix = << >> /\ prefix' = << >> /\ UNCHANGED <<written, wire, need, payload, handled>>
    BY <1>0, <1>9 DEF Bytes!CommandSent
  <2> QED BY <1>1, <2>1 DEF Taken
<1>10. CASE Bytes!Closes \/ UNCHANGED Bytes!vars
  <2>1. UNCHANGED <<written, wire, prefix, need, payload, handled>>
    BY <1>10 DEF Bytes!Closes, Bytes!vars
  <2> QED BY <1>1, <2>1 DEF Taken
<1> QED BY <1>2, <1>4, <1>6, <1>7, <1>8, <1>9, <1>10 DEF Bytes!Next

\* The reader starts at the first byte.
LEMMA BytesInit == Bytes!Init => BytesInv
<1> SUFFICES ASSUME Bytes!Init PROVE BytesInv
  OBVIOUS
<1>0. << >> \in Seq(Bytes!Pieces) /\ << >> \in Seq(Seq(Bytes!Pieces)) /\ Len(<< >>) = 0 /\ DOMAIN << >> = {}
  OBVIOUS
<1>1. wire \in Seq(Bytes!Pieces) /\ prefix \in Seq(Bytes!Pieces) /\ payload \in Seq(Bytes!Pieces)
  BY <1>0 DEF Bytes!Init
<1>2. Len(prefix) <= 2 /\ handled \in Seq(Seq(Bytes!Pieces))
  BY <1>0 DEF Bytes!Init
<1>3. /\ written \in 0 .. (3 * MaxFrames) /\ need \in 0 .. MaxLength
      /\ commands \in 0 .. MaxCommands /\ cuts \in 0 .. commands /\ open \in BOOLEAN
  BY UnixAssumption DEF UnixAssumption, Bytes!Init
<1>4. Bytes!TypeOK
  BY <1>1, <1>2, <1>3 DEF Bytes!TypeOK
<1>5. WireInv
  BY <1>0 DEF Bytes!Init, WireInv
<1>6. Aligned
  <2>1. Len(handled) = 0 /\ Len(prefix) = 0 /\ Len(wire) = 0 /\ DOMAIN prefix = {}
    BY <1>0 DEF Bytes!Init
  <2>2. Taken = 0 /\ need = 0
    <3>1. written = 0 /\ need = 0
      BY DEF Bytes!Init
    <3> QED BY <2>1, <3>1 DEF Taken
  <2>3. Taken = 3 * Len(handled) + Len(prefix)
    BY <2>1, <2>2
  <2>4. InPrefix
    BY <2>1, <2>2, <2>3 DEF InPrefix
  <2> QED BY <1>0, <2>4 DEF Bytes!Init, Aligned, Bytes!FramesIntact
<1> QED BY <1>4, <1>5, <1>6 DEF BytesInv

\* Every step of the client, the reader and select! keeps the invariant.
LEMMA BytesStep == BytesInv /\ [Bytes!Next]_(Bytes!vars) => BytesInv'
BY BytesType, WireStep, AlignedStep DEF BytesInv

\* For any number of frames and of commands on a connection of the Unix socket
\* (custom-unix's handle_connection): the payloads the handler passes on are the
\* frames the client wrote, in their order, unless a command came while a length
\* prefix was partly read.  That cut is the only way to lose the framing.
THEOREM FramesSafe == AdapterSpec => []UnixFramesIntactUnlessCut
<1>1. AdapterInit => BytesInv
  BY BytesInit DEF AdapterInit
<1>2. BytesInv /\ [Mavlink \/ CustomUnix \/ CustomUnixBytes]_adapterVars => BytesInv'
  BY BytesStep, OneAdapter
<1>3. BytesInv => UnixFramesIntactUnlessCut
  BY DEF BytesInv, Aligned, UnixFramesIntactUnlessCut, Bytes!IntactUnlessCut
<1> QED BY <1>1, <1>2, <1>3, PTL DEF AdapterSpec
=============================================================================
