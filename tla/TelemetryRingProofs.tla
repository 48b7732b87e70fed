------------------------ MODULE TelemetryRingProofs ------------------------
(***************************************************************************)
(* TelemetryRing's safety for every number of slots, of pushes and of link *)
(* drops: the bounds on the indices, what a pop may return, and that the   *)
(* ring implements RingContract.                                           *)
(*                                                                         *)
(* The indices are bounded by what both threads are about to add: a        *)
(* producer in "discard" and a consumer past its emptiness check each owe  *)
(* tail one more step (TailInv).  What a pop reads rests on each slot      *)
(* holding an item that belongs there (SlotInv), and exactness on the ring *)
(* never having been full when a push started (ExactInv).                  *)
(***************************************************************************)
EXTENDS TelemetryRing, TLAPS

\* Arithmetic of the slot index: it is in range ...
LEMMA ModRange ==
    ASSUME NEW n \in Nat \ {0}, NEW k \in Nat
    PROVE  k % n \in 0..n-1
  OBVIOUS

\* ... it is the remainder of a division ...
LEMMA ModDiv ==
    ASSUME NEW n \in Nat \ {0}, NEW k \in Nat
    PROVE  k = n * (k \div n) + (k % n) /\ k \div n \in Nat
  OBVIOUS

\* ... no two multiples of n are less than n apart ...
LEMMA MultiplesApart ==
    ASSUME NEW n \in Nat \ {0}, NEW p \in Nat, NEW q \in Nat,
           n * q - n * p > 0, n * q - n * p < n
    PROVE  FALSE
<1>1. CASE q <= p
  <2>1. n * q <= n * p BY <1>1
  <2> QED BY <2>1
<1>2. CASE q >= p + 1
  <2>1. n * q >= n * (p + 1) BY <1>2
  <2>2. n * (p + 1) = n * p + n OBVIOUS
  <2> QED BY <2>1, <2>2
<1> QED BY <1>1, <1>2

\* ... so that two items less than n apart never share a slot.
LEMMA ModApart ==
    ASSUME NEW n \in Nat \ {0}, NEW a \in Nat, NEW b \in Nat, a < b, b < a + n
    PROVE  a % n # b % n
<1> SUFFICES ASSUME a % n = b % n PROVE FALSE
  OBVIOUS
<1> DEFINE p == a \div n
           q == b \div n
<1>1. a = n * p + (a % n) /\ p \in Nat BY ModDiv
<1>2. b = n * q + (b % n) /\ q \in Nat BY ModDiv
<1>3. n * p \in Nat /\ n * q \in Nat /\ a % n \in Nat BY <1>1, <1>2, ModRange
<1> HIDE DEF p, q
<1>4. n * q - n * p > 0 /\ n * q - n * p < n BY <1>1, <1>2, <1>3
<1> QED BY <1>1, <1>2, <1>4, MultiplesApart

\* push and pop address a slot of the file.
LEMMA SlotRange ==
    ASSUME NEW k \in Nat
    PROVE  IndexOf(k) \in 0..NumSlots-1
BY RingAssumption, ModRange DEF IndexOf
-----------------------------------------------------------------------------
(* Types                                                                   *)

\* open() leaves a well-typed ring.
LEMMA TypeInit == Init => TypeOK
BY RingAssumption DEF Init, TypeOK, PPC, CPC, Empty

\* Every step of push keeps the types; the slot it writes exists.
LEMMA TypePush == TypeOK /\ Push => TypeOK'
<1> SUFFICES ASSUME TypeOK, Push PROVE TypeOK'
  OBVIOUS
<1> USE DEF TypeOK, cvars, PPC
<1>1. CASE PushStart BY <1>1 DEF PushStart
<1>2. CASE PushWritten BY <1>2, SlotRange DEF PushWritten
<1>3. CASE PushAdvanceHead BY <1>3 DEF PushAdvanceHead
<1>4. CASE PushLoadTail BY <1>4 DEF PushLoadTail
<1>5. CASE PushDiscard BY <1>5 DEF PushDiscard
<1>6. CASE PushNotify BY <1>6 DEF PushNotify
<1> QED BY <1>1, <1>2, <1>3, <1>4, <1>5, <1>6 DEF Push

\* Every step of pop does; what it reads is a value of a slot or torn.
LEMMA TypePop == TypeOK /\ Pop => TypeOK'
<1> SUFFICES ASSUME TypeOK, Pop PROVE TypeOK'
  OBVIOUS
<1> USE DEF TypeOK, pvars, CPC
<1>1. CASE PopCall BY <1>1 DEF PopCall
<1>2. CASE PopLoadTail BY <1>2 DEF PopLoadTail
<1>3. CASE PopLoadHead BY <1>3 DEF PopLoadHead
<1>4. CASE PopNotified \/ PopWait BY <1>4 DEF PopNotified, PopWait
<1>5. CASE PopPaced BY <1>5 DEF PopPaced
<1>6. CASE PopCopyStart BY <1>6, SlotRange DEF PopCopyStart
<1>7. CASE PopCopyEnd BY <1>7, SlotRange DEF PopCopyEnd, Copied
<1>8. CASE PopAdvanceTail BY <1>8 DEF PopAdvanceTail
<1> QED BY <1>1, <1>2, <1>3, <1>4, <1>5, <1>6, <1>7, <1>8 DEF Pop

\* So do the two loads of on_reconnect.
LEMMA TypeReconnect == TypeOK /\ OnReconnect => TypeOK'
<1> SUFFICES ASSUME TypeOK, OnReconnect PROVE TypeOK'
  OBVIOUS
<1> USE DEF TypeOK, pvars, CPC
<1>1. CASE OnReconnectLoadHead BY <1>1 DEF OnReconnectLoadHead
<1>2. CASE OnReconnectLoadTail
  <2>1. inReplay' \in BOOLEAN BY <1>2 DEF OnReconnectLoadTail
  <2> QED BY <1>2, <2>1 DEF OnReconnectLoadTail
<1> QED BY <1>1, <1>2 DEF OnReconnect

\* Every step of the ring does.
LEMMA TypeStep == TypeOK /\ [Next]_vars => TypeOK'
<1> SUFFICES ASSUME TypeOK, [Next]_vars PROVE TypeOK'
  OBVIOUS
<1>1. CASE UNCHANGED vars BY <1>1 DEF TypeOK, vars
<1> QED BY <1>1, TypePush, TypePop, TypeReconnect DEF Next

\* Every variable keeps its type: slots hold items, the indices are natural
\* numbers, and what pop returns is an item or a torn payload, never the
\* content of a slot that was not written.
THEOREM RingTypes == Spec => []TypeOK
<1>1. Init => TypeOK BY TypeInit
<1>2. TypeOK /\ [Next]_vars => TypeOK' BY TypeStep
<1> QED BY <1>1, <1>2, PTL DEF Spec
-----------------------------------------------------------------------------
(* The bounds on tail                                                      *)

\* The consumer has found the ring not empty and will advance tail.
Consuming == cpc \in {"pacing", "read", "copy", "advance"}

\* Steps of tail that the two threads have decided on and not yet taken.
ProducerOwes == IF ppc = "discard" THEN 1 ELSE 0
ConsumerOwes == IF Consuming THEN 1 ELSE 0

TailInv ==
    /\ tail + ProducerOwes + ConsumerOwes <= head + 1
    /\ cpc = "gottail" /\ ctail < head => tail + ProducerOwes <= head

\* A fresh ring has head and tail at 0.
LEMMA TailInit == Init => TailInv
BY DEF Init, TailInv, ProducerOwes, ConsumerOwes, Consuming

\* The producer's discard and the consumer's increment keep the bound, whoever
\* comes first.
LEMMA TailStep == TypeOK /\ TailInv /\ [Next]_vars => TailInv'
<1> SUFFICES ASSUME TypeOK, TailInv, [Next]_vars PROVE TailInv'
  OBVIOUS
<1> USE RingAssumption
    DEF TypeOK, TailInv, ProducerOwes, ConsumerOwes, Consuming, cvars, pvars
<1>1. CASE PushStart BY <1>1 DEF PushStart
<1>2. CASE PushWritten BY <1>2 DEF PushWritten
<1>3. CASE PushAdvanceHead BY <1>3 DEF PushAdvanceHead
<1>4. CASE PushLoadTail BY <1>4 DEF PushLoadTail, Lapped
<1>5. CASE PushDiscard BY <1>5 DEF PushDiscard
<1>6. CASE PushNotify BY <1>6 DEF PushNotify
<1>7. CASE PopCall BY <1>7 DEF PopCall
<1>8. CASE PopLoadTail BY <1>8 DEF PopLoadTail
<1>9. CASE PopLoadHead BY <1>9 DEF PopLoadHead
<1>10. CASE PopNotified \/ PopWait BY <1>10 DEF PopNotified, PopWait
<1>11. CASE PopPaced BY <1>11 DEF PopPaced
<1>12. CASE PopCopyStart BY <1>12 DEF PopCopyStart
<1>13. CASE PopCopyEnd BY <1>13 DEF PopCopyEnd
<1>14. CASE PopAdvanceTail BY <1>14 DEF PopAdvanceTail
<1>15. CASE OnReconnectLoadHead BY <1>15 DEF OnReconnectLoadHead
<1>16. CASE OnReconnectLoadTail BY <1>16 DEF OnReconnectLoadTail
<1>17. CASE UNCHANGED vars BY <1>17 DEF vars
<1> QED
  BY <1>1, <1>2, <1>3, <1>4, <1>5, <1>6, <1>7, <1>8, <1>9, <1>10, <1>11, <1>12,
     <1>13, <1>14, <1>15, <1>16, <1>17 DEF Next, Push, Pop, OnReconnect

\* Neither the discard of push nor the advance of pop is atomic with the check
\* that leads to it; for all interleavings tail stays within one of head.
THEOREM TailIsBounded == Spec => []TailBound
<1>1. Init => TypeOK /\ TailInv BY TypeInit, TailInit
<1>2. TypeOK /\ TailInv /\ [Next]_vars => TypeOK' /\ TailInv' BY TypeStep, TailStep
<1>3. TypeOK /\ TailInv => TailBound
  BY DEF TypeOK, TailInv, TailBound, ProducerOwes, ConsumerOwes
<1> QED BY <1>1, <1>2, <1>3, PTL DEF Spec

\* A push that makes the ring too full discards before it ends.
LEMMA LagStep == TypeOK /\ LagBound /\ [Next]_vars => LagBound'
<1> SUFFICES ASSUME TypeOK, LagBound, [Next]_vars PROVE LagBound'
  OBVIOUS
<1> USE RingAssumption DEF TypeOK, LagBound, cvars, pvars
<1>1. CASE Push
  BY <1>1 DEF Push, PushStart, PushWritten, PushAdvanceHead, PushLoadTail, Lapped,
              PushDiscard, PushNotify
<1>2. CASE Pop
  BY <1>2 DEF Pop, PopCall, PopLoadTail, PopLoadHead, PopWait, PopNotified, PopPaced,
              PopCopyStart, PopCopyEnd, PopAdvanceTail
<1>3. CASE OnReconnect
  BY <1>3 DEF OnReconnect, OnReconnectLoadHead, OnReconnectLoadTail
<1>4. CASE UNCHANGED vars BY <1>4 DEF vars
<1> QED BY <1>1, <1>2, <1>3, <1>4 DEF Next

\* push gives up the oldest slot in time: the unread part of the ring never
\* outgrows it, whatever the consumer does.
THEOREM LagIsBounded == Spec => []LagBound
<1>1. Init => TypeOK /\ LagBound
  BY TypeInit, RingAssumption DEF Init, LagBound
<1>2. TypeOK /\ LagBound /\ [Next]_vars => TypeOK' /\ LagBound' BY TypeStep, LagStep
<1> QED BY <1>1, <1>2, PTL DEF Spec
-----------------------------------------------------------------------------
(* What a pop reads                                                        *)

\* v is an item of slot i no newer than the one being pushed.
Belongs(v, i) == v \in Nat /\ v <= head /\ IndexOf(v) = i

\* v is what pop may find in the slot of the tail it loaded.
OwnItem(v) == Belongs(v, IndexOf(ctail)) /\ ctail <= v

SlotInv ==
    /\ \A i \in 0..NumSlots-1 : slots[i] # Empty => Belongs(slots[i], i)
    /\ \A k \in Nat : k < head => slots[IndexOf(k)] >= k
    /\ ppc = "written" => slots[IndexOf(head)] = head
    /\ Consuming => ctail < head
    /\ cpc = "copy" => OwnItem(cval)
    /\ cpc = "advance" => cval = Torn \/ OwnItem(cval)

\* The slot of an item pushed before holds that item or a later one.
LEMMA SlotHolds ==
    ASSUME TypeOK, SlotInv, Consuming
    PROVE  OwnItem(slots[IndexOf(ctail)])
<1>1. IndexOf(ctail) \in 0..NumSlots-1 BY SlotRange DEF TypeOK
<1>2. slots[IndexOf(ctail)] >= ctail BY DEF SlotInv, TypeOK
<1>3. slots[IndexOf(ctail)] # Empty BY <1>2 DEF TypeOK, Empty
<1> QED BY <1>1, <1>2, <1>3 DEF SlotInv, OwnItem

\* In a fresh ring nothing was pushed and nothing is being read.
LEMMA SlotInit == Init => SlotInv
BY SlotRange DEF Init, SlotInv, Consuming, Empty

\* A write puts a newer item into the slot it hits.
LEMMA SlotWritten == TypeOK /\ SlotInv /\ PushWritten => SlotInv'
<1> SUFFICES ASSUME TypeOK, SlotInv, PushWritten PROVE SlotInv'
  OBVIOUS
<1> USE DEF TypeOK, PushWritten, cvars
<1>1. IndexOf(head) \in 0..NumSlots-1 BY SlotRange
<1>2. \A i \in 0..NumSlots-1 : slots'[i] = IF i = IndexOf(head) THEN head ELSE slots[i]
  BY <1>1
<1>3. ASSUME NEW i \in 0..NumSlots-1, slots'[i] # Empty PROVE Belongs(slots[i], i)'
  BY <1>2, <1>3 DEF SlotInv, Belongs, IndexOf
<1>4. ASSUME NEW k \in Nat, k < head PROVE slots'[IndexOf(k)] >= k
  <2>1. IndexOf(k) \in 0..NumSlots-1 BY SlotRange
  <2> QED BY <1>2, <1>4, <2>1 DEF SlotInv
<1> QED BY <1>1, <1>2, <1>3, <1>4 DEF SlotInv, Consuming, OwnItem, Belongs, IndexOf

\* Publishing an item is what makes its slot one that may be read.
LEMMA SlotAdvance == TypeOK /\ SlotInv /\ PushAdvanceHead => SlotInv'
<1> SUFFICES ASSUME TypeOK, SlotInv, PushAdvanceHead PROVE SlotInv'
  OBVIOUS
<1> USE DEF TypeOK, PushAdvanceHead, cvars
<1>1. ASSUME NEW k \in Nat, k < head' PROVE slots'[IndexOf(k)'] >= k
  <2>1. CASE k < head BY <2>1 DEF SlotInv, IndexOf
  <2>2. CASE k = head BY <2>2 DEF SlotInv, IndexOf
  <2> QED BY <1>1, <2>1, <2>2
<1>2. ASSUME NEW v, NEW i, Belongs(v, i) PROVE Belongs(v, i)'
  BY <1>2 DEF Belongs, IndexOf
<1> QED BY <1>1, <1>2 DEF SlotInv, Consuming, OwnItem, IndexOf

\* A copy sees the item of the slot, before or after a write, or is torn.
LEMMA SlotCopy ==
    TypeOK /\ SlotInv /\ (PopCopyStart \/ PopCopyEnd) => SlotInv'
<1> SUFFICES ASSUME TypeOK, SlotInv, PopCopyStart \/ PopCopyEnd PROVE SlotInv'
  OBVIOUS
<1> USE DEF pvars
<1>1. OwnItem(slots[IndexOf(ctail)])
  BY SlotHolds DEF PopCopyStart, PopCopyEnd, Consuming
<1>2. CASE PopCopyStart
  BY <1>1, <1>2 DEF PopCopyStart, SlotInv, Consuming, OwnItem, Belongs, IndexOf
<1>3. CASE PopCopyEnd
  <2>1. OwnItem(cval) BY <1>3 DEF PopCopyEnd, SlotInv
  <2>2. cval' = Torn \/ OwnItem(cval') BY <1>1, <1>3, <2>1 DEF PopCopyEnd, Copied
  <2> QED BY <1>3, <2>2 DEF PopCopyEnd, SlotInv, Consuming, OwnItem, Belongs, IndexOf
<1> QED BY <1>2, <1>3

\* Every step keeps what the slots hold.
LEMMA SlotStep == TypeOK /\ SlotInv /\ [Next]_vars => SlotInv'
<1> SUFFICES ASSUME TypeOK, SlotInv, [Next]_vars PROVE SlotInv'
  OBVIOUS
<1>1. CASE PushWritten BY <1>1, SlotWritten
<1>2. CASE PushAdvanceHead BY <1>2, SlotAdvance
<1>3. CASE PopCopyStart \/ PopCopyEnd BY <1>3, SlotCopy
<1> USE DEF SlotInv, Consuming, OwnItem, Belongs, IndexOf, cvars, pvars
<1>4. CASE PushStart BY <1>4 DEF PushStart
<1>5. CASE PushLoadTail BY <1>5 DEF PushLoadTail
<1>6. CASE PushDiscard BY <1>6 DEF PushDiscard
<1>7. CASE PushNotify BY <1>7 DEF PushNotify
<1>8. CASE PopCall BY <1>8 DEF PopCall
<1>9. CASE PopLoadTail BY <1>9 DEF PopLoadTail
<1>10. CASE PopLoadHead BY <1>10 DEF PopLoadHead, TypeOK
<1>11. CASE PopNotified \/ PopWait BY <1>11 DEF PopNotified, PopWait
<1>12. CASE PopPaced BY <1>12 DEF PopPaced
<1>13. CASE PopAdvanceTail BY <1>13 DEF PopAdvanceTail
<1>14. CASE OnReconnectLoadHead BY <1>14 DEF OnReconnectLoadHead
<1>15. CASE OnReconnectLoadTail BY <1>15 DEF OnReconnectLoadTail
<1>16. CASE UNCHANGED vars BY <1>16 DEF vars
<1> QED
  BY <1>1, <1>2, <1>3, <1>4, <1>5, <1>6, <1>7, <1>8, <1>9, <1>10, <1>11, <1>12,
     <1>13, <1>14, <1>15, <1>16 DEF Next, Push, Pop, OnReconnect

\* A pop that was lapped while it slept or copied returns a later item of the
\* slot it read or a torn one; the unwritten-slot branch is never taken.
THEOREM PopReadsOwnSlot == Spec => []ReadsOwnSlot
<1>1. Init => TypeOK /\ SlotInv BY TypeInit, SlotInit
<1>2. TypeOK /\ SlotInv /\ [Next]_vars => TypeOK' /\ SlotInv' BY TypeStep, SlotStep
<1>3. SlotInv => ReadsOwnSlot BY DEF SlotInv, ReadsOwnSlot, OwnItem, Belongs
<1> QED BY <1>1, <1>2, <1>3, PTL DEF Spec
-----------------------------------------------------------------------------
(* The ring implements its contract                                        *)

\* As long as no push has found the ring full, nothing is discarded, the
\* unread slots hold exactly the unread items, and pop's copy is the next one.
Exact ==
    /\ ppc # "discard"
    /\ head - tail <= NumSlots
    /\ ppc \in {"copying", "written"} => head - tail < NumSlots
    /\ tail = Len(delivered)
    /\ cpc = "gottail" \/ Consuming => ctail = tail
    /\ \A k \in Nat : tail <= k /\ k < head => slots[IndexOf(k)] = k
    /\ cpc \in {"copy", "advance"} => cval = ctail

ExactInv == ~overrun => Exact

RingInv == TypeOK /\ SlotInv /\ ExactInv

\* Two items less than a ring apart have different slots.
LEMMA SlotsApart ==
    ASSUME NEW a \in Nat, NEW b \in Nat, a < b, b < a + NumSlots
    PROVE  IndexOf(a) # IndexOf(b)
BY RingAssumption, ModApart DEF IndexOf

\* A fresh ring has delivered what it accepted, nothing.
LEMMA ExactInit == Init => ExactInv
BY RingAssumption DEF Init, ExactInv, Exact, Consuming

\* Before the first overrun a write hits no unread slot.
LEMMA ExactWritten == RingInv /\ PushWritten => ExactInv'
<1> SUFFICES ASSUME RingInv, PushWritten, ~overrun PROVE Exact'
  BY DEF ExactInv, PushWritten
<1> USE DEF RingInv, TypeOK, ExactInv, Exact, PushWritten, cvars
<1>1. ASSUME NEW k \in Nat, tail <= k, k < head PROVE slots'[IndexOf(k)] = k
  <2>1. IndexOf(k) # IndexOf(head) BY <1>1, SlotsApart, RingAssumption
  <2>2. IndexOf(k) \in 0..NumSlots-1 BY SlotRange
  <2> QED BY <1>1, <2>1, <2>2
<1> QED BY <1>1 DEF Consuming, IndexOf

\* Nor does an advance of head bring an item that is not in its slot.
LEMMA ExactAdvance == RingInv /\ PushAdvanceHead => ExactInv'
<1> SUFFICES ASSUME RingInv, PushAdvanceHead, ~overrun PROVE Exact'
  BY DEF ExactInv, PushAdvanceHead
<1> USE DEF RingInv, TypeOK, ExactInv, Exact, PushAdvanceHead, cvars
<1>1. ASSUME NEW k \in Nat, tail <= k, k < head + 1 PROVE slots[IndexOf(k)] = k
  <2>1. CASE k < head BY <1>1, <2>1
  <2>2. CASE k = head BY <2>2 DEF SlotInv
  <2> QED BY <1>1, <2>1, <2>2
<1> QED BY <1>1, RingAssumption DEF Consuming, IndexOf

\* The copy of the oldest unread item is that item.
LEMMA ExactCopy == RingInv /\ (PopCopyStart \/ PopCopyEnd) => ExactInv'
<1> SUFFICES ASSUME RingInv, PopCopyStart \/ PopCopyEnd, ~overrun PROVE Exact'
  BY DEF ExactInv, PopCopyStart, PopCopyEnd
<1> USE DEF RingInv, TypeOK, ExactInv, Exact, pvars
<1>1. ctail = tail /\ ctail < head
  BY DEF PopCopyStart, PopCopyEnd, SlotInv, Consuming
<1>2. slots[IndexOf(ctail)] = ctail BY <1>1
<1>3. CASE PopCopyStart BY <1>1, <1>2, <1>3 DEF PopCopyStart, Consuming, IndexOf
<1>4. CASE PopCopyEnd
  <2>1. ~(ppc = "copying" /\ IndexOf(head) = IndexOf(ctail))
    BY <1>1, SlotsApart, RingAssumption
  <2>2. cval' = ctail BY <1>2, <1>4, <2>1 DEF PopCopyEnd, Copied
  <2> QED BY <1>1, <1>4, <2>2 DEF PopCopyEnd, Consuming, IndexOf
<1> QED BY <1>3, <1>4

\* The item popped is the next one in order.
LEMMA ExactPopped == RingInv /\ PopAdvanceTail => ExactInv'
<1> SUFFICES ASSUME RingInv, PopAdvanceTail, ~overrun PROVE Exact'
  BY DEF ExactInv, PopAdvanceTail
<1> USE DEF RingInv, TypeOK, ExactInv, Exact, PopAdvanceTail, pvars
<1>1. cval = tail BY DEF Consuming
<1>2. delivered' = Append(delivered, cval) /\ cpc' = "idle" BY <1>1 DEF Empty
<1>3. Len(delivered') = Len(delivered) + 1 BY <1>1, <1>2
<1>4. \A k \in Nat : tail + 1 <= k /\ k < head => slots[IndexOf(k)] = k OBVIOUS
<1>5. ppc # "discard" /\ head - (tail + 1) < NumSlots BY RingAssumption
<1>6. tail = Len(delivered) /\ tail' = tail + 1
      /\ UNCHANGED <<slots, head, ppc, overrun>>
  OBVIOUS
<1>7. tail' = Len(delivered') BY <1>3, <1>6
<1>8. ~Consuming' /\ cpc' \notin {"gottail", "copy", "advance"} BY <1>2 DEF Consuming
<1>9. \A k \in Nat : (tail <= k /\ k < head => slots[IndexOf(k)] = k)'
  BY <1>4, <1>6 DEF IndexOf
<1>10. (head - tail < NumSlots /\ head - tail <= NumSlots)'
  BY <1>5, <1>6, RingAssumption
<1> HIDE DEF RingInv, ExactInv, PopAdvanceTail
<1> QED BY <1>5, <1>6, <1>7, <1>8, <1>9, <1>10

\* Before the first overrun every step keeps the ring exact.
LEMMA ExactStep == RingInv /\ [Next]_vars => ExactInv'
<1> SUFFICES ASSUME RingInv, [Next]_vars PROVE ExactInv'
  OBVIOUS
<1>1. CASE PushWritten BY <1>1, ExactWritten
<1>2. CASE PushAdvanceHead BY <1>2, ExactAdvance
<1>3. CASE PopCopyStart \/ PopCopyEnd BY <1>3, ExactCopy
<1>4. CASE PopAdvanceTail BY <1>4, ExactPopped
<1> USE RingAssumption DEF RingInv, TypeOK, ExactInv, Exact, Consuming, IndexOf, cvars, pvars
<1>5. CASE PushStart
  <2>1. CASE overrun \/ head - tail >= NumSlots BY <1>5, <2>1 DEF PushStart
  <2>2. CASE ~overrun /\ head - tail < NumSlots BY <1>5, <2>2 DEF PushStart
  <2> QED BY <2>1, <2>2
<1>6. CASE PushLoadTail BY <1>6 DEF PushLoadTail, Lapped
<1>7. CASE PushDiscard BY <1>7 DEF PushDiscard
<1>8. CASE PushNotify BY <1>8 DEF PushNotify
<1>9. CASE PopCall BY <1>9 DEF PopCall
<1>10. CASE PopLoadTail BY <1>10 DEF PopLoadTail
<1>11. CASE PopLoadHead BY <1>11 DEF PopLoadHead
<1>12. CASE PopNotified \/ PopWait BY <1>12 DEF PopNotified, PopWait
<1>13. CASE PopPaced BY <1>13 DEF PopPaced
<1>14. CASE OnReconnectLoadHead BY <1>14 DEF OnReconnectLoadHead
<1>15. CASE OnReconnectLoadTail BY <1>15 DEF OnReconnectLoadTail
<1>16. CASE UNCHANGED vars BY <1>16 DEF vars
<1> QED
  BY <1>1, <1>2, <1>3, <1>4, <1>5, <1>6, <1>7, <1>8, <1>9, <1>10, <1>11, <1>12,
     <1>13, <1>14, <1>15, <1>16 DEF Next, Push, Pop, OnReconnect

\* A completed pop is a delivery of the contract: the next item, or, once the
\* ring has overrun, some item or a torn one.
LEMMA PopDelivers == RingInv /\ PopAdvanceTail => Contract!CNext
<1> SUFFICES ASSUME RingInv, PopAdvanceTail PROVE Contract!CNext
  OBVIOUS
<1> USE DEF RingInv, TypeOK, PopAdvanceTail
<1>1. cval = Torn \/ OwnItem(cval) BY DEF SlotInv
<1>2. cval # Empty BY <1>1 DEF OwnItem, Belongs, Empty, Torn
<1>3. delivered' = Append(delivered, cval) /\ head' = head /\ overrun' = overrun BY <1>2
<1>4. CASE overrun
  <2>1. cval \in (0..head) \cup {Torn} BY <1>1 DEF OwnItem, Belongs
  <2> QED BY <1>3, <1>4, <2>1 DEF Contract!CNext, Contract!DeliverLossy
<1>5. CASE ~overrun
  <2>1. cval = Len(delivered) /\ cval < head
    BY <1>5 DEF ExactInv, Exact, SlotInv, Consuming
  <2> QED BY <1>3, <1>5, <2>1 DEF Contract!CNext, Contract!DeliverInOrder
<1> QED BY <1>4, <1>5

\* Every step of the ring is a step of its contract or none.
LEMMA StepRefines == RingInv /\ [Next]_vars => [Contract!CNext]_(Contract!cvars)
<1> SUFFICES ASSUME RingInv, [Next]_vars PROVE [Contract!CNext]_(Contract!cvars)
  OBVIOUS
<1> USE DEF Contract!cvars, cvars, pvars
<1>1. CASE PushStart
  <2>1. CASE overrun BY <1>1, <2>1 DEF PushStart, RingInv, TypeOK
  <2>2. CASE ~overrun
    BY <1>1, <2>2 DEF PushStart, RingInv, TypeOK, Contract!CNext, Contract!Overrun
  <2> QED BY <2>1, <2>2
<1>2. CASE PushAdvanceHead
  BY <1>2 DEF PushAdvanceHead, Contract!CNext, Contract!Accept
<1>3. CASE PopAdvanceTail BY <1>3, PopDelivers
<1>4. CASE PushWritten \/ PushLoadTail \/ PushDiscard \/ PushNotify
  BY <1>4 DEF PushWritten, PushLoadTail, PushDiscard, PushNotify
<1>5. CASE \/ PopCall \/ PopLoadTail \/ PopLoadHead \/ PopWait \/ PopNotified \/ PopPaced
           \/ PopCopyStart \/ PopCopyEnd
  BY <1>5 DEF PopCall, PopLoadTail, PopLoadHead, PopWait, PopNotified, PopPaced,
              PopCopyStart, PopCopyEnd
<1>6. CASE OnReconnect
  BY <1>6 DEF OnReconnect, OnReconnectLoadHead, OnReconnectLoadTail
<1>7. CASE UNCHANGED vars BY <1>7 DEF vars
<1> QED BY <1>1, <1>2, <1>3, <1>4, <1>5, <1>6, <1>7 DEF Next, Push, Pop

\* The lock-free ring is a correct queue until it overruns and a lossy one
\* after that, for every capacity and every interleaving of push and pop.
THEOREM RingImplementsContract == Spec => ImplementsContract
<1>1. Init => RingInv BY TypeInit, SlotInit, ExactInit DEF RingInv
<1>2. RingInv /\ [Next]_vars => RingInv'
  BY TypeStep, SlotStep, ExactStep DEF RingInv
<1>3. Init => Contract!CInit BY DEF Init, Contract!CInit
<1>4. RingInv /\ [Next]_vars => [Contract!CNext]_(Contract!cvars) BY StepRefines
<1> QED BY <1>1, <1>2, <1>3, <1>4, PTL DEF Spec, ImplementsContract, Contract!CSpec
=============================================================================
