------------------------- MODULE ProjectPageProofs -------------------------
(***************************************************************************)
(* The live part of the dashboard, for every set of projects, every finite *)
(* set of vehicles and every capacity: RingKeepsNewest,                    *)
(* FeedFromCurrentDevices and OtherProjectOnlyAfterJump of ProjectPage; then *)
(* the connection under it, WsManager: its type, OneSocket, and that it    *)
(* implements LiveContract whatever its callers and the network do; and at *)
(* last the page with its connection: FollowsDevices, and OneSocket and the *)
(* contract again, for steps that make one call per device.                *)
(*                                                                         *)
(* That a ring shows the newest frames needs an invariant about where they *)
(* are, RingOf, because a snapshot depends on the head, which moves round. *)
(* The page's properties need different invariants: StoreInv, LoopInv and  *)
(* ShownInv, each inductive by itself, and FollowInv, inductive with       *)
(* ShownInv.  The calls of an effect are a fold over a set of devices; what a *)
(* fold does is shown by a smallest counterexample (SmallestSubset).       *)
(***************************************************************************)
EXTENDS ProjectPage, FiniteSetTheorems, WellFoundedInduction, TLAPS

(* The ring                                                                *)

\* The frames of one vehicle.
FramesOf(v) == [vehicle: {v}, ts: Nat]

\* Where (head + i - 1) % CAPACITY is, for an i of 1 .. CAPACITY.
Wrapped(x) == IF x < CAPACITY THEN x ELSE x - CAPACITY

\* A ring and everything pushed into it: before it is full, the slots in the
\* order they were written; from then on, the oldest at head.
RingOf(b, h) ==
    /\ b.buf = [i \in 0 .. CAPACITY - 1 |-> b.buf[i]]
    /\ b.head \in 0 .. CAPACITY - 1
    /\ \/ /\ Len(h) < CAPACITY
          /\ b.count = Len(h) /\ b.head = Len(h)
          /\ \A i \in 1 .. Len(h) : b.buf[i - 1] = h[i]
       \/ /\ Len(h) >= CAPACITY
          /\ b.count = CAPACITY
          /\ \A i \in 1 .. CAPACITY :
                b.buf[Wrapped(b.head + i - 1)] = h[Len(h) - CAPACITY + i]

\* The remainder, for an index that has passed the end at most once.
LEMMA ModWraps ==
    ASSUME NEW x \in Nat, x < 2 * CAPACITY
    PROVE  x % CAPACITY = Wrapped(x)
<1>0. CAPACITY \in Nat \ {0}
    BY CapacityAssumption
<1> DEFINE q == x \div CAPACITY
           r == x % CAPACITY
<1>1. x = CAPACITY * q + r /\ q \in Nat /\ r \in 0 .. CAPACITY - 1
    BY <1>0
<1> HIDE DEF q, r
<1>2. q = 0 \/ q = 1
    <2> SUFFICES ASSUME q >= 2 PROVE FALSE
        BY <1>1
    <2>1. CAPACITY * q >= CAPACITY * 2
        BY <1>0, <1>1
    <2>2. CAPACITY * q \in Nat
        BY <1>0, <1>1
    <2> QED BY <1>0, <1>1, <2>1, <2>2
<1>3. CASE q = 0
    BY <1>0, <1>1, <1>3 DEF Wrapped, r
<1>4. CASE q = 1
    BY <1>0, <1>1, <1>4 DEF Wrapped, r
<1> QED BY <1>2, <1>3, <1>4

\* A new ring is the ring of nothing.
LEMMA NewRing == RingOf(NewBuffer, << >>)
BY CapacityAssumption DEF RingOf, NewBuffer

\* push keeps a ring the ring of what was pushed.
LEMMA PushRing ==
    ASSUME NEW S, NEW h \in Seq(S), NEW b, RingOf(b, h), NEW f \in S
    PROVE  RingOf(BufferPush(b, f), Append(h, f))
<1> DEFINE c == BufferPush(b, f)
           g == Append(h, f)
<1> SUFFICES RingOf(c, g)
    OBVIOUS
<1>0. CAPACITY \in Nat \ {0} /\ Len(h) \in Nat
    BY CapacityAssumption
<1>1. /\ g \in Seq(S) /\ Len(g) = Len(h) + 1 /\ g[Len(h) + 1] = f
      /\ \A i \in 1 .. Len(h) : g[i] = h[i]
    OBVIOUS
<1>2. b.head \in 0 .. CAPACITY - 1 /\ b.buf = [i \in 0 .. CAPACITY - 1 |-> b.buf[i]]
    BY DEF RingOf
<1>3. (b.head + 1) % CAPACITY = Wrapped(b.head + 1)
    BY <1>0, <1>2, ModWraps
<1>4. /\ c.head = Wrapped(b.head + 1)
      /\ c.count = IF b.count < CAPACITY THEN b.count + 1 ELSE b.count
      /\ c.buf = [b.buf EXCEPT ![b.head] = f]
    BY <1>3 DEF BufferPush
<1>5. /\ c.buf = [i \in 0 .. CAPACITY - 1 |-> c.buf[i]]
      /\ c.buf[b.head] = f
      /\ \A i \in 0 .. CAPACITY - 1 : i # b.head => c.buf[i] = b.buf[i]
    BY <1>2, <1>4
<1> HIDE DEF c, g
<1>6. c.head \in 0 .. CAPACITY - 1
    BY <1>0, <1>2, <1>4 DEF Wrapped
<1>7. CASE Len(h) + 1 < CAPACITY
    <2>1. b.count = Len(h) /\ b.head = Len(h) /\ \A i \in 1 .. Len(h) : b.buf[i - 1] = h[i]
        BY <1>0, <1>7 DEF RingOf
    <2>2. c.count = Len(g) /\ c.head = Len(g)
        BY <1>0, <1>1, <1>4, <1>7, <2>1 DEF Wrapped
    <2>3. ASSUME NEW i \in 1 .. Len(g) PROVE c.buf[i - 1] = g[i]
        <3>1. CASE i = Len(h) + 1
            BY <1>0, <1>1, <1>5, <2>1, <3>1
        <3>2. CASE i # Len(h) + 1
            <4>1. i \in 1 .. Len(h) /\ i - 1 \in 0 .. CAPACITY - 1 /\ i - 1 # b.head
                BY <1>0, <1>1, <1>7, <2>1, <3>2
            <4> QED BY <1>1, <1>5, <2>1, <4>1
        <3> QED BY <3>1, <3>2
    <2> QED BY <1>0, <1>1, <1>5, <1>6, <1>7, <2>2, <2>3 DEF RingOf
<1>8. CASE Len(h) + 1 = CAPACITY
    <2>1. b.count = Len(h) /\ b.head = Len(h) /\ \A i \in 1 .. Len(h) : b.buf[i - 1] = h[i]
        BY <1>0, <1>8 DEF RingOf
    <2>2. c.count = CAPACITY /\ c.head = 0
        BY <1>0, <1>1, <1>4, <1>8, <2>1 DEF Wrapped
    <2>3. ASSUME NEW i \in 1 .. CAPACITY
          PROVE  c.buf[Wrapped(c.head + i - 1)] = g[Len(g) - CAPACITY + i]
        <3>0. Wrapped(c.head + i - 1) = i - 1 /\ Len(g) - CAPACITY + i = i
            BY <1>0, <1>1, <1>8, <2>2 DEF Wrapped
        <3>1. CASE i = Len(h) + 1
            BY <1>0, <1>1, <1>5, <2>1, <3>0, <3>1
        <3>2. CASE i # Len(h) + 1
            <4>1. i \in 1 .. Len(h) /\ i - 1 \in 0 .. CAPACITY - 1 /\ i - 1 # b.head
                BY <1>0, <1>8, <2>1, <3>2
            <4> QED BY <1>1, <1>5, <2>1, <3>0, <4>1
        <3> QED BY <3>1, <3>2
    <2>4. Len(g) >= CAPACITY
        BY <1>0, <1>1, <1>8
    <2> QED BY <1>5, <1>6, <2>2, <2>3, <2>4 DEF RingOf
<1>9. CASE Len(h) >= CAPACITY
    <2>1. /\ b.count = CAPACITY
          /\ \A i \in 1 .. CAPACITY :
                b.buf[Wrapped(b.head + i - 1)] = h[Len(h) - CAPACITY + i]
        BY <1>0, <1>9 DEF RingOf
    <2>2. c.count = CAPACITY
        BY <1>0, <1>4, <2>1
    <2>3. ASSUME NEW i \in 1 .. CAPACITY
          PROVE  c.buf[Wrapped(c.head + i - 1)] = g[Len(g) - CAPACITY + i]
        <3>1. CASE i = CAPACITY
            <4>1. Wrapped(c.head + i - 1) = b.head /\ Len(g) - CAPACITY + i = Len(h) + 1
                BY <1>0, <1>1, <1>2, <1>4, <3>1 DEF Wrapped
            <4> QED BY <1>1, <1>5, <4>1
        <3>2. CASE i # CAPACITY
            <4>1. i + 1 \in 1 .. CAPACITY
                BY <1>0, <3>2
            <4>2. /\ Wrapped(c.head + i - 1) = Wrapped(b.head + (i + 1) - 1)
                  /\ Wrapped(c.head + i - 1) \in 0 .. CAPACITY - 1
                  /\ Wrapped(c.head + i - 1) # b.head
                <5>1. CASE b.head + 1 < CAPACITY
                    <6>1. c.head = b.head + 1
                        BY <1>4, <5>1 DEF Wrapped
                    <6>2. c.head + i - 1 = b.head + (i + 1) - 1
                        BY <1>0, <1>2, <6>1
                    <6>3. b.head + (i + 1) - 1 \in Nat /\ b.head + (i + 1) - 1 # b.head
                        BY <1>0, <1>2
                    <6> QED BY <1>0, <1>2, <3>2, <6>2, <6>3 DEF Wrapped
                <5>2. CASE ~(b.head + 1 < CAPACITY)
                    <6>1. b.head = CAPACITY - 1 /\ c.head = 0
                        <7>1. b.head + 1 = CAPACITY
                            BY <1>0, <1>2, <5>2
                        <7>2. Wrapped(CAPACITY) = 0
                            BY <1>0 DEF Wrapped
                        <7> QED BY <1>0, <1>2, <1>4, <7>1, <7>2
                    <6>2. Wrapped(c.head + i - 1) = i - 1
                        BY <1>0, <6>1 DEF Wrapped
                    <6>3. Wrapped(b.head + (i + 1) - 1) = i - 1
                        BY <1>0, <6>1 DEF Wrapped
                    <6> QED BY <1>0, <3>2, <6>1, <6>2, <6>3
                <5> QED BY <5>1, <5>2
            <4>3. /\ Len(g) - CAPACITY + i = Len(h) - CAPACITY + (i + 1)
                  /\ Len(h) - CAPACITY + (i + 1) \in 1 .. Len(h)
                BY <1>0, <1>1, <1>9, <3>2
            <4>4. c.buf[Wrapped(c.head + i - 1)] = b.buf[Wrapped(b.head + (i + 1) - 1)]
                BY <1>5, <4>2
            <4>5. b.buf[Wrapped(b.head + (i + 1) - 1)] = h[Len(h) - CAPACITY + (i + 1)]
                BY <2>1, <4>1
            <4>6. g[Len(g) - CAPACITY + i] = h[Len(h) - CAPACITY + (i + 1)]
                BY <1>1, <4>3
            <4> QED BY <4>4, <4>5, <4>6
        <3> QED BY <3>1, <3>2
    <2>4. Len(g) >= CAPACITY
        BY <1>0, <1>1, <1>9
    <2> QED BY <1>5, <1>6, <2>2, <2>3, <2>4 DEF RingOf
<1>10. Len(h) + 1 < CAPACITY \/ Len(h) + 1 = CAPACITY \/ Len(h) >= CAPACITY
    BY <1>0
<1> QED BY <1>7, <1>8, <1>9, <1>10

\* A snapshot of such a ring is the newest of what was pushed.
LEMMA SnapshotRing ==
    ASSUME NEW S, NEW h \in Seq(S), NEW b, RingOf(b, h)
    PROVE  /\ Snapshot(b) = LastOf(h)
           /\ \A i \in 1 .. b.count : Snapshot(b)[i] \in S
<1>0. CAPACITY \in Nat \ {0} /\ Len(h) \in Nat
    BY CapacityAssumption
<1>1. b.head \in 0 .. CAPACITY - 1
    BY DEF RingOf
<1> DEFINE start == IF b.count < CAPACITY THEN 0 ELSE b.head
           n == IF Len(h) < CAPACITY THEN Len(h) ELSE CAPACITY
<1>2. b.count = n
    BY <1>0 DEF RingOf
<1>3. n \in 0 .. Len(h) /\ n <= CAPACITY
    BY <1>0
<1>4. ASSUME NEW i \in 1 .. n
      PROVE  b.buf[(start + i - 1) % CAPACITY] = h[Len(h) - n + i]
    <2>1. start + i - 1 \in Nat /\ start + i - 1 < 2 * CAPACITY
        BY <1>0, <1>1, <1>3
    <2>2. (start + i - 1) % CAPACITY = Wrapped(start + i - 1)
        <3> HIDE DEF start
        <3> QED BY <2>1, ModWraps
    <2>3. CASE Len(h) < CAPACITY
        <3>1. start = 0 /\ Wrapped(start + i - 1) = i - 1 /\ Len(h) - n + i = i
            BY <1>0, <1>2, <2>3 DEF Wrapped
        <3>2. i \in 1 .. Len(h) /\ \A j \in 1 .. Len(h) : b.buf[j - 1] = h[j]
            BY <1>0, <2>3 DEF RingOf
        <3> QED BY <2>2, <3>1, <3>2
    <2>4. CASE ~(Len(h) < CAPACITY)
        <3>1. start = b.head /\ n = CAPACITY
            BY <1>0, <1>2, <2>4
        <3>2. \A j \in 1 .. CAPACITY :
                b.buf[Wrapped(b.head + j - 1)] = h[Len(h) - CAPACITY + j]
            BY <1>0, <2>4 DEF RingOf
        <3> QED BY <2>2, <3>1, <3>2
    <2> QED BY <2>3, <2>4
<1>5. Snapshot(b) = [i \in 1 .. n |-> b.buf[(start + i - 1) % CAPACITY]]
    BY <1>2 DEF Snapshot
<1>6. LastOf(h) = SubSeq(h, Len(h) - n + 1, Len(h))
    BY DEF LastOf
<1> HIDE DEF n, start
<1>7. SubSeq(h, Len(h) - n + 1, Len(h)) = [i \in 1 .. n |-> h[Len(h) - n + i]]
    <2>1. SubSeq(h, Len(h) - n + 1, Len(h))
            = [i \in 1 .. (Len(h) - (Len(h) - n + 1) + 1) |-> h[i + (Len(h) - n + 1) - 1]]
        BY <1>0, <1>3
    <2>2. Len(h) - (Len(h) - n + 1) + 1 = n
        BY <1>0, <1>3
    <2>3. \A i \in 1 .. n : i + (Len(h) - n + 1) - 1 = Len(h) - n + i
        BY <1>0, <1>3
    <2> QED BY <2>1, <2>2, <2>3
<1>8. \A i \in 1 .. n : h[Len(h) - n + i] \in S
    BY <1>0, <1>3
<1> QED BY <1>2, <1>4, <1>5, <1>6, <1>7, <1>8
-----------------------------------------------------------------------------
(* The stores                                                              *)

\* Every vehicle that sent a frame has a ring, the ring of its frames.
StoreInv ==
    /\ telemetry = [generation |-> telemetry.generation, buffers |-> telemetry.buffers,
                    dirty |-> telemetry.dirty, rafScheduled |-> telemetry.rafScheduled]
    /\ DOMAIN telemetry.buffers = DOMAIN arrived
    /\ \A v \in DOMAIN arrived :
          /\ arrived[v] \in Seq(FramesOf(v))
          /\ RingOf(telemetry.buffers[v], arrived[v])

\* useTelemetryStore.push keeps the rings.
LEMMA PushStore ==
    ASSUME StoreInv, NEW v, NEW f \in FramesOf(v), TelemetryPush(v, f)
    PROVE  StoreInv'
<1> DEFINE buf == IF HasBuffer(v) THEN telemetry.buffers[v] ELSE NewBuffer
           hist == IF v \in DOMAIN arrived THEN arrived[v] ELSE << >>
<1>1. hist \in Seq(FramesOf(v)) /\ RingOf(buf, hist)
    <2>1. CASE v \in DOMAIN arrived
        BY <2>1 DEF StoreInv, HasBuffer
    <2>2. CASE v \notin DOMAIN arrived
        <3>1. buf = NewBuffer /\ hist = << >>
            BY <2>2 DEF StoreInv, HasBuffer
        <3>2. << >> \in Seq(FramesOf(v))
            OBVIOUS
        <3> QED BY <3>1, <3>2, NewRing
    <2> QED BY <2>1, <2>2
<1>2. /\ arrived' = [u \in {v} \cup DOMAIN arrived |->
                        IF u # v THEN arrived[u] ELSE Append(hist, f)]
      /\ telemetry' = [telemetry EXCEPT
                !.buffers = [u \in {v} \cup DOMAIN telemetry.buffers |->
                                IF u = v THEN BufferPush(buf, f) ELSE telemetry.buffers[u]],
                !.dirty = TRUE, !.rafScheduled = TRUE]
    BY DEF TelemetryPush, Recorded
<1> HIDE DEF buf, hist
<1>3. /\ telemetry'.buffers = [u \in {v} \cup DOMAIN telemetry.buffers |->
                                IF u = v THEN BufferPush(buf, f) ELSE telemetry.buffers[u]]
      /\ telemetry' = [generation |-> telemetry'.generation, buffers |-> telemetry'.buffers,
                       dirty |-> telemetry'.dirty, rafScheduled |-> telemetry'.rafScheduled]
    BY <1>2 DEF StoreInv
<1>4. DOMAIN telemetry'.buffers = DOMAIN arrived' /\ DOMAIN arrived' = {v} \cup DOMAIN arrived
    BY <1>2, <1>3 DEF StoreInv
<1>5. ASSUME NEW u \in DOMAIN arrived'
      PROVE  arrived'[u] \in Seq(FramesOf(u)) /\ RingOf(telemetry'.buffers[u], arrived'[u])
    <2>1. CASE u = v
        <3>1. arrived'[u] = Append(hist, f) /\ telemetry'.buffers[u] = BufferPush(buf, f)
            BY <1>2, <1>3, <2>1
        <3>2. Append(hist, f) \in Seq(FramesOf(v))
            BY <1>1
        <3>3. RingOf(BufferPush(buf, f), Append(hist, f))
            BY <1>1, PushRing
        <3> QED BY <2>1, <3>1, <3>2, <3>3
    <2>2. CASE u # v
        <3>1. /\ u \in DOMAIN arrived
              /\ arrived'[u] = arrived[u] /\ telemetry'.buffers[u] = telemetry.buffers[u]
            BY <1>2, <1>3, <1>4, <2>2 DEF StoreInv
        <3> QED BY <3>1 DEF StoreInv
    <2> QED BY <2>1, <2>2
<1> QED BY <1>3, <1>4, <1>5 DEF StoreInv, FramesOf, RingOf, Wrapped

\* The rest of the page's steps touch the rings not at all, or announce them.
LEMMA StoreStep ==
    ASSUME StoreInv, [Next]_vars
    PROVE  StoreInv'
<1>1. ASSUME UNCHANGED <<telemetry, arrived>> PROVE StoreInv'
    BY <1>1 DEF StoreInv, FramesOf, RingOf, Wrapped
<1>2. ASSUME NEW v \in Vehicles, Message(v) PROVE StoreInv'
    <2>1. ASSUME NEW ts \in 1 .. MaxFrames, TelemetryPush(v, [vehicle |-> v, ts |-> ts])
          PROVE  StoreInv'
        <3>1. [vehicle |-> v, ts |-> ts] \in FramesOf(v)
            BY DEF FramesOf
        <3> QED BY <2>1, <3>1, PushStore
    <2> QED BY <1>1, <1>2, <2>1 DEF Message
<1>3. CASE FlushFrame
    <2>1. /\ telemetry' = [telemetry EXCEPT
                !.rafScheduled = FALSE, !.dirty = FALSE,
                !.generation = IF telemetry.dirty THEN @ + 1 ELSE @]
          /\ arrived' = arrived
        BY <1>3 DEF FlushFrame, Flush
    <2>2. /\ telemetry'.buffers = telemetry.buffers
          /\ telemetry' = [generation |-> telemetry'.generation, buffers |-> telemetry'.buffers,
                           dirty |-> telemetry'.dirty, rafScheduled |-> telemetry'.rafScheduled]
        BY <2>1 DEF StoreInv
    <2>3. DOMAIN telemetry'.buffers = DOMAIN arrived'
        BY <2>1, <2>2 DEF StoreInv
    <2>4. ASSUME NEW v \in DOMAIN arrived'
          PROVE  arrived'[v] \in Seq(FramesOf(v)) /\ RingOf(telemetry'.buffers[v], arrived'[v])
        BY <2>1, <2>2 DEF StoreInv
    <2> QED BY <2>2, <2>3, <2>4 DEF StoreInv, FramesOf, RingOf, Wrapped
<1>4. ASSUME NEW n \in Projects, Open(n) \/ Jump(n) PROVE UNCHANGED <<telemetry, arrived>>
    BY <1>4 DEF Open, Jump, storeVars
<1>5. ASSUME Clicks PROVE UNCHANGED <<telemetry, arrived>>
    BY <1>5 DEF Clicks, Leave, Retry, OpenAdd, CloseAdd, AddDevice, storeVars
<1>6. ASSUME NEW r \in requests, Answer(r) \/ LoadDone(r) \/ AddDone(r)
      PROVE  UNCHANGED <<telemetry, arrived>>
    BY <1>6 DEF Answer, LoadDone, AddDone, storeVars
<1>7. ASSUME GatewayAccepts \/ ConnectionLost \/ ClosingEnds \/ RetryTimer
      PROVE  UNCHANGED <<telemetry, arrived>>
    BY <1>7 DEF GatewayAccepts, ConnectionLost, ClosingEnds, RetryTimer, storeVars
<1>8. ASSUME NEW ids \in page.loops, Tick(ids) PROVE UNCHANGED <<telemetry, arrived>>
    BY <1>8 DEF Tick, storeVars
<1>9. ASSUME UNCHANGED vars PROVE UNCHANGED <<telemetry, arrived>>
    BY <1>9 DEF vars, storeVars
<1> QED BY <1>1, <1>2, <1>3, <1>4, <1>5, <1>6, <1>7, <1>8, <1>9 DEF Next

\* The stores are made empty.
LEMMA StoreInit == Init => StoreInv
BY DEF Init, StoresInit, StoreInv

\* Every ring shows exactly the newest CAPACITY frames of its vehicle, oldest
\* first, for every capacity and however often it has wrapped
\* (CircularBuffer.push and snapshot, telemetryStore's push).
THEOREM RingSafe == Spec => []RingKeepsNewest
<1>1. StoreInv => RingKeepsNewest
    BY SnapshotRing DEF StoreInv, RingKeepsNewest
<1> QED BY <1>1, StoreInit, StoreStep, PTL DEF Spec
-----------------------------------------------------------------------------
(* The page                                                                *)

PageFields ==
    [name |-> page.name, inst |-> page.inst, loading |-> page.loading,
     error |-> page.error, devices |-> page.devices, showAdd |-> page.showAdd,
     adding |-> page.adding, effectIds |-> page.effectIds, loops |-> page.loops,
     genRef |-> page.genRef, feed |-> page.feed, jumped |-> page.jumped]

\* The one loop there can be is that of the effect in force.
LoopInv ==
    /\ page = PageFields
    /\ page.loops \subseteq {page.effectIds}

\* Every effect is cleaned up before the next one starts, on every path.
LEMMA LoopStep ==
    ASSUME LoopInv, [Next]_vars
    PROVE  LoopInv'
<1> USE DEF LoopInv, PageFields
<1>1. ASSUME UNCHANGED page PROVE LoopInv'
    BY <1>1
<1>2. ASSUME NEW n \in Projects, Open(n) PROVE LoopInv'
    BY <1>2 DEF Open, Fresh
<1>3. ASSUME NEW n \in Projects, Jump(n) PROVE LoopInv'
    BY <1>3 DEF Jump
<1>4. CASE Leave
    <2>1. Cleanup(page).loops = {}
        BY DEF Cleanup
    <2> QED BY <1>4, <2>1 DEF Leave, Fresh
<1>5. CASE Retry \/ OpenAdd \/ CloseAdd \/ AddDevice
    BY <1>5 DEF Retry, OpenAdd, CloseAdd, AddDevice
<1>6. ASSUME NEW r \in requests, LoadDone(r) PROVE LoopInv'
    <2>1. CASE ~Ours(r)
        BY <1>1, <1>6, <2>1 DEF LoadDone
    <2>2. CASE Ours(r)
        <3> DEFINE d == IF r.answer = "ok" THEN r.devices ELSE {}
                   p == SetDevices(page, d)
        <3>1. page' = [p EXCEPT !.loading = FALSE, !.error = @ \/ r.answer = "failed",
                                !.adding = @ /\ r.for # "add"]
            BY <1>6, <2>2 DEF LoadDone
        <3> HIDE DEF d
        <3>2. /\ p = [name |-> p.name, inst |-> p.inst, loading |-> p.loading,
                      error |-> p.error, devices |-> p.devices, showAdd |-> p.showAdd,
                      adding |-> p.adding, effectIds |-> p.effectIds, loops |-> p.loops,
                      genRef |-> p.genRef, feed |-> p.feed, jumped |-> p.jumped]
              /\ p.loops \subseteq {p.effectIds}
            BY DEF SetDevices, Cleanup
        <3> HIDE DEF p
        <3> QED BY <3>1, <3>2
    <2> QED BY <2>1, <2>2
<1>7. ASSUME NEW r \in requests, AddDone(r) PROVE LoopInv'
    BY <1>1, <1>7 DEF AddDone
<1>8. ASSUME NEW r \in requests, Answer(r) PROVE UNCHANGED page
    BY <1>8 DEF Answer
<1>9. ASSUME GatewayAccepts \/ ConnectionLost \/ ClosingEnds \/ RetryTimer \/ FlushFrame
      PROVE  UNCHANGED page
    BY <1>9 DEF GatewayAccepts, ConnectionLost, ClosingEnds, RetryTimer, FlushFrame
<1>10. ASSUME NEW v \in Vehicles, Message(v) PROVE UNCHANGED page
    BY <1>10 DEF Message
<1>11. ASSUME NEW ids \in page.loops, Tick(ids) PROVE LoopInv'
    BY <1>11 DEF Tick
<1>12. ASSUME UNCHANGED vars PROVE UNCHANGED page
    BY <1>12 DEF vars
<1> QED BY <1>1, <1>2, <1>3, <1>4, <1>5, <1>6, <1>7, <1>8, <1>9, <1>10, <1>11, <1>12
        DEF Next, Clicks

\* The page starts unmounted, with no loop.
LEMMA LoopInit == Init => LoopInv
BY DEF Init, Fresh, LoopInv, PageFields

\* What a loop reads are frames of the vehicles of its closure.
LEMMA BufferedOf ==
    ASSUME StoreInv, NEW v, NEW f \in Buffered(v)
    PROVE  f.vehicle = v
<1>1. HasBuffer(v)
    BY DEF Buffered
<1>2. arrived[v] \in Seq(FramesOf(v)) /\ RingOf(telemetry.buffers[v], arrived[v])
    BY <1>1 DEF StoreInv, HasBuffer
<1>3. \A i \in 1 .. telemetry.buffers[v].count :
            Snapshot(telemetry.buffers[v])[i] \in FramesOf(v)
    BY <1>2, SnapshotRing
<1>4. f \in FramesOf(v)
    BY <1>1, <1>3 DEF Buffered
<1> QED BY <1>4 DEF FramesOf

\* A change of the feed shows frames of the devices subscribed to now alone:
\* no loop outlives its effect (the cleanup of ProjectPage's effect).
THEOREM FeedSafe == Spec => FeedFromCurrentDevices
<1>1. ASSUME StoreInv, LoopInv, [Next]_vars, page'.feed # page.feed
      PROVE  \A f \in page'.feed : f.vehicle \in page'.effectIds
    <2> USE DEF LoopInv, PageFields
    <2>1. ASSUME NEW n \in Projects, Open(n) PROVE page'.feed = {}
        BY <2>1 DEF Open, Fresh
    <2>2. ASSUME NEW n \in Projects, Jump(n) PROVE FALSE
        BY <1>1, <2>2 DEF Jump
    <2>3. ASSUME Leave PROVE page'.feed = {}
        BY <2>3 DEF Leave, Fresh
    <2>4. ASSUME Retry \/ OpenAdd \/ CloseAdd \/ AddDevice PROVE FALSE
        BY <1>1, <2>4 DEF Retry, OpenAdd, CloseAdd, AddDevice
    <2>5. ASSUME NEW r \in requests, LoadDone(r) PROVE FALSE
        <3>1. ~Ours(r) => page' = page
            BY <2>5 DEF LoadDone
        <3>2. Ours(r) => page'.feed = page.feed
            <4> SUFFICES ASSUME Ours(r) PROVE page'.feed = page.feed
                OBVIOUS
            <4> DEFINE d == IF r.answer = "ok" THEN r.devices ELSE {}
                       p == SetDevices(page, d)
            <4>1. page' = [p EXCEPT !.loading = FALSE, !.error = @ \/ r.answer = "failed",
                                    !.adding = @ /\ r.for # "add"]
                BY <2>5 DEF LoadDone
            <4> HIDE DEF d
            <4>2. p.feed = page.feed /\ "feed" \in DOMAIN p
                BY <1>1 DEF SetDevices, Cleanup
            <4> HIDE DEF p
            <4> QED BY <4>1, <4>2
        <3> QED BY <1>1, <3>1, <3>2
    <2>6. ASSUME NEW r \in requests, AddDone(r) PROVE FALSE
        BY <1>1, <2>6 DEF AddDone
    <2>7. ASSUME NEW r \in requests, Answer(r) PROVE FALSE
        BY <1>1, <2>7 DEF Answer
    <2>8. ASSUME GatewayAccepts \/ ConnectionLost \/ ClosingEnds \/ RetryTimer \/ FlushFrame
          PROVE  FALSE
        BY <1>1, <2>8 DEF GatewayAccepts, ConnectionLost, ClosingEnds, RetryTimer, FlushFrame
    <2>9. ASSUME NEW v \in Vehicles, Message(v) PROVE FALSE
        BY <1>1, <2>9 DEF Message
    <2>10. ASSUME NEW ids \in page.loops, Tick(ids)
           PROVE  \A f \in page'.feed : f.vehicle \in page'.effectIds
        <3>1. /\ page'.feed = NewestRows(UNION {Buffered(v) : v \in ids})
              /\ page'.effectIds = page.effectIds
            BY <1>1, <2>10 DEF Tick
        <3>2. ids = page.effectIds
            BY <1>1
        <3>3. \A f \in page'.feed : \E v \in ids : f \in Buffered(v)
            BY <3>1 DEF NewestRows
        <3> QED BY <1>1, <3>1, <3>2, <3>3, BufferedOf
    <2>11. ASSUME UNCHANGED vars PROVE FALSE
        BY <1>1, <2>11 DEF vars
    <2> QED BY <1>1, <2>1, <2>2, <2>3, <2>4, <2>5, <2>6, <2>7, <2>8, <2>9, <2>10, <2>11
            DEF Next, Clicks
<1>2. StoreInv /\ LoopInv /\ [Next]_vars
        => [page'.feed # page.feed => \A f \in page'.feed : f.vehicle \in page'.effectIds]_vars
    BY <1>1
<1> QED BY <1>2, StoreInit, StoreStep, LoopInit, LoopStep, PTL
        DEF Spec, FeedFromCurrentDevices
-----------------------------------------------------------------------------
(* Whose devices are shown                                                 *)

Requests ==
    [no: Nat, kind: {"list", "provision"}, name: Projects, inst: Nat,
     for: {"load", "add"}, answer: {"none", "ok", "failed"}, devices: SUBSET Vehicles]

\* A request of the mounted instance is for its project, and its answer holds
\* devices of the project it names, which never loses one.
ShownInv ==
    /\ page = PageFields
    /\ page.inst \in Nat /\ issued \in Nat
    /\ page.name \in Projects \cup {NoProject}
    /\ devicesOf \in [Projects -> SUBSET Vehicles]
    /\ requests \subseteq Requests
    /\ \A r \in requests :
          /\ r.inst <= page.inst
          /\ Ours(r) /\ ~page.jumped => r.name = page.name
          /\ r.devices \subseteq devicesOf[r.name]
    /\ OtherProjectOnlyAfterJump

\* The page starts unmounted, with no request under way.
LEMMA ShownInit == Init => ShownInv
<1>1. Init => page = PageFields
    BY DEF Init, Fresh, PageFields
<1> QED BY <1>1, ProjectsAssumption
        DEF ProjectsAssumption, Init, Fresh, ShownInv, OtherProjectOnlyAfterJump, Mounted

\* What each kind of step does to the requests and the page.
LEMMA ShownStep ==
    ASSUME ShownInv, [Next]_vars
    PROVE  ShownInv'
<1> USE DEF ShownInv, PageFields, Ours, Mounted, OtherProjectOnlyAfterJump
<1>1. ASSUME UNCHANGED <<page, devicesOf, requests, issued>> PROVE ShownInv'
    BY <1>1
<1>2. ASSUME NEW n \in Projects, Open(n) PROVE ShownInv'
    <2> DEFINE q == Request("list", n, page.inst + 1, "load")
    <2>1. /\ page' = Fresh(n, page.inst + 1) /\ UNCHANGED devicesOf
          /\ issued' = issued + 1 /\ requests' = requests \cup {q}
        BY <1>2 DEF Open, Issue, Fresh
    <2>2. /\ page' = PageFields' /\ page'.inst = page.inst + 1
          /\ page'.name = n /\ page'.devices = {}
        BY <2>1 DEF Fresh
    <2>3. q \in Requests /\ q.inst = page.inst + 1 /\ q.name = n /\ q.devices = {}
        BY DEF Request, Requests
    <2> HIDE DEF q
    <2>4. \A r \in requests : r.inst \in Nat /\ r.inst < page.inst + 1
        BY DEF Requests
    <2> QED BY <2>1, <2>2, <2>3, <2>4
<1>3. ASSUME NEW n \in Projects, Jump(n) PROVE ShownInv'
    <2> DEFINE q == Request("list", n, page.inst, "load")
    <2>1. /\ page' = [page EXCEPT !.name = n, !.jumped = TRUE] /\ UNCHANGED devicesOf
          /\ issued' = issued + 1 /\ requests' = requests \cup {q}
        BY <1>3 DEF Jump, Issue
    <2>2. page' = PageFields' /\ page'.inst = page.inst /\ page'.name = n /\ page'.jumped
        BY <2>1
    <2>3. q \in Requests /\ q.inst = page.inst /\ q.name = n /\ q.devices = {}
        BY DEF Request, Requests
    <2> HIDE DEF q
    <2> QED BY <2>1, <2>2, <2>3
<1>4. CASE Leave
    <2>1. /\ page' = [Fresh(NoProject, page.inst) EXCEPT !.loops = Cleanup(page).loops]
          /\ UNCHANGED <<devicesOf, requests, issued>>
        BY <1>4 DEF Leave, httpVars
    <2>2. page' = PageFields' /\ page'.inst = page.inst /\ page'.name = NoProject
        BY <2>1 DEF Fresh
    <2> QED BY <2>1, <2>2
<1>5. ASSUME page' = PageFields',
             page'.inst = page.inst, page'.name = page.name, page'.devices = page.devices,
             page'.jumped = page.jumped, UNCHANGED devicesOf, issued' \in Nat,
             requests' \subseteq Requests,
             \A r \in requests' : \/ r \in requests
                                  \/ /\ r.inst <= page.inst /\ r.devices = {}
                                     /\ Ours(r) /\ ~page.jumped => r.name = page.name
      PROVE  ShownInv'
    BY <1>5
<1>6. CASE Retry \/ AddDevice
    <2>1. PICK kind \in {"list", "provision"}, for \in {"load", "add"} :
              requests' = requests \cup {Request(kind, page.name, page'.inst, for)}
        BY <1>6 DEF Retry, AddDevice, Issue
    <2>2. issued' = issued + 1 /\ UNCHANGED devicesOf /\ page.name \in Projects
        BY <1>6 DEF Retry, AddDevice, Issue
    <2>3. /\ page' = PageFields' /\ page'.inst = page.inst /\ page'.name = page.name
          /\ page'.devices = page.devices /\ page'.jumped = page.jumped
        BY <1>6 DEF Retry, AddDevice
    <2> DEFINE q == Request(kind, page.name, page'.inst, for)
    <2>4. q \in Requests /\ q.inst = page.inst /\ q.name = page.name /\ q.devices = {}
        BY <2>2, <2>3 DEF Request, Requests
    <2>5. requests' = requests \cup {q}
        BY <2>1
    <2> HIDE DEF q
    <2> QED BY <1>5, <2>2, <2>3, <2>4, <2>5
<1>7. CASE OpenAdd \/ CloseAdd
    <2>1. /\ page' = PageFields' /\ page'.inst = page.inst /\ page'.name = page.name
          /\ page'.devices = page.devices /\ page'.jumped = page.jumped
        BY <1>7 DEF OpenAdd, CloseAdd
    <2>2. UNCHANGED <<devicesOf, requests, issued>>
        BY <1>7 DEF OpenAdd, CloseAdd, httpVars
    <2> QED BY <1>5, <2>1, <2>2
<1>8. ASSUME NEW r \in requests, Answer(r) PROVE ShownInv'
    <2>0. UNCHANGED <<page, issued>> /\ r \in Requests
        BY <1>8 DEF Answer
    <2>1. \E q \in Requests :
              /\ requests' = (requests \ {r}) \cup {q}
              /\ q.inst = r.inst /\ q.name = r.name
              /\ q.devices = r.devices \/ q.devices = devicesOf[r.name]
        <3>1. CASE requests' = (requests \ {r}) \cup
                    {[r EXCEPT !.answer = "ok", !.devices = devicesOf[r.name]]}
            <4> DEFINE q == [r EXCEPT !.answer = "ok", !.devices = devicesOf[r.name]]
            <4>1. devicesOf[r.name] \in SUBSET Vehicles
                BY <2>0 DEF Requests
            <4>2. q \in Requests /\ q.inst = r.inst /\ q.name = r.name /\ q.devices = devicesOf[r.name]
                BY <2>0, <4>1 DEF Requests
            <4>3. requests' = (requests \ {r}) \cup {q}
                BY <3>1
            <4> HIDE DEF q
            <4> QED BY <4>2, <4>3
        <3>2. ASSUME NEW a \in {"ok", "failed"},
                     requests' = (requests \ {r}) \cup {[r EXCEPT !.answer = a]}
              PROVE  \E q \in Requests :
                        /\ requests' = (requests \ {r}) \cup {q}
                        /\ q.inst = r.inst /\ q.name = r.name /\ q.devices = r.devices
            <4> DEFINE q == [r EXCEPT !.answer = a]
            <4>1. q \in Requests /\ q.inst = r.inst /\ q.name = r.name /\ q.devices = r.devices
                BY <2>0 DEF Requests
            <4>2. requests' = (requests \ {r}) \cup {q}
                BY <3>2
            <4> HIDE DEF q
            <4> QED BY <4>1, <4>2
        <3> QED BY <1>8, <3>1, <3>2 DEF Answer
    <2>2. /\ devicesOf' \in [Projects -> SUBSET Vehicles]
          /\ \A p \in Projects : devicesOf[p] \subseteq devicesOf'[p]
        <3>1. CASE UNCHANGED devicesOf
            BY <3>1
        <3>2. ASSUME NEW v \in Vehicles, devicesOf' = [devicesOf EXCEPT ![r.name] = @ \cup {v}]
              PROVE  /\ devicesOf' \in [Projects -> SUBSET Vehicles]
                     /\ \A p \in Projects : devicesOf[p] \subseteq devicesOf'[p]
            BY <3>2
        <3> QED BY <1>8, <3>1, <3>2 DEF Answer
    <2>3. \A s \in requests : s.name \in Projects
        BY DEF Requests
    <2>4. PICK q \in Requests :
              /\ requests' = (requests \ {r}) \cup {q}
              /\ q.inst = r.inst /\ q.name = r.name
              /\ q.devices = r.devices \/ q.devices = devicesOf[r.name]
        BY <2>1
    <2>5. \A s \in requests' :
              /\ s.inst <= page.inst /\ s.name \in Projects /\ s \in Requests
              /\ s.inst = page.inst /\ Mounted /\ ~page.jumped => s.name = page.name
              /\ s.devices \subseteq devicesOf[s.name]
        BY <2>3, <2>4
    <2>6. \A s \in requests' : s.devices \subseteq devicesOf'[s.name]
        BY <2>2, <2>5
    <2>7. OtherProjectOnlyAfterJump'
        BY <2>0, <2>2
    <2> QED BY <2>0, <2>2, <2>5, <2>6, <2>7
<1>9. ASSUME NEW r \in requests, LoadDone(r) PROVE ShownInv'
    <2>0. requests' = requests \ {r} /\ UNCHANGED <<devicesOf, issued>> /\ r \in Requests
        BY <1>9 DEF LoadDone
    <2>1. CASE ~Ours(r)
        BY <1>9, <2>0, <2>1, <1>5 DEF LoadDone
    <2>2. CASE Ours(r)
        <3> DEFINE d == IF r.answer = "ok" THEN r.devices ELSE {}
                   p == SetDevices(page, d)
        <3>1. page' = [p EXCEPT !.loading = FALSE, !.error = @ \/ r.answer = "failed",
                                !.adding = @ /\ r.for # "add"]
            BY <1>9, <2>2 DEF LoadDone
        <3>2. d \subseteq devicesOf[r.name]
            OBVIOUS
        <3> HIDE DEF d
        <3>3. /\ p = [name |-> p.name, inst |-> p.inst, loading |-> p.loading,
                      error |-> p.error, devices |-> p.devices, showAdd |-> p.showAdd,
                      adding |-> p.adding, effectIds |-> p.effectIds, loops |-> p.loops,
                      genRef |-> p.genRef, feed |-> p.feed, jumped |-> p.jumped]
              /\ p.name = page.name /\ p.inst = page.inst
              /\ p.devices = d /\ p.jumped = page.jumped
            BY DEF SetDevices, Cleanup
        <3> HIDE DEF p
        <3>4. /\ page' = PageFields' /\ page'.inst = page.inst /\ page'.name = page.name
              /\ page'.devices = d /\ page'.jumped = page.jumped
            BY <3>1, <3>3
        <3>5. ~page.jumped => d \subseteq devicesOf[page.name]
            BY <2>2, <3>2
        <3> QED BY <2>0, <3>4, <3>5
    <2> QED BY <2>1, <2>2
<1>10. ASSUME NEW r \in requests, AddDone(r) PROVE ShownInv'
    <2>0. r \in Requests /\ UNCHANGED devicesOf
        BY <1>10 DEF AddDone
    <2>1. /\ page' = PageFields' /\ page'.inst = page.inst /\ page'.name = page.name
          /\ page'.devices = page.devices /\ page'.jumped = page.jumped
        BY <1>10 DEF AddDone
    <2>2. CASE r.answer = "ok"
        <3> DEFINE q == Request("list", r.name, r.inst, "add")
        <3>1. issued' = issued + 1 /\ requests' = (requests \ {r}) \cup {q}
            BY <1>10, <2>2 DEF AddDone
        <3>2. q \in Requests /\ q.inst = r.inst /\ q.name = r.name /\ q.devices = {}
            BY <2>0 DEF Request, Requests
        <3> HIDE DEF q
        <3> QED BY <1>5, <2>0, <2>1, <3>1, <3>2
    <2>3. CASE r.answer # "ok"
        <3>1. requests' = requests \ {r} /\ UNCHANGED issued
            BY <1>10, <2>3 DEF AddDone
        <3> QED BY <1>5, <2>0, <2>1, <3>1
    <2> QED BY <2>2, <2>3
<1>11. ASSUME GatewayAccepts \/ ConnectionLost \/ ClosingEnds \/ RetryTimer \/ FlushFrame
       PROVE  UNCHANGED <<page, devicesOf, requests, issued>>
    BY <1>11 DEF GatewayAccepts, ConnectionLost, ClosingEnds, RetryTimer, FlushFrame, httpVars
<1>12. ASSUME NEW v \in Vehicles, Message(v)
       PROVE  UNCHANGED <<page, devicesOf, requests, issued>>
    BY <1>12 DEF Message, httpVars
<1>13. ASSUME NEW ids \in page.loops, Tick(ids) PROVE ShownInv'
    <2>1. /\ page' = PageFields' /\ page'.inst = page.inst /\ page'.name = page.name
          /\ page'.devices = page.devices /\ page'.jumped = page.jumped
        BY <1>13 DEF Tick
    <2>2. UNCHANGED <<devicesOf, requests, issued>>
        BY <1>13 DEF Tick, httpVars
    <2> QED BY <1>5, <2>1, <2>2
<1>14. ASSUME UNCHANGED vars PROVE UNCHANGED <<page, devicesOf, requests, issued>>
    BY <1>14 DEF vars, httpVars
<1> QED BY <1>1, <1>2, <1>3, <1>4, <1>6, <1>7, <1>8, <1>9, <1>10, <1>11, <1>12, <1>13, <1>14
        DEF Next, Clicks

\* A page shows its own project's devices, unless the history took the
\* instance to another project: an answer to an earlier instance, or one that
\* comes late, never changes that (loadDevices, handleAddDevice).
THEOREM ShownSafe == Spec => []OtherProjectOnlyAfterJump
<1>1. ShownInv => OtherProjectOnlyAfterJump
    BY DEF ShownInv
<1> QED BY <1>1, ShownInit, ShownStep, PTL DEF Spec
-----------------------------------------------------------------------------
(* Folds: the calls an effect makes, one for each device                   *)

\* Among sets of subsets of a finite set there is a smallest one.  Induction over
\* finite sets is done with it: a smallest counterexample.
LEMMA SmallestSubset ==
    ASSUME NEW S, IsFiniteSet(S), NEW Bad, Bad \subseteq SUBSET S, Bad # {}
    PROVE  \E s \in Bad : \A t \in Bad : t \subseteq s => t = s
<1>1. FiniteSubsetsOf(S) = SUBSET S
    BY FS_FiniteSubsetsOfFinite
<1>2. IsWellFoundedOn(StrictSubsetOrdering(S), SUBSET S)
    BY <1>1, FS_StrictSubsetOrderingWellFounded
<1>3. \E s \in Bad : \A t \in Bad : ~(<<t, s>> \in StrictSubsetOrdering(S))
    BY <1>2, WFMin
<1>4. \A s, t \in SUBSET S : t \subseteq s /\ t # s => <<t, s>> \in StrictSubsetOrdering(S)
    BY DEF StrictSubsetOrdering
<1> QED BY <1>3, <1>4

\* A call of the manager, and the order in which a fold takes the elements.
Call(kind, m, v) == IF kind = "subscribe" THEN subscribe(m, v) ELSE unsubscribe(m, v)
Pick(s) == CHOOSE x \in s : TRUE

\* g is the function whose value on S is the result of the calls for all of S.
IsFold(kind, b, S, g) ==
    g = [s \in SUBSET S |-> IF s = {} THEN b ELSE Call(kind, g[s \ {Pick(s)}], Pick(s))]

\* There is no more than one such function, whatever set it is defined for.
LEMMA FoldUnique ==
    ASSUME NEW kind, NEW b, NEW S, IsFiniteSet(S), NEW T \in SUBSET S, NEW g, NEW h,
           IsFold(kind, b, S, g), IsFold(kind, b, T, h)
    PROVE  \A s \in SUBSET T : g[s] = h[s]
<1> DEFINE Bad == {s \in SUBSET T : g[s] # h[s]}
<1> SUFFICES ASSUME Bad # {} PROVE FALSE
    OBVIOUS
<1>1. IsFiniteSet(T)
    BY FS_Subset
<1>2. PICK s \in Bad : \A t \in Bad : t \subseteq s => t = s
    <2>1. Bad \subseteq SUBSET T
        OBVIOUS
    <2> HIDE DEF Bad
    <2> QED BY <1>1, <2>1, SmallestSubset
<1>3. s # {} => Pick(s) \in s
    BY DEF Pick
<1>4. g[s] = IF s = {} THEN b ELSE Call(kind, g[s \ {Pick(s)}], Pick(s))
    BY <1>2 DEF IsFold
<1>5. h[s] = IF s = {} THEN b ELSE Call(kind, h[s \ {Pick(s)}], Pick(s))
    BY <1>2 DEF IsFold
<1>6. s # {} => g[s \ {Pick(s)}] = h[s \ {Pick(s)}]
    BY <1>2, <1>3
<1> QED BY <1>2, <1>4, <1>5, <1>6

\* There is one.
LEMMA FoldExists ==
    ASSUME NEW kind, NEW b, NEW S, IsFiniteSet(S)
    PROVE  \E g : IsFold(kind, b, S, g)
<1> DEFINE Bad == {T \in SUBSET S : ~\E g : IsFold(kind, b, T, g)}
<1> SUFFICES ASSUME Bad # {} PROVE FALSE
    OBVIOUS
<1>1. PICK T \in Bad : \A t \in Bad : t \subseteq T => t = T
    <2>1. Bad \subseteq SUBSET S
        OBVIOUS
    <2> HIDE DEF Bad
    <2> QED BY <2>1, SmallestSubset
<1>2. IsFiniteSet(T)
    BY FS_Subset
<1> DEFINE F(s) == CHOOSE g : IsFold(kind, b, s, g)
           G == [s \in SUBSET T |-> IF s = {} THEN b ELSE Call(kind, F(s \ {Pick(s)})[s \ {Pick(s)}], Pick(s))]
<1>3. \A s \in SUBSET T : s # T => IsFold(kind, b, s, F(s))
    BY <1>1
<1> HIDE DEF Bad, F
<1>4. ASSUME NEW s \in SUBSET T, s # T, s # {}
      PROVE  F(s)[s] = Call(kind, F(s \ {Pick(s)})[s \ {Pick(s)}], Pick(s))
    <2>1. Pick(s) \in s
        BY <1>4 DEF Pick
    <2>2. IsFold(kind, b, s, F(s)) /\ IsFold(kind, b, s \ {Pick(s)}, F(s \ {Pick(s)}))
        BY <1>3, <1>4, <2>1
    <2>3. IsFiniteSet(s)
        BY <1>2, FS_Subset
    <2>4. F(s)[s \ {Pick(s)}] = F(s \ {Pick(s)})[s \ {Pick(s)}]
        BY <2>2, <2>3, FoldUnique
    <2>5. F(s)[s] = Call(kind, F(s)[s \ {Pick(s)}], Pick(s))
        BY <1>4, <2>2 DEF IsFold
    <2> QED BY <2>4, <2>5
<1>5. ASSUME {} # T PROVE F({})[{}] = b
    <2>1. IsFold(kind, b, {}, F({}))
        BY <1>3, <1>5
    <2> QED BY <2>1 DEF IsFold
<1>6. ASSUME NEW s \in SUBSET T, s # T PROVE G[s] = F(s)[s]
    BY <1>4, <1>5, <1>6
<1>7. ASSUME NEW s \in SUBSET T, s # {} PROVE G[s \ {Pick(s)}] = F(s \ {Pick(s)})[s \ {Pick(s)}]
    <2>1. Pick(s) \in s
        BY <1>7 DEF Pick
    <2> HIDE DEF G
    <2> QED BY <1>6, <2>1
<1>8. G = [s \in SUBSET T |-> IF s = {} THEN b ELSE Call(kind, G[s \ {Pick(s)}], Pick(s))]
    <2>1. G = [s \in SUBSET T |-> G[s]]
        OBVIOUS
    <2>2. ASSUME NEW s \in SUBSET T
          PROVE G[s] = IF s = {} THEN b ELSE Call(kind, G[s \ {Pick(s)}], Pick(s))
        <3>1. G[s] = IF s = {} THEN b ELSE Call(kind, F(s \ {Pick(s)})[s \ {Pick(s)}], Pick(s))
            OBVIOUS
        <3> HIDE DEF G
        <3> QED BY <1>7, <3>1
    <2> HIDE DEF G
    <2> QED BY <2>1, <2>2
<1>9. IsFold(kind, b, T, G)
    BY <1>8 DEF IsFold
<1> QED BY <1>1, <1>9 DEF Bad

\* The effect's calls of subscribe, and the cleanup's of unsubscribe.
LEMMA SubscribedIs ==
    ASSUME NEW m, NEW ids, IsFiniteSet(ids)
    PROVE  \E g : IsFold("subscribe", m, ids, g) /\ Subscribed(m, ids) = g[ids]
<1> DEFINE g == CHOOSE f : f = [s \in SUBSET ids |->
                             IF s = {} THEN m
                             ELSE subscribe(f[s \ {CHOOSE x \in s : TRUE}], CHOOSE x \in s : TRUE)]
<1>1. Subscribed(m, ids) = g[ids]
    BY DEF Subscribed, FoldSet, MapThenFoldSet
<1>2. PICK h : IsFold("subscribe", m, ids, h)
    BY FoldExists
<1>3. h = [s \in SUBSET ids |->
                             IF s = {} THEN m
                             ELSE subscribe(h[s \ {CHOOSE x \in s : TRUE}], CHOOSE x \in s : TRUE)]
    BY <1>2 DEF IsFold, Call, Pick
<1>4. g = [s \in SUBSET ids |->
                             IF s = {} THEN m
                             ELSE subscribe(g[s \ {CHOOSE x \in s : TRUE}], CHOOSE x \in s : TRUE)]
    BY <1>3
<1> HIDE DEF g
<1>5. IsFold("subscribe", m, ids, g)
    BY <1>4 DEF IsFold, Call, Pick
<1> QED BY <1>1, <1>5

\* The same for the cleanup.
LEMMA UnsubscribedIs ==
    ASSUME NEW m, NEW ids, IsFiniteSet(ids)
    PROVE  \E g : IsFold("unsubscribe", m, ids, g) /\ Unsubscribed(m, ids) = g[ids]
<1> DEFINE g == CHOOSE f : f = [s \in SUBSET ids |->
                             IF s = {} THEN m
                             ELSE unsubscribe(f[s \ {CHOOSE x \in s : TRUE}], CHOOSE x \in s : TRUE)]
<1>1. Unsubscribed(m, ids) = g[ids]
    BY DEF Unsubscribed, FoldSet, MapThenFoldSet
<1>2. PICK h : IsFold("unsubscribe", m, ids, h)
    BY FoldExists
<1>3. h = [s \in SUBSET ids |->
                             IF s = {} THEN m
                             ELSE unsubscribe(h[s \ {CHOOSE x \in s : TRUE}], CHOOSE x \in s : TRUE)]
    BY <1>2 DEF IsFold, Call, Pick
<1>4. g = [s \in SUBSET ids |->
                             IF s = {} THEN m
                             ELSE unsubscribe(g[s \ {CHOOSE x \in s : TRUE}], CHOOSE x \in s : TRUE)]
    BY <1>3
<1> HIDE DEF g
<1>5. IsFold("unsubscribe", m, ids, g)
    BY <1>4 DEF IsFold, Call, Pick
<1> QED BY <1>1, <1>5
-----------------------------------------------------------------------------
(* The connection: the methods of WsManager one by one, as operators on    *)
(* the record; a step of WsNext is then one method.                        *)

Good(m) == m \in Managers /\ Consistent(m)

USE DelayAssumption

\* _setStatus keeps the type.
LEMMA SetStatusType ==
    ASSUME NEW m \in Managers, NEW s \in WsStatus
    PROVE  setStatus(m, s) \in Managers
BY DEF setStatus, Managers

\* _teardown keeps the type.
LEMMA TeardownType ==
    ASSUME NEW m \in Managers
    PROVE  teardown(m) \in Managers
<1>1. FirstDelay \in FirstDelay .. DelayCap
    OBVIOUS
<1>2. [m EXCEPT !.destroyed = TRUE, !.retryDelay = FirstDelay, !.retryTimer = FALSE,
                !.ws = "null", !.told = {}] \in Managers
    BY <1>1 DEF Managers, SocketStates
<1> QED BY <1>2, SetStatusType DEF teardown, WsStatus

\* _open keeps the type.
LEMMA OpenType ==
    ASSUME NEW m \in Managers
    PROVE  open(m) \in Managers
<1> DEFINE n == setStatus(m, "connecting")
           k == IF m.ws \in Live THEN n.orphans + 1 ELSE n.orphans
<1>1. n \in Managers
    BY SetStatusType DEF WsStatus
<1>2. k \in Nat
    BY <1>1 DEF Managers
<1>3. ASSUME NEW j \in Nat
      PROVE  [n EXCEPT !.orphans = j, !.ws = "connecting", !.told = {}] \in Managers
    <2> HIDE DEF n
    <2> QED BY <1>1 DEF Managers, SocketStates, Live
<1>4. open(m) = IF m.destroyed \/ m.subscribedIds = {} THEN m
                ELSE [n EXCEPT !.orphans = k, !.ws = "connecting", !.told = {}]
    BY DEF open
<1> HIDE DEF n, k
<1> QED BY <1>2, <1>3, <1>4

\* _reconnect keeps the type.
LEMMA ReconnectType ==
    ASSUME NEW m \in Managers
    PROVE  reconnect(m) \in Managers
<1>1. [m EXCEPT !.retryTimer = FALSE, !.ws = IF @ \in Live THEN "null" ELSE @,
                !.told = {}] \in Managers
    BY DEF Managers, SocketStates
<1> QED BY <1>1, OpenType DEF reconnect

\* subscribe keeps the type.
LEMMA SubscribeType ==
    ASSUME NEW m \in Managers, NEW v \in Vehicles
    PROVE  subscribe(m, v) \in Managers
<1>1. [m EXCEPT !.subscribedIds = @ \cup {v}, !.destroyed = FALSE] \in Managers
    BY DEF Managers
<1> QED BY <1>1, ReconnectType DEF subscribe

\* unsubscribe keeps the type.
LEMMA UnsubscribeType ==
    ASSUME NEW m \in Managers, NEW v \in Vehicles
    PROVE  unsubscribe(m, v) \in Managers
<1>1. [m EXCEPT !.subscribedIds = @ \ {v}] \in Managers
    BY DEF Managers
<1> QED BY <1>1, ReconnectType, TeardownType DEF unsubscribe

\* ws.onopen keeps the type.
LEMMA OnopenType ==
    ASSUME NEW m \in Managers
    PROVE  onopen(m) \in Managers
<1> DEFINE n == setStatus(m, "connected")
<1>1. n \in Managers
    BY SetStatusType DEF WsStatus
<1>2. FirstDelay \in FirstDelay .. DelayCap
    OBVIOUS
<1>3. [n EXCEPT !.retryDelay = FirstDelay, !.ws = "open", !.told = m.subscribedIds] \in Managers
    <2> HIDE DEF n
    <2> QED BY <1>1, <1>2 DEF Managers, SocketStates, Live
<1> QED BY <1>3 DEF onopen

\* ws.onclose keeps the type.
LEMMA OncloseType ==
    ASSUME NEW m \in Managers
    PROVE  onclose(m) \in Managers
<1> DEFINE n == setStatus([m EXCEPT !.ws = "closed", !.told = {}], "disconnected")
<1>1. [m EXCEPT !.ws = "closed", !.told = {}] \in Managers
    BY DEF Managers, SocketStates
<1>2. n \in Managers
    BY <1>1, SetStatusType DEF WsStatus
<1>3. setStatus(n, "connecting") \in Managers
    BY <1>2, SetStatusType DEF WsStatus
<1>4. [setStatus(n, "connecting") EXCEPT !.retryTimer = TRUE] \in Managers
    BY <1>3 DEF Managers
<1> QED BY <1>2, <1>4 DEF onclose, scheduleReconnect

\* The retry keeps the type: its delay is capped.
LEMMA RetryType ==
    ASSUME NEW m \in Managers
    PROVE  retry(m) \in Managers
<1> DEFINE d == IF 2 * m.retryDelay < DelayCap THEN 2 * m.retryDelay ELSE DelayCap
<1>1. d \in FirstDelay .. DelayCap
    BY DEF Managers
<1>2. [m EXCEPT !.retryTimer = FALSE, !.retryDelay = d] \in Managers
    BY <1>1 DEF Managers
<1> QED BY <1>2, OpenType DEF retry
-----------------------------------------------------------------------------
(* What the methods do to a consistent manager.                            *)

\* While the indicator agrees with the status, it is set with it.
LEMMA SetStatusIs ==
    ASSUME NEW m \in Managers, NEW s \in WsStatus, m.led = m.status
    PROVE  setStatus(m, s) = [m EXCEPT !.status = s, !.led = s]
BY DEF setStatus, Managers

\* _open, called while there is no live socket.
LEMMA OpenIs ==
    ASSUME NEW m \in Managers, m.led = m.status, m.ws \notin Live,
           m.subscribedIds # {}, ~m.destroyed
    PROVE  open(m) = [m EXCEPT !.status = "connecting", !.led = "connecting",
                               !.ws = "connecting", !.told = {}]
<1>1. setStatus(m, "connecting") = [m EXCEPT !.status = "connecting", !.led = "connecting"]
    BY SetStatusIs DEF WsStatus
<1>2. open(m) = [[m EXCEPT !.status = "connecting", !.led = "connecting"] EXCEPT
                    !.orphans = @, !.ws = "connecting", !.told = {}]
    BY <1>1 DEF open
<1> QED BY <1>2 DEF Managers

\* _reconnect, while something is wanted: the socket it makes.
LEMMA ReconnectIs ==
    ASSUME NEW m \in Managers, m.led = m.status, m.subscribedIds # {}, ~m.destroyed
    PROVE  reconnect(m) = [m EXCEPT !.retryTimer = FALSE,
                                    !.status = "connecting", !.led = "connecting",
                                    !.ws = "connecting", !.told = {}]
<1> DEFINE n == [m EXCEPT !.retryTimer = FALSE, !.ws = IF @ \in Live THEN "null" ELSE @,
                          !.told = {}]
<1>1. n \in Managers
    BY DEF Managers, SocketStates
<1>2. n.led = n.status /\ n.ws \notin Live /\ n.subscribedIds # {} /\ ~n.destroyed
    BY DEF Managers, Live
<1>3. open(n) = [n EXCEPT !.status = "connecting", !.led = "connecting",
                          !.ws = "connecting", !.told = {}]
    <2> HIDE DEF n
    <2> QED BY <1>1, <1>2, OpenIs
<1> QED BY <1>3 DEF reconnect, Managers

\* _teardown of a consistent manager: nothing is left.
LEMMA TeardownIs ==
    ASSUME NEW m \in Managers, m.led = m.status
    PROVE  teardown(m) = [m EXCEPT !.destroyed = TRUE, !.retryDelay = FirstDelay,
                                   !.retryTimer = FALSE, !.ws = "null", !.told = {},
                                   !.status = "disconnected", !.led = "disconnected"]
<1> DEFINE n == [m EXCEPT !.destroyed = TRUE, !.retryDelay = FirstDelay,
                          !.retryTimer = FALSE, !.ws = "null", !.told = {}]
<1>1. FirstDelay \in FirstDelay .. DelayCap
    OBVIOUS
<1>2. n \in Managers /\ n.led = n.status
    BY <1>1 DEF Managers, SocketStates
<1>3. setStatus(n, "disconnected") = [n EXCEPT !.status = "disconnected", !.led = "disconnected"]
    <2> HIDE DEF n
    <2> QED BY <1>2, SetStatusIs DEF WsStatus
<1> QED BY <1>3 DEF teardown, Managers
-----------------------------------------------------------------------------
(* Each method keeps a manager good, and is a step of the contract.        *)

Wanted(m, n) ==
    /\ n.led = IF n.subscribedIds = {} THEN "disconnected" ELSE "connecting"
    /\ n.told = {}
Established(m, n) ==
    /\ m.led = "connecting" /\ n.led = "connected"
    /\ n.subscribedIds = m.subscribedIds /\ n.told = m.subscribedIds
Lost(m, n) ==
    /\ m.led = "connected" /\ n.led = "connecting"
    /\ n.subscribedIds = m.subscribedIds /\ n.told = {}
Unseen(m, n) ==
    n.subscribedIds = m.subscribedIds /\ n.led = m.led /\ n.told = m.told

\* reconnect, after a change of the set that leaves something in it.
LEMMA ReconnectStep ==
    ASSUME NEW m \in Managers, m.led = m.status, m.orphans = 0,
           m.subscribedIds # {}, ~m.destroyed
    PROVE  Good(reconnect(m)) /\ Wanted(m, reconnect(m))
<1> DEFINE n == reconnect(m)
<1>1. n \in Managers
    BY ReconnectType
<1>2. n = [m EXCEPT !.retryTimer = FALSE, !.status = "connecting", !.led = "connecting",
                    !.ws = "connecting", !.told = {}]
    BY ReconnectIs
<1> HIDE DEF n
<1>3. /\ n.ws = "connecting" /\ n.told = {} /\ n.subscribedIds = m.subscribedIds
      /\ n.retryTimer = FALSE /\ n.destroyed = m.destroyed
      /\ n.status = "connecting" /\ n.led = "connecting" /\ n.orphans = m.orphans
    BY <1>2 DEF Managers
<1>4. Consistent(n) /\ Wanted(m, n)
    BY <1>3 DEF Consistent, Wanted, Live
<1> QED BY <1>1, <1>4 DEF Good, n

\* subscribe keeps the manager consistent, and the contract sees Want.
LEMMA SubscribeStep ==
    ASSUME NEW m, Good(m), NEW v \in Vehicles
    PROVE  /\ Good(subscribe(m, v))
           /\ Wanted(m, subscribe(m, v)) \/ Unseen(m, subscribe(m, v))
<1> DEFINE n == [m EXCEPT !.subscribedIds = @ \cup {v}, !.destroyed = FALSE]
<1>1. CASE v \in m.subscribedIds
    BY <1>1 DEF subscribe, Unseen
<1>2. CASE v \notin m.subscribedIds
    <2>1. n \in Managers /\ n.led = n.status /\ n.orphans = 0
        BY DEF Good, Consistent, Managers
    <2>2. n.subscribedIds # {} /\ ~n.destroyed
        BY DEF Good, Managers
    <2>3. subscribe(m, v) = reconnect(n)
        BY <1>2 DEF subscribe
    <2> HIDE DEF n
    <2> QED BY <2>1, <2>2, <2>3, ReconnectStep DEF Wanted
<1> QED BY <1>1, <1>2

\* So does unsubscribe, for the last vehicle too.
LEMMA UnsubscribeStep ==
    ASSUME NEW m, Good(m), NEW v \in Vehicles
    PROVE  /\ Good(unsubscribe(m, v))
           /\ Wanted(m, unsubscribe(m, v)) \/ Unseen(m, unsubscribe(m, v))
<1> DEFINE n == [m EXCEPT !.subscribedIds = @ \ {v}]
<1>1. CASE v \notin m.subscribedIds
    BY <1>1 DEF unsubscribe, Unseen
<1>2. CASE v \in m.subscribedIds
    <2>1. n \in Managers /\ n.led = n.status /\ n.orphans = 0
        BY DEF Good, Consistent, Managers
    <2>2. ~n.destroyed
        BY <1>2 DEF Good, Consistent, Managers
    <2>3. unsubscribe(m, v) = IF n.subscribedIds = {} THEN teardown(n) ELSE reconnect(n)
        BY <1>2 DEF unsubscribe
    <2> HIDE DEF n
    <2>4. CASE n.subscribedIds = {}
        <3>1. teardown(n) \in Managers
            BY <2>1, TeardownType
        <3> DEFINE q == teardown(n)
        <3>2. q = [n EXCEPT !.destroyed = TRUE, !.retryDelay = FirstDelay,
                            !.retryTimer = FALSE, !.ws = "null", !.told = {},
                            !.status = "disconnected", !.led = "disconnected"]
            BY <2>1, TeardownIs
        <3> HIDE DEF q
        <3>3. /\ q.ws = "null" /\ q.told = {} /\ q.subscribedIds = n.subscribedIds
              /\ q.retryTimer = FALSE /\ q.status = "disconnected"
              /\ q.led = "disconnected" /\ q.orphans = n.orphans
            BY <2>1, <3>2 DEF Managers
        <3>4. Consistent(q) /\ Wanted(m, q)
            BY <2>1, <2>4, <3>3 DEF Consistent, Wanted, Live
        <3> QED BY <2>3, <2>4, <3>1, <3>4 DEF Good, q
    <2>5. CASE n.subscribedIds # {}
        BY <2>1, <2>2, <2>3, <2>5, ReconnectStep DEF Wanted
    <2> QED BY <2>4, <2>5
<1> QED BY <1>1, <1>2

\* ws.onopen keeps it consistent, and the contract sees Establish.
LEMMA OnopenStep ==
    ASSUME NEW m, Good(m), m.ws = "connecting"
    PROVE  Good(onopen(m)) /\ Established(m, onopen(m))
<1>1. m \in Managers /\ m.led = m.status /\ m.subscribedIds # {} /\ m.status = "connecting"
    BY DEF Good, Consistent, Live
<1>2. onopen(m) \in Managers
    BY <1>1, OnopenType
<1>3. setStatus(m, "connected") = [m EXCEPT !.status = "connected", !.led = "connected"]
    BY <1>1, SetStatusIs DEF WsStatus
<1>4. Consistent(onopen(m)) /\ Established(m, onopen(m))
    BY <1>1, <1>3 DEF Good, onopen, Consistent, Established, Managers, Live
<1> QED BY <1>2, <1>4 DEF Good

\* A closing handshake that begins changes nothing the contract sees.
LEMMA ClosingStep ==
    ASSUME NEW m, Good(m), m.ws = "open"
    PROVE  /\ Good([m EXCEPT !.ws = "closing"])
           /\ Unseen(m, [m EXCEPT !.ws = "closing"])
BY DEF Good, Consistent, Unseen, Managers, SocketStates, Live

\* ws.onclose keeps it consistent; the contract sees Lose, or nothing when
\* the connection had not been made.
LEMMA OncloseStep ==
    ASSUME NEW m, Good(m), m.ws \in Live
    PROVE  Good(onclose(m)) /\ (Lost(m, onclose(m)) \/ Unseen(m, onclose(m)))
<1> DEFINE k == [m EXCEPT !.ws = "closed", !.told = {}]
           n == [k EXCEPT !.status = "disconnected", !.led = "disconnected"]
<1>1. m \in Managers /\ m.led = m.status /\ m.subscribedIds # {} /\ ~m.destroyed
    BY DEF Good, Consistent
<1>2. k \in Managers /\ k.led = k.status
    BY <1>1 DEF Managers, SocketStates
<1>3. setStatus(k, "disconnected") = n
    <2> HIDE DEF k
    <2> QED BY <1>2, SetStatusIs DEF WsStatus
<1>4. n \in Managers /\ n.led = n.status /\ n.subscribedIds # {} /\ ~n.destroyed
    BY <1>1 DEF Managers, SocketStates, WsStatus
<1>5. setStatus(n, "connecting") = [n EXCEPT !.status = "connecting", !.led = "connecting"]
    <2> HIDE DEF n
    <2> QED BY <1>4, SetStatusIs DEF WsStatus
<1>6. onclose(m) = [m EXCEPT !.ws = "closed", !.told = {}, !.retryTimer = TRUE,
                             !.status = "connecting", !.led = "connecting"]
    <2>1. onclose(m) = scheduleReconnect(n)
        BY <1>3 DEF onclose
    <2>2. scheduleReconnect(n) = [setStatus(n, "connecting") EXCEPT !.retryTimer = TRUE]
        <3> HIDE DEF n
        <3> QED BY <1>4 DEF scheduleReconnect
    <2>3. [[n EXCEPT !.status = "connecting", !.led = "connecting"] EXCEPT !.retryTimer = TRUE]
            = [m EXCEPT !.ws = "closed", !.told = {}, !.retryTimer = TRUE,
                        !.status = "connecting", !.led = "connecting"]
        BY <1>1 DEF Managers
    <2> HIDE DEF n
    <2> QED BY <1>5, <2>1, <2>2, <2>3
<1>7. Consistent(onclose(m)) /\ (Lost(m, onclose(m)) \/ Unseen(m, onclose(m)))
    <2> HIDE DEF k, n
    <2> QED BY <1>1, <1>6 DEF Good, Consistent, Lost, Unseen, Managers, Live
<1> QED BY <1>1, <1>7, OncloseType DEF Good

\* The retry opens the one socket there is; the contract sees nothing.
LEMMA RetryStep ==
    ASSUME NEW m, Good(m), m.retryTimer
    PROVE  Good(retry(m)) /\ Unseen(m, retry(m))
<1> DEFINE d == IF 2 * m.retryDelay < DelayCap THEN 2 * m.retryDelay ELSE DelayCap
           n == [m EXCEPT !.retryTimer = FALSE, !.retryDelay = d]
<1>1. m \in Managers /\ m.led = m.status /\ m.ws = "closed" /\ m.subscribedIds # {} /\ ~m.destroyed
    BY DEF Good, Consistent
<1>2. d \in FirstDelay .. DelayCap
    BY <1>1 DEF Managers
<1>3. retry(m) = open(n)
    BY DEF retry
<1> HIDE DEF d
<1>4. n \in Managers
    BY <1>1, <1>2 DEF Managers
<1>5. n.led = n.status /\ n.ws \notin Live /\ n.subscribedIds # {} /\ ~n.destroyed
    BY <1>1 DEF Managers, Live
<1>6. open(n) = [n EXCEPT !.status = "connecting", !.led = "connecting",
                          !.ws = "connecting", !.told = {}]
    <2> HIDE DEF n
    <2> QED BY <1>4, <1>5, OpenIs
<1>7. Consistent(open(n)) /\ Unseen(m, open(n))
    BY <1>1, <1>6 DEF Good, Consistent, Unseen, Managers, Live
<1> QED BY <1>1, <1>3, <1>7, RetryType DEF Good
-----------------------------------------------------------------------------
(* The specification                                                       *)

\* The manager is made consistent (the fields of the class).
LEMMA InitGood == WsInit => Good(w)
<1> SUFFICES ASSUME WsInit PROVE Good(w)
    OBVIOUS
<1>1. FirstDelay \in FirstDelay .. DelayCap
    OBVIOUS
<1>2. w \in Managers
    BY <1>1 DEF WsInit, NewManager, Managers, SocketStates, WsStatus
<1>3. Consistent(w)
    BY DEF WsInit, NewManager, Consistent, Live
<1> QED BY <1>2, <1>3 DEF Good

\* One step of the manager: it stays good, and the contract sees a change of
\* what is wanted, a connection, a loss, or nothing.
LEMMA StepGood ==
    ASSUME Good(w), [WsNext]_w
    PROVE  /\ Good(w)'
           /\ Wanted(w, w') \/ Established(w, w') \/ Lost(w, w') \/ Unseen(w, w')
<1>1. ASSUME NEW v \in Vehicles, Subscribe(v)
      PROVE  Good(w') /\ (Wanted(w, w') \/ Unseen(w, w'))
    BY <1>1, SubscribeStep DEF Subscribe
<1>2. ASSUME NEW v \in Vehicles, Unsubscribe(v)
      PROVE  Good(w') /\ (Wanted(w, w') \/ Unseen(w, w'))
    BY <1>2, UnsubscribeStep DEF Unsubscribe
<1>3. ASSUME SocketOpens PROVE Good(w') /\ Established(w, w')
    BY <1>3, OnopenStep DEF SocketOpens
<1>4. ASSUME GatewayCloses PROVE Good(w') /\ Unseen(w, w')
    BY <1>4, ClosingStep DEF GatewayCloses
<1>5. ASSUME SocketCloses PROVE Good(w') /\ (Lost(w, w') \/ Unseen(w, w'))
    BY <1>5, OncloseStep DEF SocketCloses
<1>6. ASSUME RetryFires PROVE Good(w') /\ Unseen(w, w')
    BY <1>6, RetryStep DEF RetryFires
<1>7. ASSUME UNCHANGED w PROVE Good(w') /\ Unseen(w, w')
    BY <1>7 DEF Unseen
<1>8. Good(w') /\ (Wanted(w, w') \/ Established(w, w') \/ Lost(w, w') \/ Unseen(w, w'))
    BY <1>1, <1>2, <1>3, <1>4, <1>5, <1>6, <1>7 DEF WsNext
<1> QED BY <1>8 DEF Good, Consistent

\* Whatever the callers and the network do, the manager keeps its type and
\* its parts agree with one another (all of WsManager.ts).
THEOREM WsManagerGood == WsSpec => []Good(w)
BY InitGood, StepGood, PTL DEF WsSpec

\* The manager's fields keep their types; retryDelay stays within its cap
\* (_scheduleReconnect).
THEOREM WsManagerTypes == WsSpec => []WsTypeOK
<1>1. Good(w) => WsTypeOK
    BY DEF Good, WsTypeOK
<1> QED BY <1>1, WsManagerGood, PTL

\* There is one socket at most and no retry pending beside it, for every
\* number of vehicles, of losses and of retries (_reconnect, _teardown, _open).
THEOREM WsManagerOneSocket == WsSpec => []OneSocket
<1>1. Good(w) => OneSocket
    BY DEF Good, Consistent, OneSocket
<1> QED BY <1>1, WsManagerGood, PTL

\* The manager implements LiveContract: "connected" is shown only over a
\* connection that was told exactly the set that is wanted, and nothing is
\* attempted while nothing is wanted (subscribe, unsubscribe, onopen, onclose).
THEOREM WsManagerImplements == WsSpec => ImplementsLiveContract
<1>1. WsInit => Contract!CInit
    BY DEF WsInit, NewManager, Contract!CInit
<1>2. Good(w) /\ [WsNext]_w => [Contract!CNext]_(Contract!cvars)
    <2> SUFFICES ASSUME Good(w), [WsNext]_w PROVE [Contract!CNext]_(Contract!cvars)
        OBVIOUS
    <2>1. CASE Wanted(w, w')
        <3>1. w'.subscribedIds \in SUBSET Vehicles
            BY StepGood DEF Good, Managers
        <3>2. Contract!Want(w'.subscribedIds)
            BY <2>1 DEF Wanted, Contract!Want
        <3> QED BY <3>1, <3>2 DEF Contract!CNext
    <2>2. CASE Established(w, w')
        BY <2>2 DEF Established, Contract!CNext, Contract!Establish
    <2>3. CASE Lost(w, w')
        BY <2>3 DEF Lost, Contract!CNext, Contract!Lose
    <2>4. CASE Unseen(w, w')
        BY <2>4 DEF Unseen, Contract!cvars
    <2> QED BY <2>1, <2>2, <2>3, <2>4, StepGood
<1> QED BY <1>1, <1>2, WsManagerGood, PTL DEF WsSpec, ImplementsLiveContract, Contract!CSpec
-----------------------------------------------------------------------------
(* The page and the connection: a step of the page makes several calls.    *)

\* What reconnect leaves in the set.
LEMMA ReconnectIds ==
    ASSUME NEW m \in Managers, m.led = m.status, m.orphans = 0,
           m.subscribedIds # {}, ~m.destroyed
    PROVE  reconnect(m).subscribedIds = m.subscribedIds
<1> DEFINE n == reconnect(m)
<1>1. n = [m EXCEPT !.retryTimer = FALSE, !.status = "connecting", !.led = "connecting",
                    !.ws = "connecting", !.told = {}]
    BY ReconnectIs
<1> HIDE DEF n
<1>2. n.subscribedIds = m.subscribedIds
    BY <1>1 DEF Managers
<1> QED BY <1>2 DEF n

\* subscribe adds the vehicle.
LEMMA SubscribeIds ==
    ASSUME NEW m, Good(m), NEW v \in Vehicles
    PROVE  subscribe(m, v).subscribedIds = m.subscribedIds \cup {v}
<1> DEFINE n == [m EXCEPT !.subscribedIds = @ \cup {v}, !.destroyed = FALSE]
<1>1. CASE v \in m.subscribedIds
    BY <1>1 DEF subscribe
<1>2. CASE v \notin m.subscribedIds
    <2>1. n \in Managers /\ n.led = n.status /\ n.orphans = 0
        BY DEF Good, Consistent, Managers
    <2>2. n.subscribedIds # {} /\ ~n.destroyed /\ n.subscribedIds = m.subscribedIds \cup {v}
        BY DEF Good, Managers
    <2>3. subscribe(m, v) = reconnect(n)
        BY <1>2 DEF subscribe
    <2> HIDE DEF n
    <2> QED BY <2>1, <2>2, <2>3, ReconnectIds
<1> QED BY <1>1, <1>2

\* unsubscribe removes it.
LEMMA UnsubscribeIds ==
    ASSUME NEW m, Good(m), NEW v \in Vehicles
    PROVE  unsubscribe(m, v).subscribedIds = m.subscribedIds \ {v}
<1> DEFINE n == [m EXCEPT !.subscribedIds = @ \ {v}]
<1>1. CASE v \notin m.subscribedIds
    BY <1>1 DEF unsubscribe
<1>2. CASE v \in m.subscribedIds
    <2>1. n \in Managers /\ n.led = n.status /\ n.orphans = 0
        BY DEF Good, Consistent, Managers
    <2>2. ~n.destroyed /\ n.subscribedIds = m.subscribedIds \ {v}
        BY <1>2 DEF Good, Consistent, Managers
    <2>3. unsubscribe(m, v) = IF n.subscribedIds = {} THEN teardown(n) ELSE reconnect(n)
        BY <1>2 DEF unsubscribe
    <2> HIDE DEF n
    <2>4. CASE n.subscribedIds = {}
        <3> DEFINE q == teardown(n)
        <3>1. q = [n EXCEPT !.destroyed = TRUE, !.retryDelay = FirstDelay,
                            !.retryTimer = FALSE, !.ws = "null", !.told = {},
                            !.status = "disconnected", !.led = "disconnected"]
            BY <2>1, TeardownIs
        <3> HIDE DEF q
        <3>2. q.subscribedIds = n.subscribedIds
            BY <2>1, <3>1 DEF Managers
        <3> QED BY <2>2, <2>3, <2>4, <3>2 DEF q
    <2>5. CASE n.subscribedIds # {}
        BY <2>1, <2>2, <2>3, <2>5, ReconnectIds
    <2> QED BY <2>4, <2>5
<1> QED BY <1>1, <1>2

\* What the contract sees of several calls: a change of what is wanted, or nothing.
Called(m, n) == Good(n) /\ (Wanted(m, n) \/ Unseen(m, n))

\* One more call.
LEMMA CallStep ==
    ASSUME NEW m, NEW n, Called(m, n), NEW v \in Vehicles, NEW kind
    PROVE  /\ Called(m, Call(kind, n, v))
           /\ kind = "subscribe" => Call(kind, n, v).subscribedIds = n.subscribedIds \cup {v}
           /\ kind # "subscribe" => Call(kind, n, v).subscribedIds = n.subscribedIds \ {v}
<1>1. Good(n)
    BY DEF Called
<1>2. ASSUME NEW q, Good(q), Wanted(n, q) \/ Unseen(n, q) PROVE Called(m, q)
    BY <1>2 DEF Called, Wanted, Unseen
<1>3. CASE kind = "subscribe"
    <2>1. Call(kind, n, v) = subscribe(n, v)
        BY <1>3 DEF Call
    <2> QED BY <1>1, <1>2, <1>3, <2>1, SubscribeStep, SubscribeIds
<1>4. CASE kind # "subscribe"
    <2>1. Call(kind, n, v) = unsubscribe(n, v)
        BY <1>4 DEF Call
    <2> QED BY <1>1, <1>2, <1>4, <2>1, UnsubscribeStep, UnsubscribeIds
<1> QED BY <1>3, <1>4

\* All the calls of an effect or of its cleanup.
LEMMA FoldCalls ==
    ASSUME NEW m, Good(m), NEW S \in SUBSET Vehicles, IsFiniteSet(S), NEW kind,
           NEW g, IsFold(kind, m, S, g)
    PROVE  /\ Called(m, g[S])
           /\ kind = "subscribe" => g[S].subscribedIds = m.subscribedIds \cup S
           /\ kind # "subscribe" => g[S].subscribedIds = m.subscribedIds \ S
<1> DEFINE Fine(s) == /\ Called(m, g[s])
                      /\ kind = "subscribe" => g[s].subscribedIds = m.subscribedIds \cup s
                      /\ kind # "subscribe" => g[s].subscribedIds = m.subscribedIds \ s
           Bad == {s \in SUBSET S : ~Fine(s)}
<1>1. ASSUME NEW s \in SUBSET S
      PROVE  g[s] = IF s = {} THEN m ELSE Call(kind, g[s \ {Pick(s)}], Pick(s))
    BY DEF IsFold
<1>2. Fine({})
    <2>1. g[{}] = m
        BY <1>1
    <2> QED BY <2>1 DEF Called, Unseen
<1>3. ASSUME NEW s \in SUBSET S, s # {}, Fine(s \ {Pick(s)}) PROVE Fine(s)
    <2>1. Pick(s) \in s /\ Pick(s) \in Vehicles
        BY <1>3 DEF Pick
    <2>2. PICK n, v : n = g[s \ {Pick(s)}] /\ v = Pick(s)
        OBVIOUS
    <2>3. g[s] = Call(kind, n, v) /\ v \in s /\ v \in Vehicles
        BY <1>1, <1>3, <2>1, <2>2
    <2>4. /\ Called(m, n)
          /\ kind = "subscribe" => n.subscribedIds = m.subscribedIds \cup (s \ {v})
          /\ kind # "subscribe" => n.subscribedIds = m.subscribedIds \ (s \ {v})
        BY <1>3, <2>2
    <2>5. /\ Called(m, Call(kind, n, v))
          /\ kind = "subscribe" => Call(kind, n, v).subscribedIds = n.subscribedIds \cup {v}
          /\ kind # "subscribe" => Call(kind, n, v).subscribedIds = n.subscribedIds \ {v}
        BY <2>3, <2>4, CallStep
    <2>6. kind = "subscribe" => g[s].subscribedIds = m.subscribedIds \cup s
        BY <2>3, <2>4, <2>5
    <2>7. kind # "subscribe" => g[s].subscribedIds = m.subscribedIds \ s
        BY <2>3, <2>4, <2>5
    <2> QED BY <2>3, <2>5, <2>6, <2>7
<1>4. Bad = {}
    <2> SUFFICES ASSUME Bad # {} PROVE FALSE
        OBVIOUS
    <2>1. Bad \subseteq SUBSET S
        OBVIOUS
    <2>2. PICK s \in Bad : \A t \in Bad : t \subseteq s => t = s
        <3> HIDE DEF Bad
        <3> QED BY <2>1, SmallestSubset
    <2> HIDE DEF Fine
    <2>3. s # {}
        BY <1>2
    <2>4. Pick(s) \in s
        BY <2>3 DEF Pick
    <2>5. Fine(s \ {Pick(s)})
        BY <2>2, <2>4
    <2> QED BY <1>3, <2>2, <2>3, <2>5
<1>5. Fine(S)
    <2> HIDE DEF Fine
    <2> QED BY <1>4
<1> QED BY <1>5

\* The effect subscribes to the devices it is given.
LEMMA SubscribedStep ==
    ASSUME NEW m, Good(m), NEW S \in SUBSET Vehicles
    PROVE  Called(m, Subscribed(m, S)) /\ Subscribed(m, S).subscribedIds = m.subscribedIds \cup S
<1>1. IsFiniteSet(S)
    BY ProjectsAssumption, FS_Subset DEF ProjectsAssumption
<1>2. PICK g : IsFold("subscribe", m, S, g) /\ Subscribed(m, S) = g[S]
    BY <1>1, SubscribedIs
<1>3. Called(m, g[S]) /\ g[S].subscribedIds = m.subscribedIds \cup S
    BY <1>1, <1>2, FoldCalls
<1> QED BY <1>2, <1>3

\* Its cleanup gives them up.
LEMMA UnsubscribedStep ==
    ASSUME NEW m, Good(m), NEW S \in SUBSET Vehicles
    PROVE  Called(m, Unsubscribed(m, S)) /\ Unsubscribed(m, S).subscribedIds = m.subscribedIds \ S
<1>1. IsFiniteSet(S)
    BY ProjectsAssumption, FS_Subset DEF ProjectsAssumption
<1>2. PICK g : IsFold("unsubscribe", m, S, g) /\ Unsubscribed(m, S) = g[S]
    BY <1>1, UnsubscribedIs
<1>3. Called(m, g[S]) /\ g[S].subscribedIds = m.subscribedIds \ S
    BY <1>1, <1>2, FoldCalls
<1> QED BY <1>2, <1>3

\* The effect is active for the devices shown, and the manager is subscribed to
\* them; an instance that is gone left none behind.
FollowInv ==
    /\ page = PageFields
    /\ page.devices \in SUBSET Vehicles /\ page.effectIds = page.devices
    /\ ~Mounted => page.devices = {}
    /\ Good(w) /\ FollowsDevices

\* What the contract sees of a step of the page.
Seen(m, n) == Wanted(m, n) \/ Established(m, n) \/ Lost(m, n) \/ Unseen(m, n)

\* The page starts unmounted and the manager with nothing.
LEMMA FollowInit == Init => FollowInv
<1> SUFFICES ASSUME Init PROVE FollowInv
    OBVIOUS
<1>1. page = PageFields /\ page.devices = {} /\ page.effectIds = {}
    BY DEF Init, Fresh, PageFields
<1>2. Good(w) /\ w.subscribedIds = {}
    BY InitGood DEF Init, WsInit, NewManager
<1> QED BY <1>1, <1>2 DEF FollowInv, FollowsDevices

\* A step of the page that makes no call.
LEMMA NoCall ==
    ASSUME FollowInv, w' = w, page' = PageFields', page'.devices = page.devices,
           page'.effectIds = page.effectIds, ~Mounted' => page'.devices = {}
    PROVE  FollowInv' /\ Seen(w, w')
<1>1. Good(w)' <=> Good(w)
    BY DEF Good, Consistent
<1> QED BY <1>1 DEF FollowInv, FollowsDevices, Seen, Unseen

\* Every step of the page, the fleet API, the manager and the stores.
LEMMA FollowStep ==
    ASSUME FollowInv, ShownInv, [Next]_vars
    PROVE  FollowInv' /\ Seen(w, w')
<1>0. page = PageFields /\ Good(w) /\ page.effectIds = page.devices /\ page.devices \in SUBSET Vehicles
      /\ w.subscribedIds = page.devices /\ (~Mounted => page.devices = {})
    BY DEF FollowInv, FollowsDevices
<1>1. ASSUME w' = w, page' = page PROVE FollowInv' /\ Seen(w, w')
    <2>1. page' = PageFields' /\ (~Mounted' => page'.devices = {})
        BY <1>0, <1>1 DEF PageFields, Mounted
    <2> QED BY <1>1, <2>1, NoCall
<1>2. ASSUME NEW n \in Projects, Open(n) PROVE FollowInv' /\ Seen(w, w')
    <2>1. w' = w /\ page' = PageFields' /\ page'.devices = {} /\ page'.effectIds = {}
        BY <1>2 DEF Open, wsVars, Fresh, PageFields
    <2>2. page.devices = {} /\ page.effectIds = {}
        BY <1>0, <1>2 DEF Open
    <2> QED BY <2>1, <2>2, NoCall
<1>3. ASSUME NEW n \in Projects, Jump(n) PROVE FollowInv' /\ Seen(w, w')
    <2>1. w' = w /\ page' = PageFields' /\ page'.devices = page.devices
          /\ page'.effectIds = page.effectIds /\ page'.name = n
        BY <1>0, <1>3 DEF Jump, wsVars, PageFields
    <2>2. Mounted'
        BY <2>1, ProjectsAssumption DEF Mounted, ProjectsAssumption
    <2> QED BY <2>1, <2>2, NoCall
<1>4. ASSUME Leave PROVE FollowInv' /\ Seen(w, w')
    <2>1. w' = Unsubscribed(w, page.effectIds) /\ page' = PageFields'
          /\ page'.devices = {} /\ page'.effectIds = {}
        BY <1>4 DEF Leave, Fresh, PageFields
    <2>2. Called(w, w') /\ w'.subscribedIds = w.subscribedIds \ page.effectIds
        BY <1>0, <2>1, UnsubscribedStep
    <2>3. Good(w') /\ Seen(w, w') /\ w'.subscribedIds = {}
        BY <1>0, <2>2 DEF Called, Seen
    <2>4. Good(w)'
        BY <2>3 DEF Good, Consistent
    <2> QED BY <2>1, <2>3, <2>4 DEF FollowInv, FollowsDevices
<1>5. ASSUME Retry \/ OpenAdd \/ CloseAdd \/ AddDevice PROVE FollowInv' /\ Seen(w, w')
    <2>1. w' = w /\ page' = PageFields' /\ page'.devices = page.devices
          /\ page'.effectIds = page.effectIds /\ page'.name = page.name
        BY <1>0, <1>5 DEF Retry, OpenAdd, CloseAdd, AddDevice, wsVars, PageFields
    <2>2. ~Mounted' => page'.devices = {}
        BY <1>0, <2>1 DEF Mounted
    <2> QED BY <2>1, <2>2, NoCall
<1>6. ASSUME NEW r \in requests, LoadDone(r) PROVE FollowInv' /\ Seen(w, w')
    <2>1. CASE ~Ours(r)
        BY <1>1, <1>6, <2>1 DEF LoadDone
    <2>2. CASE Ours(r)
        <3>1. PICK d : d = IF r.answer = "ok" THEN r.devices ELSE {}
            OBVIOUS
        <3>2. PICK p : p = SetDevices(page, d)
            OBVIOUS
        <3>3. /\ page' = [p EXCEPT !.loading = FALSE, !.error = @ \/ r.answer = "failed",
                                   !.adding = @ /\ r.for # "add"]
              /\ w' = Subscribed(Unsubscribed(w, page.effectIds), d)
            BY <1>6, <2>2, <3>1, <3>2 DEF LoadDone, Resubscribed
        <3>4. d \in SUBSET Vehicles
            <4>1. r.devices \in SUBSET Vehicles
                BY <1>6 DEF ShownInv, Requests
            <4> QED BY <3>1, <4>1
        <3>5. /\ p = [name |-> p.name, inst |-> p.inst, loading |-> p.loading,
                      error |-> p.error, devices |-> p.devices, showAdd |-> p.showAdd,
                      adding |-> p.adding, effectIds |-> p.effectIds, loops |-> p.loops,
                      genRef |-> p.genRef, feed |-> p.feed, jumped |-> p.jumped]
              /\ p.devices = d /\ p.effectIds = d /\ p.name = page.name
            BY <1>0, <3>2 DEF SetDevices, Cleanup, PageFields
        <3>6. page' = PageFields' /\ page'.devices = d /\ page'.effectIds = d /\ page'.name = page.name
            BY <3>3, <3>5 DEF PageFields
        <3>7. Mounted'
            BY <2>2, <3>6 DEF Ours, Mounted
        <3>8. PICK n : n = Unsubscribed(w, page.effectIds)
            OBVIOUS
        <3>9. Called(w, n) /\ n.subscribedIds = w.subscribedIds \ page.effectIds
            BY <1>0, <3>8, UnsubscribedStep
        <3>10. Good(n) /\ n.subscribedIds = {}
            BY <1>0, <3>9 DEF Called
        <3>11. Called(n, w') /\ w'.subscribedIds = n.subscribedIds \cup d
            BY <3>3, <3>4, <3>8, <3>10, SubscribedStep
        <3>12. Seen(w, w') /\ Good(w') /\ w'.subscribedIds = d
            BY <3>9, <3>10, <3>11 DEF Called, Seen, Wanted, Unseen
        <3>13. Good(w)'
            BY <3>12 DEF Good, Consistent
        <3> QED BY <3>4, <3>6, <3>7, <3>12, <3>13 DEF FollowInv, FollowsDevices
    <2> QED BY <2>1, <2>2
<1>7. ASSUME NEW r \in requests, AddDone(r) PROVE FollowInv' /\ Seen(w, w')
    <2>1. w' = w /\ page' = PageFields' /\ page'.devices = page.devices
          /\ page'.effectIds = page.effectIds /\ page'.name = page.name
        BY <1>0, <1>7 DEF AddDone, wsVars, PageFields
    <2>2. ~Mounted' => page'.devices = {}
        BY <1>0, <2>1 DEF Mounted
    <2> QED BY <2>1, <2>2, NoCall
<1>8. ASSUME NEW r \in requests, Answer(r) PROVE FollowInv' /\ Seen(w, w')
    BY <1>1, <1>8 DEF Answer, wsVars
<1>9. ASSUME SocketOpens \/ GatewayCloses \/ SocketCloses \/ RetryFires, page' = page
      PROVE  FollowInv' /\ Seen(w, w')
    <2>1. [WsNext]_w
        BY <1>9 DEF WsNext
    <2>2. Good(w)'
        BY <1>0, <2>1, StepGood
    <2>3. Established(w, w') \/ Lost(w, w') \/ Unseen(w, w')
        BY <1>0, <1>9, OnopenStep, ClosingStep, OncloseStep, RetryStep
           DEF SocketOpens, GatewayCloses, SocketCloses, RetryFires
    <2>4. w'.subscribedIds = w.subscribedIds
        BY <2>3 DEF Established, Lost, Unseen
    <2>5. page' = PageFields' /\ (~Mounted' => page'.devices = {})
        BY <1>0, <1>9 DEF PageFields, Mounted
    <2> QED BY <1>0, <1>9, <2>2, <2>3, <2>4, <2>5 DEF FollowInv, FollowsDevices, Seen
<1>10. ASSUME GatewayAccepts \/ ConnectionLost \/ ClosingEnds \/ RetryTimer
       PROVE  FollowInv' /\ Seen(w, w')
    BY <1>9, <1>10 DEF GatewayAccepts, ConnectionLost, ClosingEnds, RetryTimer
<1>11. ASSUME NEW v \in Vehicles, Message(v) PROVE FollowInv' /\ Seen(w, w')
    BY <1>1, <1>11 DEF Message, wsVars
<1>12. ASSUME FlushFrame PROVE FollowInv' /\ Seen(w, w')
    BY <1>1, <1>12 DEF FlushFrame, wsVars
<1>13. ASSUME NEW ids \in page.loops, Tick(ids) PROVE FollowInv' /\ Seen(w, w')
    <2>1. w' = w /\ page' = PageFields' /\ page'.devices = page.devices
          /\ page'.effectIds = page.effectIds /\ page'.name = page.name
        BY <1>0, <1>13 DEF Tick, wsVars, PageFields
    <2>2. ~Mounted' => page'.devices = {}
        BY <1>0, <2>1 DEF Mounted
    <2> QED BY <2>1, <2>2, NoCall
<1>14. ASSUME UNCHANGED vars PROVE FollowInv' /\ Seen(w, w')
    BY <1>1, <1>14 DEF vars, wsVars
<1> QED BY <1>2, <1>3, <1>4, <1>5, <1>6, <1>7, <1>8, <1>10, <1>11, <1>12, <1>13, <1>14
        DEF Next, Clicks

\* Over any number of instances, answers, jumps and losses, the manager is
\* subscribed to exactly the devices of the page that is mounted, and to nothing
\* when none is (the subscription effect of ProjectPage and its cleanup).
THEOREM PageFollows == Spec => []FollowsDevices
<1>1. FollowInv => FollowsDevices
    BY DEF FollowInv
<1>2. FollowInv /\ ShownInv /\ [Next]_vars => FollowInv' /\ ShownInv'
    BY FollowStep, ShownStep
<1> QED BY <1>1, <1>2, FollowInit, ShownInit, PTL DEF Spec

\* The page's calls, many in one step, leave one socket at most and no retry
\* beside it (_reconnect and _teardown under the effect's loops).
THEOREM PageOneSocket == Spec => []OneSocket
<1>1. FollowInv => OneSocket
    BY DEF FollowInv, Good, Consistent, OneSocket
<1>2. FollowInv /\ ShownInv /\ [Next]_vars => FollowInv' /\ ShownInv'
    BY FollowStep, ShownStep
<1> QED BY <1>1, <1>2, FollowInit, ShownInit, PTL DEF Spec

\* The page and the manager together implement LiveContract: a cleanup and the
\* effect after it are one change of what is wanted, and "connected" is shown
\* only over a connection told exactly the mounted page's devices.
THEOREM PageImplements == Spec => ImplementsLiveContract
<1>1. Init => Contract!CInit
    BY DEF Init, WsInit, NewManager, Contract!CInit
<1>2. FollowInv /\ ShownInv /\ [Next]_vars => FollowInv' /\ ShownInv'
    BY FollowStep, ShownStep
<1>3. FollowInv /\ ShownInv /\ [Next]_vars => [Contract!CNext]_(Contract!cvars)
    <2> SUFFICES ASSUME FollowInv, ShownInv, [Next]_vars PROVE [Contract!CNext]_(Contract!cvars)
        OBVIOUS
    <2>1. FollowInv' /\ Seen(w, w')
        BY FollowStep
    <2>2. CASE Wanted(w, w')
        <3>1. w'.subscribedIds \in SUBSET Vehicles
            BY <2>1 DEF FollowInv, FollowsDevices
        <3>2. Contract!Want(w'.subscribedIds)
            BY <2>2 DEF Wanted, Contract!Want
        <3> QED BY <3>1, <3>2 DEF Contract!CNext
    <2>3. CASE Established(w, w')
        BY <2>3 DEF Established, Contract!CNext, Contract!Establish
    <2>4. CASE Lost(w, w')
        BY <2>4 DEF Lost, Contract!CNext, Contract!Lose
    <2>5. CASE Unseen(w, w')
        BY <2>5 DEF Unseen, Contract!cvars
    <2> QED BY <2>1, <2>2, <2>3, <2>4, <2>5 DEF Seen
<1> QED BY <1>1, <1>2, <1>3, FollowInit, ShownInit, PTL
        DEF Spec, ImplementsLiveContract, Contract!CSpec
=============================================================================
