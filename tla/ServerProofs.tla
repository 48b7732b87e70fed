---------------------------- MODULE ServerProofs ----------------------------
(***************************************************************************)
(* Safety of two of the server's processes, for all their constants.       *)
(*                                                                         *)
(* The relay's sessions (RelaySession): NoDeadSession is inductive         *)
(* together with the types.  Why a handler can lose its registry entry     *)
(* needs one more fact: two handlers of a vehicle are only there at once   *)
(* if their overlap was recorded (OverlapInv).                             *)
(*                                                                         *)
(* The telemetry ingest (TelemetryIngest): that no delivery vanishes is    *)
(* inductive once each is known to be in at most one place of the process  *)
(* (OnePlace) and to be new when it is taken (TakenInv).  That it makes no *)
(* more rows than a flush has attempts needs to know how many it has made  *)
(* so far: none before it is in a buffer, and in it at most one for each   *)
(* attempt of the flush going on (RowsInv).                                *)
(***************************************************************************)
EXTENDS RelaySession, TelemetryIngest, FiniteSetTheorems, TLAPS
-----------------------------------------------------------------------------
(* The relay's sessions                                                    *)

\* The relay starts with an empty, well-typed registry.
LEMMA RelayTypeInit == RelayInit => RelayTypeOK
BY DEF RelayInit, RelayTypeOK, ConnStates

\* Every step of a handler or of the monitor keeps the types.
LEMMA RelayTypeStep == RelayTypeOK /\ [RelayNext]_relayVars => RelayTypeOK'
<1> SUFFICES ASSUME RelayTypeOK, [RelayNext]_relayVars PROVE RelayTypeOK'
  OBVIOUS
<1> USE DEF RelayTypeOK, ConnStates, Handling
<1>1. ASSUME NEW c \in Conns, ConnStep(c) PROVE RelayTypeOK'
  <2>1. CASE Dial(c) BY <2>1 DEF Dial
  <2>2. CASE LinkDrops(c) BY <2>2 DEF LinkDrops
  <2>3. CASE Refuse(c) BY <2>3 DEF Refuse
  <2>4. CASE Admit(c) BY <2>4 DEF Admit
  <2>5. CASE HandshakeFails(c) BY <2>5 DEF HandshakeFails
  <2>6. CASE Register(c) BY <2>6 DEF Register
  <2>7. CASE AcceptStreams(c) BY <2>7 DEF AcceptStreams
  <2>8. CASE Heartbeat(c) BY <2>8 DEF Heartbeat
  <2>9. CASE NoticeLinkDown(c) BY <2>9 DEF NoticeLinkDown
  <2>10. CASE HandlerFails(c) BY <2>10 DEF HandlerFails
  <2>11. CASE Cleanup(c) BY <2>11 DEF Cleanup
  <2> QED
    BY <1>1, <2>1, <2>2, <2>3, <2>4, <2>5, <2>6, <2>7, <2>8, <2>9, <2>10, <2>11
    DEF ConnStep
<1>2. ASSUME NEW v \in Vehicles, HeartbeatAges(v) PROVE RelayTypeOK'
  BY <1>2 DEF HeartbeatAges
<1>3. ASSUME NEW v \in Vehicles, MonitorRemove(v) PROVE RelayTypeOK'
  BY <1>3 DEF MonitorRemove
<1>4. CASE MonitorScan BY <1>4 DEF MonitorScan, Registered
<1>5. CASE UNCHANGED relayVars BY <1>5 DEF relayVars
<1> QED BY <1>1, <1>2, <1>3, <1>4, <1>5 DEF RelayNext

\* The registry maps vehicles to connections, and the monitor's list and the
\* histories hold vehicles.
THEOREM RelayTypes == RelaySpec => []RelayTypeOK
BY RelayTypeInit, RelayTypeStep, PTL DEF RelaySpec
-----------------------------------------------------------------------------
\* The empty registry holds no dead session.
LEMMA DeadInit == RelayInit => NoDeadSession
BY DEF RelayInit, NoDeadSession, Registered

\* A handler that ends removes whatever its vehicle has registered, so no step
\* leaves a dead session behind.
LEMMA DeadStep == RelayTypeOK /\ NoDeadSession /\ [RelayNext]_relayVars => NoDeadSession'
<1> SUFFICES ASSUME RelayTypeOK, NoDeadSession, [RelayNext]_relayVars PROVE NoDeadSession'
  OBVIOUS
<1> USE RelayAssumption DEF RelayTypeOK, NoDeadSession, Registered, Handling
<1>1. ASSUME NEW c \in Conns, ConnStep(c) PROVE NoDeadSession'
  <2>1. CASE Dial(c) BY <2>1 DEF Dial
  <2>2. CASE LinkDrops(c) BY <2>2 DEF LinkDrops
  <2>3. CASE Refuse(c) BY <2>3 DEF Refuse
  <2>4. CASE Admit(c) BY <2>4 DEF Admit
  <2>5. CASE HandshakeFails(c) BY <2>5 DEF HandshakeFails
  <2>6. CASE Register(c) BY <2>6 DEF Register
  <2>7. CASE AcceptStreams(c) BY <2>7 DEF AcceptStreams
  <2>8. CASE Heartbeat(c) BY <2>8 DEF Heartbeat
  <2>9. CASE NoticeLinkDown(c) BY <2>9 DEF NoticeLinkDown
  <2>10. CASE HandlerFails(c) BY <2>10 DEF HandlerFails
  <2>11. CASE Cleanup(c) BY <2>11 DEF Cleanup
  <2> QED
    BY <1>1, <2>1, <2>2, <2>3, <2>4, <2>5, <2>6, <2>7, <2>8, <2>9, <2>10, <2>11
    DEF ConnStep
<1>2. ASSUME NEW v \in Vehicles, HeartbeatAges(v) PROVE NoDeadSession'
  BY <1>2 DEF HeartbeatAges
<1>3. ASSUME NEW v \in Vehicles, MonitorRemove(v) PROVE NoDeadSession'
  BY <1>3 DEF MonitorRemove
<1>4. CASE MonitorScan BY <1>4 DEF MonitorScan
<1>5. CASE UNCHANGED relayVars BY <1>5 DEF relayVars
<1> QED BY <1>1, <1>2, <1>3, <1>4, <1>5 DEF RelayNext

\* Whatever order registrations, cleanups and the monitor's removals come in,
\* a session in the registry belongs to its vehicle and to a handler that is
\* still there: removal by vehicle may hit too much, never too little.
THEOREM RegistryHasNoDeadSession == RelaySpec => []NoDeadSession
<1>1. RelayInit => RelayTypeOK /\ NoDeadSession BY RelayTypeInit, DeadInit
<1>2. RelayTypeOK /\ NoDeadSession /\ [RelayNext]_relayVars => RelayTypeOK' /\ NoDeadSession'
  BY RelayTypeStep, DeadStep
<1> QED BY <1>1, <1>2, PTL DEF RelaySpec
-----------------------------------------------------------------------------
\* Handlers of one vehicle are there at once only if that was recorded.
OverlapInv ==
    \A c, d \in Conns :
        c # d /\ handler[c] \in Handling /\ handler[d] \in Handling /\ veh[c] = veh[d]
            => veh[c] \in overlapped

HiddenInv == OverlapInv /\ HiddenOnlyByOverlapOrReap

\* At the start no connection is being handled.
LEMMA HiddenInit == RelayInit => HiddenInv
BY DEF RelayInit, HiddenInv, OverlapInv, HiddenOnlyByOverlapOrReap, Handling

\* Only a second handler of the vehicle or the monitor hides a session.
LEMMA HiddenStep == RelayTypeOK /\ HiddenInv /\ [RelayNext]_relayVars => HiddenInv'
<1> SUFFICES ASSUME RelayTypeOK, HiddenInv, [RelayNext]_relayVars PROVE HiddenInv'
  OBVIOUS
<1> USE DEF RelayTypeOK, HiddenInv, OverlapInv, HiddenOnlyByOverlapOrReap, Handling
<1>1. ASSUME NEW c \in Conns, ConnStep(c) PROVE HiddenInv'
  <2>1. CASE Dial(c) BY <2>1 DEF Dial
  <2>2. CASE LinkDrops(c) BY <2>2 DEF LinkDrops
  <2>3. CASE Refuse(c) BY <2>3 DEF Refuse
  <2>4. CASE Admit(c) BY <2>4 DEF Admit
  <2>5. CASE HandshakeFails(c) BY <2>5 DEF HandshakeFails
  <2>6. CASE Register(c)
    <3>1. OverlapInv' BY <2>6 DEF Register
    <3>2. HiddenOnlyByOverlapOrReap' BY <2>6 DEF Register
    <3> QED BY <3>1, <3>2
  <2>7. CASE AcceptStreams(c) BY <2>7 DEF AcceptStreams
  <2>8. CASE Heartbeat(c) BY <2>8 DEF Heartbeat
  <2>9. CASE NoticeLinkDown(c) BY <2>9 DEF NoticeLinkDown
  <2>10. CASE HandlerFails(c) BY <2>10 DEF HandlerFails
  <2>11. CASE Cleanup(c)
    <3>1. OverlapInv' BY <2>11 DEF Cleanup
    <3>2. HiddenOnlyByOverlapOrReap' BY <2>11 DEF Cleanup
    <3> QED BY <3>1, <3>2
  <2> QED
    BY <1>1, <2>1, <2>2, <2>3, <2>4, <2>5, <2>6, <2>7, <2>8, <2>9, <2>10, <2>11
    DEF ConnStep
<1>2. ASSUME NEW v \in Vehicles, HeartbeatAges(v) PROVE HiddenInv'
  BY <1>2 DEF HeartbeatAges
<1>3. ASSUME NEW v \in Vehicles, MonitorRemove(v) PROVE HiddenInv'
  BY <1>3 DEF MonitorRemove
<1>4. CASE MonitorScan BY <1>4 DEF MonitorScan
<1>5. CASE UNCHANGED relayVars BY <1>5 DEF relayVars
<1> QED BY <1>1, <1>2, <1>3, <1>4, <1>5 DEF RelayNext

\* A connection that is being handled but cannot be reached through the
\* registry is one of a vehicle that overlapped with itself or was reaped:
\* these two races are the only ways a live vehicle disappears.
THEOREM HiddenOnlyByTwoRaces == RelaySpec => []HiddenOnlyByOverlapOrReap
<1>1. RelayInit => RelayTypeOK /\ HiddenInv BY RelayTypeInit, HiddenInit
<1>2. RelayTypeOK /\ HiddenInv /\ [RelayNext]_relayVars => RelayTypeOK' /\ HiddenInv'
  BY RelayTypeStep, HiddenStep
<1>3. HiddenInv => HiddenOnlyByOverlapOrReap BY DEF HiddenInv
<1> QED BY <1>1, <1>2, <1>3, PTL DEF RelaySpec
-----------------------------------------------------------------------------
(* telemetry-ingest: types                                                 *)

\* A message that can be delivered has deliveries left.
SourceInv ==
    \A m \in Msgs : /\ js[m] = "none" => tries[m] = 0
                    /\ js[m] = "stored" => tries[m] < MaxDeliver

\* Between flushes there is room for a line, and no attempt is counted.
WriterInv == \A w \in W : holder[w] = None => Len(buf[w]) < BatchSize /\ attempt[w] = 0

IngestTypes == TypeOK /\ SourceInv /\ WriterInv

\* The ingest starts well-typed, with nothing stored and no flush going on.
LEMMA IngestTypesInit ==
    ASSUME Init PROVE IngestTypes
<1>1. ChanCap \in Nat \ {0} /\ BatchSize \in Nat \ {0} /\ MaxAttempts \in Nat \ {0}
      /\ MaxDeliver \in Nat \ {0}
    BY IngestAssumption
<1>2. << >> \in Seq(Deliveries) /\ Len(<< >>) = 0
    OBVIOUS
<1>3. TypeOK
    <2>1. /\ buf \in [W -> Seq(Deliveries)] /\ \A w \in W : Len(buf[w]) <= BatchSize
          /\ ch \in Seq(Deliveries) /\ Len(ch) <= ChanCap
        BY <1>1, <1>2 DEF Init
    <2>2. tries \in [Msgs -> 0 .. MaxDeliver] /\ attempt \in [W -> 0 .. MaxAttempts]
          /\ rows \in [Deliveries -> Nat]
        BY <1>1 DEF Init
    <2> QED BY <2>1, <2>2 DEF Init, TypeOK
<1> QED BY <1>1, <1>2, <1>3 DEF Init, IngestTypes, SourceInv, WriterInv

\* Steps of the broker and of the goroutine of Subscribe.
LEMMA ReaderTypes ==
    ASSUME IngestTypes, Reader \/ \E m \in Msgs : Publish(m)
    PROVE  IngestTypes'
<1>0. ChanCap \in Nat /\ BatchSize \in Nat /\ MaxAttempts \in Nat /\ MaxDeliver \in Nat
    BY IngestAssumption
<1>1. ASSUME NEW m \in Msgs, Publish(m) PROVE IngestTypes'
    <2>1. TypeOK'
        BY <1>1 DEF IngestTypes, TypeOK, Publish, writer, process
    <2>2. SourceInv' /\ WriterInv'
        BY <1>0, <1>1, IngestAssumption DEF IngestTypes, SourceInv, WriterInv, Publish, writer, TypeOK
    <2> QED BY <2>1, <2>2 DEF IngestTypes
<1>2. ASSUME NEW m \in Msgs, ReaderTakes(m) PROVE IngestTypes'
    <2>1. tries[m] \in Nat /\ tries[m] < MaxDeliver /\ js[m] = "stored"
        BY <1>0, <1>2 DEF IngestTypes, SourceInv, ReaderTakes, TypeOK
    <2>2. tries[m] + 1 \in 1 .. MaxDeliver
        BY <1>0, <2>1
    <2>3. <<m, tries[m] + 1>> \in Deliveries
        BY <2>2 DEF Deliveries
    <2>4. hand' \in Deliveries /\ hand' # None
        BY <1>2, <2>3, IngestAssumption DEF ReaderTakes
    <2>5. tries' \in [Msgs -> 0 .. MaxDeliver] /\ js' \in [Msgs -> {"none", "stored", "acked", "dead"}]
        <3>1. tries[m] + 1 \in 0 .. MaxDeliver
            BY <1>0, <2>1
        <3>2. tries' = [tries EXCEPT ![m] = tries[m] + 1] /\ tries \in [Msgs -> 0 .. MaxDeliver]
            BY <1>2 DEF ReaderTakes, IngestTypes, TypeOK
        <3>3. tries' \in [Msgs -> 0 .. MaxDeliver]
            BY <3>1, <3>2
        <3>4. js' \in [Msgs -> {"none", "stored", "acked", "dead"}]
            BY <1>2 DEF ReaderTakes, IngestTypes, TypeOK
        <3> QED BY <3>3, <3>4
    <2>6. TypeOK'
        BY <1>2, <2>4, <2>5 DEF IngestTypes, TypeOK, ReaderTakes, writer, process
    <2>7. SourceInv'
        BY <1>0, <1>2, <2>1 DEF IngestTypes, SourceInv, ReaderTakes, TypeOK
    <2>8. WriterInv'
        BY <1>2 DEF IngestTypes, WriterInv, ReaderTakes, writer
    <2> QED BY <2>6, <2>7, <2>8 DEF IngestTypes
<1>3. CASE ReaderTop \/ ReaderFails
    <2>1. TypeOK'
        BY <1>3 DEF IngestTypes, TypeOK, ReaderTop, ReaderFails, writer, process
    <2>2. SourceInv' /\ WriterInv'
        BY <1>3 DEF IngestTypes, SourceInv, WriterInv, ReaderTop, ReaderFails, writer
    <2> QED BY <2>1, <2>2 DEF IngestTypes
<1>4. CASE HandOver
    <2>1. ch \in Seq(Deliveries) /\ hand \in Deliveries
        BY <1>4 DEF HandOver, IngestTypes, TypeOK
    <2>2. ch' \in Seq(Deliveries) /\ Len(ch') <= ChanCap
        BY <1>0, <1>4, <2>1 DEF HandOver
    <2>3. TypeOK'
        BY <1>4, <2>2 DEF IngestTypes, TypeOK, HandOver, writer, process
    <2>4. SourceInv' /\ WriterInv'
        BY <1>4 DEF IngestTypes, SourceInv, WriterInv, HandOver, writer
    <2> QED BY <2>3, <2>4 DEF IngestTypes
<1>5. CASE HandOverCancelled
    <2>1. TypeOK'
        BY <1>5 DEF IngestTypes, TypeOK, HandOverCancelled, writer, process
    <2>2. SourceInv' /\ WriterInv'
        BY <1>5 DEF IngestTypes, SourceInv, WriterInv, HandOverCancelled, writer
    <2> QED BY <2>1, <2>2 DEF IngestTypes
<1> QED BY <1>1, <1>2, <1>3, <1>4, <1>5 DEF Reader

\* A flush that ends leaves the writer with an empty buffer.
LEMMA ReleasedTypes ==
    ASSUME IngestTypes, NEW w \in W, Released(w), buf' = [buf EXCEPT ![w] = << >>],
           rows' \in [Deliveries -> Nat], gone' \subseteq Deliveries,
           UNCHANGED <<source, ch, item, process>>
    PROVE  IngestTypes'
<1>0. ChanCap \in Nat /\ BatchSize \in Nat \ {0} /\ MaxAttempts \in Nat /\ MaxDeliver \in Nat
    BY IngestAssumption
<1>1. << >> \in Seq(Deliveries) /\ Len(<< >>) = 0
    OBVIOUS
<1>2. /\ buf' \in [W -> Seq(Deliveries)]
      /\ \A v \in W : Len(buf'[v]) <= BatchSize /\ (v # w => buf'[v] = buf[v])
      /\ Len(buf'[w]) < BatchSize
    BY <1>0, <1>1 DEF IngestTypes, TypeOK
<1>3. /\ holder' \in [W -> {"worker", "ticker", "close", None}]
      /\ conn' \in [W -> {"up", "nil", "closed"}] /\ attempt' \in [W -> 0 .. MaxAttempts]
      /\ \A v \in W : v # w => holder'[v] = holder[v] /\ attempt'[v] = attempt[v]
      /\ attempt'[w] = 0
    BY <1>0 DEF Released, IngestTypes, TypeOK
<1>4. TypeOK'
    BY <1>2, <1>3 DEF IngestTypes, TypeOK, source, process
<1>5. SourceInv'
    BY DEF IngestTypes, SourceInv, source
<1>6. WriterInv'
    BY <1>2, <1>3 DEF IngestTypes, WriterInv
<1> QED BY <1>4, <1>5, <1>6 DEF IngestTypes

\* What a write adds to the rows is a number.
LEMMA StoredType ==
    ASSUME TypeOK, NEW s, NEW n \in Nat
    PROVE  Stored(s, n) \in [Deliveries -> Nat]
<1>1. ASSUME NEW d \in Deliveries
      PROVE  rows[d] + Cardinality({i \in 1 .. n : s[i] = d}) \in Nat
    <2>1. IsFiniteSet(1 .. n)
        BY FS_Interval
    <2>2. Cardinality({i \in 1 .. n : s[i] = d}) \in Nat
        BY <2>1, FS_Subset, FS_CardinalityType
    <2> QED BY <2>2 DEF TypeOK
<1> QED BY <1>1 DEF Stored

\* Steps of the workers, the writers and main.
LEMMA WorkerTypes ==
    ASSUME IngestTypes, NEW w \in W,
           WorkerTakes(w) \/ Add(w) \/ Tick(w) \/ Flush(w) \/ CloseWriter(w)
    PROVE  IngestTypes'
<1>0. ChanCap \in Nat /\ BatchSize \in Nat \ {0} /\ MaxAttempts \in Nat /\ MaxDeliver \in Nat
    BY IngestAssumption
<1>1. CASE WorkerTakes(w)
    <2>1. ch \in Seq(Deliveries) /\ ch # << >>
        BY <1>1 DEF IngestTypes, TypeOK, WorkerTakes
    <2>2. Tail(ch) \in Seq(Deliveries) /\ Len(Tail(ch)) <= Len(ch) /\ Head(ch) \in Deliveries
        BY <2>1
    <2>3. Len(Tail(ch)) <= ChanCap
        BY <1>0, <2>1, <2>2 DEF IngestTypes, TypeOK
    <2>4. item' \in [W -> Deliveries \cup {None}] /\ gone' \subseteq Deliveries
        BY <1>1, <2>2 DEF WorkerTakes, IngestTypes, TypeOK
    <2>5. TypeOK'
        BY <1>1, <2>2, <2>3, <2>4 DEF WorkerTakes, IngestTypes, TypeOK, source, writer, process
    <2>6. SourceInv' /\ WriterInv'
        BY <1>1 DEF IngestTypes, SourceInv, WriterInv, WorkerTakes, source, writer
    <2> QED BY <2>5, <2>6 DEF IngestTypes
<1>2. CASE Add(w)
    <2>1. /\ buf[w] \in Seq(Deliveries) /\ item[w] \in Deliveries /\ Len(buf[w]) < BatchSize
        BY <1>2 DEF Add, IngestTypes, TypeOK, WriterInv
    <2>2. Append(buf[w], item[w]) \in Seq(Deliveries) /\ Len(Append(buf[w], item[w])) = Len(buf[w]) + 1
          /\ Len(buf[w]) \in Nat
        BY <2>1
    <2>3. /\ buf' \in [W -> Seq(Deliveries)] /\ Len(buf'[w]) = Len(buf[w]) + 1
          /\ \A v \in W : v # w => buf'[v] = buf[v]
        BY <1>2, <2>2 DEF Add, IngestTypes, TypeOK
    <2>4. \A v \in W : Len(buf'[v]) <= BatchSize
        <3>1. Len(buf'[w]) <= BatchSize
            BY <1>0, <2>1, <2>2, <2>3
        <3>2. \A v \in W : Len(buf[v]) <= BatchSize
            BY DEF IngestTypes, TypeOK
        <3> QED BY <2>3, <3>1, <3>2
    <2>5. /\ holder' \in [W -> {"worker", "ticker", "close", None}]
          /\ item' \in [W -> Deliveries \cup {None}]
          /\ \A v \in W : v # w => holder'[v] = holder[v]
          /\ holder'[w] = IF Len(buf[w]) + 1 >= BatchSize THEN "worker" ELSE None
        BY <1>2 DEF Add, IngestTypes, TypeOK
    <2>6. TypeOK'
        BY <1>2, <2>3, <2>4, <2>5 DEF Add, IngestTypes, TypeOK, source, process
    <2>7. SourceInv'
        BY <1>2 DEF IngestTypes, SourceInv, Add, source
    <2>8. \A v \in W : attempt'[v] = attempt[v]
        BY <1>2 DEF Add
    <2>9. attempt[w] = 0
        BY <1>2 DEF Add, IngestTypes, WriterInv
    <2>10. holder'[w] = None => Len(buf'[w]) < BatchSize
        <3>1. CASE Len(buf[w]) + 1 >= BatchSize
            BY <2>5, <3>1, IngestAssumption
        <3>2. CASE ~(Len(buf[w]) + 1 >= BatchSize)
            BY <1>0, <2>2, <2>3, <3>2
        <3> QED BY <3>1, <3>2
    <2>11. WriterInv'
        BY <2>3, <2>5, <2>8, <2>9, <2>10 DEF IngestTypes, WriterInv
    <2> QED BY <2>6, <2>7, <2>11 DEF IngestTypes
<1>3. CASE Tick(w)
    <2>1. TypeOK'
        BY <1>3 DEF Tick, IngestTypes, TypeOK, source, process
    <2>2. SourceInv' /\ WriterInv'
        BY <1>3 DEF Tick, IngestTypes, SourceInv, WriterInv, source, TypeOK
    <2> QED BY <2>1, <2>2 DEF IngestTypes
<1>4. CASE CloseWriter(w)
    <2>1. TypeOK'
        BY <1>4 DEF CloseWriter, IngestTypes, TypeOK, source
    <2>2. SourceInv' /\ WriterInv'
        BY <1>4 DEF CloseWriter, IngestTypes, SourceInv, WriterInv, source, TypeOK
    <2> QED BY <2>1, <2>2 DEF IngestTypes
<1>5. CASE Reconnect(w)
    <2>1. TypeOK'
        BY <1>5 DEF Reconnect, IngestTypes, TypeOK, source, process
    <2>2. SourceInv' /\ WriterInv'
        BY <1>5 DEF Reconnect, IngestTypes, SourceInv, WriterInv, source, TypeOK
    <2> QED BY <2>1, <2>2 DEF IngestTypes
<1>6. CASE ReconnectFails(w) \/ WriteFails(w)
    <2>1. attempt[w] \in Nat /\ attempt[w] < MaxAttempts /\ holder[w] # None
        BY <1>0, <1>6 DEF ReconnectFails, WriteFails, Flushing, IngestTypes, TypeOK
    <2>2. /\ attempt' \in [W -> 0 .. MaxAttempts]
          /\ \A v \in W : v # w => attempt'[v] = attempt[v]
        <3>1. attempt[w] + 1 \in 0 .. MaxAttempts
            BY <1>0, <2>1
        <3>2. attempt' = [attempt EXCEPT ![w] = attempt[w] + 1] /\ attempt \in [W -> 0 .. MaxAttempts]
            BY <1>6 DEF ReconnectFails, WriteFails, IngestTypes, TypeOK
        <3> QED BY <3>1, <3>2
    <2>3. rows' \in [Deliveries -> Nat]
        <3>1. CASE ReconnectFails(w)
            BY <3>1 DEF ReconnectFails, IngestTypes, TypeOK
        <3>2. CASE WriteFails(w)
            <4>1. PICK n \in 0 .. (IF conn[w] = "up" THEN Len(buf[w]) ELSE 0) : rows' = Stored(buf[w], n)
                BY <3>2 DEF WriteFails
            <4>2. Len(buf[w]) \in Nat
                BY DEF IngestTypes, TypeOK
            <4>3. n \in Nat
                BY <4>1, <4>2
            <4> QED BY <4>1, <4>3, StoredType DEF IngestTypes
        <3> QED BY <1>6, <3>1, <3>2
    <2>4. conn' \in [W -> {"up", "nil", "closed"}]
        BY <1>6 DEF ReconnectFails, WriteFails, IngestTypes, TypeOK
    <2>5. TypeOK'
        BY <1>6, <2>2, <2>3, <2>4 DEF ReconnectFails, WriteFails, IngestTypes, TypeOK, source, process
    <2>6. SourceInv' /\ WriterInv'
        BY <1>6, <2>1, <2>2 DEF ReconnectFails, WriteFails, IngestTypes, SourceInv, WriterInv, source
    <2> QED BY <2>5, <2>6 DEF IngestTypes
<1>7. CASE WriteOk(w)
    <2>1. rows' \in [Deliveries -> Nat]
        BY <1>7, StoredType DEF WriteOk, IngestTypes, TypeOK
    <2> QED BY <1>7, <2>1, ReleasedTypes DEF WriteOk, IngestTypes, TypeOK
<1>8. CASE WriteUnread(w) \/ GiveUp(w)
    <2>1. ToSet(buf[w]) \subseteq Deliveries
        BY DEF IngestTypes, TypeOK, ToSet
    <2> QED BY <1>8, <2>1, ReleasedTypes DEF WriteUnread, GiveUp, IngestTypes, TypeOK
<1> QED BY <1>1, <1>2, <1>3, <1>4, <1>5, <1>6, <1>7, <1>8 DEF Flush

\* Every step keeps the types, the broker's counts and the room in the buffers.
LEMMA IngestTypesStep ==
    ASSUME IngestTypes, [Next]_vars PROVE IngestTypes'
<1>1. CASE Shutdown \/ Exit
    <2>1. TypeOK'
        BY <1>1 DEF Shutdown, Exit, IngestTypes, TypeOK, source, writer
    <2>2. SourceInv' /\ WriterInv'
        BY <1>1 DEF Shutdown, Exit, IngestTypes, SourceInv, WriterInv, source, writer
    <2> QED BY <2>1, <2>2 DEF IngestTypes
<1>2. CASE UNCHANGED vars
    BY <1>2 DEF vars, IngestTypes, TypeOK, SourceInv, WriterInv
<1> QED BY <1>1, <1>2, ReaderTypes, WorkerTypes DEF Next
-----------------------------------------------------------------------------
(* telemetry-ingest: where a delivery is                                   *)

Distinct(s) == \A i, j \in DOMAIN s : s[i] = s[j] => i = j

\* A delivery is in one place of the process at a time.
OnePlace ==
    /\ Distinct(ch) /\ hand \notin ToSet(ch)
    /\ \A w \in W :
         /\ Distinct(buf[w]) /\ hand \notin ToSet(buf[w]) /\ ToSet(buf[w]) \cap ToSet(ch) = {}
         /\ item[w] # None => item[w] # hand /\ item[w] \notin ToSet(ch)
    /\ \A v, w \in W :
         /\ item[v] \notin ToSet(buf[w])
         /\ v # w => /\ item[v] = item[w] => item[v] = None
                     /\ ToSet(buf[v]) \cap ToSet(buf[w]) = {}

\* What is in the process or in the database was delivered.
Taken(d) == d[2] <= tries[d[1]]
TakenInv == \A d \in Deliveries : InProcess(d) \/ rows[d] > 0 => Taken(d)

\* Only lines in a buffer have been written, once per attempt of this flush.
RowsInv ==
    /\ RowsPerDelivery
    /\ \A d \in Deliveries :
         hand = d \/ d \in ToSet(ch) \/ (\E w \in W : item[w] = d) => rows[d] = 0
    /\ \A w \in W : \A d \in ToSet(buf[w]) : rows[d] <= attempt[w]

PlaceInv == OnePlace /\ TakenInv /\ RowsInv /\ NothingVanishes

\* Appending an element that is not there yet.
LEMMA AppendSet ==
    ASSUME NEW S, NEW s \in Seq(S), NEW x \in S
    PROVE  /\ ToSet(Append(s, x)) = ToSet(s) \cup {x}
           /\ Distinct(s) /\ x \notin ToSet(s) => Distinct(Append(s, x))
<1>1. /\ DOMAIN s = 1 .. Len(s) /\ Len(s) \in Nat
      /\ DOMAIN Append(s, x) = 1 .. Len(s) + 1
      /\ \A i \in 1 .. Len(s) : Append(s, x)[i] = s[i]
      /\ Append(s, x)[Len(s) + 1] = x
    OBVIOUS
<1>2. \A i \in 1 .. Len(s) + 1 : i \in 1 .. Len(s) \/ i = Len(s) + 1
    BY <1>1
<1>3. 1 .. Len(s) \subseteq 1 .. Len(s) + 1 /\ Len(s) + 1 \in 1 .. Len(s) + 1
    BY <1>1
<1>4. ToSet(Append(s, x)) = ToSet(s) \cup {x}
    BY <1>1, <1>2, <1>3 DEF ToSet
<1>5. ASSUME Distinct(s), x \notin ToSet(s) PROVE Distinct(Append(s, x))
    <2>1. \A i \in 1 .. Len(s) : s[i] # x
        BY <1>1, <1>5 DEF ToSet
    <2> QED BY <1>1, <1>2, <1>5, <2>1 DEF Distinct
<1> QED BY <1>4, <1>5

\* Taking the first element of a sequence without repetition.
LEMMA TailSet ==
    ASSUME NEW S, NEW s \in Seq(S), s # << >>
    PROVE  /\ ToSet(s) = {Head(s)} \cup ToSet(Tail(s))
           /\ Distinct(s) => Distinct(Tail(s)) /\ Head(s) \notin ToSet(Tail(s))
<1>1. /\ DOMAIN s = 1 .. Len(s) /\ Len(s) \in Nat \ {0} /\ Head(s) = s[1]
      /\ Tail(s) \in Seq(S) /\ DOMAIN Tail(s) = 1 .. Len(s) - 1
      /\ \A i \in 1 .. Len(s) - 1 : Tail(s)[i] = s[i + 1] /\ i + 1 \in 1 .. Len(s) /\ i + 1 # 1
    OBVIOUS
<1>2. 1 \in DOMAIN s
    BY <1>1
<1>3. ToSet(s) = {Head(s)} \cup ToSet(Tail(s))
    <2>1. ToSet(Tail(s)) \subseteq ToSet(s) /\ Head(s) \in ToSet(s)
        BY <1>1, <1>2 DEF ToSet
    <2>2. ASSUME NEW i \in DOMAIN s PROVE s[i] \in {Head(s)} \cup ToSet(Tail(s))
        <3>1. CASE i = 1
            BY <1>1, <3>1
        <3>2. CASE i # 1
            <4>1. i - 1 \in 1 .. Len(s) - 1 /\ (i - 1) + 1 = i
                BY <1>1, <3>2
            <4>2. i - 1 \in DOMAIN Tail(s) /\ Tail(s)[i - 1] = s[i]
                BY <1>1, <4>1
            <4> QED BY <4>2 DEF ToSet
        <3> QED BY <3>1, <3>2
    <2> QED BY <2>1, <2>2 DEF ToSet
<1>4. ASSUME Distinct(s) PROVE Distinct(Tail(s))
    <2> SUFFICES ASSUME NEW i \in DOMAIN Tail(s), NEW j \in DOMAIN Tail(s), Tail(s)[i] = Tail(s)[j]
                 PROVE  i = j
        BY DEF Distinct
    <2>1. i \in Int /\ j \in Int /\ i + 1 \in DOMAIN s /\ j + 1 \in DOMAIN s /\ s[i + 1] = s[j + 1]
        BY <1>1
    <2>2. i + 1 = j + 1
        BY <1>4, <2>1 DEF Distinct
    <2> QED BY <2>1, <2>2
<1>5. ASSUME Distinct(s) PROVE Head(s) \notin ToSet(Tail(s))
    <2> SUFFICES ASSUME NEW i \in DOMAIN Tail(s), Tail(s)[i] = Head(s) PROVE FALSE
        BY DEF ToSet
    <2>1. i + 1 \in DOMAIN s /\ s[i + 1] = s[1] /\ i + 1 # 1
        BY <1>1
    <2> QED BY <1>2, <1>5, <2>1 DEF Distinct
<1> QED BY <1>3, <1>4, <1>5

\* The process, as the sets it holds.
LEMMA InProcessIs ==
    ASSUME TypeOK, NEW d
    PROVE  InProcess(d) <=> \/ hand = d \/ d \in ToSet(ch)
                            \/ \E w \in W : item[w] = d \/ d \in ToSet(buf[w])
<1>1. DOMAIN ch = 1 .. Len(ch) /\ \A w \in W : DOMAIN buf[w] = 1 .. Len(buf[w])
    BY DEF TypeOK
<1> QED BY <1>1 DEF InProcess, Contains, ToSet

\* The same after the step.
LEMMA InProcessNext ==
    ASSUME TypeOK', NEW d
    PROVE  InProcess(d)' <=> \/ hand' = d \/ d \in ToSet(ch')
                             \/ \E w \in W : item'[w] = d \/ d \in ToSet(buf'[w])
<1>1. DOMAIN ch' = 1 .. Len(ch') /\ \A w \in W : DOMAIN buf'[w] = 1 .. Len(buf'[w])
    BY DEF TypeOK
<1> QED BY <1>1 DEF InProcess, Contains, ToSet

\* What a write adds to the rows: one for each line that arrived.
LEMMA StoredIs ==
    ASSUME TypeOK, NEW s \in Seq(Deliveries), Distinct(s), NEW n \in 0 .. Len(s),
           NEW d \in Deliveries
    PROVE  /\ Stored(s, n)[d] \in Nat
           /\ rows[d] <= Stored(s, n)[d] /\ Stored(s, n)[d] <= rows[d] + 1
           /\ d \notin ToSet(s) => Stored(s, n)[d] = rows[d]
           /\ d \in ToSet(s) /\ n = Len(s) => Stored(s, n)[d] > 0
<1> DEFINE N == {i \in 1 .. n : s[i] = d}
<1>1. DOMAIN s = 1 .. Len(s) /\ Len(s) \in Nat /\ 1 .. n \subseteq DOMAIN s
    OBVIOUS
<1>2. Stored(s, n)[d] = rows[d] + Cardinality(N) /\ rows[d] \in Nat
    BY DEF Stored, TypeOK
<1>3. \A i, j \in N : i = j
    BY <1>1 DEF Distinct
<1>4. d \notin ToSet(s) => N = {}
    BY <1>1 DEF ToSet
<1>5. ASSUME d \in ToSet(s), n = Len(s) PROVE N # {}
    <2>1. PICK i \in DOMAIN s : s[i] = d
        BY <1>5 DEF ToSet
    <2>2. i \in 1 .. n
        BY <1>1, <1>5
    <2> QED BY <2>1, <2>2
<1> HIDE DEF N
<1>6. ASSUME N # {} PROVE \E i : N = {i}
    <2>1. PICK i : i \in N
        BY <1>6
    <2>2. N = {i}
        BY <1>3, <2>1
    <2> QED BY <2>2
<1>7. N = {} => Cardinality(N) = 0
    BY FS_EmptySet
<1>8. ASSUME N # {} PROVE Cardinality(N) = 1
    <2>1. PICK i : N = {i}
        BY <1>6, <1>8
    <2> QED BY <2>1, FS_Singleton
<1>9. Cardinality(N) \in {0, 1}
    BY <1>7, <1>8
<1> QED BY <1>2, <1>4, <1>5, <1>7, <1>8, <1>9

\* Steps that move no line.
LEMMA IdleStep ==
    ASSUME IngestTypes, IngestTypes', PlaceInv, UNCHANGED <<tries, hand, ch, item, buf, rows, gone>>,
           \A w \in W : attempt[w] <= attempt'[w]
    PROVE  PlaceInv'
<1>1. OnePlace' /\ TakenInv' /\ NothingVanishes'
    BY DEF PlaceInv, OnePlace, TakenInv, NothingVanishes, InProcess, Taken
<1>2. RowsPerDelivery' /\ \A d \in Deliveries :
         hand' = d \/ d \in ToSet(ch)' \/ (\E w \in W : item'[w] = d) => rows'[d] = 0
    BY DEF PlaceInv, RowsInv, RowsPerDelivery
<1>3. ASSUME NEW w \in W, NEW d \in ToSet(buf[w]) PROVE rows[d] <= attempt'[w]
    <2>1. rows[d] <= attempt[w] /\ attempt[w] <= attempt'[w]
        BY DEF PlaceInv, RowsInv
    <2>2. d \in Deliveries
        BY DEF IngestTypes, TypeOK, ToSet
    <2>3. rows[d] \in Nat /\ attempt[w] \in Nat /\ attempt'[w] \in Nat
        BY <2>2 DEF IngestTypes, TypeOK
    <2> QED BY <2>1, <2>3
<1> QED BY <1>1, <1>2, <1>3 DEF PlaceInv, RowsInv

\* Steps that deliver nothing: what is in the process was, what is in the database
\* came from it, and nothing is forgotten.
LEMMA AccountStep ==
    ASSUME PlaceInv, tries' = tries, OnePlace', RowsInv',
           \A d \in Deliveries : InProcess(d)' => InProcess(d),
           \A d \in Deliveries : rows'[d] > 0 => InProcess(d) \/ rows[d] > 0,
           \A d \in Deliveries : InProcess(d) \/ rows[d] > 0 \/ d \in gone
                                   => InProcess(d)' \/ rows'[d] > 0 \/ d \in gone'
    PROVE  PlaceInv'
<1>1. TakenInv'
    BY DEF PlaceInv, TakenInv, Taken
<1>2. NothingVanishes'
    BY DEF PlaceInv, NothingVanishes
<1> QED BY <1>1, <1>2 DEF PlaceInv

\* A delivery is new: neither in the process nor in the database before.
LEMMA TakesStep ==
    ASSUME IngestTypes, IngestTypes', PlaceInv, NEW m \in Msgs, ReaderTakes(m)
    PROVE  PlaceInv'
<1>0. PICK x : x = <<m, tries[m] + 1>>
    OBVIOUS
<1>1. /\ hand = None /\ hand' = x /\ tries' = [tries EXCEPT ![m] = tries[m] + 1]
      /\ UNCHANGED <<ch, item, buf, attempt, rows, gone>>
    BY <1>0 DEF ReaderTakes, IngestTypes, TypeOK, writer
<1>2. x[1] = m /\ x[2] = tries[m] + 1
    BY <1>0
<1>21. x \in Deliveries
    <2>1. hand' # None
        BY DEF ReaderTakes, IngestTypes, TypeOK
    <2> QED BY <1>1, <2>1 DEF IngestTypes, TypeOK
<1>3. tries[m] \in Nat /\ \A j \in Msgs : tries[j] \in Nat
    BY DEF IngestTypes, TypeOK
<1>31. tries'[m] = tries[m] + 1 /\ \A j \in Msgs : j # m => tries'[j] = tries[j]
    BY <1>1 DEF IngestTypes, TypeOK
<1>4. ~(x[2] <= tries[x[1]]) /\ x[2] <= tries'[x[1]]
    BY <1>2, <1>3, <1>31
<1>5. \A d \in Deliveries : d[1] \in Msgs /\ d[2] \in Nat /\ d = <<d[1], d[2]>>
    BY DEF Deliveries
<1>6. \A d \in Deliveries : d[2] <= tries[d[1]] => d[2] <= tries'[d[1]]
    <2> SUFFICES ASSUME NEW d \in Deliveries, d[2] <= tries[d[1]] PROVE d[2] <= tries'[d[1]]
        OBVIOUS
    <2>1. d[1] \in Msgs /\ d[2] \in Nat
        BY <1>5
    <2>2. tries'[d[1]] = tries[d[1]] \/ tries'[d[1]] = tries[d[1]] + 1
        BY <1>31, <2>1
    <2>3. tries[d[1]] \in Nat
        BY <1>3, <2>1
    <2> QED BY <2>1, <2>2, <2>3
<1>7. \A d \in Deliveries : d[2] <= tries'[d[1]] => d[2] <= tries[d[1]] \/ d = x
    <2> SUFFICES ASSUME NEW d \in Deliveries, d[2] <= tries'[d[1]], ~(d[2] <= tries[d[1]])
                 PROVE  d = x
        OBVIOUS
    <2>1. d[1] = m
        BY <1>31, <1>5
    <2>2. d[2] = tries[m] + 1
        BY <1>3, <1>31, <1>5, <2>1
    <2>3. d = <<d[1], d[2]>>
        BY <1>5
    <2> QED BY <1>0, <2>1, <2>2, <2>3
<1>9. /\ rows[x] = 0 /\ x \notin ToSet(ch)
      /\ \A w \in W : item[w] # x /\ x \notin ToSet(buf[w])
    <2>1. ~InProcess(x) /\ ~(rows[x] > 0) /\ rows[x] \in Nat
        BY <1>21, <1>4 DEF PlaceInv, TakenInv, Taken, IngestTypes, TypeOK
    <2>2. TypeOK
        BY DEF IngestTypes
    <2>3. x \notin ToSet(ch) /\ \A w \in W : item[w] # x /\ x \notin ToSet(buf[w])
        BY <2>1, <2>2, InProcessIs
    <2> QED BY <2>1, <2>3
<1>10. OnePlace'
    BY <1>1, <1>9 DEF PlaceInv, OnePlace
<1>11. \A d \in Deliveries : InProcess(d)' <=> InProcess(d) \/ d = x
    <2>1. TypeOK /\ TypeOK'
        BY DEF IngestTypes
    <2> SUFFICES ASSUME NEW d \in Deliveries PROVE InProcess(d)' <=> InProcess(d) \/ d = x
        OBVIOUS
    <2>2. InProcess(d)' <=> \/ hand' = d \/ d \in ToSet(ch')
                            \/ \E w \in W : item'[w] = d \/ d \in ToSet(buf'[w])
        BY <2>1, InProcessNext
    <2>3. InProcess(d) <=> \/ hand = d \/ d \in ToSet(ch)
                           \/ \E w \in W : item[w] = d \/ d \in ToSet(buf[w])
        BY <2>1, InProcessIs
    <2>4. None # d
        BY IngestAssumption
    <2> QED BY <1>1, <2>2, <2>3, <2>4
<1>12. TakenInv'
    BY <1>1, <1>4, <1>6, <1>11 DEF PlaceInv, TakenInv, Taken
<1>13. NothingVanishes'
    BY <1>1, <1>7, <1>11 DEF PlaceInv, NothingVanishes
<1>14. RowsInv'
    BY <1>1, <1>9 DEF PlaceInv, RowsInv, RowsPerDelivery
<1> QED BY <1>10, <1>12, <1>13, <1>14 DEF PlaceInv

\* It goes into the channel.
LEMMA HandOverStep ==
    ASSUME IngestTypes, IngestTypes', PlaceInv, HandOver
    PROVE  PlaceInv'
<1>1. /\ hand \in Deliveries /\ hand' = None /\ ch' = Append(ch, hand) /\ ch \in Seq(Deliveries)
      /\ UNCHANGED <<tries, item, buf, attempt, rows, gone>>
    BY DEF HandOver, IngestTypes, TypeOK, writer
<1>2. None \notin Deliveries /\ ToSet(ch') \subseteq Deliveries
      /\ \A w \in W : ToSet(buf[w]) \subseteq Deliveries
    <2>1. None \notin Deliveries
        BY IngestAssumption
    <2>2. ch' \in Seq(Deliveries)
        BY DEF IngestTypes, TypeOK
    <2>3. \A w \in W : buf[w] \in Seq(Deliveries)
        BY DEF IngestTypes, TypeOK
    <2> QED BY <2>1, <2>2, <2>3 DEF ToSet
<1>3. hand \notin ToSet(ch) /\ Distinct(ch)
    BY DEF PlaceInv, OnePlace
<1>4. ToSet(ch') = ToSet(ch) \cup {hand} /\ Distinct(ch')
    BY <1>1, <1>3, AppendSet
<1>5. OnePlace'
    <2>1. \A w \in W : item[w] # None => item[w] # hand
        BY DEF PlaceInv, OnePlace
    <2> QED BY <1>1, <1>2, <1>4, <2>1 DEF PlaceInv, OnePlace
<1>6. \A d \in Deliveries : InProcess(d)' <=> InProcess(d)
    <2>1. TypeOK /\ TypeOK'
        BY DEF IngestTypes
    <2> SUFFICES ASSUME NEW d \in Deliveries PROVE InProcess(d)' <=> InProcess(d)
        OBVIOUS
    <2>2. InProcess(d)' <=> \/ hand' = d \/ d \in ToSet(ch')
                            \/ \E w \in W : item'[w] = d \/ d \in ToSet(buf'[w])
        BY <2>1, InProcessNext
    <2>3. InProcess(d) <=> \/ hand = d \/ d \in ToSet(ch)
                           \/ \E w \in W : item[w] = d \/ d \in ToSet(buf[w])
        BY <2>1, InProcessIs
    <2> QED BY <1>1, <1>2, <1>4, <2>2, <2>3
<1>7. RowsInv'
    BY <1>1, <1>2, <1>4 DEF PlaceInv, RowsInv, RowsPerDelivery
<1> QED BY <1>1, <1>5, <1>6, <1>7, AccountStep

\* The hand-over is cancelled: the delivery is gone.
LEMMA CancelStep ==
    ASSUME IngestTypes, IngestTypes', PlaceInv, HandOverCancelled
    PROVE  PlaceInv'
<1>1. /\ hand \in Deliveries /\ hand' = None /\ gone' = gone \cup {hand}
      /\ UNCHANGED <<tries, ch, item, buf, attempt, rows>>
    BY DEF HandOverCancelled, IngestTypes, TypeOK, writer
<1>2. None \notin Deliveries /\ ToSet(ch) \subseteq Deliveries
      /\ \A w \in W : ToSet(buf[w]) \subseteq Deliveries
    BY IngestAssumption DEF IngestTypes, TypeOK, ToSet
<1>3. OnePlace'
    BY <1>1, <1>2 DEF PlaceInv, OnePlace
<1>4. RowsInv'
    BY <1>1, <1>2 DEF PlaceInv, RowsInv, RowsPerDelivery
<1>5. ASSUME NEW d \in Deliveries
      PROVE  (InProcess(d)' => InProcess(d)) /\ (InProcess(d) => InProcess(d)' \/ d \in gone')
    <2>1. TypeOK /\ TypeOK'
        BY DEF IngestTypes
    <2>2. InProcess(d)' <=> \/ hand' = d \/ d \in ToSet(ch')
                            \/ \E w \in W : item'[w] = d \/ d \in ToSet(buf'[w])
        BY <2>1, InProcessNext
    <2>3. InProcess(d) <=> \/ hand = d \/ d \in ToSet(ch)
                           \/ \E w \in W : item[w] = d \/ d \in ToSet(buf[w])
        BY <2>1, InProcessIs
    <2> QED BY <1>1, <1>2, <2>2, <2>3
<1>6. \A d \in Deliveries : InProcess(d) \/ rows[d] > 0 \/ d \in gone
                              => InProcess(d)' \/ rows'[d] > 0 \/ d \in gone'
    BY <1>1, <1>5
<1> QED BY <1>1, <1>3, <1>4, <1>5, <1>6, AccountStep

\* A worker takes a message from the channel: to add it, or to skip it.
LEMMA WorkerTakesStep ==
    ASSUME IngestTypes, IngestTypes', PlaceInv, NEW w \in W, WorkerTakes(w)
    PROVE  PlaceInv'
<1>0. PICK x : x = Head(ch)
    OBVIOUS
<1>1. /\ ch # << >> /\ ch \in Seq(Deliveries) /\ ch' = Tail(ch) /\ item[w] = None
      /\ UNCHANGED <<tries, hand, buf, attempt, rows>>
    BY DEF WorkerTakes, WorkerFree, IngestTypes, TypeOK, source, writer
<1>2. None \notin Deliveries /\ ToSet(ch) \subseteq Deliveries
      /\ \A v \in W : ToSet(buf[v]) \subseteq Deliveries
    <2>1. \A v \in W : buf[v] \in Seq(Deliveries)
        BY DEF IngestTypes, TypeOK
    <2>2. ToSet(ch) \subseteq Deliveries
        BY DEF IngestTypes, TypeOK, ToSet
    <2>3. \A v \in W : ToSet(buf[v]) \subseteq Deliveries
        BY <2>1 DEF ToSet
    <2> QED BY <2>2, <2>3, IngestAssumption
<1>3. Distinct(ch)
    BY DEF PlaceInv, OnePlace
<1>4. ToSet(ch) = {x} \cup ToSet(ch') /\ Distinct(ch') /\ x \notin ToSet(ch')
    BY <1>0, <1>1, <1>3, TailSet
<1>5. /\ x \in Deliveries /\ x # None /\ x # hand
      /\ \A v \in W : item[v] # x /\ x \notin ToSet(buf[v])
    BY <1>2, <1>4 DEF PlaceInv, OnePlace
<1>6. CASE x[1] \in Undecodable
    <2>1. gone' = gone \cup {x} /\ item' = item
        BY <1>0, <1>6 DEF WorkerTakes
    <2>2. OnePlace'
        BY <1>1, <1>4, <2>1 DEF PlaceInv, OnePlace
    <2>3. RowsInv'
        BY <1>1, <1>4, <2>1 DEF PlaceInv, RowsInv, RowsPerDelivery
    <2>4. ASSUME NEW d \in Deliveries
          PROVE  (InProcess(d)' => InProcess(d)) /\ (InProcess(d) => InProcess(d)' \/ d \in gone')
        <3>1. TypeOK /\ TypeOK'
            BY DEF IngestTypes
        <3>2. InProcess(d)' <=> \/ hand' = d \/ d \in ToSet(ch')
                                \/ \E v \in W : item'[v] = d \/ d \in ToSet(buf'[v])
            BY <3>1, InProcessNext
        <3>3. InProcess(d) <=> \/ hand = d \/ d \in ToSet(ch)
                               \/ \E v \in W : item[v] = d \/ d \in ToSet(buf[v])
            BY <3>1, InProcessIs
        <3> QED BY <1>1, <1>4, <2>1, <3>2, <3>3
    <2>5. \A d \in Deliveries : InProcess(d) \/ rows[d] > 0 \/ d \in gone
                                  => InProcess(d)' \/ rows'[d] > 0 \/ d \in gone'
        BY <1>1, <2>1, <2>4
    <2> QED BY <1>1, <2>2, <2>3, <2>4, <2>5, AccountStep
<1>7. CASE x[1] \notin Undecodable
    <2>1. gone' = gone /\ item' = [item EXCEPT ![w] = x]
        BY <1>0, <1>7 DEF WorkerTakes
    <2>2. item'[w] = x /\ \A v \in W : v # w => item'[v] = item[v]
        BY <2>1 DEF IngestTypes, TypeOK
    <2>3. OnePlace'
        <3>1. Distinct(ch') /\ hand' \notin ToSet(ch')
            BY <1>1, <1>4 DEF PlaceInv, OnePlace
        <3>2. ASSUME NEW v \in W
              PROVE  /\ Distinct(buf'[v]) /\ hand' \notin ToSet(buf'[v]) /\ ToSet(buf'[v]) \cap ToSet(ch') = {}
                     /\ item'[v] # None => item'[v] # hand' /\ item'[v] \notin ToSet(ch')
            <4>1. CASE v = w
                BY <1>1, <1>4, <1>5, <2>2, <4>1 DEF PlaceInv, OnePlace
            <4>2. CASE v # w
                BY <1>1, <1>4, <2>2, <4>2 DEF PlaceInv, OnePlace
            <4> QED BY <4>1, <4>2
        <3>3. ASSUME NEW u \in W, NEW v \in W PROVE item'[u] \notin ToSet(buf'[v])
            <4>1. CASE u = w
                BY <1>1, <1>5, <2>2, <4>1
            <4>2. CASE u # w
                BY <1>1, <2>2, <4>2 DEF PlaceInv, OnePlace
            <4> QED BY <4>1, <4>2
        <3>4. ASSUME NEW u \in W, NEW v \in W, u # v, item'[u] = item'[v] PROVE item'[u] = None
            <4>1. CASE u = w \/ v = w
                BY <1>5, <2>2, <3>4, <4>1
            <4>2. CASE u # w /\ v # w
                BY <2>2, <3>4, <4>2 DEF PlaceInv, OnePlace
            <4> QED BY <4>1, <4>2
        <3>5. \A u, v \in W : u # v => ToSet(buf'[u]) \cap ToSet(buf'[v]) = {}
            BY <1>1 DEF PlaceInv, OnePlace
        <3> QED BY <3>1, <3>2, <3>3, <3>4, <3>5 DEF OnePlace
    <2>4. RowsInv'
        <3>1. ASSUME NEW d \in Deliveries, hand' = d \/ d \in ToSet(ch') \/ \E v \in W : item'[v] = d
              PROVE  rows'[d] = 0
            BY <1>1, <1>4, <2>2, <3>1 DEF PlaceInv, RowsInv
        <3>2. RowsPerDelivery' /\ \A v \in W : \A d \in ToSet(buf'[v]) : rows'[d] <= attempt'[v]
            BY <1>1 DEF PlaceInv, RowsInv, RowsPerDelivery
        <3> QED BY <3>1, <3>2 DEF RowsInv
    <2>5. ASSUME NEW d \in Deliveries PROVE InProcess(d)' <=> InProcess(d)
        <3>1. TypeOK /\ TypeOK'
            BY DEF IngestTypes
        <3>2. InProcess(d)' <=> \/ hand' = d \/ d \in ToSet(ch')
                                \/ \E v \in W : item'[v] = d \/ d \in ToSet(buf'[v])
            BY <3>1, InProcessNext
        <3>3. InProcess(d) <=> \/ hand = d \/ d \in ToSet(ch)
                               \/ \E v \in W : item[v] = d \/ d \in ToSet(buf[v])
            BY <3>1, InProcessIs
        <3>4. \A v \in W : item[v] = d => item'[v] = d
            BY <1>1, <1>2, <2>2
        <3>5. \A v \in W : item'[v] = d => item[v] = d \/ d = x
            BY <2>2
        <3> QED BY <1>1, <1>4, <2>2, <3>2, <3>3, <3>4, <3>5
    <2> QED BY <1>1, <2>1, <2>3, <2>4, <2>5, AccountStep
<1> QED BY <1>6, <1>7

\* The line goes into the writer's buffer.
LEMMA AddStep ==
    ASSUME IngestTypes, IngestTypes', PlaceInv, NEW w \in W, Add(w)
    PROVE  PlaceInv'
<1>0. PICK x : x = item[w]
    OBVIOUS
<1>1. /\ x # None /\ x \in Deliveries /\ item' = [item EXCEPT ![w] = None]
      /\ buf' = [buf EXCEPT ![w] = Append(buf[w], x)] /\ buf[w] \in Seq(Deliveries)
      /\ UNCHANGED <<tries, hand, ch, attempt, rows, gone>>
    BY <1>0 DEF Add, IngestTypes, TypeOK, source
<1>2. None \notin Deliveries /\ ToSet(ch) \subseteq Deliveries
      /\ \A v \in W : ToSet(buf'[v]) \subseteq Deliveries
    <2>1. \A v \in W : buf'[v] \in Seq(Deliveries)
        BY DEF IngestTypes, TypeOK
    <2>2. ToSet(ch) \subseteq Deliveries
        BY DEF IngestTypes, TypeOK, ToSet
    <2>3. \A v \in W : ToSet(buf'[v]) \subseteq Deliveries
        BY <2>1 DEF ToSet
    <2> QED BY <2>2, <2>3, IngestAssumption
<1>3. /\ item'[w] = None /\ buf'[w] = Append(buf[w], x)
      /\ \A v \in W : v # w => item'[v] = item[v] /\ buf'[v] = buf[v]
    BY <1>1 DEF IngestTypes, TypeOK
<1>4. /\ Distinct(buf[w]) /\ x # hand /\ x \notin ToSet(ch)
      /\ \A v \in W : x \notin ToSet(buf[v]) /\ (v # w => item[v] # x)
    BY <1>0, <1>1 DEF PlaceInv, OnePlace
<1>5. ToSet(buf'[w]) = ToSet(buf[w]) \cup {x} /\ Distinct(buf'[w])
    BY <1>1, <1>3, <1>4, AppendSet
<1>6. OnePlace'
    <2>1. Distinct(ch') /\ hand' \notin ToSet(ch')
        BY <1>1 DEF PlaceInv, OnePlace
    <2>2. ASSUME NEW v \in W
          PROVE  /\ Distinct(buf'[v]) /\ hand' \notin ToSet(buf'[v]) /\ ToSet(buf'[v]) \cap ToSet(ch') = {}
                 /\ item'[v] # None => item'[v] # hand' /\ item'[v] \notin ToSet(ch')
        <3>1. CASE v = w
            BY <1>1, <1>3, <1>4, <1>5, <3>1 DEF PlaceInv, OnePlace
        <3>2. CASE v # w
            BY <1>1, <1>3, <3>2 DEF PlaceInv, OnePlace
        <3> QED BY <3>1, <3>2
    <2>3. ASSUME NEW u \in W, NEW v \in W PROVE item'[u] \notin ToSet(buf'[v])
        <3>1. CASE u = w
            BY <1>2, <1>3, <3>1
        <3>2. CASE u # w
            BY <1>3, <1>4, <1>5, <3>2 DEF PlaceInv, OnePlace
        <3> QED BY <3>1, <3>2
    <2>4. ASSUME NEW u \in W, NEW v \in W, u # v, item'[u] = item'[v] PROVE item'[u] = None
        <3>1. CASE u = w \/ v = w
            BY <1>3, <2>4, <3>1
        <3>2. CASE u # w /\ v # w
            BY <1>3, <2>4, <3>2 DEF PlaceInv, OnePlace
        <3> QED BY <3>1, <3>2
    <2>5. ASSUME NEW u \in W, NEW v \in W, u # v PROVE ToSet(buf'[u]) \cap ToSet(buf'[v]) = {}
        <3>1. ToSet(buf[u]) \cap ToSet(buf[v]) = {} /\ x \notin ToSet(buf[u]) /\ x \notin ToSet(buf[v])
            BY <1>4, <2>5 DEF PlaceInv, OnePlace
        <3> QED BY <1>3, <1>5, <2>5, <3>1
    <2> QED BY <2>1, <2>2, <2>3, <2>4, <2>5 DEF OnePlace
<1>7. RowsInv'
    <2>1. ASSUME NEW d \in Deliveries, hand' = d \/ d \in ToSet(ch') \/ \E v \in W : item'[v] = d
          PROVE  rows'[d] = 0
        BY <1>1, <1>2, <1>3, <2>1 DEF PlaceInv, RowsInv
    <2>2. rows[x] = 0 /\ attempt[w] \in Nat
        BY <1>0, <1>1 DEF PlaceInv, RowsInv, IngestTypes, TypeOK
    <2>3. ASSUME NEW v \in W, NEW d \in ToSet(buf'[v]) PROVE rows'[d] <= attempt'[v]
        <3>1. CASE d \in ToSet(buf[v])
            BY <1>1, <3>1 DEF PlaceInv, RowsInv
        <3>2. CASE d \notin ToSet(buf[v])
            <4>1. v = w /\ d = x
                BY <1>3, <1>5, <3>2
            <4> QED BY <1>1, <2>2, <4>1
        <3> QED BY <3>1, <3>2
    <2>4. RowsPerDelivery'
        BY <1>1 DEF PlaceInv, RowsInv, RowsPerDelivery
    <2> QED BY <2>1, <2>3, <2>4 DEF RowsInv
<1>8. ASSUME NEW d \in Deliveries PROVE InProcess(d)' <=> InProcess(d)
    <2>1. TypeOK /\ TypeOK'
        BY DEF IngestTypes
    <2>2. InProcess(d)' <=> \/ hand' = d \/ d \in ToSet(ch')
                            \/ \E v \in W : item'[v] = d \/ d \in ToSet(buf'[v])
        BY <2>1, InProcessNext
    <2>3. InProcess(d) <=> \/ hand = d \/ d \in ToSet(ch)
                           \/ \E v \in W : item[v] = d \/ d \in ToSet(buf[v])
        BY <2>1, InProcessIs
    <2>4. (\E v \in W : item[v] = d \/ d \in ToSet(buf[v])) => \E v \in W : item'[v] = d \/ d \in ToSet(buf'[v])
        BY <1>0, <1>3, <1>5
    <2>5. (\E v \in W : item'[v] = d \/ d \in ToSet(buf'[v])) => \E v \in W : item[v] = d \/ d \in ToSet(buf[v])
        BY <1>0, <1>2, <1>3, <1>5
    <2> QED BY <1>1, <2>2, <2>3, <2>4, <2>5
<1> QED BY <1>1, <1>6, <1>7, <1>8, AccountStep

\* A flush ends: the lines of the buffer are in the database or gone.
LEMMA EmptyStep ==
    ASSUME IngestTypes, IngestTypes', PlaceInv, NEW w \in W,
           UNCHANGED <<tries, hand, ch, item>>, buf' = [buf EXCEPT ![w] = << >>],
           attempt' = [attempt EXCEPT ![w] = 0], gone \subseteq gone',
           \A d \in Deliveries : /\ rows[d] <= rows'[d] /\ rows'[d] <= MaxAttempts
                                 /\ d \notin ToSet(buf[w]) => rows'[d] = rows[d]
                                 /\ d \in ToSet(buf[w]) => rows'[d] > 0 \/ d \in gone'
    PROVE  PlaceInv'
<1>1. /\ attempt'[w] = 0 /\ buf'[w] = << >>
      /\ \A v \in W : v # w => attempt'[v] = attempt[v] /\ buf'[v] = buf[v]
    BY DEF IngestTypes, TypeOK
<1>2. ToSet(<< >>) = {} /\ Distinct(<< >>)
    BY DEF ToSet, Distinct
<1>3. ToSet(buf'[w]) = {} /\ Distinct(buf'[w])
    BY <1>1, <1>2
<1>4. \A v \in W : ToSet(buf[v]) \subseteq Deliveries
    BY DEF IngestTypes, TypeOK, ToSet
<1>5. OnePlace'
    <2>1. Distinct(ch') /\ hand' \notin ToSet(ch')
        BY DEF PlaceInv, OnePlace
    <2>2. ASSUME NEW v \in W
          PROVE  /\ Distinct(buf'[v]) /\ hand' \notin ToSet(buf'[v]) /\ ToSet(buf'[v]) \cap ToSet(ch') = {}
                 /\ item'[v] # None => item'[v] # hand' /\ item'[v] \notin ToSet(ch')
        <3>1. CASE v = w
            BY <1>3, <3>1 DEF PlaceInv, OnePlace
        <3>2. CASE v # w
            BY <1>1, <3>2 DEF PlaceInv, OnePlace
        <3> QED BY <3>1, <3>2
    <2>3. ASSUME NEW u \in W, NEW v \in W PROVE item'[u] \notin ToSet(buf'[v])
        BY <1>1, <1>3 DEF PlaceInv, OnePlace
    <2>4. ASSUME NEW u \in W, NEW v \in W, u # v PROVE item'[u] = item'[v] => item'[u] = None
        BY <2>4 DEF PlaceInv, OnePlace
    <2>5. ASSUME NEW u \in W, NEW v \in W, u # v PROVE ToSet(buf'[u]) \cap ToSet(buf'[v]) = {}
        <3>1. ToSet(buf[u]) \cap ToSet(buf[v]) = {}
            BY <2>5 DEF PlaceInv, OnePlace
        <3> QED BY <1>1, <1>3, <2>5, <3>1
    <2> QED BY <2>1, <2>2, <2>3, <2>4, <2>5 DEF OnePlace
<1>6. RowsInv'
    <2>1. ASSUME NEW d \in Deliveries, hand' = d \/ d \in ToSet(ch') \/ \E v \in W : item'[v] = d
          PROVE  rows'[d] = 0
        <3>1. d \notin ToSet(buf[w])
            BY <2>1 DEF PlaceInv, OnePlace
        <3>2. rows[d] = 0
            BY <2>1 DEF PlaceInv, RowsInv
        <3> QED BY <3>1, <3>2
    <2>2. ASSUME NEW v \in W, NEW d \in ToSet(buf'[v]) PROVE rows'[d] <= attempt'[v]
        <3>1. v # w /\ d \in ToSet(buf[v])
            BY <1>1, <1>3
        <3>2. d \notin ToSet(buf[w]) /\ d \in Deliveries
            BY <1>4, <3>1 DEF PlaceInv, OnePlace
        <3>3. rows[d] <= attempt[v]
            BY <3>1 DEF PlaceInv, RowsInv
        <3> QED BY <1>1, <3>1, <3>2, <3>3
    <2>3. RowsPerDelivery'
        BY DEF RowsPerDelivery
    <2> QED BY <2>1, <2>2, <2>3 DEF RowsInv
<1>7. ASSUME NEW d \in Deliveries
      PROVE  /\ InProcess(d)' => InProcess(d)
             /\ InProcess(d) => InProcess(d)' \/ d \in ToSet(buf[w])
             /\ d \in ToSet(buf[w]) => InProcess(d)
    <2>1. TypeOK /\ TypeOK'
        BY DEF IngestTypes
    <2>2. InProcess(d)' <=> \/ hand' = d \/ d \in ToSet(ch')
                            \/ \E v \in W : item'[v] = d \/ d \in ToSet(buf'[v])
        BY <2>1, InProcessNext
    <2>3. InProcess(d) <=> \/ hand = d \/ d \in ToSet(ch)
                           \/ \E v \in W : item[v] = d \/ d \in ToSet(buf[v])
        BY <2>1, InProcessIs
    <2> QED BY <1>1, <1>3, <2>2, <2>3
<1>8. ASSUME NEW d \in Deliveries
      PROVE  /\ rows'[d] > 0 => InProcess(d) \/ rows[d] > 0
             /\ rows[d] > 0 => rows'[d] > 0
    <2>1. rows[d] \in Nat /\ rows'[d] \in Nat
        BY DEF IngestTypes, TypeOK
    <2> QED BY <1>7, <2>1
<1>9. \A d \in Deliveries : InProcess(d) \/ rows[d] > 0 \/ d \in gone
                              => InProcess(d)' \/ rows'[d] > 0 \/ d \in gone'
    BY <1>7, <1>8
<1> QED BY <1>5, <1>6, <1>7, <1>8, <1>9, AccountStep

\* A write that fails counts an attempt, and may have stored each line once more.
LEMMA FailsStep ==
    ASSUME IngestTypes, IngestTypes', PlaceInv, NEW w \in W, WriteFails(w)
    PROVE  PlaceInv'
<1>1. /\ UNCHANGED <<tries, hand, ch, item, buf, gone>> /\ attempt[w] < MaxAttempts
      /\ attempt' = [attempt EXCEPT ![w] = attempt[w] + 1]
    BY DEF WriteFails, Flushing, source
<1>2. /\ MaxAttempts \in Nat /\ attempt'[w] = attempt[w] + 1 /\ attempt[w] \in Nat
      /\ \A v \in W : v # w => attempt'[v] = attempt[v]
    BY <1>1, IngestAssumption DEF IngestTypes, TypeOK
<1>3. TypeOK /\ buf[w] \in Seq(Deliveries) /\ Distinct(buf[w]) /\ Len(buf[w]) \in Nat
    BY DEF IngestTypes, TypeOK, PlaceInv, OnePlace
<1>4. PICK n \in 0 .. (IF conn[w] = "up" THEN Len(buf[w]) ELSE 0) : rows' = Stored(buf[w], n)
    BY DEF WriteFails
<1>5. n \in 0 .. Len(buf[w])
    BY <1>3, <1>4
<1>6. \A d \in Deliveries : rows[d] \in Nat /\ rows'[d] \in Nat
    BY DEF IngestTypes, TypeOK
<1>7. ASSUME NEW d \in Deliveries
      PROVE  /\ rows[d] <= rows'[d] /\ rows'[d] <= rows[d] + 1
             /\ d \notin ToSet(buf[w]) => rows'[d] = rows[d]
    BY <1>3, <1>4, <1>5, StoredIs
<1>8. ToSet(buf[w]) \subseteq Deliveries
    BY <1>3 DEF ToSet
<1>9. \A d \in ToSet(buf[w]) : rows[d] <= attempt[w]
    BY DEF PlaceInv, RowsInv
<1>10. OnePlace'
    BY <1>1 DEF PlaceInv, OnePlace
<1>11. RowsPerDelivery'
    <2> SUFFICES ASSUME NEW d \in Deliveries PROVE rows'[d] <= MaxAttempts
        BY DEF RowsPerDelivery
    <2>1. CASE d \in ToSet(buf[w])
        BY <1>1, <1>2, <1>6, <1>7, <1>9, <2>1
    <2>2. CASE d \notin ToSet(buf[w])
        BY <1>7, <2>2 DEF PlaceInv, RowsInv, RowsPerDelivery
    <2> QED BY <2>1, <2>2
<1>12. ASSUME NEW d \in Deliveries, hand' = d \/ d \in ToSet(ch') \/ \E v \in W : item'[v] = d
       PROVE  rows'[d] = 0
    <2>1. d \notin ToSet(buf[w])
        BY <1>1, <1>12 DEF PlaceInv, OnePlace
    <2>2. rows[d] = 0
        BY <1>1, <1>12 DEF PlaceInv, RowsInv
    <2> QED BY <1>7, <2>1, <2>2
<1>13. ASSUME NEW v \in W, NEW d \in ToSet(buf'[v]) PROVE rows'[d] <= attempt'[v]
    <2>1. d \in ToSet(buf[v])
        BY <1>1
    <2>2. CASE v = w
        <3>1. d \in Deliveries /\ rows[d] <= attempt[w]
            BY <1>8, <1>9, <2>1, <2>2
        <3>2. rows[d] \in Nat /\ rows'[d] \in Nat /\ rows'[d] <= rows[d] + 1
            BY <1>6, <1>7, <3>1
        <3> QED BY <1>2, <2>2, <3>1, <3>2
    <2>3. CASE v # w
        <3>1. d \notin ToSet(buf[w])
            BY <2>1, <2>3 DEF PlaceInv, OnePlace
        <3>2. d \in Deliveries
            <4>1. buf[v] \in Seq(Deliveries)
                BY DEF IngestTypes, TypeOK
            <4> QED BY <2>1, <4>1 DEF ToSet
        <3>3. rows[d] <= attempt[v]
            BY <2>1 DEF PlaceInv, RowsInv
        <3> QED BY <1>2, <1>7, <2>3, <3>1, <3>2, <3>3
    <2> QED BY <2>2, <2>3
<1>14. RowsInv'
    BY <1>11, <1>12, <1>13 DEF RowsInv
<1>15. \A d \in Deliveries : InProcess(d)' <=> InProcess(d)
    BY <1>1 DEF InProcess
<1>16. ASSUME NEW d \in Deliveries
       PROVE  /\ rows'[d] > 0 => InProcess(d) \/ rows[d] > 0
              /\ rows[d] > 0 => rows'[d] > 0
    <2>1. rows'[d] > 0 => d \in ToSet(buf[w]) \/ rows[d] > 0
        BY <1>6, <1>7
    <2>2. d \in ToSet(buf[w]) => InProcess(d)
        BY <1>3, InProcessIs
    <2>3. rows[d] > 0 => rows'[d] > 0
        BY <1>6, <1>7
    <2> QED BY <2>1, <2>2, <2>3
<1>17. \A d \in Deliveries : InProcess(d) \/ rows[d] > 0 \/ d \in gone
                               => InProcess(d)' \/ rows'[d] > 0 \/ d \in gone'
    BY <1>1, <1>15, <1>16
<1> QED BY <1>1, <1>10, <1>14, <1>15, <1>16, <1>17, AccountStep

\* The three ways a flush ends.
LEMMA FlushEndStep ==
    ASSUME IngestTypes, IngestTypes', PlaceInv, NEW w \in W,
           WriteOk(w) \/ WriteUnread(w) \/ GiveUp(w)
    PROVE  PlaceInv'
<1>1. /\ UNCHANGED <<tries, hand, ch, item>> /\ buf' = [buf EXCEPT ![w] = << >>]
      /\ attempt' = [attempt EXCEPT ![w] = 0]
    BY DEF WriteOk, WriteUnread, GiveUp, Released, source
<1>2. TypeOK /\ buf[w] \in Seq(Deliveries) /\ Distinct(buf[w]) /\ Len(buf[w]) \in Nat
    BY DEF IngestTypes, TypeOK, PlaceInv, OnePlace
<1>3. \A d \in Deliveries : rows[d] \in Nat /\ rows'[d] \in Nat /\ rows[d] <= MaxAttempts
    BY DEF IngestTypes, TypeOK, PlaceInv, RowsInv, RowsPerDelivery
<1>4. CASE WriteOk(w)
    <2>1. /\ rows' = Stored(buf[w], Len(buf[w])) /\ gone' = gone /\ attempt[w] < MaxAttempts
          /\ attempt[w] \in Nat /\ MaxAttempts \in Nat
        BY <1>4, IngestAssumption DEF WriteOk, Flushing, IngestTypes, TypeOK
    <2>2. Len(buf[w]) \in 0 .. Len(buf[w])
        BY <1>2
    <2>3. ASSUME NEW d \in Deliveries
          PROVE  /\ rows[d] <= rows'[d] /\ rows'[d] <= rows[d] + 1
                 /\ d \notin ToSet(buf[w]) => rows'[d] = rows[d]
                 /\ d \in ToSet(buf[w]) => rows'[d] > 0
        BY <1>2, <2>1, <2>2, StoredIs
    <2>4. ASSUME NEW d \in Deliveries PROVE rows'[d] <= MaxAttempts
        <3>1. CASE d \in ToSet(buf[w])
            <4>1. rows[d] <= attempt[w]
                BY <3>1 DEF PlaceInv, RowsInv
            <4> QED BY <1>3, <2>1, <2>3, <4>1
        <3>2. CASE d \notin ToSet(buf[w])
            BY <1>3, <2>3, <3>2
        <3> QED BY <3>1, <3>2
    <2> QED BY <1>1, <2>1, <2>3, <2>4, EmptyStep
<1>5. CASE WriteUnread(w) \/ GiveUp(w)
    <2>1. rows' = rows /\ gone' = gone \cup ToSet(buf[w])
        BY <1>5 DEF WriteUnread, GiveUp
    <2>2. ASSUME NEW d \in Deliveries
          PROVE  /\ rows[d] <= rows'[d] /\ rows'[d] <= MaxAttempts
                 /\ d \notin ToSet(buf[w]) => rows'[d] = rows[d]
                 /\ d \in ToSet(buf[w]) => rows'[d] > 0 \/ d \in gone'
        BY <1>3, <2>1
    <2> QED BY <1>1, <2>1, <2>2, EmptyStep
<1> QED BY <1>4, <1>5

\* The ingest starts with no delivery anywhere.
LEMMA PlaceInit ==
    ASSUME Init, IngestTypes PROVE PlaceInv
<1>1. ToSet(<< >>) = {} /\ Distinct(<< >>)
    BY DEF ToSet, Distinct
<1>2. MaxAttempts \in Nat /\ None \notin Deliveries
    BY IngestAssumption
<1>3. OnePlace
    BY <1>1 DEF Init, OnePlace
<1>4. ASSUME NEW d \in Deliveries PROVE ~InProcess(d) /\ rows[d] = 0 /\ ~Taken(d)
    <2>1. TypeOK
        BY DEF IngestTypes
    <2>2. ~InProcess(d)
        BY <1>1, <1>2, <2>1, InProcessIs DEF Init
    <2>3. rows[d] = 0
        BY DEF Init
    <2>4. d[1] \in Msgs /\ d[2] \in 1 .. MaxDeliver
        BY DEF Deliveries
    <2>5. MaxDeliver \in Nat /\ tries[d[1]] = 0
        BY <2>4, IngestAssumption DEF Init
    <2>6. ~Taken(d)
        BY <2>4, <2>5 DEF Taken
    <2> QED BY <2>2, <2>3, <2>6
<1>5. TakenInv /\ NothingVanishes
    BY <1>4 DEF TakenInv, NothingVanishes, Taken
<1>6. RowsInv
    BY <1>1, <1>2, <1>4 DEF RowsInv, RowsPerDelivery, Init
<1> QED BY <1>3, <1>5, <1>6 DEF PlaceInv

\* Every step of the broker, the goroutines and main keeps account of the deliveries.
LEMMA PlaceStep ==
    ASSUME IngestTypes, IngestTypes', PlaceInv, [Next]_vars
    PROVE  PlaceInv'
<1>0. \A w \in W : attempt[w] \in Nat
    BY DEF IngestTypes, TypeOK
<1>1. CASE UNCHANGED <<tries, hand, ch, item, buf, attempt, rows, gone>>
    BY <1>0, <1>1, IdleStep
<1>2. ASSUME NEW m \in Msgs, Publish(m) PROVE PlaceInv'
    BY <1>1, <1>2 DEF Publish, writer
<1>3. CASE Reader
    BY <1>1, <1>3, TakesStep, HandOverStep, CancelStep DEF Reader, ReaderTop, ReaderFails, writer
<1>4. ASSUME NEW w \in W, WorkerTakes(w) \/ Add(w) \/ Tick(w) \/ Flush(w) \/ CloseWriter(w)
      PROVE  PlaceInv'
    <2>1. CASE Tick(w) \/ CloseWriter(w) \/ Reconnect(w)
        BY <1>1, <2>1 DEF Tick, CloseWriter, Reconnect, source
    <2>2. CASE ReconnectFails(w)
        <3>1. attempt' = [attempt EXCEPT ![w] = attempt[w] + 1]
              /\ UNCHANGED <<tries, hand, ch, item, buf, rows, gone>>
            BY <2>2 DEF ReconnectFails, source
        <3>2. \A v \in W : attempt'[v] = attempt[v] \/ attempt'[v] = attempt[v] + 1
            BY <3>1 DEF IngestTypes, TypeOK
        <3>3. \A v \in W : attempt[v] <= attempt'[v]
            BY <1>0, <3>2
        <3> QED BY <3>1, <3>3, IdleStep
    <2> QED BY <1>4, <2>1, <2>2, WorkerTakesStep, AddStep, FailsStep, FlushEndStep DEF Flush
<1>5. CASE Shutdown \/ Exit
    BY <1>1, <1>5 DEF Shutdown, Exit, source, writer
<1>6. CASE UNCHANGED vars
    BY <1>1, <1>6 DEF vars
<1> QED BY <1>2, <1>3, <1>4, <1>5, <1>6 DEF Next

\* For every number of workers, batch size, channel capacity and bound on
\* deliveries and attempts: each delivery the process took is in its hands, in the
\* database or given up where the code says so, and makes no more rows than a
\* flush has attempts (main.go's Subscribe loop, Add, flush and Close).
THEOREM DeliveriesAccounted == Spec => []IngestInv
<1>1. Init => IngestTypes /\ PlaceInv
    BY IngestTypesInit, PlaceInit
<1>2. IngestTypes /\ PlaceInv /\ [Next]_vars => (IngestTypes /\ PlaceInv)'
    <2> SUFFICES ASSUME IngestTypes, PlaceInv, [Next]_vars PROVE (IngestTypes /\ PlaceInv)'
        OBVIOUS
    <2>1. IngestTypes'
        BY IngestTypesStep
    <2> QED BY <2>1, PlaceStep
<1>3. IngestTypes /\ PlaceInv => IngestInv
    BY DEF IngestTypes, PlaceInv, RowsInv, IngestInv
<1> QED BY <1>1, <1>2, <1>3, PTL DEF Spec
=============================================================================
