----------------------------- MODULE LiveStores -----------------------------
(***************************************************************************)
(* The two zustand stores that live frames end in:                         *)
(* server/dashboard/src/store/telemetryStore.ts, a ring per vehicle with a *)
(* generation counter that is raised at most once per animation frame, and *)
(* alertStore.ts, the newest alerts first.  `reset` and `clear` exist in   *)
(* the stores and no component calls them.                                 *)
(***************************************************************************)
EXTENDS CircularBuffer

CONSTANT MAX_ALERTS   \* alertStore.ts: 200

VARIABLES
    telemetry,   \* telemetryStore: [generation, buffers, dirty, rafScheduled]
    alerts,      \* alertStore.alerts, newest first
    arrived      \* history: every telemetry frame pushed, by vehicle

StoresInit ==
    /\ telemetry = [generation |-> 0, buffers |-> [v \in {} |-> NewBuffer],
                    dirty |-> FALSE, rafScheduled |-> FALSE]
    /\ alerts = <<>>
    /\ arrived = [v \in {} |-> <<>>]

HasBuffer(v) == v \in DOMAIN telemetry.buffers

\* getBuffer(v)?.snapshot(), as a set of frames.
Buffered(v) ==
    IF HasBuffer(v)
    THEN {Snapshot(telemetry.buffers[v])[i] : i \in 1 .. telemetry.buffers[v].count}
    ELSE {}

Recorded(v, frame) ==
    [u \in {v} \cup DOMAIN arrived |->
        IF u # v THEN arrived[u]
        ELSE Append(IF v \in DOMAIN arrived THEN arrived[v] ELSE <<>>, frame)]

\* Mutant: a frame that finds no flush scheduled waits for the next one.
TelemetryPush_NoFlush(v, frame) ==
    LET buf == IF HasBuffer(v) THEN telemetry.buffers[v] ELSE NewBuffer
    IN  /\ telemetry' = [telemetry EXCEPT
                !.buffers = [u \in {v} \cup DOMAIN @ |->
                                IF u = v THEN BufferPush(buf, frame) ELSE @[u]],
                !.dirty = TRUE,
                !.rafScheduled = @ \/ HasBuffer(v)]
        /\ arrived' = Recorded(v, frame)

\* useTelemetryStore.push with scheduleFlush: the frame goes into its
\* vehicle's ring now, and is announced at the next animation frame.
TelemetryPush(v, frame) ==
    LET buf == IF HasBuffer(v) THEN telemetry.buffers[v] ELSE NewBuffer
    IN  /\ telemetry' = [telemetry EXCEPT
                !.buffers = [u \in {v} \cup DOMAIN @ |->
                                IF u = v THEN BufferPush(buf, frame) ELSE @[u]],
                !.dirty = TRUE,
                !.rafScheduled = TRUE]
        /\ arrived' = Recorded(v, frame)

\* The callback scheduleFlush hands to requestAnimationFrame.
Flush ==
    /\ telemetry.rafScheduled
    /\ telemetry' = [telemetry EXCEPT
            !.rafScheduled = FALSE,
            !.dirty = FALSE,
            !.generation = IF telemetry.dirty THEN @ + 1 ELSE @]
    /\ UNCHANGED <<alerts, arrived>>

\* useAlertStore.push.
AlertPush(alert) ==
    LET all == <<alert>> \o alerts
    IN  alerts' = SubSeq(all, 1, IF Len(all) < MAX_ALERTS THEN Len(all) ELSE MAX_ALERTS)

\* The ring of every vehicle holds exactly the newest frames pushed for it,
\* oldest first, however often it has wrapped (CircularBuffer.snapshot).
RingKeepsNewest ==
    \A v \in DOMAIN telemetry.buffers :
        Snapshot(telemetry.buffers[v]) = LastOf(arrived[v])
=============================================================================
