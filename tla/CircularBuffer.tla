--------------------------- MODULE CircularBuffer ---------------------------
(***************************************************************************)
(* The dashboard's ring of recent frames                                   *)
(* (server/dashboard/src/ws/CircularBuffer.ts).  An object of the class is *)
(* a record; a method is an operator on it.                                *)
(***************************************************************************)
EXTENDS Naturals, Sequences

CONSTANTS
    CAPACITY,    \* telemetryStore.ts: 1000 frames
    Undefined    \* a slot nothing was written to

ASSUME CapacityAssumption == CAPACITY \in Nat \ {0}

NewBuffer ==
    [buf |-> [i \in 0 .. CAPACITY - 1 |-> Undefined], head |-> 0, count |-> 0]

BufferPush(b, item) ==
    [buf   |-> [b.buf EXCEPT ![b.head] = item],
     head  |-> (b.head + 1) % CAPACITY,
     count |-> IF b.count < CAPACITY THEN b.count + 1 ELSE b.count]

\* Mutant: reads from slot 0 even when the ring has wrapped.
Snapshot_FromZero(b) == [i \in 1 .. b.count |-> b.buf[(i - 1) % CAPACITY]]

\* snapshot(): oldest first.
Snapshot(b) ==
    LET start == IF b.count < CAPACITY THEN 0 ELSE b.head
    IN  [i \in 1 .. b.count |-> b.buf[(start + i - 1) % CAPACITY]]

\* What a snapshot should be: the last CAPACITY of everything pushed so far.
LastOf(history) ==
    LET n == IF Len(history) < CAPACITY THEN Len(history) ELSE CAPACITY
    IN  SubSeq(history, Len(history) - n + 1, Len(history))
=============================================================================
