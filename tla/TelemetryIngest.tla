-------------------------- MODULE TelemetryIngest --------------------------
(***************************************************************************)
(* telemetry-ingest (server/api/ingest/main.go): the durable subscription  *)
(* of shared/router that acknowledges a message and then hands it over,    *)
(* the workers that turn messages into ILP lines, each with a writer whose *)
(* mutex its worker, its ticker and the shutdown share, and the flush that *)
(* retries on a new connection and gives up at last.                       *)
(*                                                                         *)
(* A message may be delivered more than once, so what the process handles  *)
(* are deliveries: <<m, k>> is the k-th of message m, and the line made of *)
(* it.  holder[w] is who holds writer w's mutex in a flush; everything     *)
(* else done under it is one step.                                         *)
(***************************************************************************)
EXTENDS Integers, Sequences, SequencesExt, Functions

CONSTANTS
    Msgs,         \* messages of the telemetry stream
    Undecodable,  \* the ones decodeDataEnvelope refuses
    Workers,      \* INGEST_WORKERS, numbered from 1
    ChanCap,      \* 256: capacity of the channel Subscribe returns
    BatchSize,    \* BATCH_SIZE
    MaxAttempts,  \* 3: writes of a batch
    MaxDeliver,   \* 5: deliveries of a message
    None

Deliveries == Msgs \X (1..MaxDeliver)

ASSUME IngestAssumption ==
    /\ Undecodable \subseteq Msgs
    /\ None \notin Deliveries /\ None \notin {"worker", "ticker", "close"}
    /\ Workers \in Nat
    /\ {ChanCap, BatchSize, MaxAttempts, MaxDeliver} \subseteq Nat \ {0}

VARIABLES
    js,        \* state of each message in the durable consumer
    tries,     \* how often it was delivered
    reader,    \* where the goroutine of Subscribe is
    hand,      \* the delivery it holds
    ch,        \* the channel of Subscribe
    item,      \* per worker: the line it is about to add
    buf,       \* per writer: w.buf
    conn,      \* per writer: w.conn
    holder,    \* per writer: who is flushing
    attempt,   \* per writer: attempts used in this flush, 0 between flushes
    closed,    \* writers whose Close has been called
    stopping,  \* the context is cancelled
    exited,    \* main has returned
    rows,      \* how many rows of QuestDB stem from each delivery
    gone       \* history: deliveries given up, refused or lost at a known place

vars == <<js, tries, reader, hand, ch, item, buf, conn, holder, attempt, closed,
          stopping, exited, rows, gone>>
source == <<js, tries, reader, hand>>
writer == <<buf, conn, holder, attempt>>
process == <<closed, stopping, exited>>

W == 1..Workers

Init ==
    /\ js = [m \in Msgs |-> "none"] /\ tries = [m \in Msgs |-> 0]
    /\ reader = "top" /\ hand = None /\ ch = << >>
    /\ item = [w \in W |-> None]
    /\ buf = [w \in W |-> << >>]
    /\ conn = [w \in W |-> "up"]
    /\ holder = [w \in W |-> None] /\ attempt = [w \in W |-> 0]
    /\ closed = {} /\ stopping = FALSE /\ exited = FALSE
    /\ rows = [d \in Deliveries |-> 0]
    /\ gone = {}
-----------------------------------------------------------------------------
(* NATS (external) and the goroutine of Subscribe                          *)

Publish(m) ==
    /\ js[m] = "none"
    /\ js' = [js EXCEPT ![m] = "stored"]
    /\ UNCHANGED <<tries, reader, hand, ch, item, writer, process, rows, gone>>

\* The select at the top of the loop sees a cancelled context only here.
ReaderTop ==
    /\ ~exited /\ reader = "top"
    /\ reader' = IF stopping THEN "stopped" ELSE "next"
    /\ UNCHANGED <<js, tries, hand, ch, item, writer, process, rows, gone>>

\* iter.Next returns a message and Ack is sent without waiting for an answer; if
\* it gets lost, the message comes again.
ReaderTakes(m) ==
    /\ ~exited /\ reader = "next" /\ js[m] = "stored"
    /\ tries' = [tries EXCEPT ![m] = @ + 1]
    /\ \/ js' = [js EXCEPT ![m] = "acked"]
       \/ js' = [js EXCEPT ![m] = IF tries[m] + 1 < MaxDeliver THEN "stored" ELSE "dead"]
    /\ hand' = <<m, tries[m] + 1>>
    /\ reader' = "hand"
    /\ UNCHANGED <<ch, item, writer, process, rows, gone>>

\* iter.Next fails: the goroutine ends and closes the channel.
ReaderFails ==
    /\ ~exited /\ reader = "next"
    /\ reader' = "stopped"
    /\ UNCHANGED <<js, tries, hand, ch, item, writer, process, rows, gone>>

\* The message goes into the channel when there is room.
HandOver ==
    /\ ~exited /\ reader = "hand" /\ Len(ch) < ChanCap
    /\ ch' = Append(ch, hand)
    /\ hand' = None
    /\ reader' = "top"
    /\ UNCHANGED <<js, tries, item, writer, process, rows, gone>>

\* Mutant: a full channel does not hold the goroutine up.
HandOverCancelled_Drops ==
    /\ ~exited /\ reader = "hand"
    /\ hand' = None
    /\ reader' = "top"
    /\ UNCHANGED <<js, tries, ch, item, writer, process, rows, gone>>

\* A cancelled context ends the wait: the acknowledged message is lost.
HandOverCancelled ==
    /\ ~exited /\ reader = "hand" /\ stopping
    /\ gone' = gone \cup {hand}
    /\ hand' = None
    /\ reader' = "stopped"
    /\ UNCHANGED <<js, tries, ch, item, writer, process, rows>>
-----------------------------------------------------------------------------
(* processMessages and Add                                                 *)

\* The worker is between two messages.
WorkerFree(w) == item[w] = None /\ holder[w] # "worker"

\* A message that does not decode is counted and skipped.
WorkerTakes(w) ==
    LET d == Head(ch) IN
    /\ ~exited /\ WorkerFree(w) /\ ch # << >>
    /\ ch' = Tail(ch)
    /\ IF d[1] \in Undecodable
         THEN gone' = gone \cup {d} /\ UNCHANGED item
         ELSE item' = [item EXCEPT ![w] = d] /\ UNCHANGED gone
    /\ UNCHANGED <<source, writer, process, rows>>

\* The mutex is free: the line is buffered, and a full batch flushed under it.
Add(w) ==
    /\ ~exited /\ item[w] # None /\ holder[w] = None
    /\ buf' = [buf EXCEPT ![w] = Append(@, item[w])]
    /\ item' = [item EXCEPT ![w] = None]
    /\ holder' = [holder EXCEPT ![w] =
                    IF Len(buf[w]) + 1 >= BatchSize THEN "worker" ELSE None]
    /\ UNCHANGED <<source, ch, conn, attempt, process, rows, gone>>

\* Mutant: the ticker waits for a full batch.
Tick_FullOnly(w) ==
    /\ ~exited /\ w \notin closed /\ holder[w] = None /\ Len(buf[w]) >= BatchSize
    /\ holder' = [holder EXCEPT ![w] = "ticker"]
    /\ UNCHANGED <<source, ch, item, buf, conn, attempt, process, rows, gone>>

\* flushLoop
Tick(w) ==
    /\ ~exited /\ w \notin closed /\ holder[w] = None /\ buf[w] # << >>
    /\ holder' = [holder EXCEPT ![w] = "ticker"]
    /\ UNCHANGED <<source, ch, item, buf, conn, attempt, process, rows, gone>>
-----------------------------------------------------------------------------
(* flush                                                                   *)

Flushing(w) == ~exited /\ holder[w] # None /\ attempt[w] < MaxAttempts

\* The flush ends and the mutex is released; Close also closes the connection.
Released(w) ==
    /\ holder' = [holder EXCEPT ![w] = None]
    /\ attempt' = [attempt EXCEPT ![w] = 0]
    /\ conn' = IF holder[w] = "close" THEN [conn EXCEPT ![w] = "closed"] ELSE conn

Reconnect(w) ==
    /\ Flushing(w) /\ conn[w] = "nil"
    /\ conn' = [conn EXCEPT ![w] = "up"]
    /\ UNCHANGED <<source, ch, item, buf, holder, attempt, process, rows, gone>>

ReconnectFails(w) ==
    /\ Flushing(w) /\ conn[w] = "nil"
    /\ attempt' = [attempt EXCEPT ![w] = @ + 1]
    /\ UNCHANGED <<source, ch, item, buf, conn, holder, process, rows, gone>>

\* Rows of a batch of which the first n lines arrived.
Stored(s, n) ==
    [d \in Deliveries |-> rows[d] + Cardinality({i \in 1..n : s[i] = d})]

WriteOk(w) ==
    /\ Flushing(w) /\ conn[w] = "up"
    /\ rows' = Stored(buf[w], Len(buf[w]))
    /\ buf' = [buf EXCEPT ![w] = << >>]
    /\ Released(w)
    /\ UNCHANGED <<source, ch, item, process, gone>>

\* The write succeeds, into a connection whose other end is gone already.
WriteUnread(w) ==
    /\ Flushing(w) /\ conn[w] = "up"
    /\ gone' = gone \cup ToSet(buf[w])
    /\ buf' = [buf EXCEPT ![w] = << >>]
    /\ Released(w)
    /\ UNCHANGED <<source, ch, item, process, rows>>

\* The write fails when some of the lines have arrived; the next attempt writes
\* all of them again.
WriteFails(w) ==
    /\ Flushing(w) /\ conn[w] \in {"up", "closed"}
    /\ \E n \in 0..(IF conn[w] = "up" THEN Len(buf[w]) ELSE 0) : rows' = Stored(buf[w], n)
    /\ conn' = [conn EXCEPT ![w] = "nil"]
    /\ attempt' = [attempt EXCEPT ![w] = @ + 1]
    /\ UNCHANGED <<source, ch, item, buf, holder, process, gone>>

\* "ILP flush failed after retries, dropping batch"
GiveUp(w) ==
    /\ ~exited /\ holder[w] # None /\ attempt[w] = MaxAttempts
    /\ gone' = gone \cup ToSet(buf[w])
    /\ buf' = [buf EXCEPT ![w] = << >>]
    /\ Released(w)
    /\ UNCHANGED <<source, ch, item, process, rows>>
-----------------------------------------------------------------------------
(* main's end                                                              *)

Shutdown ==
    /\ ~stopping
    /\ stopping' = TRUE
    /\ UNCHANGED <<source, ch, item, writer, closed, exited, rows, gone>>

\* The deferred Close calls, last worker first; nobody waits for the workers.
CloseWriter(w) ==
    /\ stopping /\ ~exited /\ w \notin closed /\ holder[w] = None
    /\ \A v \in W : v > w => v \in closed /\ holder[v] # "close"
    /\ closed' = closed \cup {w}
    /\ IF buf[w] = << >>
         THEN conn' = [conn EXCEPT ![w] = "closed"] /\ UNCHANGED holder
         ELSE holder' = [holder EXCEPT ![w] = "close"] /\ UNCHANGED conn
    /\ UNCHANGED <<source, ch, item, buf, attempt, stopping, exited, rows, gone>>

\* main returns; what the process still holds is lost with it.
Exit ==
    /\ ~exited /\ closed = W /\ \A w \in W : holder[w] # "close"
    /\ stopping
    /\ exited' = TRUE
    /\ UNCHANGED <<source, ch, item, writer, closed, stopping, rows, gone>>
-----------------------------------------------------------------------------
Reader ==
    \/ ReaderTop \/ ReaderFails \/ HandOver \/ HandOverCancelled
    \/ \E m \in Msgs : ReaderTakes(m)

Flush(w) ==
    \/ Reconnect(w) \/ ReconnectFails(w)
    \/ WriteOk(w) \/ WriteUnread(w) \/ WriteFails(w) \/ GiveUp(w)

Next ==
    \/ \E m \in Msgs : Publish(m)
    \/ Reader
    \/ \E w \in W : WorkerTakes(w) \/ Add(w) \/ Tick(w) \/ Flush(w) \/ CloseWriter(w)
    \/ Shutdown \/ Exit

Spec == Init /\ [][Next]_vars

\* Goroutines run, dials and writes end (they have deadlines), the ticker ticks.
\* The mutex does not starve: it is handed to whoever waits for it.
Fairness ==
    /\ WF_vars(HandOver)
    /\ \A w \in W :
         /\ WF_vars(WorkerTakes(w)) /\ SF_vars(Add(w)) /\ SF_vars(Tick(w))
         /\ WF_vars(Flush(w))

FairSpec == Spec /\ Fairness
-----------------------------------------------------------------------------
TypeOK ==
    /\ js \in [Msgs -> {"none", "stored", "acked", "dead"}]
    /\ tries \in [Msgs -> 0..MaxDeliver]
    /\ reader \in {"top", "next", "hand", "stopped"}
    /\ hand \in Deliveries \cup {None} /\ (reader = "hand" <=> hand # None)
    /\ ch \in Seq(Deliveries) /\ Len(ch) <= ChanCap
    /\ item \in [W -> Deliveries \cup {None}]
    /\ buf \in [W -> Seq(Deliveries)] /\ \A w \in W : Len(buf[w]) <= BatchSize
    /\ conn \in [W -> {"up", "nil", "closed"}]
    /\ holder \in [W -> {"worker", "ticker", "close", None}]
    /\ attempt \in [W -> 0..MaxAttempts]
    /\ closed \subseteq W /\ stopping \in BOOLEAN /\ exited \in BOOLEAN
    /\ rows \in [Deliveries -> Nat]
    /\ gone \subseteq Deliveries

InProcess(d) ==
    \/ hand = d \/ Contains(ch, d)
    \/ \E w \in W : item[w] = d \/ Contains(buf[w], d)

\* The consumer is told "ack" before anything is stored, so the process is
\* answerable for every delivery: it is in the process's hands, in the database,
\* or was given up at one of the places where the code says so.
NothingVanishes ==
    \A d \in Deliveries : d[2] <= tries[d[1]] => InProcess(d) \/ rows[d] > 0 \/ d \in gone

\* A retry writes the whole batch again, so rows can repeat, but a delivery
\* never makes more rows than a flush has attempts.
RowsPerDelivery == \A d \in Deliveries : rows[d] <= MaxAttempts

\* The deliveries the process has taken, at any moment (the router's Subscribe,
\* ingest's workers, batch writer and shutdown).
IngestInv == TypeOK /\ NothingVanishes /\ RowsPerDelivery

\* A message the process took does not stay in it: a batch that never fills is
\* written all the same.
Held(m) == \E k \in 1..MaxDeliver : InProcess(<<m, k>>)
Drains ==
    \A m \in Msgs : (Held(m) /\ ~stopping) ~> (~Held(m) \/ stopping)
=============================================================================
