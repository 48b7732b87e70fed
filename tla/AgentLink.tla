----------------------------- MODULE AgentLink -----------------------------
(***************************************************************************)
(* The telemetry side of the edge agent process: the sequencer (agent-core *)
(* main.rs), the ring between it and the transport, the QUIC transport     *)
(* loop with its reconnection and backoff (quic-transport lib.rs), the     *)
(* flag healthz reads, and the handler relay-core runs for each link       *)
(* (session.rs).  The process may be restarted at any time.                *)
(*                                                                         *)
(* The ring is what RingContract says and TelemetryRing is shown to        *)
(* implement: exact until the producer writes into a full one, and from    *)
(* then on a source of whatever it may hold (Mixed: a newer item, one      *)
(* returned before, or bytes of two).  An item is a pair of the process's  *)
(* run and the sequence number it was given.  A stream takes Window frames *)
(* that nobody reads and then blocks the writer; what it carries can still *)
(* be read when the agent is off on another link.                          *)
(***************************************************************************)
EXTENDS Integers, Sequences

CONSTANTS
    Slots,           \* capacity of the ring
    Window,          \* frames stream 0 takes unread
    InitialBackoff,  \* config.initial_backoff_ms
    MaxBackoff,      \* config.max_backoff_ms
    Mixed,           \* what a pop returns after an overrun
    MaxItems,        \* bound: items per run of the process
    MaxPops,         \* bound: pops per run of the process
    MaxLinks,        \* bound: links in a behaviour
    MaxRuns          \* bound: runs of the process

ASSUME LinkAssumption ==
    /\ {Slots, Window, MaxRuns} \subseteq Nat \ {0}
    /\ InitialBackoff \in Nat /\ MaxBackoff \in Nat
    /\ InitialBackoff <= MaxBackoff
    /\ {MaxItems, MaxPops, MaxLinks} \subseteq Nat /\ MaxItems <= MaxPops
    /\ Mixed \notin Int

VARIABLES
    run,        \* which run of the process this is
    seq,        \* seq_counter: items pushed in this run
    taken,      \* items popped in this run
    overrun,    \* has the producer written into a full ring in this run?
    phase,      \* where run_transport_loop is
    backoff,    \* backoff_ms
    connected,  \* relay_connected
    link,       \* the agent's latest link, 0 before the first
    frame,      \* the item popped and not yet written, at most one
    handler,    \* the relay's handler of each link
    sent,       \* what was written to stream 0 of each link
    read        \* how much of it the handler has read and published

agentVars == <<run, seq, taken, overrun, phase, backoff, connected>>
linkVars  == <<link, frame, handler, sent, read>>
vars == <<agentVars, linkVars>>

Links == 1..MaxLinks

Items == (1..MaxRuns) \X ((0..MaxPops) \cup {Mixed})

Init ==
    /\ run = 1 /\ seq = 0 /\ taken = 0 /\ overrun = FALSE
    /\ phase = "connecting" /\ backoff = InitialBackoff /\ connected = FALSE
    /\ link = 0 /\ frame = << >>
    /\ handler = [l \in Links |-> "none"]
    /\ sent = [l \in Links |-> << >>]
    /\ read = [l \in Links |-> 0]
-----------------------------------------------------------------------------
(* The sequencer and the transport                                         *)

\* The sequencer numbers an envelope and pushes it; a full ring gives up its
\* oldest item while the transport may be about to take it.
Produce ==
    /\ seq < MaxItems
    /\ seq' = seq + 1
    /\ overrun' = (overrun \/ seq - taken >= Slots)
    /\ UNCHANGED <<run, taken, phase, backoff, connected, linkVars>>

\* connect_and_run connects and opens its streams; the relay starts a handler.
ConnectOk ==
    /\ phase = "connecting"
    /\ link < MaxLinks
    /\ link' = link + 1
    /\ handler' = [handler EXCEPT ![link + 1] = "waiting"]
    /\ phase' = "up"
    /\ UNCHANGED <<run, seq, taken, overrun, backoff, connected, frame, sent, read>>

ConnectFails ==
    /\ phase = "connecting"
    /\ connected' = FALSE
    /\ phase' = "backoff"
    /\ UNCHANGED <<run, seq, taken, overrun, backoff, linkVars>>

\* What pop returns next.
NextItem == <<run, IF overrun THEN Mixed ELSE taken>>

\* Mutant: the send loop waits for a full batch.
Pop_Batches ==
    /\ phase = "up" /\ frame = << >>
    /\ IF overrun THEN taken < MaxPops ELSE seq - taken = Slots
    /\ frame' = <<NextItem>>
    /\ taken' = taken + 1
    /\ UNCHANGED <<run, seq, overrun, phase, backoff, connected, link, handler, sent, read>>

\* send_telemetry_loop takes an item ...
Pop ==
    /\ phase = "up" /\ frame = << >>
    /\ IF overrun THEN taken < MaxPops ELSE taken < seq
    /\ frame' = <<NextItem>>
    /\ taken' = taken + 1
    /\ UNCHANGED <<run, seq, overrun, phase, backoff, connected, link, handler, sent, read>>

\* ... and writes it to stream 0, when there is room.
WriteFrame ==
    /\ phase = "up" /\ frame # << >>
    /\ Len(sent[link]) - read[link] < Window
    /\ sent' = [sent EXCEPT ![link] = Append(@, Head(frame))]
    /\ frame' = << >>
    /\ UNCHANGED <<agentVars, link, handler, read>>

\* Mutant: what the relay has not read is taken from the ring once more.
ConnectionLost_Rewinds ==
    /\ phase = "up"
    /\ connected' = FALSE
    /\ phase' = "backoff"
    /\ taken' = taken - Len(frame) - (Len(sent[link]) - read[link])
    /\ frame' = << >>
    /\ UNCHANGED <<run, seq, overrun, backoff, link, handler, sent, read>>

\* One of the stream tasks fails: try_join drops the others, and what was popped
\* and not written is lost.  The relay may not know yet.
ConnectionLost ==
    /\ phase = "up"
    /\ connected' = FALSE
    /\ phase' = "backoff"
    /\ frame' = << >>
    /\ UNCHANGED <<run, seq, taken, overrun, backoff, link, handler, sent, read>>

\* The sleep ends and the next delay is twice as long, up to the cap.
BackoffElapses ==
    /\ phase = "backoff"
    /\ backoff' = IF 2 * backoff < MaxBackoff THEN 2 * backoff ELSE MaxBackoff
    /\ phase' = "connecting"
    /\ UNCHANGED <<run, seq, taken, overrun, connected, linkVars>>

\* Crash, power loss or upgrade.  open() empties the ring, whatever the file
\* holds, and the counter starts at 0.
Restart ==
    /\ run < MaxRuns
    /\ run' = run + 1
    /\ seq' = 0 /\ taken' = 0 /\ overrun' = FALSE
    /\ phase' = "connecting" /\ backoff' = InitialBackoff /\ connected' = FALSE
    /\ frame' = << >>
    /\ UNCHANGED <<link, handler, sent, read>>
-----------------------------------------------------------------------------
(* The relay's handler of a link                                           *)

\* It has its streams (the agent opens fewer than it waits for: RelaySession).
Serve(l) ==
    /\ handler[l] = "waiting"
    /\ handler' = [handler EXCEPT ![l] = "serving"]
    /\ UNCHANGED <<agentVars, link, frame, sent, read>>

\* It reads a frame and publishes it, also one that was buffered when the
\* connection went down, and while the agent has another link.
RelayReads(l) ==
    /\ handler[l] = "serving"
    /\ read[l] < Len(sent[l])
    /\ read' = [read EXCEPT ![l] = @ + 1]
    /\ UNCHANGED <<agentVars, link, frame, handler, sent>>

\* It ends, on an error of the link or of NATS.  What it has not read is lost,
\* and what the agent still writes before it knows.
HandlerEnds(l) ==
    /\ handler[l] \in {"waiting", "serving"}
    /\ handler' = [handler EXCEPT ![l] = "ended"]
    /\ UNCHANGED <<agentVars, link, frame, sent, read>>
-----------------------------------------------------------------------------
Transport == ConnectOk \/ ConnectFails \/ Pop \/ WriteFrame \/ ConnectionLost \/ BackoffElapses

Relay(l) == Serve(l) \/ RelayReads(l) \/ HandlerEnds(l)

Next == Produce \/ Transport \/ Restart \/ \E l \in Links : Relay(l)

Spec == Init /\ [][Next]_vars

\* A connection attempt ends, the send loop takes what the ring is sure to have
\* and writes it when there is room, and a handler that has its streams reads.
Fairness ==
    /\ WF_vars(ConnectOk \/ ConnectFails)
    /\ WF_vars(~overrun /\ Pop)
    /\ WF_vars(WriteFrame)
    /\ \A l \in Links : WF_vars(RelayReads(l))

FairSpec == Spec /\ Fairness
-----------------------------------------------------------------------------
TypeOK ==
    /\ run \in 1..MaxRuns
    /\ seq \in 0..MaxItems /\ taken \in 0..MaxPops /\ overrun \in BOOLEAN
    /\ phase \in {"connecting", "up", "backoff"}
    /\ backoff \in InitialBackoff..MaxBackoff
    /\ connected \in BOOLEAN
    /\ link \in 0..MaxLinks
    /\ frame \in Seq(Items) /\ Len(frame) <= 1
    /\ handler \in [Links -> {"none", "waiting", "serving", "ended"}]
    /\ sent \in [Links -> Seq(Items)]
    /\ read \in [Links -> Nat] /\ \A l \in Links : read[l] <= Len(sent[l])

\* a was captured before b, as far as the ring still knows.
Before(a, b) ==
    \/ a[1] < b[1]
    \/ a[1] = b[1] /\ (b[2] = Mixed \/ (a[2] # Mixed /\ a[2] < b[2]))

\* b is the item after a.
Follows(a, b) ==
    a[1] = b[1] /\ (b[2] = Mixed \/ (a[2] # Mixed /\ b[2] = a[2] + 1))

\* Whatever reconnections and restarts there are, the relay publishes no item
\* twice, and one link's items in the order of their capture and before those
\* of the next link, until the ring overruns: then until the next restart
\* nothing is known of them.
InOrderAtMostOnce ==
    \A l, m \in Links : \A i \in 1..read[l], j \in 1..read[m] :
        l < m \/ (l = m /\ i < j) => Before(sent[l][i], sent[m][j])

\* What a link carries has no gap.
NoGapOnLink ==
    \A l \in Links : \A i \in 1..Len(sent[l]) - 1 : Follows(sent[l][i], sent[l][i + 1])

LastOf(l) == sent[l][Len(sent[l])]

\* Between a link and the next one that carried something only the items popped
\* and not yet written are missing, one for each link that was lost.
OneLostPerLink ==
    \A l, m \in Links :
        l < m /\ sent[l] # << >> /\ sent[m] # << >> /\ (\A k \in l + 1..m - 1 : sent[k] = << >>)
            => LET a == LastOf(l)  b == Head(sent[m]) IN
               a[1] = b[1] /\ b[2] # Mixed => b[2] <= a[2] + 1 + (m - l)

\* The agent's buffer and link at any moment (ring-buffer's push and pop,
\* quic-transport's run loop, the relay's handlers).
LinkInv == TypeOK /\ InOrderAtMostOnce /\ NoGapOnLink /\ OneLostPerLink

\* What the ring is sure to hold, and what is on its way to the relay.
Buffered == IF overrun THEN {} ELSE {run} \X (taken..seq - 1)

OnTheWay ==
    {frame[i] : i \in DOMAIN frame}
        \cup (IF phase = "up" THEN {sent[link][i] : i \in read[link] + 1..Len(sent[link])} ELSE {})

\* Connections have stopped failing and the handler has its streams.
Settled == phase # "backoff" /\ (phase = "up" => handler[link] = "serving")

\* Then no item stays in the ring or on the link: each is published or
\* overwritten, however long the outage and its backoff were (send_telemetry_loop,
\* the handler's read loop).
RingMovesOn ==
    <>[]Settled => \A x \in (1..MaxRuns) \X (0..MaxItems) :
                      x \in Buffered \cup OnTheWay ~> x \notin Buffered \cup OnTheWay

\* quic-transport: relay_connected is a "shared flag written true on connect,
\* false on disconnect", and healthz answers 200 "if the QUIC connection to the
\* relay is up": data flows only under a raised flag.
FlagFollowsLink == [][WriteFrame => connected]_vars

\* ring-buffer: the ring "survives process restart and power loss": what it
\* holds is there after any step, popped, or overwritten.
SurvivesRestart ==
    [][overrun' \/ \A x \in Buffered : x \in Buffered' \cup OnTheWay']_vars
=============================================================================
