---------------------------- MODULE TelemetryRing ----------------------------
(***************************************************************************)
(* The edge agent's telemetry ring (agent/ring-buffer/src/lib.rs): a       *)
(* memory-mapped file of NumSlots slots, one producer (push) and one       *)
(* consumer (pop), synchronised only by the atomics head and tail and by a *)
(* tokio Notify.  Every atomic access is a step of its own, and copying a  *)
(* payload into or out of a slot takes two steps, so that the two threads  *)
(* interleave as the code lets them.                                       *)
(*                                                                         *)
(* An item is named by the absolute index head had when it was pushed.  A  *)
(* slot holds the last item written to it completely; what a copy returns  *)
(* that overlaps a write to the same slot is chosen from the outcomes such *)
(* a race can have.                                                        *)
(***************************************************************************)
EXTENDS Integers, Sequences

CONSTANTS
    NumSlots,   \* slots of the ring (capacity_bytes / slot_size)
    MaxPush,    \* bound: items pushed in a behaviour
    MaxDrops    \* bound: times the link drops and comes back

ASSUME RingAssumption ==
    /\ NumSlots \in Nat \ {0}
    /\ MaxPush \in Nat
    /\ MaxDrops \in Nat

VARIABLES
    slots,      \* the mapped file: item last written to each slot
    head, tail, \* RingState.head, RingState.tail
    permit,     \* the permit stored in RingState.notify
    ppc,        \* where push is
    cpc,        \* where the consumer is
    ctail,      \* tail as pop loaded it
    chead,      \* head as on_reconnect loaded it
    cval,       \* the payload pop has copied
    inReplay,   \* RingBufferConsumer.in_replay
    drops,      \* link drops so far
    delivered,  \* history: what pop returned
    overrun     \* history: a push started while the ring was full

pvars == <<ppc>>
cvars == <<cpc, ctail, chead, cval, inReplay, drops, delivered>>
vars == <<slots, head, tail, permit, ppc, cpc, ctail, chead, cval, inReplay,
          drops, delivered, overrun>>

Empty == -1     \* a slot never written: its magic is not SLOT_MAGIC
Torn  == -2     \* bytes of two items

PPC == {"idle", "copying", "written", "advanced", "discard", "notify"}
CPC == {"idle", "load", "gottail", "empty", "waiting", "pacing", "read",
        "copy", "advance", "reconnect"}

IndexOf(n) == n % NumSlots

\* open(): indices start at 0 whatever the file holds.
Init ==
    /\ slots = [i \in 0..NumSlots-1 |-> Empty]
    /\ head = 0 /\ tail = 0 /\ permit = FALSE
    /\ ppc = "idle" /\ cpc = "idle"
    /\ ctail = 0 /\ chead = 0 /\ cval = Empty
    /\ inReplay = FALSE /\ drops = 0
    /\ delivered = << >> /\ overrun = FALSE
-----------------------------------------------------------------------------
(* push                                                                    *)

\* Load head and start writing header and payload into its slot.
PushStart ==
    /\ ppc = "idle"
    /\ head < MaxPush
    /\ ppc' = "copying"
    /\ overrun' = (overrun \/ head - tail >= NumSlots)
    /\ UNCHANGED <<slots, head, tail, permit, cvars>>

\* Mutant: every item goes to the slot after its own.
PushWritten_NextSlot ==
    /\ ppc = "copying"
    /\ slots' = [slots EXCEPT ![IndexOf(head + 1)] = head]
    /\ ppc' = "written"
    /\ UNCHANGED <<head, tail, permit, cvars, overrun>>

PushWritten ==
    /\ ppc = "copying"
    /\ slots' = [slots EXCEPT ![IndexOf(head)] = head]
    /\ ppc' = "written"
    /\ UNCHANGED <<head, tail, permit, cvars, overrun>>

PushAdvanceHead ==
    /\ ppc = "written"
    /\ head' = head + 1
    /\ ppc' = "advanced"
    /\ UNCHANGED <<slots, tail, permit, cvars, overrun>>

\* Mutant: the ring is taken for full one slot late.
Lapped_OffByOne == head > tail + NumSlots + 1

\* Mutant: the ring is taken for full one slot early.
Lapped_Early == head >= tail + NumSlots

\* head is the local head + 1 here, so this is the code's head + 1 > tail + num_slots.
Lapped == head > tail + NumSlots

PushLoadTail ==
    /\ ppc = "advanced"
    /\ ppc' = IF Lapped THEN "discard" ELSE "notify"
    /\ UNCHANGED <<slots, head, tail, permit, cvars, overrun>>

\* fetch_add on whatever tail is by now.
PushDiscard ==
    /\ ppc = "discard"
    /\ tail' = tail + 1
    /\ ppc' = "notify"
    /\ UNCHANGED <<slots, head, permit, cvars, overrun>>

\* Mutant: notify_waiters, which stores no permit.
PushNotify_Waiters ==
    /\ ppc = "notify"
    /\ permit' = (cpc = "waiting")
    /\ ppc' = "idle"
    /\ UNCHANGED <<slots, head, tail, cvars, overrun>>

\* notify_one wakes the waiting consumer or stores the one permit.
PushNotify ==
    /\ ppc = "notify"
    /\ permit' = TRUE
    /\ ppc' = "idle"
    /\ UNCHANGED <<slots, head, tail, cvars, overrun>>
-----------------------------------------------------------------------------
(* pop                                                                     *)

PopCall ==
    /\ cpc = "idle"
    /\ cpc' = "load"
    /\ UNCHANGED <<slots, head, tail, permit, pvars, ctail, chead, cval,
                   inReplay, drops, delivered, overrun>>

PopLoadTail ==
    /\ cpc = "load"
    /\ ctail' = tail
    /\ cpc' = "gottail"
    /\ UNCHANGED <<slots, head, tail, permit, pvars, chead, cval, inReplay,
                   drops, delivered, overrun>>

\* Load head and branch: empty ring, replay pacing, or straight to the slot.
PopLoadHead ==
    /\ cpc = "gottail"
    /\ IF ctail >= head
         THEN cpc' = "empty" /\ inReplay' = FALSE
         ELSE cpc' = (IF inReplay THEN "pacing" ELSE "read") /\ UNCHANGED inReplay
    /\ UNCHANGED <<slots, head, tail, permit, pvars, ctail, chead, cval, drops,
                   delivered, overrun>>

\* Only now does the consumer start to wait, whatever was pushed meanwhile.
PopWait ==
    /\ cpc = "empty"
    /\ cpc' = "waiting"
    /\ UNCHANGED <<slots, head, tail, permit, pvars, ctail, chead, cval,
                   inReplay, drops, delivered, overrun>>

\* notified().await returns: the permit is taken and the loop starts over.
PopNotified ==
    /\ cpc = "waiting"
    /\ permit
    /\ permit' = FALSE
    /\ cpc' = "load"
    /\ UNCHANGED <<slots, head, tail, pvars, ctail, chead, cval, inReplay,
                   drops, delivered, overrun>>

\* The replay sleep ends; ctail was loaded before it.
PopPaced ==
    /\ cpc = "pacing"
    /\ cpc' = "read"
    /\ UNCHANGED <<slots, head, tail, permit, pvars, ctail, chead, cval,
                   inReplay, drops, delivered, overrun>>

\* Start to copy the slot of the loaded tail.
PopCopyStart ==
    /\ cpc = "read"
    /\ cval' = slots[IndexOf(ctail)]
    /\ cpc' = "copy"
    /\ UNCHANGED <<slots, head, tail, permit, pvars, ctail, chead, inReplay,
                   drops, delivered, overrun>>

\* What a copy can hold that began when the slot held `before`.
Copied(before) ==
    LET now == slots[IndexOf(ctail)]
        racing == now # before \/ (ppc = "copying" /\ IndexOf(head) = IndexOf(ctail))
    IN  IF racing THEN {before, now, Torn} ELSE {before}

PopCopyEnd ==
    /\ cpc = "copy"
    /\ cval' \in Copied(cval)
    /\ cpc' = "advance"
    /\ UNCHANGED <<slots, head, tail, permit, pvars, ctail, chead, inReplay,
                   drops, delivered, overrun>>

\* fetch_add on tail; a payload is returned, a slot without magic is skipped.
PopAdvanceTail ==
    /\ cpc = "advance"
    /\ tail' = tail + 1
    /\ IF cval = Empty
         THEN cpc' = "load" /\ UNCHANGED delivered
         ELSE cpc' = "idle" /\ delivered' = Append(delivered, cval)
    /\ UNCHANGED <<slots, head, permit, pvars, ctail, chead, cval, inReplay,
                   drops, overrun>>

\* The link drops: the transport drops the pop future at one of its awaits, or
\* is between two pops, and reconnects: on_reconnect loads head ...
OnReconnectLoadHead ==
    /\ cpc \in {"idle", "waiting", "pacing"}
    /\ drops < MaxDrops
    /\ drops' = drops + 1
    /\ chead' = head
    /\ cpc' = "reconnect"
    /\ UNCHANGED <<slots, head, tail, permit, pvars, ctail, cval, inReplay,
                   delivered, overrun>>

\* ... then tail, and starts a replay if anything is buffered.
OnReconnectLoadTail ==
    /\ cpc = "reconnect"
    /\ inReplay' = (inReplay \/ chead > tail)
    /\ cpc' = "idle"
    /\ UNCHANGED <<slots, head, tail, permit, pvars, ctail, chead, cval, drops,
                   delivered, overrun>>
-----------------------------------------------------------------------------
Push == PushStart \/ PushWritten \/ PushAdvanceHead \/ PushLoadTail
        \/ PushDiscard \/ PushNotify

Pop == PopCall \/ PopLoadTail \/ PopLoadHead \/ PopWait \/ PopNotified
       \/ PopPaced \/ PopCopyStart \/ PopCopyEnd \/ PopAdvanceTail

OnReconnect == OnReconnectLoadHead \/ OnReconnectLoadTail

Next == Push \/ Pop \/ OnReconnect

Spec == Init /\ [][Next]_vars

\* A push that has started runs to its end, and the connected transport keeps
\* calling pop; nothing obliges the sequencer to push or the link to drop.
Fairness ==
    /\ WF_vars(Push /\ ppc # "idle")
    /\ WF_vars(Pop)
    /\ WF_vars(OnReconnectLoadTail)

FairSpec == Spec /\ Fairness
-----------------------------------------------------------------------------
TypeOK ==
    /\ slots \in [0..NumSlots-1 -> Nat \cup {Empty}]
    /\ head \in Nat /\ tail \in Nat
    /\ permit \in BOOLEAN
    /\ ppc \in PPC /\ cpc \in CPC
    /\ ctail \in Nat /\ chead \in Nat
    /\ cval \in Nat \cup {Empty, Torn}
    /\ inReplay \in BOOLEAN
    /\ drops \in Nat
    /\ delivered \in Seq(Nat \cup {Torn})
    /\ overrun \in BOOLEAN

\* The producer's check of tail and its fetch_add are two steps, and so are the
\* consumer's.  However they interleave, tail never gets further than one past
\* head, where at most one item is skipped.
TailBound == tail <= head + 1

\* push discards in time: no more than NumSlots items are ever unread, one
\* more only between the head and the tail update of the same push.
LagBound ==
    head - tail <= NumSlots + (IF ppc \in {"advanced", "discard"} THEN 1 ELSE 0)

\* pop uses the tail it loaded before its awaits, when the producer may have
\* gone round the ring.  It then returns a newer item of the same slot or a
\* torn one, never an older item and never an unwritten slot: the invalid-magic
\* branch of pop is dead.
ReadsOwnSlot ==
    cpc = "advance" =>
        \/ cval = Torn
        \/ /\ ctail <= cval /\ cval <= head
           /\ IndexOf(cval) = IndexOf(ctail)

\* The ring keeps its contract: exactly once and in order until a push finds
\* the ring full, lossy after that.
Contract == INSTANCE RingContract WITH accepted <- head

ImplementsContract == Contract!CSpec

\* No wake-up is lost between pop's emptiness check and its await: whatever was
\* pushed, the consumer ends up having caught up.
Drains == <>[](tail >= head)
=============================================================================
