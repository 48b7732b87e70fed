---------------------------- MODULE RingContract ----------------------------
(***************************************************************************)
(* What the edge agent's ring buffer promises its two users, the sequencer *)
(* that pushes telemetry and the QUIC transport that pops it.              *)
(*                                                                         *)
(* Items are numbered in the order they were pushed.  Until the producer   *)
(* writes into a full ring, the consumer gets every item once and in       *)
(* order.  From then on the ring is lossy: a pop may return any item       *)
(* accepted so far (or about to be), or a payload mixed from two items.    *)
(***************************************************************************)
EXTENDS Integers, Sequences

CONSTANT Torn    \* a payload whose bytes come from two items

VARIABLES
    accepted,    \* number of items pushed
    delivered,   \* what the pops returned, in order
    overrun      \* has the producer ever written into a full ring?

cvars == <<accepted, delivered, overrun>>

CInit == accepted = 0 /\ delivered = << >> /\ overrun = FALSE

Accept ==
    /\ accepted' = accepted + 1
    /\ UNCHANGED <<delivered, overrun>>

Overrun ==
    /\ overrun' = TRUE
    /\ UNCHANGED <<accepted, delivered>>

DeliverInOrder ==
    /\ ~overrun
    /\ Len(delivered) < accepted
    /\ delivered' = Append(delivered, Len(delivered))
    /\ UNCHANGED <<accepted, overrun>>

DeliverLossy ==
    /\ overrun
    /\ \E v \in (0..accepted) \cup {Torn} : delivered' = Append(delivered, v)
    /\ UNCHANGED <<accepted, overrun>>

CNext == Accept \/ Overrun \/ DeliverInOrder \/ DeliverLossy

CSpec == CInit /\ [][CNext]_cvars
=============================================================================
