--------------------------- MODULE MCConsolePages ---------------------------
(***************************************************************************)
(* ConsolePages for TLC: two visits, so that handlers of the first page    *)
(* outlive it; three handlers, so that two writes and their reloads        *)
(* overlap; a project the operator may see, one of another device, and one *)
(* to create.                                                              *)
(***************************************************************************)
EXTENDS ConsolePages, TLC

CONSTANTS m1, m2, d1, d2, pa, pb, pc

MCDevicesOf == (pa :> {d1}) @@ (pb :> {d2}) @@ (pc :> {})
MCFirstClaims == {[admin |-> TRUE, vehicles |-> {}], [admin |-> FALSE, vehicles |-> {d1}]}
MCLaterClaims == {[admin |-> FALSE, vehicles |-> {d2}], [admin |-> TRUE, vehicles |-> {}]}
MCFirstAccess == m1 :> ""
=============================================================================
