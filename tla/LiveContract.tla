---------------------------- MODULE LiveContract ----------------------------
(***************************************************************************)
(* What WsManager promises the components that use it and the operator who *)
(* looks at the indicator, without sockets, timers or retries: there is a  *)
(* set of vehicles that is wanted; nothing is attempted while it is empty; *)
(* and "connected" is shown only while there is a connection whose         *)
(* subscription is exactly the set that is wanted now.                     *)
(***************************************************************************)
CONSTANT Vehicles

VARIABLES
    want,   \* the vehicles that are wanted
    shown,  \* what the indicator says
    fed     \* the subscription of the connection in use, {} without one

cvars == <<want, shown, fed>>

CInit == want = {} /\ shown = "disconnected" /\ fed = {}

\* Any change of what is wanted starts over.
Want(S) ==
    /\ want' = S
    /\ shown' = IF S = {} THEN "disconnected" ELSE "connecting"
    /\ fed' = {}

Establish ==
    /\ shown = "connecting"
    /\ shown' = "connected"
    /\ fed' = want
    /\ UNCHANGED want

Lose ==
    /\ shown = "connected"
    /\ shown' = "connecting"
    /\ fed' = {}
    /\ UNCHANGED want

CNext == (\E S \in SUBSET Vehicles : Want(S)) \/ Establish \/ Lose

CSpec == CInit /\ [][CNext]_cvars
=============================================================================
