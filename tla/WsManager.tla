----------------------------- MODULE WsManager -----------------------------
(***************************************************************************)
(* The dashboard's one WebSocket to ws-gateway                             *)
(* (server/dashboard/src/ws/WsManager.ts) and the indicator that listens   *)
(* to it (components/TopBar/TopBar.tsx).  The singleton is the record w; a *)
(* method is an operator from record to record, so that a caller can make  *)
(* several calls in one step, as one JavaScript task does.                 *)
(*                                                                         *)
(* Of the sockets, w.ws is the state of the one this.ws names.  A socket   *)
(* the manager closed delivers no more events (its onclose is removed, and *)
(* a browser drops the messages of a closing socket), so it is forgotten.  *)
(* w.orphans counts sockets that are live and that this.ws no longer       *)
(* names; OneSocket shows there are none, which is why the events of an    *)
(* orphan, and a second pending timer, need no action.                     *)
(* Delays are in units of the first one.  The token in the URL is read     *)
(* from the auth store at every open; ws-gateway does not look at it.      *)
(***************************************************************************)
EXTENDS Naturals

CONSTANTS
    Vehicles,
    FirstDelay,   \* 1000 ms
    DelayCap      \* 30 000 ms

ASSUME DelayAssumption ==
    /\ FirstDelay \in Nat \ {0}
    /\ DelayCap \in Nat
    /\ FirstDelay <= DelayCap

VARIABLE w

Live == {"connecting", "open", "closing"}
SocketStates == {"null", "closed"} \cup Live
WsStatus == {"disconnected", "connecting", "connected"}

NewManager ==
    [ws            |-> "null",
     told          |-> {},              \* vehicle_ids sent over this.ws
     subscribedIds |-> {},
     retryDelay    |-> FirstDelay,
     retryTimer    |-> FALSE,           \* a retry is pending
     destroyed     |-> FALSE,
     status        |-> "disconnected",
     led           |-> "disconnected",  \* WsIndicator, a status listener
     orphans       |-> 0]

\* _setStatus: the listeners hear of changes only.
setStatus(m, s) ==
    IF m.status = s THEN m ELSE [m EXCEPT !.status = s, !.led = s]

\* Mutant: the pending retry is left to fire.
teardown_KeepsTimer(m) ==
    setStatus([m EXCEPT !.destroyed = TRUE,
                        !.retryDelay = FirstDelay,
                        !.ws = "null",
                        !.told = {}],
              "disconnected")

teardown(m) ==
    setStatus([m EXCEPT !.destroyed = TRUE,
                        !.retryDelay = FirstDelay,
                        !.retryTimer = FALSE,
                        !.ws = "null",
                        !.told = {}],
              "disconnected")

\* _open: this.ws is overwritten whatever it was.
open(m) ==
    IF m.destroyed \/ m.subscribedIds = {}
    THEN m
    ELSE [setStatus(m, "connecting") EXCEPT
            !.orphans = IF m.ws \in Live THEN @ + 1 ELSE @,
            !.ws = "connecting",
            !.told = {}]

\* _reconnect: drop the retry and the socket, then open a new one.
reconnect(m) ==
    open([m EXCEPT !.retryTimer = FALSE,
                   !.ws = IF @ \in Live THEN "null" ELSE @,
                   !.told = {}])

subscribe(m, v) ==
    IF v \in m.subscribedIds THEN m
    ELSE reconnect([m EXCEPT !.subscribedIds = @ \cup {v}, !.destroyed = FALSE])

\* Mutant: the last vehicle is removed like any other.
unsubscribe_NoTeardown(m, v) ==
    IF v \notin m.subscribedIds THEN m
    ELSE reconnect([m EXCEPT !.subscribedIds = @ \ {v}])

unsubscribe(m, v) ==
    IF v \notin m.subscribedIds THEN m
    ELSE LET n == [m EXCEPT !.subscribedIds = @ \ {v}]
         IN  IF n.subscribedIds = {} THEN teardown(n) ELSE reconnect(n)

scheduleReconnect(m) ==
    IF m.destroyed \/ m.subscribedIds = {} THEN m
    ELSE [setStatus(m, "connecting") EXCEPT !.retryTimer = TRUE]

\* ws.onopen: the set as it is now goes to the gateway.
onopen(m) ==
    [setStatus(m, "connected") EXCEPT
        !.retryDelay = FirstDelay,
        !.ws = "open",
        !.told = m.subscribedIds]

\* Mutant: a connection that was refused is not tried again.
onclose_OnlyIfOpened(m) ==
    IF m.ws = "connecting"
    THEN setStatus([m EXCEPT !.ws = "closed", !.told = {}], "disconnected")
    ELSE scheduleReconnect(setStatus([m EXCEPT !.ws = "closed", !.told = {}], "disconnected"))

onclose(m) ==
    scheduleReconnect(setStatus([m EXCEPT !.ws = "closed", !.told = {}],
                                "disconnected"))

\* The callback of retryTimer.
retry(m) ==
    LET twice == 2 * m.retryDelay
    IN  open([m EXCEPT !.retryTimer = FALSE,
                       !.retryDelay = IF twice < DelayCap THEN twice ELSE DelayCap])
-----------------------------------------------------------------------------
WsInit == w = NewManager

\* A component calls the manager.
Subscribe(v) == w' = subscribe(w, v)
Unsubscribe(v) == w' = unsubscribe(w, v)

\* The gateway accepts the connection.
SocketOpens ==
    /\ w.ws = "connecting"
    /\ w' = onopen(w)

\* The gateway starts the closing handshake: no handler runs yet.
GatewayCloses ==
    /\ w.ws = "open"
    /\ w' = [w EXCEPT !.ws = "closing"]

\* The connection is refused, lost or fully closed: the close event.
SocketCloses ==
    /\ w.ws \in Live
    /\ w' = onclose(w)

RetryFires ==
    /\ w.retryTimer
    /\ w' = retry(w)

WsNext ==
    \/ \E v \in Vehicles : Subscribe(v) \/ Unsubscribe(v)
    \/ SocketOpens
    \/ GatewayCloses
    \/ SocketCloses
    \/ RetryFires

WsSpec == WsInit /\ [][WsNext]_w
-----------------------------------------------------------------------------
Managers ==
    [ws: SocketStates, told: SUBSET Vehicles, subscribedIds: SUBSET Vehicles,
     retryDelay: FirstDelay .. DelayCap, retryTimer: BOOLEAN, destroyed: BOOLEAN,
     status: WsStatus, led: WsStatus, orphans: Nat]

WsTypeOK == w \in Managers

\* There is one socket at most, and no retry is pending beside it: whatever
\* the order of subscriptions, closes and retries, no handler of an earlier
\* socket is left to push frames twice or to start a second retry loop
\* (_reconnect, _teardown and _open in WsManager.ts).
OneSocket ==
    /\ w.orphans = 0
    /\ w.retryTimer => w.ws = "closed"

\* The inductive strengthening: a socket or a retry exists exactly while
\* something is wanted, and the status and the subscription follow the socket.
Consistent(m) ==
    /\ m.orphans = 0
    /\ m.retryTimer => m.ws = "closed"
    /\ m.led = m.status
    /\ (m.subscribedIds # {}) <=> (m.ws \in Live \/ m.retryTimer)
    /\ m.subscribedIds # {} => ~m.destroyed
    /\ m.status = IF m.subscribedIds = {} THEN "disconnected"
                  ELSE IF m.ws \in {"open", "closing"} THEN "connected"
                  ELSE "connecting"
    /\ m.told = IF m.ws \in {"open", "closing"} THEN m.subscribedIds ELSE {}

\* The manager implements LiveContract: what the indicator shows and what the
\* gateway was told always agree with what the components want.
Contract == INSTANCE LiveContract
                WITH want <- w.subscribedIds, shown <- w.led, fed <- w.told
ImplementsLiveContract == Contract!CSpec
=============================================================================
