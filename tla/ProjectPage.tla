---------------------------- MODULE ProjectPage ----------------------------
(***************************************************************************)
(* The page of one project (server/dashboard/src/pages/Project/            *)
(* ProjectPage.tsx) with what it drives: the WebSocket manager, the live   *)
(* stores and the fleet API's device requests (api/fleet.ts).              *)
(*                                                                         *)
(* A setState in a handler, the render it causes and the effects of that   *)
(* render are one step: React runs the effects of one render before it     *)
(* starts the next.  A component that has been unmounted ignores setState, *)
(* so an answer counts only for the instance of the page that asked.       *)
(* Type, region and the other texts of the form are left out; the name is  *)
(* taken to be filled in, which the handler requires.                      *)
(***************************************************************************)
EXTENDS WsManager, LiveStores, FiniteSets, FiniteSetsExt

CONSTANTS
    Projects,
    NoProject,
    FirstDevices,    \* the devices each project has to begin with
    MAX_FEED_ROWS,   \* 500
    MaxInstances,    \* bound: how often the page is opened
    MaxRequests,     \* bound: requests of a behaviour
    MaxFrames,       \* bound: frames of a behaviour
    MaxDrops         \* bound: connections that are lost or refused

ASSUME ProjectsAssumption ==
    /\ IsFiniteSet(Vehicles)
    /\ NoProject \notin Projects
    /\ FirstDevices \in [Projects -> SUBSET Vehicles]
    /\ \A p, q \in Projects : p # q => FirstDevices[p] \cap FirstDevices[q] = {}

VARIABLES
    page,       \* the mounted instance's state
    devicesOf,  \* the fleet API's devices of each project
    requests,   \* requests under way
    issued,     \* number of requests made so far
    frames,     \* number of frames received so far
    drops       \* number of connections lost so far

wsVars == <<w, drops>>
storeVars == <<telemetry, alerts, arrived, frames>>
httpVars == <<devicesOf, requests, issued>>
vars == <<wsVars, storeVars, page, httpVars>>

\* The state a new instance starts with.  effectIds are the devices the
\* subscription effect is active for and loops the animation-frame loops it
\* started, each with the ids its closure holds; jumped is history.
Fresh(n, inst) ==
    [name |-> n, inst |-> inst, loading |-> TRUE, error |-> FALSE, devices |-> {},
     showAdd |-> FALSE, adding |-> FALSE, effectIds |-> {}, loops |-> {},
     genRef |-> 0, feed |-> {}, jumped |-> FALSE]

Init ==
    /\ WsInit /\ StoresInit
    /\ page = Fresh(NoProject, 0)
    /\ devicesOf = FirstDevices
    /\ requests = {} /\ issued = 0 /\ frames = 0 /\ drops = 0

Mounted == page.name # NoProject

\* What is on the screen: the spinner, the error with its Retry, or the page.
Screen ==
    IF page.loading THEN "spinner" ELSE IF page.error THEN "error" ELSE "page"
-----------------------------------------------------------------------------
(* Effects                                                                 *)

\* Mutant: the subscriptions are dropped, the animation-frame loop is not.
Cleanup_KeepsLoop(p) == [p EXCEPT !.effectIds = {}]

\* The cleanup of the subscription effect: the loop half ...
Cleanup(p) == [p EXCEPT !.loops = @ \ {p.effectIds}, !.effectIds = {}]

\* ... and the subscription half.
Unsubscribed(m, ids) == FoldSet(LAMBDA v, acc : unsubscribe(acc, v), m, ids)
Subscribed(m, ids) == FoldSet(LAMBDA v, acc : subscribe(acc, v), m, ids)

\* setDevices(d): a new array, so the effect is cleaned up and run again, also
\* for the same devices; with no devices it returns before it subscribes.
SetDevices(p, d) ==
    LET c == Cleanup([p EXCEPT !.devices = d])
    IN  IF d = {} THEN c
        ELSE [c EXCEPT !.effectIds = d, !.loops = @ \cup {d}]
Resubscribed(m, d) == Subscribed(Unsubscribed(m, page.effectIds), d)

\* A request of the mounted instance; `for` says which call awaits it.
Request(kind, n, inst, for) ==
    [no |-> issued + 1, kind |-> kind, name |-> n, inst |-> inst,
     for |-> for, answer |-> "none", devices |-> {}]

Issue(kind, n, for) ==
    /\ issued < MaxRequests
    /\ issued' = issued + 1
    /\ requests' = requests \cup {Request(kind, n, page'.inst, for)}
-----------------------------------------------------------------------------
(* Navigation                                                              *)

\* The route /projects/:name is entered: mount, and the effect on [name].
Open(n) ==
    /\ ~Mounted
    /\ page.inst < MaxInstances
    /\ page' = Fresh(n, page.inst + 1)
    /\ Issue("list", n, "load")
    /\ UNCHANGED <<wsVars, storeVars, devicesOf>>

\* The browser's history goes straight to another project: the same instance
\* gets a new name, and only the effect on [name] runs.
Jump(n) ==
    /\ Mounted /\ n # page.name
    /\ page' = [page EXCEPT !.name = n, !.jumped = TRUE]
    /\ Issue("list", n, "load")
    /\ UNCHANGED <<wsVars, storeVars, devicesOf>>

\* Mutant: unmounting stops the loop and keeps the subscriptions.
Leave_KeepsSubscriptions ==
    /\ Mounted
    /\ page' = [Fresh(NoProject, page.inst) EXCEPT !.loops = Cleanup(page).loops]
    /\ UNCHANGED <<wsVars, storeVars, httpVars>>

\* Back to the projects, a link of the sidebar, a logout: unmount.
Leave ==
    /\ Mounted
    /\ w' = Unsubscribed(w, page.effectIds)
    /\ page' = [Fresh(NoProject, page.inst) EXCEPT !.loops = Cleanup(page).loops]
    /\ UNCHANGED <<drops, storeVars, httpVars>>
-----------------------------------------------------------------------------
(* Requests                                                                *)

\* The fleet API's handlers read or write; the answer of a write may be lost.
Answer(r) ==
    /\ r \in requests /\ r.answer = "none"
    /\ \/ /\ r.kind = "list"
          /\ requests' = (requests \ {r}) \cup
                {[r EXCEPT !.answer = "ok", !.devices = devicesOf[r.name]]}
          /\ UNCHANGED devicesOf
       \/ /\ r.kind = "provision"
          /\ \E v \in Vehicles :
                /\ \A p \in Projects : v \notin devicesOf[p]
                /\ devicesOf' = [devicesOf EXCEPT ![r.name] = @ \cup {v}]
          /\ \E a \in {"ok", "failed"} :
                requests' = (requests \ {r}) \cup {[r EXCEPT !.answer = a]}
       \/ /\ requests' = (requests \ {r}) \cup {[r EXCEPT !.answer = "failed"]}
          /\ UNCHANGED devicesOf
    /\ UNCHANGED <<wsVars, storeVars, page, issued>>

\* Mutant: the list is shown by whichever instance is mounted.
Ours_AnyInstance(r) == Mounted

\* Does the instance that asked still exist?
Ours(r) == Mounted /\ r.inst = page.inst

\* loadDevices continues: an error empties the list; when handleAddDevice was
\* waiting for it, its finally block runs too.
LoadDone(r) ==
    /\ r \in requests /\ r.kind = "list" /\ r.answer # "none"
    /\ requests' = requests \ {r}
    /\ IF Ours(r)
       THEN LET d == IF r.answer = "ok" THEN r.devices ELSE {}
                p == SetDevices(page, d)
            IN  /\ page' = [p EXCEPT !.loading = FALSE,
                                     !.error = @ \/ r.answer = "failed",
                                     !.adding = @ /\ r.for # "add"]
                /\ w' = Resubscribed(w, d)
       ELSE UNCHANGED <<page, w>>
    /\ UNCHANGED <<drops, storeVars, devicesOf, issued>>

\* The Retry button of the error screen.
Retry ==
    /\ Mounted /\ Screen = "error"
    /\ page' = [page EXCEPT !.error = FALSE, !.loading = TRUE]
    /\ Issue("list", page.name, "load")
    /\ UNCHANGED <<wsVars, storeVars, devicesOf>>

\* "+ Add" (shown to admins), Cancel, the overlay and the cross.
OpenAdd ==
    /\ Mounted /\ Screen = "page" /\ ~page.showAdd
    /\ page' = [page EXCEPT !.showAdd = TRUE]
    /\ UNCHANGED <<wsVars, storeVars, httpVars>>
CloseAdd ==
    /\ Mounted /\ Screen = "page" /\ page.showAdd
    /\ page' = [page EXCEPT !.showAdd = FALSE]
    /\ UNCHANGED <<wsVars, storeVars, httpVars>>

\* handleAddDevice, by the button, which is disabled while adding, or by
\* Enter in the name field, which is not.
AddDevice ==
    /\ Mounted /\ Screen = "page" /\ page.showAdd
    /\ page' = [page EXCEPT !.adding = TRUE]
    /\ Issue("provision", page.name, "add")
    /\ UNCHANGED <<wsVars, storeVars, devicesOf>>

\* provisionDevice returned: close the dialog and load again, with the name
\* the handler's closure holds; or finally alone, the error being swallowed.
AddDone(r) ==
    /\ r \in requests /\ r.kind = "provision" /\ r.answer # "none"
    /\ IF r.answer = "ok"
       THEN /\ issued < MaxRequests
            /\ issued' = issued + 1
            /\ requests' = (requests \ {r}) \cup
                    {Request("list", r.name, r.inst, "add")}
            /\ page' = IF Ours(r) THEN [page EXCEPT !.showAdd = FALSE] ELSE page
       ELSE /\ requests' = requests \ {r}
            /\ page' = IF Ours(r) THEN [page EXCEPT !.adding = FALSE] ELSE page
            /\ UNCHANGED issued
    /\ UNCHANGED <<wsVars, storeVars, devicesOf>>

\* Everything on the page that can be clicked: the way back, Retry, the dialog.
\* The tabs choose between the feed and the alerts of the page's devices.
Clicks == Leave \/ Retry \/ OpenAdd \/ CloseAdd \/ AddDevice
-----------------------------------------------------------------------------
(* Live data                                                               *)

GatewayAccepts == SocketOpens /\ UNCHANGED <<drops, storeVars, page, httpVars>>

ConnectionLost ==
    /\ drops < MaxDrops
    /\ drops' = drops + 1
    /\ SocketCloses \/ GatewayCloses
    /\ UNCHANGED <<storeVars, page, httpVars>>

\* A closing handshake comes to its end, whatever the bound.
ClosingEnds ==
    /\ w.ws = "closing"
    /\ SocketCloses
    /\ UNCHANGED <<drops, storeVars, page, httpVars>>

RetryTimer == RetryFires /\ UNCHANGED <<drops, storeVars, page, httpVars>>

\* ws.onmessage: telemetry to its store; an alert, or an assistance request
\* turned into a warning, to the other.  The clock of one device moves
\* forward, the clocks of two are not related; text that is not JSON, and
\* binary, is dropped.
Message(v) ==
    /\ w.ws = "open" /\ v \in w.told
    /\ frames < MaxFrames
    /\ frames' = frames + 1
    /\ \/ /\ \E ts \in 1 .. MaxFrames :
                /\ \A u \in DOMAIN arrived : \A i \in 1 .. Len(arrived[u]) :
                        IF u = v THEN arrived[u][i].ts < ts ELSE arrived[u][i].ts # ts
                /\ TelemetryPush(v, [vehicle |-> v, ts |-> ts])
          /\ UNCHANGED alerts
       \/ /\ AlertPush([device |-> v, level |-> "warning"])
          /\ UNCHANGED <<telemetry, arrived>>
    /\ UNCHANGED <<wsVars, page, httpVars>>

FlushFrame == Flush /\ UNCHANGED <<wsVars, frames, page, httpVars>>

\* The rows of the table: the newest of the given frames.
NewestRows(S) ==
    {f \in S : Cardinality({g \in S : g.ts > f.ts}) < MAX_FEED_ROWS}

\* One animation frame of a loop, for the ids of its closure; nothing changes
\* while the generation is the one it saw last.
Tick(ids) ==
    /\ ids \in page.loops
    /\ telemetry.generation # page.genRef
    /\ page' = [page EXCEPT !.genRef = telemetry.generation,
                            !.feed = NewestRows(UNION {Buffered(v) : v \in ids})]
    /\ UNCHANGED <<wsVars, storeVars, httpVars>>
-----------------------------------------------------------------------------
Next ==
    \/ \E n \in Projects : Open(n) \/ Jump(n)
    \/ Clicks
    \/ \E r \in requests : Answer(r) \/ LoadDone(r) \/ AddDone(r)
    \/ GatewayAccepts \/ ConnectionLost \/ ClosingEnds \/ RetryTimer
    \/ \E v \in Vehicles : Message(v)
    \/ FlushFrame
    \/ \E ids \in page.loops : Tick(ids)

Spec == Init /\ [][Next]_vars

\* The browser runs timers and animation frames, a gateway that is not down
\* (drops are bounded) accepts, and a closing handshake ends.
FairSpec ==
    /\ Spec
    /\ WF_vars(GatewayAccepts) /\ WF_vars(ClosingEnds) /\ WF_vars(RetryTimer)
    /\ WF_vars(FlushFrame) /\ WF_vars(\E ids \in page.loops : Tick(ids))
-----------------------------------------------------------------------------
\* The vehicles the manager keeps a connection for are those of the mounted
\* page: no answer, jump, error or unmount leaves one behind or misses one.
FollowsDevices == w.subscribedIds = page.devices

\* The devices on a page are its own project's, unless the history took the
\* instance from one project to another: then the earlier project's list can
\* stay, or come back with a late answer (loadDevices does not compare names).
OtherProjectOnlyAfterJump ==
    Mounted /\ ~page.jumped => page.devices \subseteq devicesOf[page.name]

\* Rows come from the loop of the current devices alone: a change of the feed
\* shows frames of the devices subscribed to now and never those of a loop
\* that should have been cancelled.
FeedFromCurrentDevices ==
    [][page'.feed # page.feed => \A f \in page'.feed : f.vehicle \in page'.effectIds]_vars

\* A frame that is announced, or about to be, while the page has devices comes
\* to be a row: the table catches up with the rings, or the page moves on.
Announced == telemetry.dirty \/ telemetry.generation # page.genRef
TableIsCurrent == page.feed = NewestRows(UNION {Buffered(u) : u \in page.effectIds})
FrameShown ==
    page.effectIds # {} /\ Announced ~> page.effectIds = {} \/ TableIsCurrent

\* While something is wanted, the manager gets back to a connection.
Reconnects == []<>(w.subscribedIds = {} \/ w.led = "connected")
=============================================================================
