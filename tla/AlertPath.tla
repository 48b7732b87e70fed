----------------------------- MODULE AlertPath -----------------------------
(***************************************************************************)
(* The way of a device's messages through ws-gateway                       *)
(* (server/relay/ws-gateway/src/main.rs) to the dashboard's stores, for    *)
(* one operator connection that has been accepted: the subscription        *)
(* request WsManager sends, the NATS subscriptions the gateway makes of    *)
(* it, its decoding and rate limit, and WsManager's dispatch.              *)
(***************************************************************************)
EXTENDS LiveStores, FiniteSets

CONSTANTS
    Vehicles,
    MaxMessages   \* bound: messages the devices publish

VARIABLES
    subs,       \* active_subs: for a subject, does its task decode events?
    published,  \* messages published on NATS so far
    delivered   \* history: the messages whose frames reached the browser

vars == <<telemetry, alerts, arrived, subs, published, delivered>>

\* WsManager._streams, in the order they are sent.
Streams == <<"telemetry", "event", "alert", "assistance">>

\* The NATS subject a stream is read from, and whether its task decodes.
SubjectOf(stream) == IF stream \in {"alert", "assistance"} THEN "event" ELSE stream
Decodes(stream) == stream \in {"alert", "assistance"}

\* subscribe_to_vehicles: the first stream that asks for a subject decides; a
\* later one finds the subject in active_subs and is skipped.
SubscribeToVehicles(streams) ==
    LET first(subject) ==
            CHOOSE i \in DOMAIN streams :
                /\ SubjectOf(streams[i]) = subject
                /\ \A j \in 1 .. i - 1 : SubjectOf(streams[j]) # subject
    IN  [subject \in {SubjectOf(streams[i]) : i \in DOMAIN streams} |->
            Decodes(streams[first(subject)])]

\* Messages as the relay publishes them; `kind` is the envelope's content.
Message == [vehicle: Vehicles, kind: {"telemetry", "alert", "assistance"}, ts: 1 .. MaxMessages]
MessageSubject(m) == IF m.kind = "telemetry" THEN "telemetry" ELSE "event"

Init ==
    /\ StoresInit
    /\ subs = [s \in {} |-> FALSE]
    /\ published = {} /\ delivered = {}

\* onopen sends the request, and the gateway subscribes.
RequestSubscription ==
    /\ subs' = SubscribeToVehicles(Streams)
    /\ UNCHANGED <<telemetry, alerts, arrived, published, delivered>>

Publish(m) ==
    /\ Cardinality(published) < MaxMessages
    /\ m.ts = Cardinality(published) + 1
    /\ published' = published \cup {m}
    /\ UNCHANGED <<telemetry, alerts, arrived, subs, delivered>>

\* The task of the message's subject sends a frame (it may also drop it: the
\* rate limit, a full channel), and onmessage hands it to a store: with
\* decoding route_event_frame's alert or assistance request, without it
\* envelope_to_json_frame's telemetry, whatever the envelope contains.
Deliver(m) ==
    /\ m \in published \ delivered
    /\ MessageSubject(m) \in DOMAIN subs
    /\ delivered' = delivered \cup {m}
    /\ IF subs[MessageSubject(m)]
       THEN /\ AlertPush([device |-> m.vehicle, ts |-> m.ts])
            /\ UNCHANGED <<telemetry, arrived>>
       ELSE /\ TelemetryPush(m.vehicle, [vehicle |-> m.vehicle, ts |-> m.ts])
            /\ UNCHANGED alerts
    /\ UNCHANGED <<subs, published>>

Next ==
    \/ RequestSubscription
    \/ \E m \in Message : Publish(m) \/ Deliver(m)

Spec == Init /\ [][Next]_vars

\* An alert or assistance request that reaches the dashboard is in the list of
\* alerts: the gateway documents such frames as decoded to JSON alerts, and
\* the dashboard's Alerts tab reads nothing else.
AlertsReachTheList ==
    \A m \in delivered :
        m.kind # "telemetry" =>
            \E i \in DOMAIN alerts : alerts[i].ts = m.ts
=============================================================================
