----------------------------- MODULE AudioStream -----------------------------
(***************************************************************************)
(* The streams of the audio HAL (stream/StreamMainline.cpp), the reference *)
(* counts of the UCM devices they share (routing/RoutingController.cpp)    *)
(* and the UCM devices of the card (ucm/UcmManager.cpp).                   *)
(*                                                                         *)
(* A binder thread connects a stream to a list of devices; the worker of   *)
(* the stream takes the list over with a flag when it next starts or       *)
(* transfers.  The routing controller has a lock of its own and is called  *)
(* once per endpoint, so calls for two streams mix.                        *)
(***************************************************************************)
EXTENDS Naturals, Sequences, SequencesExt, FiniteSets

CONSTANTS
    Streams, Started,               \* the streams, and those whose client sends commands
    Devices, DeviceLists,           \* what the framework may ask for
    Endpoint,                       \* Devices -> the endpoint of the inventory, or None
    UsbEndpoint,                    \* Devices -> what MakeUsbEndpoint() makes of it, or None
    InputEndpoints, NullEndpoints,
    HdmiHeads,                      \* the HDMI heads, highest priority first
    UcmDevices,
    UcmDevice,                      \* endpoint -> its UCM device, or None
    Conflicting,                    \* UCM device -> the set it conflicts with
    SetFails,                       \* may snd_use_case_set() fail?
    MaxCalls,                       \* bound on the calls of setConnectedDevices()
    None

VARIABLES
    inputs,                         \* the streams with is_input_
    refcounts, enabled,             \* routing controller; _devstatus of the UCM devices
    connected_endpoints, endpoints_updated, connected, call,    \* binder side of a stream
    active_endpoints, pcms, null_running, worker, life,         \* worker side of a stream
    calls

vars == <<inputs, refcounts, enabled, connected_endpoints, endpoints_updated, connected, call,
          active_endpoints, pcms, null_running, worker, life, calls>>

routing == <<refcounts, enabled>>
binder == <<connected_endpoints, endpoints_updated, connected, call, calls>>
threads == <<active_endpoints, pcms, null_running, worker>>

Endpoints == DOMAIN UcmDevice

\* A call of setConnectedDevices(): its step, the new list, and the uses of the
\* routing controller that are left.
Calls ==
    [step : {"switch", "publish", "flip"}, endpoints : Seq(Endpoints),
     todo : Seq([op : {"acquire", "release"}, endpoint : Endpoints])]

\* The inventory hands out its own endpoints, each with a UCM device of the card
\* or none; the framework asks for lists of devices.
ASSUME RoutingAssumption ==
    /\ None \notin UcmDevices \cup Endpoints \cup Calls
    /\ UcmDevice \in [Endpoints -> UcmDevices \cup {None}]
    /\ HdmiHeads \in Seq(Endpoints)
    /\ \A d \in Devices : {Endpoint[d], UsbEndpoint[d]} \subseteq Endpoints \cup {None}
    /\ DeviceLists \subseteq Seq(Devices)

IsInput(s) == s \in inputs

TypeOK ==
    /\ refcounts \in [UcmDevices -> Nat] /\ enabled \subseteq UcmDevices
    /\ \A s \in Streams :
        /\ call[s] \in Calls \cup {None}
        /\ ToSet(connected_endpoints[s]) \subseteq Endpoints
        /\ ToSet(active_endpoints[s]) \subseteq Endpoints
        /\ worker[s].pc \in {"idle", "apply", "copy", "ready", "transfer", "shutdown", "gone"}
        /\ life[s] \in {"open", "closed", "destroyed"}

Init ==
    /\ refcounts = [u \in UcmDevices |-> 0] /\ enabled = {}
    /\ inputs \in SUBSET Started
    /\ connected_endpoints = [s \in Streams |-> <<>>]
    /\ endpoints_updated = [s \in Streams |-> FALSE]
    /\ connected = [s \in Streams |-> FALSE]
    /\ call = [s \in Streams |-> None]
    /\ active_endpoints = [s \in Streams |-> <<>>]
    /\ pcms = [s \in Streams |-> {}]
    /\ null_running = [s \in Streams |-> FALSE]
    /\ worker = [s \in Streams |-> [pc |-> "idle", command |-> None]]
    /\ life = [s \in Streams |-> "open"]
    /\ calls = 0

-----------------------------------------------------------------------------
(* UcmManager and RoutingController, each call under its lock.             *)

\* EnableDevice(): the conflicting devices go first; a device that is on stays.
EnableDevice(u, on) ==
    IF u \in on THEN {on}
    ELSE LET others == on \ Conflicting[u]
         IN {others \cup {u}} \cup (IF SetFails THEN {others, on \cup {u}, on} ELSE {})

DisableDevice(u, on) == {on \ {u}} \cup (IF SetFails THEN {on} ELSE {})

\* The first reference enables the device.
Acquire(e) ==
    LET u == UcmDevice[e]
    IN IF u = None THEN UNCHANGED routing
       ELSE /\ refcounts' = [refcounts EXCEPT ![u] = @ + 1]
            /\ IF refcounts[u] = 0 THEN enabled' \in EnableDevice(u, enabled)
               ELSE UNCHANGED enabled

\* A controller that disables the device on every release.
ReleaseAlways(e) ==
    LET u == UcmDevice[e]
    IN IF u = None \/ refcounts[u] = 0 THEN UNCHANGED routing
       ELSE /\ refcounts' = [refcounts EXCEPT ![u] = @ - 1]
            /\ enabled' \in DisableDevice(u, enabled)

\* The last one disables it.
Release(e) ==
    LET u == UcmDevice[e]
    IN IF u = None \/ refcounts[u] = 0 THEN UNCHANGED routing
       ELSE /\ refcounts' = [refcounts EXCEPT ![u] = @ - 1]
            /\ IF refcounts[u] = 1 THEN enabled' \in DisableDevice(u, enabled)
               ELSE UNCHANGED enabled

-----------------------------------------------------------------------------
(* setConnectedDevices() on a binder thread.                               *)

\* SelectHdmiEndpoint(): behind the one template the first head whose jack is
\* plugged now, or else the first whose jack says nothing.
SelectHdmiEndpoint(e, jacks) ==
    LET heads(state) == {i \in DOMAIN HdmiHeads : jacks[i] = state}
    IN IF HdmiHeads = <<>> \/ e # HdmiHeads[1] THEN e
       ELSE IF heads("plugged") # {} THEN HdmiHeads[Min(heads("plugged"))]
       ELSE IF heads("unknown") # {} THEN HdmiHeads[Min(heads("unknown"))] ELSE e

\* An unknown device or one of the other direction refuses the whole call.
Resolved(d, jacks) ==
    IF Endpoint[d] # None THEN SelectHdmiEndpoint(Endpoint[d], jacks) ELSE UsbEndpoint[d]
ResolveEndpoints(s, devices, jacks) ==
    \A i \in DOMAIN devices :
        LET e == Resolved(devices[i], jacks)
        IN e # None /\ ((e \in InputEndpoints) <=> IsInput(s))

\* What the call asks of the routing controller, in order: acquire before
\* release.
Uses(op, endpoints) == [i \in DOMAIN endpoints |-> [op |-> op, endpoint |-> endpoints[i]]]
SwitchReleaseFirst(new, old) == Uses("release", old) \o Uses("acquire", new)
Switch(new, old) == Uses("acquire", new) \o Uses("release", old)

\* lock_ is held while the routing is switched.
Locked(s) == (call[s] # None /\ call[s].step = "switch") \/ worker[s].pc = "shutdown"

\* The call is refused before anything changes unless it passes the checks.
SetConnectedDevices(s, devices) ==
    /\ life[s] # "destroyed" /\ call[s] = None /\ calls < MaxCalls /\ ~Locked(s)
    /\ IsInput(s) => Len(devices) <= 1
    /\ \E jacks \in [DOMAIN HdmiHeads -> {"plugged", "unplugged", "unknown"}] :
        /\ ResolveEndpoints(s, devices, jacks)
        /\ \E new \in {[i \in DOMAIN devices |-> Resolved(devices[i], jacks)]} :
            call' = [call EXCEPT ![s] = [step |-> "switch", endpoints |-> new,
                                         todo |-> Switch(new, connected_endpoints[s])]]
    /\ calls' = calls + 1
    /\ UNCHANGED <<inputs, routing, connected_endpoints, endpoints_updated, connected, threads, life>>

\* The last use hands the new list over and gives up the lock.
SwitchNext(s) ==
    /\ call[s] # None /\ call[s].step = "switch"
    /\ IF call[s].todo # <<>>
       THEN LET use == Head(call[s].todo)
            IN /\ IF use.op = "acquire" THEN Acquire(use.endpoint) ELSE Release(use.endpoint)
               /\ call' = [call EXCEPT ![s].todo = Tail(@)] /\ UNCHANGED connected_endpoints
       ELSE /\ call' = [call EXCEPT ![s].step = "publish"] /\ UNCHANGED routing
            /\ connected_endpoints' = [connected_endpoints EXCEPT ![s] = call[s].endpoints]
    /\ UNCHANGED <<inputs, endpoints_updated, connected, calls, threads, life>>

\* The flag of the stream first, then the one of StreamCommonImpl that the
\* worker tests.
FlagsFlipFirst(s, step) ==
    IF step = "publish"
    THEN connected' = [connected EXCEPT ![s] = call[s].endpoints # <<>>] /\ UNCHANGED endpoints_updated
    ELSE endpoints_updated' = [endpoints_updated EXCEPT ![s] = TRUE] /\ UNCHANGED connected
Flags(s, step) ==
    IF step = "publish"
    THEN endpoints_updated' = [endpoints_updated EXCEPT ![s] = TRUE] /\ UNCHANGED connected
    ELSE connected' = [connected EXCEPT ![s] = call[s].endpoints # <<>>] /\ UNCHANGED endpoints_updated

Publish(s) ==
    /\ call[s] # None /\ call[s].step \in {"publish", "flip"}
    /\ Flags(s, call[s].step)
    /\ call' = [call EXCEPT ![s] = IF @.step = "publish" THEN [@ EXCEPT !.step = "flip"] ELSE None]
    /\ UNCHANGED <<inputs, routing, connected_endpoints, calls, threads, life>>

-----------------------------------------------------------------------------
(* The worker.                                                             *)

Goto(s, pc) == worker' = [worker EXCEPT ![s].pc = pc]
UsingNullDevice(s) ==
    active_endpoints[s] # <<>> /\ ToSet(active_endpoints[s]) \subseteq NullEndpoints

\* start(), or transfer() when the base class believes that devices are there.
Begin(s, command) ==
    /\ life[s] = "open" /\ worker[s].pc = "idle" /\ s \in Started
    /\ command = "transfer" => connected[s]
    /\ worker' = [worker EXCEPT ![s] = [pc |-> "apply", command |-> command]]
    /\ UNCHANGED <<inputs, routing, binder, active_endpoints, pcms, null_running, life>>

\* ApplyPendingEndpoints(): the flag first, ...
ExchangeUpdated(s) ==
    /\ worker[s].pc = "apply"
    /\ endpoints_updated' = [endpoints_updated EXCEPT ![s] = FALSE]
    /\ Goto(s, IF endpoints_updated[s] THEN "copy" ELSE "ready")
    /\ UNCHANGED <<inputs, routing, connected_endpoints, connected, call, calls,
                   active_endpoints, pcms, null_running, life>>

\* A worker that leaves the running devices alone.
CopyKeepsPcms(s) ==
    /\ worker[s].pc = "copy" /\ ~Locked(s)
    /\ active_endpoints' = [active_endpoints EXCEPT ![s] = connected_endpoints[s]]
    /\ Goto(s, "ready")
    /\ UNCHANGED <<inputs, routing, binder, life, pcms, null_running>>

\* ... then the list, under the lock; the devices are opened again later.
CopyEndpoints(s) ==
    /\ worker[s].pc = "copy" /\ ~Locked(s)
    /\ active_endpoints' = [active_endpoints EXCEPT ![s] = connected_endpoints[s]]
    /\ pcms' = [pcms EXCEPT ![s] = {}]
    /\ null_running' = [null_running EXCEPT ![s] = FALSE]
    /\ Goto(s, "ready")
    /\ UNCHANGED <<inputs, routing, binder, life>>

\* OpenPcms(): any of them may refuse; capture takes the first that opens.
OpenPcms(s) ==
    {opened \in SUBSET (ToSet(active_endpoints[s]) \ NullEndpoints) :
        IsInput(s) => \A e, f \in opened : e = f}

\* Where EnsureDevicesReady() leads when it succeeds.
Proceed(s) == Goto(s, IF worker[s].command = "transfer" THEN "transfer" ELSE "idle")

EnsureDevicesReady(s) ==
    /\ worker[s].pc = "ready"
    /\ \/ active_endpoints[s] = <<>> /\ Proceed(s) /\ UNCHANGED <<pcms, null_running>>
       \/ /\ UsingNullDevice(s) /\ Proceed(s)
          /\ null_running' = [null_running EXCEPT ![s] = TRUE] /\ UNCHANGED pcms
       \/ /\ active_endpoints[s] # <<>> /\ ~UsingNullDevice(s)
          /\ \E opened \in IF pcms[s] = {} THEN OpenPcms(s) ELSE {pcms[s]} :
                /\ pcms' = [pcms EXCEPT ![s] = opened]
                /\ IF opened = {} THEN Goto(s, "idle") ELSE Proceed(s)
          /\ UNCHANGED null_running
    /\ UNCHANGED <<inputs, routing, binder, active_endpoints, life>>

\* The burst goes to every open device (AudioPcm), to the null device, or fails
\* because there is none.
Transfer(s) ==
    /\ worker[s].pc = "transfer" /\ Goto(s, "idle")
    /\ UNCHANGED <<inputs, routing, binder, active_endpoints, pcms, null_running, life>>

\* drain(), flush() and pause() leave all of this alone: AudioPcm has them.
Standby(s) ==
    /\ life[s] = "open" /\ worker[s].pc = "idle" /\ (pcms[s] # {} \/ null_running[s])
    /\ pcms' = [pcms EXCEPT ![s] = {}] /\ null_running' = [null_running EXCEPT ![s] = FALSE]
    /\ UNCHANGED <<inputs, routing, binder, active_endpoints, worker, life>>

\* close() ends the worker, whose last call is shutdown().
Shutdown(s) ==
    /\ life[s] = "open" /\ worker[s].pc = "idle" /\ ~Locked(s)
    /\ pcms' = [pcms EXCEPT ![s] = {}] /\ null_running' = [null_running EXCEPT ![s] = FALSE]
    /\ active_endpoints' = [active_endpoints EXCEPT ![s] = <<>>]
    /\ life' = [life EXCEPT ![s] = "closed"] /\ Goto(s, "shutdown")
    /\ UNCHANGED <<inputs, routing, binder>>

\* The last reference goes: no call is under way, and the routing of a call
\* that came after shutdown() is given up here.
Destroy(s) ==
    /\ life[s] = "closed" /\ worker[s].pc = "gone" /\ call[s] = None
    /\ life' = [life EXCEPT ![s] = "destroyed"] /\ Goto(s, "shutdown")
    /\ UNCHANGED <<inputs, routing, binder, active_endpoints, pcms, null_running>>

\* ReleaseRouting(), one endpoint after the other under lock_.
ReleaseRouting(s) ==
    /\ worker[s].pc = "shutdown"
    /\ IF connected_endpoints[s] # <<>>
       THEN /\ Release(Head(connected_endpoints[s])) /\ UNCHANGED worker
            /\ connected_endpoints' = [connected_endpoints EXCEPT ![s] = Tail(@)]
       ELSE Goto(s, "gone") /\ UNCHANGED <<routing, connected_endpoints>>
    /\ UNCHANGED <<inputs, endpoints_updated, connected, call, calls, active_endpoints, pcms,
                   null_running, life>>

Step(s) ==
    \/ SwitchNext(s) \/ Publish(s)
    \/ ExchangeUpdated(s) \/ CopyEndpoints(s) \/ EnsureDevicesReady(s) \/ Transfer(s)
    \/ ReleaseRouting(s)

Next ==
    \E s \in Streams :
        \/ \E devices \in DeviceLists : SetConnectedDevices(s, devices)
        \/ \E command \in {"start", "transfer"} : Begin(s, command)
        \/ Step(s) \/ Standby(s) \/ Shutdown(s) \/ Destroy(s)

Spec == Init /\ [][Next]_vars

-----------------------------------------------------------------------------
\* A connected stream can be heard and a finished one costs nothing: while no
\* call is under way the UCM devices of its endpoints are enabled, and a device
\* is on only if some stream refers to it.  Holds for profiles without
\* conflicting devices (README).
RoutingHolds ==
    /\ \A s \in Streams : (call[s] = None /\ worker[s].pc # "shutdown") =>
        \A e \in ToSet(connected_endpoints[s]) : UcmDevice[e] \in enabled \cup {None}
    /\ (\A s \in Streams : call[s] = None /\ worker[s].pc = "gone" /\ life[s] = "destroyed") =>
        (enabled = {} /\ \A u \in UcmDevices : refcounts[u] = 0)

\* "a device shared by the old and the new set never gets toggled": not by the
\* call that changes the set, and not by a call for another stream.
SharedStaysOn ==
    [][\A s \in Streams : (call[s] # None /\ call[s].step = "switch") =>
        \A e \in ToSet(call[s].endpoints) \cap ToSet(connected_endpoints[s]) :
            (UcmDevice[e] \in enabled) => UcmDevice[e] \in enabled']_vars

\* Between the flag and the list nothing gets lost: a worker that is about to
\* transfer uses devices of the list last handed over, unless a newer list is
\* announced or about to be.
OnConnectedDevices ==
    \A s \in Streams :
        (worker[s].pc = "transfer" /\ ~endpoints_updated[s] /\ call[s] = None) =>
            /\ active_endpoints[s] = connected_endpoints[s]
            /\ pcms[s] \subseteq ToSet(connected_endpoints[s])

\* "otherwise the worker could transfer without devices": when the flag the worker
\* tests says connected, the worker has endpoints or will find them when it looks,
\* unless the stream is just being disconnected.
TransfersWithDevices ==
    \A s \in Streams : (connected[s] /\ life[s] = "open") =>
        \/ active_endpoints[s] # <<>> \/ endpoints_updated[s] \/ worker[s].pc = "copy"
        \/ call[s] # None /\ call[s].endpoints = <<>>
=============================================================================
