----------------------------- MODULE DrmHotplug -----------------------------
(***************************************************************************)
(* Hotplug of the DRM composer: the kernel sends a uevent for every change *)
(* of a connector, HotplugLoop() rescans under mutex_ and tells the        *)
(* framework outside it, and registerCallback() tells a new framework of   *)
(* the displays there are.  Both send under hotplug_callback_mutex_, which *)
(* registerCallback() holds from before its snapshot to its last event.    *)
(***************************************************************************)
EXTENDS Naturals

CONSTANTS
    Displays,       \* display IDs, one per connector
    MaxChanges      \* bound on the changes of the connectors

VARIABLES
    plugged,    \* the connectors with a usable display, in the kernel
    uevents,    \* number of unread HOTPLUG=1 uevents
    changed,    \* number of changes so far
    connected,  \* DrmDisplay::connected
    loop,       \* HotplugLoop(): "poll", "settle", "notify" or "send"
    changes,    \* what the last rescan found and has not been sent yet
    binder,     \* registerCallback(): "idle", "locked", "send" or "done"
    initial,    \* the displays registerCallback() has yet to report
    callback,   \* callback_ is set
    sending,    \* owner of hotplug_callback_mutex_
    framework   \* the displays the framework believes are connected

vars == <<plugged, uevents, changed, connected, loop, changes, binder, initial,
          callback, sending, framework>>

Nobody == "nobody"

Init ==
    /\ plugged \in SUBSET Displays
    /\ uevents = 0
    /\ changed = 0
    /\ connected = plugged
    /\ loop = "poll"
    /\ changes = {}
    /\ binder = "idle"
    /\ initial = {}
    /\ callback = FALSE
    /\ sending = Nobody
    /\ framework = {}

(* External: a cable is plugged or pulled and the kernel sends a uevent. *)
Change(d) ==
    /\ changed < MaxChanges
    /\ changed' = changed + 1
    /\ plugged' = IF d \in plugged THEN plugged \ {d} ELSE plugged \cup {d}
    /\ uevents' = uevents + 1
    /\ UNCHANGED <<connected, loop, changes, binder, initial, callback, sending, framework>>

-----------------------------------------------------------------------------
(* HotplugLoop() *)

ReceiveIfRegistered ==
    /\ loop = "poll"
    /\ uevents > 0
    /\ uevents' = uevents - 1
    /\ loop' = IF callback THEN "settle" ELSE "poll"
    /\ UNCHANGED <<plugged, changed, connected, changes, binder, initial, callback, sending,
                   framework>>

(* One uevent is read, then the loop waits for the hardware to settle. *)
Receive ==
    /\ loop = "poll"
    /\ uevents > 0
    /\ uevents' = uevents - 1
    /\ loop' = "settle"
    /\ UNCHANGED <<plugged, changed, connected, changes, binder, initial, callback, sending,
                   framework>>

(* The changes of a rescan, sent in the order of the displays. *)
Found(was, is) == {[display |-> d, connected |-> d \in is] : d \in (was \ is) \cup (is \ was)}

IsNext(change) == change \in changes /\ \A c \in changes : change.display <= c.display

(* drm_.Rescan() and the update of states_, under mutex_. *)
Rescan ==
    /\ loop = "settle"
    /\ connected' = plugged
    /\ changes' = Found(connected, plugged)
    /\ loop' = "notify"
    /\ UNCHANGED <<plugged, uevents, changed, binder, initial, callback, sending, framework>>

(* NotifyHotplug(): callback_ is read under mutex_ ... *)
ReadCallback ==
    /\ loop = "notify"
    /\ \/ changes = {} /\ loop' = "poll" /\ UNCHANGED changes
       \/ changes # {} /\ callback /\ loop' = "send" /\ UNCHANGED changes
       \/ \E change \in changes :
            IsNext(change) /\ ~callback /\ changes' = changes \ {change} /\ UNCHANGED loop
    /\ UNCHANGED <<plugged, uevents, changed, connected, binder, initial, callback, sending,
                   framework>>

Told(change) ==
    IF change.connected THEN framework \cup {change.display} ELSE framework \ {change.display}

(* ... and the event is sent under hotplug_callback_mutex_. *)
NotifyHotplug ==
    /\ loop = "send"
    /\ sending = Nobody
    /\ \E change \in changes :
        IsNext(change) /\ framework' = Told(change) /\ changes' = changes \ {change}
    /\ loop' = "notify"
    /\ UNCHANGED <<plugged, uevents, changed, connected, binder, initial, callback, sending>>

-----------------------------------------------------------------------------
(* registerCallback() *)

LockNothing ==
    /\ binder = "idle"
    /\ binder' = "locked"
    /\ UNCHANGED <<plugged, uevents, changed, connected, loop, changes, initial, callback,
                   sending, framework>>

Lock ==
    /\ binder = "idle"
    /\ sending = Nobody
    /\ sending' = "binder"
    /\ binder' = "locked"
    /\ UNCHANGED <<plugged, uevents, changed, connected, loop, changes, initial, callback,
                   framework>>

(* callback_ is set and the connected displays are collected, under mutex_. *)
Snapshot ==
    /\ binder = "locked"
    /\ callback' = TRUE
    /\ initial' = connected
    /\ binder' = "send"
    /\ UNCHANGED <<plugged, uevents, changed, connected, loop, changes, sending, framework>>

SendInitial ==
    /\ binder = "send"
    /\ IF initial = {}
       THEN /\ binder' = "done"
            /\ sending' = Nobody
            /\ UNCHANGED <<initial, framework>>
       ELSE \E d \in initial :
            /\ \A e \in initial : d <= e
            /\ initial' = initial \ {d}
            /\ framework' = framework \cup {d}
            /\ UNCHANGED <<binder, sending>>
    /\ UNCHANGED <<plugged, uevents, changed, connected, loop, changes, callback>>

HotplugStep == Receive \/ Rescan \/ ReadCallback \/ NotifyHotplug
BinderStep == Lock \/ Snapshot \/ SendInitial

Next ==
    \/ \E d \in Displays : Change(d)
    \/ HotplugStep
    \/ BinderStep

Spec == Init /\ [][Next]_vars

(* Both threads run, and the framework registers its callback. *)
FairSpec == Spec /\ WF_vars(HotplugStep) /\ WF_vars(BinderStep)

-----------------------------------------------------------------------------
(* Events are sent by one thread at a time and only of known displays. *)
TypeOK ==
    /\ plugged \subseteq Displays
    /\ connected \subseteq Displays
    /\ framework \subseteq Displays
    /\ initial \subseteq Displays
    /\ changes \subseteq [display : Displays, connected : BOOLEAN]
    /\ loop \in {"poll", "settle", "notify", "send"}
    /\ binder \in {"idle", "locked", "send", "done"}
    /\ sending \in {Nobody, "binder"}
    /\ changed \in 0 .. MaxChanges
    /\ callback \in BOOLEAN
    /\ uevents \in 0 .. MaxChanges

(* Once the callback is registered and neither thread has events to send,  *)
(* the framework's view is the HAL's: an event is never overtaken by an    *)
(* older one of the other thread, and a display that is plugged in during  *)
(* the registration is not forgotten.                                      *)
FrameworkInSync ==
    (binder = "done" /\ loop \in {"poll", "settle"}) => framework = connected

(* Every change reaches the framework in the end. *)
Converges == <>[](framework = plugged)

=============================================================================
