------------------------------ MODULE DrmVsync ------------------------------
(***************************************************************************)
(* The vblank worker of the DRM composer (ComposerClient::VblankLoop): one *)
(* thread that serves every display with vsync enabled in turn, waits for  *)
(* a CRTC sequence event outside mutex_, records the sample and calls      *)
(* onVsync(); against the calls that enable vsync, switch a display off,   *)
(* change its mode or unplug it, and against the destructor, which sets    *)
(* stopping_ and notifies without taking mutex_.                           *)
(*                                                                         *)
(* A timestamp is represented by the phase of its display: the number of   *)
(* mode changes and power cycles before it was taken.                      *)
(***************************************************************************)
EXTENDS Naturals, FiniteSets

CONSTANTS
    Displays,       \* a set of display IDs, positive numbers
    MaxPhases,      \* bound on the mode and power changes of a display
    Never           \* no sample

VARIABLES
    plugged,    \* the displays that have a DisplayState
    enabled,    \* vsync_enabled
    phase,      \* current phase of each display
    sample,     \* phase of last_vsync_ns while have_vsync_sample
    pc,         \* the worker
    previous,   \* previous_display, display_id while an event is awaited
    hardware,   \* the timestamp comes from a sequence event
    stamp,      \* phase in which the timestamp was taken
    stopping,   \* stopping_
    destroyer,  \* the destructor
    calling     \* a setVsyncEnabled() call has yet to notify

vars == <<plugged, enabled, phase, sample, pc, previous, hardware, stamp, stopping, destroyer,
          calling>>
worker == <<pc, previous, hardware, stamp>>

(* The worker holds mutex_ from the test of its predicate to its sleep. *)
MutexFree == pc # "blocking" /\ destroyer = "alive"

Init ==
    /\ plugged = Displays
    /\ enabled = {}
    /\ phase = [d \in Displays |-> 0]
    /\ sample = [d \in Displays |-> Never]
    /\ pc = "select"
    /\ previous = 0
    /\ hardware = FALSE
    /\ stamp = 0
    /\ stopping = FALSE
    /\ destroyer = "alive"
    /\ calling = FALSE

-----------------------------------------------------------------------------
(* The worker *)

FirstAlways == CHOOSE d \in enabled : \A e \in enabled : d <= e

(* The first enabled display after the previous one, else the first. *)
Selected ==
    LET later == {d \in enabled : d > previous}
        from == IF later = {} THEN enabled ELSE later
    IN  CHOOSE d \in from : \A e \in from : d <= e

Select ==
    /\ pc = "select"
    /\ IF stopping THEN pc' = "done" /\ UNCHANGED previous
       ELSE IF enabled = {} THEN pc' = "blocking" /\ UNCHANGED previous
       ELSE pc' = "event" /\ previous' = Selected
    /\ UNCHANGED <<plugged, enabled, phase, sample, hardware, stamp, stopping,
                   destroyer, calling>>

(* vsync_cv_.wait() gives up mutex_ and sleeps until a notification. *)
Sleep ==
    /\ pc = "blocking"
    /\ pc' = "asleep"
    /\ UNCHANGED <<plugged, enabled, phase, sample, previous, hardware, stamp, stopping,
                   destroyer, calling>>

(* A sequence event, or the timed wait of a driver without them. *)
Vblank(hw) ==
    /\ pc = "event"
    /\ IF stopping /\ destroyer = "joining"
       THEN pc' = "done" /\ UNCHANGED <<hardware, stamp>>
       ELSE /\ pc' = "stamped"
            /\ hardware' = hw
            /\ stamp' = phase[previous]
    /\ UNCHANGED <<plugged, enabled, phase, sample, previous, stopping,
                   destroyer, calling>>

Record ==
    /\ pc = "stamped"
    /\ IF stopping THEN pc' = "done" /\ UNCHANGED sample
       ELSE IF previous \notin enabled THEN pc' = "select" /\ UNCHANGED sample
       ELSE /\ pc' = "deliver"
            /\ sample' = IF hardware THEN [sample EXCEPT ![previous] = stamp] ELSE sample
    /\ UNCHANGED <<plugged, enabled, phase, previous, hardware, stamp, stopping,
                   destroyer, calling>>

(* onVsync() *)
Deliver ==
    /\ pc = "deliver"
    /\ pc' = "select"
    /\ UNCHANGED <<plugged, enabled, phase, sample, previous, hardware, stamp, stopping,
                   destroyer, calling>>

-----------------------------------------------------------------------------
(* Calls of the framework and the hotplug thread, under mutex_ *)

(* What vsync_cv_.notify_all() does to the worker. *)
Notified == IF pc = "asleep" THEN "select" ELSE pc

SetVsyncEnabled(d, on) ==
    /\ MutexFree
    /\ ~calling
    /\ d \in plugged
    /\ enabled' = IF on THEN enabled \cup {d} ELSE enabled \ {d}
    /\ calling' = TRUE
    /\ UNCHANGED <<plugged, phase, sample, worker, stopping, destroyer>>

(* The call notifies after it has released mutex_. *)
NotifyVsync ==
    /\ calling
    /\ pc' = Notified
    /\ calling' = FALSE
    /\ UNCHANGED <<plugged, enabled, phase, sample, previous, hardware, stamp, stopping,
                   destroyer>>

(* What a mode change and a power-off do to the recorded sample. *)
Discarded(d) == [sample EXCEPT ![d] = Never]

PowerOff(d) ==
    /\ MutexFree
    /\ d \in plugged
    /\ phase[d] < MaxPhases
    /\ phase' = [phase EXCEPT ![d] = @ + 1]
    /\ enabled' = enabled \ {d}
    /\ sample' = Discarded(d)
    /\ UNCHANGED <<plugged, worker, stopping, destroyer, calling>>

SetActiveConfigLocked(d) ==
    /\ MutexFree
    /\ d \in plugged
    /\ phase[d] < MaxPhases
    /\ phase' = [phase EXCEPT ![d] = @ + 1]
    /\ sample' = Discarded(d)
    /\ UNCHANGED <<plugged, enabled, worker, stopping, destroyer, calling>>

(* HotplugLoop() erases the state of a display that went away. *)
Unplug(d) ==
    /\ MutexFree
    /\ d \in plugged
    /\ phase[d] < MaxPhases
    /\ plugged' = plugged \ {d}
    /\ enabled' = enabled \ {d}
    /\ sample' = Discarded(d)
    /\ UNCHANGED <<phase, worker, stopping, destroyer, calling>>

Plug(d) ==
    /\ MutexFree
    /\ d \in Displays \ plugged
    /\ phase[d] < MaxPhases
    /\ plugged' = plugged \cup {d}
    /\ phase' = [phase EXCEPT ![d] = @ + 1]
    /\ UNCHANGED <<enabled, sample, worker, stopping, destroyer, calling>>

(* ~ComposerClient: stopping_ is set and the condition notified without    *)
(* mutex_, then the eventfd is written and the threads are joined.         *)
Stop ==
    /\ destroyer = "alive"
    /\ ~calling
    /\ stopping' = TRUE
    /\ destroyer' = "notifying"
    /\ UNCHANGED <<plugged, enabled, phase, sample, worker, calling>>

NotifyAll ==
    /\ destroyer = "notifying"
    /\ pc' = Notified
    /\ destroyer' = "joining"
    /\ UNCHANGED <<plugged, enabled, phase, sample, previous, hardware, stamp,
                   stopping, calling>>

Join ==
    /\ destroyer = "joining"
    /\ pc = "done"
    /\ destroyer' = "gone"
    /\ plugged' = {}
    /\ enabled' = {}
    /\ UNCHANGED <<phase, sample, worker, stopping, calling>>

WorkerStep == Select \/ Sleep \/ Vblank(TRUE) \/ Vblank(FALSE) \/ Record \/ Deliver

Next ==
    \/ WorkerStep
    \/ \E d \in Displays :
          \/ \E on \in BOOLEAN : SetVsyncEnabled(d, on)
          \/ PowerOff(d)
          \/ SetActiveConfigLocked(d)
          \/ Unplug(d)
          \/ Plug(d)
    \/ NotifyVsync
    \/ Stop
    \/ NotifyAll
    \/ Join

Spec == Init /\ [][Next]_vars

(* Threads that can run do; neither the framework's calls nor the start of *)
(* the destructor are fair.                                                *)
FairSpec == Spec /\ WF_vars(WorkerStep) /\ WF_vars(NotifyVsync) /\ WF_vars(NotifyAll)
            /\ WF_vars(Join)

-----------------------------------------------------------------------------
(* Only plugged displays have vsync enabled or a sample. *)
TypeOK ==
    /\ enabled \subseteq plugged
    /\ plugged \subseteq Displays
    /\ phase \in [Displays -> 0 .. MaxPhases]
    /\ \A d \in Displays : sample[d] # Never => d \in plugged \/ destroyer = "gone"
    /\ pc \in {"select", "blocking", "asleep", "event", "stamped", "deliver", "done"}
    /\ previous \in Displays \cup {0}
    /\ stamp \in 0 .. MaxPhases
    /\ hardware \in BOOLEAN
    /\ stopping \in BOOLEAN
    /\ calling \in BOOLEAN
    /\ destroyer \in {"alive", "notifying", "joining", "gone"}

(* Every display whose vsync stays enabled gets callbacks for ever, however *)
(* many others are enabled.                                                *)
VsyncServed ==
    \A d \in Displays :
        (<>[](d \in enabled /\ ~stopping)) => []<>(pc = "deliver" /\ previous = d)

(* Not kept by the code, see README.md:                                   *)
(* getDisplayKnownVsyncSample() reports a timestamp of the current mode    *)
(* and power cycle.                                                        *)
SampleIsCurrent ==
    \A d \in plugged : sample[d] # Never => sample[d] = phase[d]

(* The destructor ends.  (Not kept by the code, see README.md.) *)
DestructorEnds == stopping ~> destroyer = "gone"

=============================================================================
