------------------------------ MODULE FbVsync ------------------------------
(***************************************************************************)
(* The vsync worker of one framebuffer display (ComposerClient::VsyncLoop  *)
(* over FbdevDevice::WaitForVsync): it sleeps in FBIO_WAITFORVSYNC outside *)
(* mutex_, where only a signal reaches it, and calls onVsync() under       *)
(* vsync_callback_mutex_; against setVsyncEnabled(), setPowerMode() and    *)
(* the destructor, which change its predicate and send that signal.  A     *)
(* signal that comes just before the ioctl sleeps is lost.                 *)
(***************************************************************************)
EXTENDS Naturals

CONSTANT MaxCalls   \* bound on the calls of the framework

VARIABLES
    enabled,    \* vsync_enabled
    powered,    \* powered_; a dark panel has no vsync
    supported,  \* wait_for_vsync_supported_
    sample,     \* "none", or the last sample: "current", or "stale" of before a power-off
    pc,         \* the worker
    aware,      \* the callback the worker read was not null
    registered, \* callback_
    requested,  \* vsync_interrupt_requested_
    signal,     \* SIGUSR1 is pending for the ioctl
    call,       \* what a call has left to do
    calls,      \* calls so far
    stopping    \* stopping_

vars == <<enabled, powered, supported, sample, pc, aware, registered, requested, signal, call,
          calls, stopping>>
state == <<enabled, powered, supported, sample>>
interrupt == <<requested, signal>>
caller == <<registered, call, calls, stopping>>

(* mutex_ is held while the worker decides to sleep, vsync_callback_mutex_ *)
(* while it delivers; setPowerMode() notifies and interrupts with both.    *)
PowerCall == call \in {"power_notify", "power_interrupt"}
MutexFree == pc \notin {"tested", "retested"} /\ ~PowerCall
CallbackFree == pc \notin {"locked", "delivering"} /\ ~PowerCall

Init ==
    /\ enabled = FALSE
    /\ powered = FALSE
    /\ supported \in BOOLEAN
    /\ sample = "none"
    /\ pc = "test"
    /\ aware = FALSE
    /\ registered = FALSE
    /\ requested = FALSE
    /\ signal = FALSE
    /\ call = "none"
    /\ calls = 0
    /\ stopping = FALSE

-----------------------------------------------------------------------------
(* The worker *)

(* The loop and the predicate of vsync_cv_.wait(). *)
Test ==
    /\ pc = "test"
    /\ MutexFree
    /\ pc' = IF stopping THEN "done" ELSE IF enabled THEN "wait" ELSE "tested"
    /\ aware' = registered
    /\ UNCHANGED <<state, interrupt, caller>>

(* The condition variable gives up mutex_ and sleeps. *)
Sleep ==
    /\ pc \in {"tested", "retested"}
    /\ pc' = IF pc = "tested" THEN "asleep" ELSE "timed"
    /\ UNCHANGED <<state, aware, interrupt, caller>>

KeptRequest == requested
ConsumedRequest == FALSE

(* WaitForVsync: an interrupt that came before is taken, else the worker   *)
(* makes itself known as the waiter.                                       *)
WaitForVsync ==
    /\ pc = "wait"
    /\ pc' = IF ~supported THEN "fallback" ELSE IF requested THEN "test" ELSE "entering"
    /\ requested' = IF supported /\ requested THEN ConsumedRequest ELSE requested
    /\ UNCHANGED <<state, aware, signal, caller>>

EnterIoctl ==
    /\ pc = "entering"
    /\ pc' = "ioctl"
    /\ UNCHANGED <<state, aware, interrupt, caller>>

(* A vsync, a signal or an error ends the ioctl; that it is not supported  *)
(* is remembered.                                                          *)
IoctlReturns(result) ==
    /\ pc = "ioctl"
    /\ result = "vsync" => powered
    /\ result = "EINTR" => signal
    /\ signal' = FALSE
    /\ requested' = ConsumedRequest
    /\ supported' = (result # "ENOTTY")
    /\ pc' = CASE result = "vsync" -> "record"
               [] result = "EINTR" -> "test"
               [] OTHER -> "fallback"
    /\ UNCHANGED <<enabled, powered, sample, aware, caller>>

(* kHardware *)
Record ==
    /\ pc = "record"
    /\ MutexFree
    /\ sample' = IF powered THEN "current" ELSE "stale"
    /\ pc' = IF aware THEN "deliver" ELSE "test"
    /\ UNCHANGED <<enabled, powered, supported, aware, interrupt, caller>>

(* kFallback: a timed wait that vsync switched off or the end cuts short. *)
Fallback ==
    /\ pc = "fallback"
    /\ MutexFree
    /\ pc' = IF stopping \/ ~enabled THEN "test" ELSE "retested"
    /\ UNCHANGED <<state, aware, interrupt, caller>>

Timeout ==
    /\ pc = "timed"
    /\ MutexFree
    /\ aware' = registered
    /\ pc' = IF stopping \/ ~enabled \/ ~registered THEN "test" ELSE "deliver"
    /\ UNCHANGED <<state, interrupt, caller>>

LockCallback ==
    /\ pc = "deliver"
    /\ CallbackFree
    /\ pc' = "locked"
    /\ UNCHANGED <<state, aware, interrupt, caller>>

(* The state is read again once nothing can change it any more. *)
StillEnabledAssumed == TRUE
StillEnabled == enabled

Recheck ==
    /\ pc = "locked"
    /\ MutexFree
    /\ pc' = IF StillEnabled THEN "delivering" ELSE "test"
    /\ UNCHANGED <<state, aware, interrupt, caller>>

(* onVsync() returns. *)
Deliver ==
    /\ pc = "delivering"
    /\ pc' = "test"
    /\ UNCHANGED <<state, aware, interrupt, caller>>

WorkerStep ==
    \/ Test \/ Sleep \/ WaitForVsync \/ EnterIoctl \/ Record \/ Fallback \/ Timeout
    \/ LockCallback \/ Recheck \/ Deliver
    \/ \E result \in {"vsync", "EINTR", "EIO", "ENOTTY"} : IoctlReturns(result)

-----------------------------------------------------------------------------
(* Calls of the framework, one at a time *)

Begin(next) ==
    /\ call = "none"
    /\ ~stopping
    /\ calls < MaxCalls
    /\ calls' = calls + 1
    /\ call' = next

RegisterCallback ==
    /\ MutexFree
    /\ ~registered
    /\ Begin("none")
    /\ registered' = TRUE
    /\ UNCHANGED <<state, pc, aware, interrupt, stopping>>

SetVsyncEnabled(on) ==
    /\ CallbackFree /\ MutexFree
    /\ Begin("notify")
    /\ enabled' = on
    /\ UNCHANGED <<powered, supported, sample, pc, aware, interrupt, registered, stopping>>

(* A SetPower() that fails changes nothing here. *)
SetPowerMode(on) ==
    /\ CallbackFree /\ MutexFree
    /\ Begin("power_notify")
    /\ powered' = on
    /\ enabled' = (enabled /\ on)
    /\ sample' = IF on THEN sample ELSE "none"
    /\ UNCHANGED <<supported, pc, aware, interrupt, registered, stopping>>

(* vsync_cv_.notify_all() *)
Notify ==
    /\ call \in {"notify", "power_notify", "stop_notify"}
    /\ pc' = CASE pc = "asleep" /\ (enabled \/ stopping) -> "test"
               [] pc = "timed" /\ (~enabled \/ stopping) -> "test"
               [] OTHER -> pc
    /\ call' = CASE call = "notify" -> "interrupt"
                 [] call = "power_notify" -> "power_interrupt"
                 [] OTHER -> "join"
    /\ UNCHANGED <<state, aware, interrupt, registered, calls, stopping>>

(* InterruptVsyncWait: the handler does nothing, so a signal counts only   *)
(* while the ioctl sleeps.                                                 *)
InterruptVsyncWait ==
    /\ call \in {"interrupt", "power_interrupt", "stop_interrupt"}
    /\ requested' = TRUE
    /\ signal' = (signal \/ pc = "ioctl")
    /\ call' = IF call = "stop_interrupt" THEN "stop_notify" ELSE "none"
    /\ UNCHANGED <<state, pc, aware, registered, calls, stopping>>

(* ~ComposerClient *)
Stop ==
    /\ Begin("stop_interrupt")
    /\ stopping' = TRUE
    /\ UNCHANGED <<state, pc, aware, interrupt, registered>>

Join ==
    /\ call = "join"
    /\ pc = "done"
    /\ call' = "gone"
    /\ registered' = FALSE
    /\ UNCHANGED <<state, pc, aware, interrupt, calls, stopping>>

CallStep == Notify \/ InterruptVsyncWait \/ Join

Next ==
    \/ WorkerStep
    \/ CallStep
    \/ RegisterCallback
    \/ \E on \in BOOLEAN : SetVsyncEnabled(on) \/ SetPowerMode(on)
    \/ Stop

(* Threads that can run do; panels that are lit have vsyncs. *)
Spec == Init /\ [][Next]_vars /\ WF_vars(WorkerStep) /\ WF_vars(CallStep)

-----------------------------------------------------------------------------
(* Once setVsyncEnabled(false) or setPowerMode(OFF) has returned, no       *)
(* onVsync() is running and none will start.                               *)
SilentWhenDisabled == pc = "delivering" => enabled

(* A lit display with vsync enabled is served for ever, whatever signals   *)
(* and interrupt requests the calls before left behind.                    *)
VsyncArrives ==
    <>[](enabled /\ powered /\ registered /\ ~stopping) => []<>(pc = "delivering")

(* Not kept by the code, see README.md:                                   *)
(* the recorded sample is discarded when the display powers off            *)
SampleDiscarded == ~powered => sample = "none"

(* the destructor ends.                                                    *)
DestructorEnds == stopping ~> call = "gone"

=============================================================================
