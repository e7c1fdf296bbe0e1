------------------------------ MODULE IioDevice ------------------------------
(***************************************************************************)
(* The data path of one iio:deviceN (sensors backends/iio/IioDevice.cpp):  *)
(* buffer mode with its reader thread, poll mode with one worker per       *)
(* sensor, and the permanent fallback from the first to the second.        *)
(*                                                                         *)
(* Actors: the control thread (the front end serialises its calls), the    *)
(* reader thread and the poll workers.  A critical section of mutex_ is    *)
(* one action; the control thread releases mutex_ while it joins, and that *)
(* is where the reader's fallback comes in.  Sampling rates are the        *)
(* business of module IioRates.  The process may crash at any time; what   *)
(* it left in the kernel (buffer, trigger, configfs directory) stays.      *)
(***************************************************************************)
EXTENDS Naturals, FiniteSets

CONSTANTS
    Sensors,        \* the sensors of the device
    Pollable,       \* those with CanPoll()
    BufferCapable,  \* info_.buffer_capable
    Partial         \* TRUE: the kernel may refuse to enable some scan elements

ASSUME IioAssumption ==
    /\ Pollable \subseteq Sensors
    /\ BufferCapable \in BOOLEAN /\ Partial \in BOOLEAN

VARIABLES
    active,       \* IioSensor::active_
    mode,         \* mode_
    failed,       \* buffer_failed_
    scan,         \* sensors all of whose channels are enabled_in_scan
    fd,           \* fd_ and the wake pipe are open
    trigger,      \* trigger_: "none", "driver" or "hrtimer" (owned)
    reader,       \* reader thread: "none" (not joinable), "loop", "data", "post",
                  \* "failed", "fallback" or "done" (exited, joinable)
    batch,        \* sensors whose events it collected
    stop,         \* reader_stop_
    worker,       \* sensor -> poll worker: "off", "wait", "task" or "post"
    pc,           \* control thread: "idle", joining "poll" workers or the "reader",
                  \* at the "end" of a call, or "down" (no IioDevice)
    op,           \* the call it is in: "activate", "shutdown" or "none"
    cur,          \* sensors whose worker it is stopping, one at a time
    enabled,      \* external: buffer/enable
    attached,     \* external: trigger/current_trigger
    hrtimer,      \* external: the configfs directory of our hrtimer trigger exists
    silent        \* external: the buffer of this device never delivers anything

buffer == <<scan, fd, trigger>>
kernel == <<enabled, attached, hrtimer, silent>>
thread == <<reader, batch, stop>>
control == <<pc, op, cur>>
vars == <<active, mode, failed, buffer, thread, worker, control, kernel>>

Alive == reader \notin {"none", "done"}
AnyActive == \E s \in Sensors : active[s]

Init ==
    /\ active = [s \in Sensors |-> FALSE] /\ mode = "idle" /\ failed = FALSE
    /\ scan = {} /\ fd = FALSE /\ trigger = "none"
    /\ reader = "none" /\ batch = {} /\ stop = FALSE
    /\ worker = [s \in Sensors |-> "off"]
    /\ pc = "idle" /\ op = "none" /\ cur = {}
    /\ enabled = FALSE /\ attached \in {"none", "driver"} /\ hrtimer = FALSE
    /\ silent \in BOOLEAN

-----------------------------------------------------------------------------
(* Buffer and trigger. *)

\* ~IioTrigger(): detach, then remove the directory, which the kernel refuses
\* while the trigger is attached.
ReleaseTrigger ==
    /\ trigger' = "none"
    /\ attached' = IF trigger = "none" THEN attached ELSE "none"
    /\ hrtimer' = (hrtimer /\ (trigger # "hrtimer" \/ attached' = "hrtimer"))

\* IioTrigger::Assign() on the way to a running buffer: a trigger that is there
\* already, one of the driver, a new hrtimer, or none.
AssignTrigger(t) ==
    /\ attached = "driver" => t \in {"driver", "none"}
    /\ trigger' = t
    /\ attached' = IF t = "none" THEN attached ELSE t
    /\ hrtimer' = (t = "hrtimer" \/ hrtimer)

\* StartBufferLocked() succeeds, with the sensors of s in the scan; the new
\* reader thread runs.
StartBuffer(t, s) ==
    /\ AssignTrigger(t)
    /\ s = Sensors \/ (Partial /\ s \subseteq Sensors)
    /\ scan' = s
    /\ enabled' = TRUE /\ fd' = TRUE
    /\ reader' = "loop" /\ batch' = {} /\ stop' = FALSE
    /\ mode' = "buffer"
    /\ UNCHANGED <<failed, silent>>

\* StartBufferLocked() fails at one of its steps and takes back the others.
StartBufferFails ==
    /\ enabled' = FALSE
    /\ attached' \in {attached, "none"}
    /\ failed' = TRUE
    /\ UNCHANGED <<buffer, thread, hrtimer, silent>>

\* ReleaseBufferResourcesLocked().
ReleaseBuffer ==
    /\ enabled' = FALSE /\ fd' = FALSE /\ scan' = {}
    /\ ReleaseTrigger
    /\ UNCHANGED silent

\* Mutant: workers are started only on a device that is in poll mode already.
StartPollLater(ss) ==
    worker' = [s \in Sensors |->
                  IF s \in ss /\ worker[s] = "off" /\ mode = "poll" THEN "task" ELSE worker[s]]

\* StartPollLocked() of the sensors of ss: PeriodicWorker::Start().
StartPoll(ss) ==
    worker' = [s \in Sensors |-> IF s \in ss /\ worker[s] = "off" THEN "task" ELSE worker[s]]

-----------------------------------------------------------------------------
(* Activate() of a sensor that is off. *)

\* Without buffer the sensor is polled, or the call fails and is taken back.
ServePolled(s) ==
    IF s \in Pollable
    THEN StartPoll({s}) /\ active' = [active EXCEPT ![s] = TRUE] /\ mode' = "poll"
    ELSE /\ mode' = IF AnyActive THEN "poll" ELSE "idle"
         /\ UNCHANGED <<active, worker>>

WantsBuffer == mode = "idle" /\ BufferCapable /\ ~failed

ActivateStartsBuffer(s, t, ss) ==
    /\ pc = "idle" /\ ~active[s] /\ WantsBuffer
    /\ StartBuffer(t, ss)
    /\ active' = [active EXCEPT ![s] = TRUE]
    /\ UNCHANGED <<worker, control>>

ActivateBufferFails(s) ==
    /\ pc = "idle" /\ ~active[s] /\ WantsBuffer
    /\ StartBufferFails
    /\ ServePolled(s)
    /\ UNCHANGED control

ActivateRunning(s) ==
    /\ pc = "idle" /\ ~active[s] /\ ~WantsBuffer
    /\ IF mode = "buffer"
       THEN active' = [active EXCEPT ![s] = TRUE] /\ UNCHANGED <<mode, worker>>
       ELSE ServePolled(s)
    /\ UNCHANGED <<failed, buffer, thread, control, kernel>>

-----------------------------------------------------------------------------
(* Deactivation and Shutdown(): mutex_ is released for every join. *)

\* Mutant: a reader that fell back to poll mode itself is not reaped.
MustJoinRunning(kind, last) == mode = "buffer" /\ last

\* The calls that join the reader thread.
MustJoin(kind, last) == (mode = "buffer" /\ last) \/ kind = "shutdown"

\* StopPoll() of the running workers comes first, then StopBuffer() when the
\* last sensor in buffer mode goes; Shutdown() always reaps the reader.
Stop(kind, off) ==
    LET running == {s \in off : mode = "poll" /\ worker[s] # "off"}
        last    == \A s \in Sensors : active[s] => s \in off
    IN  /\ active' = [s \in Sensors |-> active[s] /\ s \notin off]
        /\ op' = kind
        /\ cur' = running
        /\ pc' = IF running # {} THEN "poll" ELSE IF MustJoin(kind, last) THEN "reader" ELSE "end"
        /\ stop' = (stop \/ (mode = "buffer" /\ last))

Deactivate(s) ==
    /\ pc = "idle" /\ active[s]
    /\ Stop("activate", {s})
    /\ UNCHANGED <<mode, failed, buffer, reader, batch, worker, kernel>>

Shutdown ==
    /\ pc = "idle"
    /\ Stop("shutdown", Sensors)
    /\ UNCHANGED <<mode, failed, buffer, reader, batch, worker, kernel>>

\* PeriodicWorker::Stop() of one worker returned: its thread has been joined.
JoinWorker(s) ==
    /\ pc = "poll" /\ s \in cur /\ worker[s] = "off"
    /\ cur' = cur \ {s}
    /\ pc' = IF cur' # {} THEN "poll" ELSE IF MustJoin(op, ~AnyActive) THEN "reader" ELSE "end"
    /\ UNCHANGED <<active, mode, failed, buffer, thread, worker, op, kernel>>

\* What reader_thread_.join() waits for.
ReaderGone == ~Alive

JoinReader ==
    /\ pc = "reader" /\ ReaderGone
    /\ reader' = IF Alive THEN reader ELSE "none"
    /\ pc' = "end"
    /\ UNCHANGED <<active, mode, failed, buffer, batch, stop, worker, op, cur, kernel>>

\* The rest of the call: a buffer the reader did not release itself is
\* released, and the device is idle when no sensor is left.
Finish ==
    /\ pc = "end"
    /\ IF mode = "buffer" /\ ~AnyActive THEN ReleaseBuffer ELSE UNCHANGED <<buffer, kernel>>
    /\ mode' = IF AnyActive THEN mode ELSE "idle"
    /\ pc' = IF op = "shutdown" THEN "down" ELSE "idle"
    /\ op' = "none"
    /\ UNCHANGED <<active, failed, thread, worker, cur>>

\* The process dies: whatever it did not undo stays in the kernel.
Crash ==
    /\ pc' = "down" /\ op' = "none" /\ cur' = {}
    /\ active' = [s \in Sensors |-> FALSE] /\ mode' = "idle" /\ failed' = FALSE
    /\ scan' = {} /\ fd' = FALSE /\ trigger' = "none"
    /\ reader' = "none" /\ batch' = {} /\ stop' = FALSE
    /\ worker' = [s \in Sensors |-> "off"]
    /\ UNCHANGED kernel

\* Mutant: only directories nobody uses are cleaned up.
CleanupSkipsAttached ==
    /\ hrtimer' = (hrtimer /\ attached = "hrtimer")
    /\ UNCHANGED attached

\* IioTrigger::CleanupStaleTriggers().
CleanupStaleTriggers ==
    /\ hrtimer' = FALSE
    /\ attached' = IF hrtimer /\ attached = "hrtimer" THEN "none" ELSE attached

\* IioBackend::Initialize() (again): a new IioDevice.
Initialize ==
    /\ pc = "down" /\ pc' = "idle"
    /\ CleanupStaleTriggers
    /\ failed' = FALSE
    /\ UNCHANGED <<active, mode, buffer, thread, worker, op, cur, enabled, silent>>

-----------------------------------------------------------------------------
(* ReaderThread(). *)

\* Mutant: the watchdog is armed by the first data only.
ReaderFailsAfterData == ~stop /\ ~silent /\ reader' = "failed"

\* An error of poll() or read(), or no data for longer than the watchdog allows.
ReaderFails == ~stop /\ reader' = "failed"

\* One turn of the loop: told to stop, woken by the pipe, data, or a failure.
ReaderTurn ==
    /\ reader = "loop"
    /\ \/ stop /\ reader' = "done"
       \/ ~stop /\ ~silent /\ reader' = "data"
       \/ ReaderFails
    /\ UNCHANGED <<active, mode, failed, buffer, batch, stop, worker, control, kernel>>

\* The sensors a scan is demultiplexed to.
Collectable == {s \in scan : active[s]}

\* HandleScans(), under mutex_: decimation and duplicates leave some out.
HandleScans(ss) ==
    /\ reader = "data"
    /\ ss \subseteq IF mode = "buffer" THEN Collectable ELSE {}
    /\ batch' = ss
    /\ reader' = IF ss = {} THEN "loop" ELSE "post"
    /\ UNCHANGED <<active, mode, failed, buffer, stop, worker, control, kernel>>

\* PostEvents(), with mutex_ free again.
ReaderPosts ==
    /\ reader = "post"
    /\ batch' = {} /\ reader' = "loop"
    /\ UNCHANGED <<active, mode, failed, buffer, stop, worker, control, kernel>>

\* The reader gives up, unless it was told to stop just then.
ReaderGivesUp ==
    /\ reader = "failed"
    /\ reader' = IF stop THEN "done" ELSE "fallback"
    /\ UNCHANGED <<active, mode, failed, buffer, batch, stop, worker, control, kernel>>

\* FallbackToPollFromReader(), under mutex_: all sensors or none.
FallbackToPoll ==
    /\ reader = "fallback"
    /\ reader' = "done"
    /\ IF mode # "buffer" THEN UNCHANGED <<mode, failed, buffer, worker, kernel>>
       ELSE /\ ReleaseBuffer
            /\ failed' = TRUE
            /\ IF \E s \in Sensors : active[s] /\ s \notin Pollable
               THEN mode' = "idle" /\ UNCHANGED worker
               ELSE mode' = "poll" /\ StartPoll({s \in Sensors : active[s]})
    /\ UNCHANGED <<active, batch, stop, control>>

-----------------------------------------------------------------------------
(* Poll workers: the PeriodicWorker of a sensor and its task PollSensor(). *)

\* Mutant: a worker that wakes up does not look at the stop flag again.
StoppingUnseen(s) == FALSE

\* PeriodicWorker::Stop() of the worker is under way.
Stopping(s) == pc = "poll" /\ s \in cur

WorkerWakes(s) ==
    /\ worker[s] = "wait"
    /\ worker' = [worker EXCEPT ![s] = IF Stopping(s) THEN "off" ELSE "task"]
    /\ UNCHANGED <<active, mode, failed, buffer, thread, control, kernel>>

PollSensor(s) ==
    /\ worker[s] = "task"
    /\ \/ worker' = [worker EXCEPT ![s] = "wait"]
       \/ active[s] /\ worker' = [worker EXCEPT ![s] = "post"]
    /\ UNCHANGED <<active, mode, failed, buffer, thread, control, kernel>>

WorkerPosts(s) ==
    /\ worker[s] = "post"
    /\ worker' = [worker EXCEPT ![s] = "wait"]
    /\ UNCHANGED <<active, mode, failed, buffer, thread, control, kernel>>

-----------------------------------------------------------------------------
ControlCall ==
    \/ \E s \in Sensors, t \in {"none", "driver", "hrtimer"}, ss \in SUBSET Sensors :
          ActivateStartsBuffer(s, t, ss)
    \/ \E s \in Sensors : ActivateBufferFails(s) \/ ActivateRunning(s) \/ Deactivate(s)
    \/ Shutdown
    \/ Initialize

ControlStep == (\E s \in Sensors : JoinWorker(s)) \/ JoinReader \/ Finish

Reader ==
    \/ ReaderTurn
    \/ \E ss \in SUBSET Sensors : HandleScans(ss)
    \/ ReaderPosts
    \/ ReaderGivesUp
    \/ FallbackToPoll

Worker(s) == WorkerWakes(s) \/ PollSensor(s) \/ WorkerPosts(s)

Next == ControlCall \/ ControlStep \/ Reader \/ (\E s \in Sensors : Worker(s)) \/ Crash

\* Every thread is scheduled; poll() of the reader times out, so that a turn of
\* its loop always ends.
Fairness ==
    /\ WF_vars(ControlStep)
    /\ WF_vars(Reader)
    /\ \A s \in Sensors : WF_vars(Worker(s))

Spec == Init /\ [][Next]_vars
FairSpec == Spec /\ Fairness

-----------------------------------------------------------------------------
(* Properties. *)

TypeOK ==
    /\ active \in [Sensors -> BOOLEAN]
    /\ mode \in {"idle", "buffer", "poll"}
    /\ failed \in BOOLEAN /\ fd \in BOOLEAN /\ stop \in BOOLEAN
    /\ scan \subseteq Sensors /\ batch \subseteq scan /\ cur \subseteq Sensors
    /\ trigger \in {"none", "driver", "hrtimer"} /\ attached \in {"none", "driver", "hrtimer"}
    /\ reader \in {"none", "loop", "data", "post", "failed", "fallback", "done"}
    /\ worker \in [Sensors -> {"off", "wait", "task", "post"}]
    /\ pc \in {"idle", "poll", "reader", "end", "down"}
    /\ op \in {"none", "activate", "shutdown"}
    /\ enabled \in BOOLEAN /\ hrtimer \in BOOLEAN /\ silent \in BOOLEAN

\* "All sensors of a device share one data path": an active sensor has a live
\* source of data at all times - the reader, or its own worker - across the
\* reader's fallback, joins and restarts.
DataPath ==
    pc = "idle" => \A s \in Sensors : active[s] =>
        \/ mode = "buffer" /\ Alive
        \/ mode = "poll" /\ worker[s] # "off"

\* The hrtimer trigger lives as long as the buffer does: idle or polled devices
\* leave none behind, and one a crashed HAL left is gone after a restart.
NoStaleTrigger == pc = "idle" /\ mode # "buffer" => ~hrtimer /\ attached # "hrtimer"

\* "Previous reader already exited": a reader is only ever started when no
\* other one is alive, and Shutdown() leaves no thread behind, running or unjoined.
OneReader ==
    [][/\ reader' = "loop" /\ fd' /\ ~fd => ~Alive
       /\ pc' = "down" /\ pc # "down" => reader' = "none"]_vars

\* "... the device permanently falls back to poll mode" when "the buffer never
\* delivers data": a silent buffer is not kept.
SilentBufferAbandoned == (silent /\ mode = "buffer") ~> mode # "buffer"

\* Deactivation and Shutdown() return although they join threads that need
\* mutex_.
CallReturns == pc \in {"poll", "reader", "end"} ~> pc \in {"idle", "down"}

-----------------------------------------------------------------------------
(* Stated by the documentation and not kept by the code; see README.md. *)

\* "Deactivation must drop any pending events of the sensor": nothing of a
\* sensor is posted once its Activate(false) returned.
DeactivationDrops ==
    [][/\ ReaderPosts => \A s \in batch : active[s] \/ pc # "idle"
       /\ \A s \in Sensors : WorkerPosts(s) => active[s] \/ pc # "idle"]_vars

\* "Each scan is demultiplexed to all active sensors of the device".
ScanServesAll == mode = "buffer" => \A s \in Sensors : active[s] => s \in scan

\* "The device permanently falls back to poll mode" and in poll mode "each
\* active sensor periodically reads its attributes on its own worker thread".
PollServesPollable ==
    pc = "idle" /\ mode = "poll" =>
        \A s \in Pollable : active[s] => worker[s] # "off"
=============================================================================
