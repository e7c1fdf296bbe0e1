---------------------------- MODULE CaptureStream ----------------------------
(***************************************************************************)
(* How a session gets the frame of a request: the worker's Process() with  *)
(* FlashControl, the capture stream (session/CaptureStream.cpp), the       *)
(* controls it sets (session/DeviceControls.cpp) and the buffers of the    *)
(* video device (v4l2/V4l2VideoDevice.cpp).                                *)
(*                                                                         *)
(* The driver fills buffers while the worker waits; frames may be corrupt, *)
(* late or missing, every ioctl may fail, and the device may go away.      *)
(***************************************************************************)
EXTENDS Integers, Sequences, SequencesExt, FiniteSets

CONSTANTS
    Precapture, PreflashTimeout, Settle,    \* kPrecaptureNs, kPreflashTimeoutNs, kSettleNs, in ticks
    Modes,                      \* capture modes
    Settings,                   \* of requests: [ae_mode, flash_mode, trigger, still,
                                \* ae_lock, awb_lock, interval]
    BufferCount,                \* kPipelineMaxDepth
    MaxSkippedFrames, MaxStaleFrames,
    MaxTime, MaxConfigures,     \* bounds of the model
    Has3aLock,                  \* does the device have V4L2_CID_3A_LOCK?
    FirstBufferFails,           \* may setting up the first buffer fail?
    None

VARIABLES
    now, configures,
    stamps,         \* does the driver stamp its frames with the monotonic clock?
    dev,            \* the driver, see InitDriver
    exposure, lock_3a,              \* controls of the device
    streaming, buffers,             \* V4l2VideoDevice
    mode_, format_, interval_,      \* CaptureStream
    ae_locked, auto_exposure_mode,  \* DeviceControls
    fc,             \* flash_control_
    led,            \* flash_lit_: since when the LEDs are lit, or None
    op,             \* the request under way
    lost            \* buffers the driver did not take back

driver == <<stamps, dev, exposure, lock_3a>>
stream == <<streaming, buffers, mode_, format_, interval_>>
controls == <<ae_locked, auto_exposure_mode>>
vars == <<now, configures, driver, stream, controls, fc, led, op, lost>>

-----------------------------------------------------------------------------
\* FlashControl: Begin() is a function from the settings of a request and what
\* the previous ones left to the new state and the plan of the request.
InitControl == [precapture |-> "idle", start |-> 0, preflash |-> FALSE,
                lit |-> FALSE, since |-> 0, dark |-> FALSE]

FlashAe(s) == s.ae_mode \in {"auto_flash", "always_flash"}
NeedsFlash(c, s) == FlashAe(s) /\ (s.ae_mode = "always_flash" \/ c.dark)

\* A precapture trigger starts the sequence, or gives it up.
Triggered(c, s, time) ==
    CASE s.trigger = "start" ->
            [c EXCEPT !.precapture = "running", !.start = time, !.preflash = NeedsFlash(c, s)]
      [] s.trigger = "cancel" -> [c EXCEPT !.precapture = "idle", !.preflash = FALSE]
      [] OTHER -> c

\* The sequence takes a while, and its flash goes off when nobody needs it.
Elapsed(c, s, time) ==
    [c EXCEPT
        !.precapture = IF @ = "running" /\ time - c.start >= Precapture THEN "done" ELSE @,
        !.preflash = @ /\ FlashAe(s) /\ time - c.start < Precapture + PreflashTimeout]

StillWithFlash(c, s) == s.still /\ NeedsFlash(c, s)
Fires(c, s) == StillWithFlash(c, s) \/ (~FlashAe(s) /\ s.flash_mode = "single")
Torch(c, s) ==
    ~Fires(c, s) /\ (IF FlashAe(s) THEN c.preflash ELSE s.flash_mode = "torch")

AeState(c, s, lit) ==
    CASE s.ae_lock -> "locked"
      [] ~s.ae_lock /\ c.precapture = "running" -> "precapture"
      [] ~s.ae_lock /\ c.precapture # "running" /\ s.ae_mode = "auto_flash" /\ c.dark /\ ~lit ->
            "flash_required"
      [] OTHER -> "converged"

\* The state after Begin() and what to do for the request.  not_before is the
\* time the frame has to start after, 0 for any frame.
Begin(c, s, time) ==
    LET begun == Elapsed(Triggered(c, s, time), s, time)
        lit == Fires(begun, s) \/ Torch(begun, s)
        spent == IF StillWithFlash(begun, s)
                 THEN [begun EXCEPT !.preflash = FALSE, !.precapture = "idle"] ELSE begun
        after == [spent EXCEPT !.lit = lit, !.since = IF lit /\ ~c.lit THEN time ELSE @]
    IN [control |-> after,
        plan |-> [lit |-> lit, keep_lit |-> Torch(begun, s),
                  not_before |-> IF Fires(begun, s) THEN after.since + Settle ELSE 0,
                  ae_state |-> AeState(after, s, lit)]]

Unlit(c) == [c EXCEPT !.lit = FALSE]
WantsBrightness(c, s) == ~c.lit /\ s.ae_mode = "auto_flash"
SetBrightness(c, dark) == [c EXCEPT !.dark = dark]

-----------------------------------------------------------------------------
Indices == 1..BufferCount
InitDriver == [format |-> None, interval |-> None, allocated |-> FALSE, on |-> FALSE,
               queued |-> <<>>, done |-> <<>>, gone |-> FALSE]
Idle == [pc |-> "idle", settings |-> None, plan |-> None, attempt |-> 0, stale |-> 0,
         frame |-> None, result |-> None]

TypeOK ==
    /\ now \in 1..MaxTime /\ configures \in 0..MaxConfigures
    /\ ToSet(dev.queued) \subseteq Indices /\ Len(dev.done) <= BufferCount
    /\ buffers \in {0, BufferCount} /\ streaming \in BOOLEAN
    /\ exposure \in {"auto", "manual"} /\ lock_3a \in BOOLEAN
    /\ op.pc \in {"idle", "prepare", "dequeue", "requeue_stale", "requeue", "end"}

Init ==
    /\ now = 1 /\ configures = 0 /\ stamps \in BOOLEAN
    /\ dev = InitDriver /\ exposure = "auto" /\ lock_3a = FALSE
    /\ streaming = FALSE /\ buffers = 0 /\ mode_ = None /\ format_ = None /\ interval_ = None
    /\ ae_locked = FALSE /\ auto_exposure_mode = None
    /\ fc = InitControl /\ led = None /\ op = Idle /\ lost = {}

-----------------------------------------------------------------------------
(* The driver and the clock.                                               *)

Tick ==
    /\ now < MaxTime /\ now' = now + 1
    /\ UNCHANGED <<configures, driver, stream, controls, fc, led, op, lost>>

\* A frame that was exposed during this tick fills the oldest queued buffer.
DriverFrame ==
    /\ dev.on /\ ~dev.gone /\ dev.queued # <<>>
    /\ dev' = [dev EXCEPT !.queued = Tail(@),
                          !.done = Append(@, [index |-> Head(dev.queued), exposed |-> now])]
    /\ UNCHANGED <<now, configures, stamps, exposure, lock_3a, stream, controls, fc, led, op, lost>>

\* The driver gives up every buffer; each ioctl fails with ENODEV from now on.
Unplug ==
    /\ ~dev.gone /\ dev' = [InitDriver EXCEPT !.gone = TRUE]
    /\ UNCHANGED <<now, configures, stamps, exposure, lock_3a, stream, controls, fc, led, op, lost>>

-----------------------------------------------------------------------------
(* V4l2VideoDevice.                                                        *)

\* A release that only unmaps.
ReleasedUnmapped(d) == [d EXCEPT !.on = FALSE, !.queued = <<>>, !.done = <<>>]
\* ReleaseBuffers(): VIDIOC_REQBUFS 0, unless nothing was mapped.
Released(d) == [d EXCEPT !.on = FALSE, !.queued = <<>>, !.done = <<>>, !.allocated = FALSE]

\* StopStreaming(): also when it was not streaming.
Stopped(d) == IF buffers = 0 THEN d ELSE Released(d)

\* VIDIOC_S_FMT is refused while buffers are allocated; the driver may refuse
\* or adjust anything else.
SetFormat(d, m) ==
    {[ok |-> FALSE, dev |-> d]} \cup
    (IF d.gone \/ d.allocated THEN {} ELSE {[ok |-> TRUE, dev |-> [d EXCEPT !.format = m]]})

\* StartStreaming(): no buffers, one of them can not be set up or queued, or
\* STREAMON fails; what was mapped so far is released.
StartStreaming(d) ==
    {[ok |-> FALSE, dev |-> d], [ok |-> FALSE, dev |-> Released(d)]}
    \cup (IF FirstBufferFails /\ ~d.gone THEN {[ok |-> FALSE, dev |-> [d EXCEPT !.allocated = TRUE]]} ELSE {})
    \cup (IF d.gone THEN {}
          ELSE {[ok |-> TRUE, dev |-> [d EXCEPT !.allocated = TRUE, !.on = TRUE, !.done = <<>>,
                                                !.queued = [i \in Indices |-> i]]]})

-----------------------------------------------------------------------------
(* DeviceControls.                                                         *)

\* SetAeLock() on a device whose locks are `locked` and `saved`.
SetAeLock(lock, locked, saved) ==
    IF lock = locked THEN /\ ae_locked' = locked /\ auto_exposure_mode' = saved
                          /\ UNCHANGED exposure
    ELSE /\ ae_locked' = lock
         /\ IF Has3aLock \/ (lock /\ exposure = "manual") \/ (~lock /\ saved = None)
            THEN auto_exposure_mode' = saved /\ UNCHANGED exposure
            ELSE /\ auto_exposure_mode' = IF lock THEN exposure ELSE None
                 /\ exposure' = IF lock THEN "manual" ELSE saved

\* Reset() when the format was set, then the locks of the request.
ApplyControls(reset, s) ==
    /\ SetAeLock(s.ae_lock, ~reset /\ ae_locked, IF reset THEN None ELSE auto_exposure_mode)
    /\ lock_3a' = IF Has3aLock THEN s.ae_lock ELSE lock_3a

-----------------------------------------------------------------------------
(* CaptureStream and the worker of the session.                            *)

\* configureStreams(), between requests: Stop(), and the format is set again.
Configure(m) ==
    /\ op.pc = "idle" /\ configures < MaxConfigures
    /\ configures' = configures + 1
    /\ dev' = Stopped(dev) /\ streaming' = FALSE /\ buffers' = 0
    /\ mode_' = m /\ format_' = None /\ interval_' = None /\ lost' = {}
    /\ UNCHANGED <<now, stamps, exposure, lock_3a, controls, fc, led, op>>

\* Process(): the plan of the request, and the LEDs.
BeginRequest(s) ==
    /\ op.pc = "idle" /\ mode_ # None
    /\ LET begun == Begin(fc, s, now)
       IN /\ fc' = begun.control
          /\ led' = IF begun.plan.lit THEN (IF led = None THEN now ELSE led) ELSE None
          /\ op' = [Idle EXCEPT !.pc = "prepare", !.settings = s, !.plan = begun.plan]
    /\ UNCHANGED <<now, configures, driver, stream, controls, lost>>

End(result) == op' = [op EXCEPT !.pc = "end", !.result = result, !.frame = None]

\* A stream that runs is left alone.
NeedsStartFirstOnly == ~streaming
\* Streaming is (re)started when it has to be, e.g. at another interval.
NeedsStart == ~streaming \/ op.settings.interval # interval_

\* Prepare() on a stream that goes on: only the controls.
PrepareRunning ==
    /\ op.pc = "prepare" /\ ~NeedsStart
    /\ ApplyControls(FALSE, op.settings)
    /\ op' = [op EXCEPT !.pc = "dequeue"]
    /\ UNCHANGED <<now, configures, stamps, dev, stream, fc, led, lost>>

\* A failed step ends the request; what was done before stays.
PrepareStart ==
    /\ op.pc = "prepare" /\ NeedsStart
    /\ \E d \in {Stopped(dev)} :
       \E set \in IF format_ = None THEN SetFormat(d, mode_) ELSE {[ok |-> TRUE, dev |-> d]} :
        /\ lost' = {}
        /\ IF ~set.ok
           THEN /\ dev' = set.dev /\ streaming' = FALSE /\ buffers' = 0
                /\ UNCHANGED <<format_, interval_, exposure, lock_3a, controls>> /\ End("error")
           ELSE \E applied \in BOOLEAN :
                \E started \in StartStreaming(IF applied THEN [set.dev EXCEPT !.interval = op.settings.interval]
                                              ELSE set.dev) :
                 /\ dev' = started.dev /\ streaming' = started.ok
                 /\ buffers' = IF started.ok THEN BufferCount ELSE 0
                 /\ format_' = mode_ /\ interval_' = op.settings.interval
                 /\ IF started.ok
                    THEN ApplyControls(format_ = None, op.settings) /\ op' = [op EXCEPT !.pc = "dequeue"]
                    ELSE /\ IF format_ = None THEN ae_locked' = FALSE /\ auto_exposure_mode' = None
                                              ELSE UNCHANGED controls
                         /\ lock_3a' = (lock_3a /\ format_ # None)
                         /\ UNCHANGED exposure /\ End("error")
    /\ UNCHANGED <<now, configures, stamps, mode_, fc, led>>

\* Any frame will do.
TooOldNever(frame) == FALSE
\* Did the frame start before the flash had settled?  Not known without a stamp.
TooOld(frame) == stamps /\ frame.exposed < op.plan.not_before

\* DequeueFrame(): the oldest frame.  Stale frames are skipped up to a limit, and
\* do not count as an attempt; the count goes up either way.
Dequeue ==
    /\ op.pc = "dequeue" /\ dev.done # <<>> /\ ~dev.gone
    /\ \E corrupt \in BOOLEAN :
        LET frame == Head(dev.done)
            skip == TooOld(frame) /\ op.stale < MaxStaleFrames
        IN op' = [op EXCEPT !.pc = IF skip THEN "requeue_stale" ELSE "requeue",
                            !.stale = IF TooOld(frame) THEN @ + 1 ELSE @,
                            !.frame = [index |-> frame.index, exposed |-> frame.exposed,
                                       mode |-> dev.format, corrupt |-> corrupt /\ ~skip]]
    /\ dev' = [dev EXCEPT !.done = Tail(@)]
    /\ UNCHANGED <<now, configures, stamps, exposure, lock_3a, stream, controls, fc, led, lost>>

\* No frame in time, or the device is gone.
DequeueFails ==
    /\ op.pc = "dequeue" /\ (dev.done = <<>> \/ dev.gone)
    /\ End(IF dev.gone THEN "gone" ELSE "error")
    /\ UNCHANGED <<now, configures, driver, stream, controls, fc, led, lost>>

\* A frame that is converted without going back.
GivenBackUnlessUsed(d) ==
    IF op.pc = "requeue" /\ ~op.frame.corrupt THEN d ELSE [d EXCEPT !.queued = Append(@, op.frame.index)]
GivenBack(d) == [d EXCEPT !.queued = Append(@, op.frame.index)]

\* What follows the frame: the next one, the limit, or the result.  A corrupt or
\* undecodable frame is an attempt.
AfterFrame ==
    IF op.pc = "requeue_stale" THEN op' = [op EXCEPT !.pc = "dequeue", !.frame = None]
    ELSE IF ~op.frame.corrupt THEN op' = [op EXCEPT !.pc = "end", !.result = "ok"]
    ELSE IF op.attempt = MaxSkippedFrames THEN End("error")
    ELSE op' = [op EXCEPT !.pc = "dequeue", !.frame = None, !.attempt = @ + 1]

\* The buffer goes back to the driver, which may not take it.
Requeue ==
    /\ op.pc \in {"requeue_stale", "requeue"}
    /\ \/ /\ ~dev.gone /\ dev' = GivenBack(dev) /\ UNCHANGED lost /\ AfterFrame
       \/ /\ ~dev.gone /\ lost' = lost \cup {op.frame.index} /\ UNCHANGED dev /\ AfterFrame
       \/ /\ dev.gone /\ End("gone") /\ lost' = lost \cup {op.frame.index} /\ UNCHANGED dev
    /\ UNCHANGED <<now, configures, stamps, exposure, lock_3a, stream, controls, fc, led>>

\* The flash that was fired for this frame only goes off; the brightness of a
\* frame captured without flash is remembered.
EndRequest ==
    /\ op.pc = "end"
    /\ LET off == op.plan.lit /\ ~op.plan.keep_lit
           unlit == IF off THEN Unlit(fc) ELSE fc
       IN /\ led' = IF off THEN None ELSE led
          /\ \E dark \in BOOLEAN :
                fc' = IF op.result = "ok" /\ WantsBrightness(unlit, op.settings)
                      THEN SetBrightness(unlit, dark) ELSE unlit
    /\ op' = Idle
    /\ UNCHANGED <<now, configures, driver, stream, controls, lost>>

Step == PrepareRunning \/ PrepareStart \/ Dequeue \/ DequeueFails \/ Requeue \/ EndRequest

Next ==
    \/ Tick \/ DriverFrame \/ Unplug
    \/ \E m \in Modes : Configure(m)
    \/ \E s \in Settings : BeginRequest(s)
    \/ Step

Spec == Init /\ [][Next]_vars

-----------------------------------------------------------------------------
\* The buffers are never forgotten: while the device streams each is with the
\* driver, in the worker's hands, or was refused by the driver; when it does not
\* stream the driver has none, so that it takes the next format.
BuffersAccounted ==
    /\ (streaming /\ ~dev.gone) =>
                    LET held == IF op.frame # None /\ op.pc # "end" THEN {op.frame.index} ELSE {}
                        done == {dev.done[i].index : i \in DOMAIN dev.done}
                    IN /\ ToSet(dev.queued) \cup done \cup held \cup lost = Indices
                       /\ Cardinality(ToSet(dev.queued)) + Cardinality(done) + Cardinality(held)
                            + Cardinality(lost) = BufferCount
    /\ ~streaming => ~dev.allocated

\* A request gets a frame of the capture mode that is configured, also right after
\* it changed, taken after the interval was set to the request's.
FrameAsConfigured ==
    (op.pc = "end" /\ op.result = "ok") =>
        /\ op.frame.mode = mode_ /\ format_ = mode_
        /\ interval_ = op.settings.interval

\* "a frame that was exposed after they came on": a frame taken with the flash
\* was exposed while the LEDs were lit and had settled, unless the device does
\* not stamp its frames or went on delivering old ones past the limit.
ExposedWithFlash ==
    (op.pc = "end" /\ op.result = "ok" /\ op.plan.not_before > 0) =>
        /\ led # None
        /\ \/ ~stamps \/ op.stale > MaxStaleFrames
           \/ op.frame.exposed >= led + Settle

\* "Defaults when a session starts: ... 3A unlocked", and a request without AE
\* lock runs with automatic exposure.
UnlockedAsAsked ==
    (op.pc = "dequeue" /\ ~op.settings.ae_lock) => exposure = "auto" /\ ~lock_3a
=============================================================================
