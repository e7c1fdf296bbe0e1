------------------------------ MODULE AudioPcm ------------------------------
(***************************************************************************)
(* One PCM device (alsa/AlsaPcm.cpp): opening with the fallback to the     *)
(* plug layer, the write and read loops with their recovery, drain and     *)
(* flush.  The kernel's device underneath may run dry, be suspended, be    *)
(* interrupted, or go away in the middle of a burst.                       *)
(***************************************************************************)
EXTENDS Integers, Sequences

CONSTANTS
    Burst,                  \* frames of one transfer
    Buffer,                 \* frames of the ring buffer (twice the burst)
    MaxRecoverAttempts, ResumeAttempts,
    MaxBursts,              \* bound on the transfers
    Gone, None

VARIABLES
    state,          \* snd_pcm_state(): "OPEN", "PREPARED", "RUNNING", "XRUN", "SUSPENDED", Gone
    is_input,
    is_plug,        \* None until Open() has found a candidate that works
    queued,         \* frames in the ring buffer
    taken,          \* sequence numbers of the frames the device took or gave, this burst
    op,             \* the transfer under way: [pc, remaining, data, attempts, resumes, err]
    result,         \* what the last transfer returned: None, "ok" or "error"
    bursts

vars == <<state, is_input, is_plug, queued, taken, op, result, bursts>>

Idle == [pc |-> "idle", remaining |-> 0, data |-> 0, attempts |-> 0, resumes |-> 0, err |-> None]

TypeOK ==
    /\ state \in {"OPEN", "PREPARED", "RUNNING", "XRUN", "SUSPENDED", Gone}
    /\ queued \in 0..Buffer
    /\ op.pc \in {"idle", "io", "recover", "resume", "prepare"}
    /\ op.remaining \in 0..Burst /\ op.data + op.remaining \in {0, Burst}

Init ==
    /\ state = "OPEN" /\ is_input \in BOOLEAN /\ is_plug = None
    /\ queued = 0 /\ taken = <<>> /\ op = Idle /\ result = None /\ bursts = 0

-----------------------------------------------------------------------------
\* Open(): the device itself, then a plug on top of it.  hw_params() may refuse
\* the configuration and prepare() what hw_params() accepted; the candidate
\* that is handed out is prepared.  Without one the next transfer tries again.
TryOpen(plug) == state' = "PREPARED" /\ is_plug' = plug

Open ==
    /\ state = "OPEN"
    /\ \/ TryOpen(FALSE)
       \/ TryOpen(TRUE)
    /\ UNCHANGED <<is_input, queued, taken, op, result, bursts>>

\* EnsureDevicesReady() starts capture that is prepared.
StartCapture ==
    /\ is_input /\ state = "PREPARED" /\ op.pc = "idle"
    /\ state' = "RUNNING"
    /\ UNCHANGED <<is_input, is_plug, queued, taken, op, result, bursts>>

\* The hardware moves on: it plays what is queued or fills the buffer, and
\* stops with an xrun when it can not.
Hardware ==
    /\ state = "RUNNING"
    /\ IF is_input
       THEN IF queued < Buffer THEN queued' = queued + 1 /\ UNCHANGED state
            ELSE state' = "XRUN" /\ UNCHANGED queued
       ELSE IF queued > 0 THEN queued' = queued - 1 /\ UNCHANGED state
            ELSE state' = "XRUN" /\ UNCHANGED queued
    /\ UNCHANGED <<is_input, is_plug, taken, op, result, bursts>>

Suspend ==
    /\ state \in {"PREPARED", "RUNNING"} /\ state' = "SUSPENDED"
    /\ UNCHANGED <<is_input, is_plug, queued, taken, op, result, bursts>>

Unplug ==
    /\ state \notin {"OPEN", Gone} /\ state' = Gone
    /\ UNCHANGED <<is_input, is_plug, queued, taken, op, result, bursts>>

-----------------------------------------------------------------------------
\* Write() or Read() of one burst.
Begin ==
    /\ op.pc = "idle" /\ state # "OPEN" /\ bursts < MaxBursts
    /\ op' = [Idle EXCEPT !.pc = "io", !.remaining = Burst]
    /\ taken' = <<>> /\ result' = None /\ bursts' = bursts + 1
    /\ UNCHANGED <<state, is_input, is_plug, queued>>

\* The frames n after the first op.data of the burst.
Frames(n) == [i \in 1..n |-> op.data + i]
ProgressAgain(n) == [op EXCEPT !.remaining = @ - n, !.attempts = 0]
ProgressOf(n) == [op EXCEPT !.remaining = @ - n, !.data = @ + n, !.attempts = 0]

Finish(r) == op' = Idle /\ result' = r

\* snd_pcm_writei() / readi() of what remains: a part of it, or an error.  A
\* blocking call with room (or data) transfers at least one frame; a prepared
\* device is started by it.
Room == IF is_input THEN queued ELSE Buffer - queued
Transferred ==
    /\ op.pc = "io" /\ op.remaining > 0 /\ state \in {"PREPARED", "RUNNING"}
    /\ \E n \in 1..op.remaining :
        /\ n <= Room
        /\ queued' = IF is_input THEN queued - n ELSE queued + n
        /\ taken' = taken \o Frames(n)
        /\ op' = ProgressOf(n)
    /\ state' = "RUNNING"
    /\ UNCHANGED <<is_input, is_plug, result, bursts>>

\* A capture that is prepared starts on the first read and waits for data.
ReadStarts ==
    /\ op.pc = "io" /\ is_input /\ state = "PREPARED" /\ queued = 0
    /\ state' = "RUNNING"
    /\ UNCHANGED <<is_input, is_plug, queued, taken, op, result, bursts>>

Errors ==
    CASE state = "XRUN" -> {"EPIPE"}
      [] state = "SUSPENDED" -> {"ESTRPIPE"}
      [] state = Gone -> {"ENODEV"}
      [] OTHER -> {"EINTR"}

\* An error counts as an attempt; the sixth in a row ends the transfer.
Failed ==
    /\ op.pc = "io" /\ op.remaining > 0
    /\ \E e \in Errors :
        IF op.attempts + 1 > MaxRecoverAttempts THEN Finish("error")
        ELSE /\ op' = [op EXCEPT !.attempts = @ + 1, !.pc = "recover", !.err = e, !.resumes = 0]
             /\ UNCHANGED result
    /\ UNCHANGED <<state, is_input, is_plug, queued, taken, bursts>>

\* Recover(): the class of the error decides.
Recover ==
    /\ op.pc = "recover"
    /\ CASE op.err = "ESTRPIPE" -> op' = [op EXCEPT !.pc = "resume"] /\ UNCHANGED result
         [] op.err \in {"EPIPE", "EINTR"} -> op' = [op EXCEPT !.pc = "prepare"] /\ UNCHANGED result
         [] OTHER -> Finish("error")
    /\ UNCHANGED <<state, is_input, is_plug, queued, taken, bursts>>

\* snd_pcm_resume() succeeds, fails (prepare is next), or asks to be tried again.
Resume ==
    /\ op.pc = "resume"
    /\ \/ /\ state = "SUSPENDED" /\ state' = "RUNNING" /\ op' = [op EXCEPT !.pc = "io"]
       \/ /\ op' = [op EXCEPT !.pc = "prepare"] /\ UNCHANGED state
       \/ /\ state = "SUSPENDED" /\ UNCHANGED state
          /\ op' = IF op.resumes + 1 < ResumeAttempts THEN [op EXCEPT !.resumes = @ + 1]
                   ELSE [op EXCEPT !.pc = "prepare"]
    /\ UNCHANGED <<is_input, is_plug, queued, taken, result, bursts>>

\* A forgetful recovery: attempts start over once the device is prepared.
PrepareForgets ==
    /\ op.pc = "prepare"
    /\ IF state = Gone
       THEN Finish("error") /\ UNCHANGED <<state, queued>>
       ELSE /\ state' = "PREPARED" /\ queued' = 0
            /\ op' = [op EXCEPT !.pc = "io", !.attempts = 0] /\ UNCHANGED result
    /\ UNCHANGED <<is_input, is_plug, taken, bursts>>

\* snd_pcm_prepare() empties the ring buffer; it fails once the device is gone.
Prepare ==
    /\ op.pc = "prepare"
    /\ IF state = Gone
       THEN Finish("error") /\ UNCHANGED <<state, queued>>
       ELSE /\ state' = "PREPARED" /\ queued' = 0
            /\ op' = [op EXCEPT !.pc = "io"] /\ UNCHANGED result
    /\ UNCHANGED <<is_input, is_plug, taken, bursts>>

Complete ==
    /\ op.pc = "io" /\ op.remaining = 0 /\ Finish("ok")
    /\ UNCHANGED <<state, is_input, is_plug, queued, taken, bursts>>

\* drain() of an output waits until the queue has been played, flush() drops it;
\* both prepare the device again and ignore failures.
Emptied ==
    /\ op.pc = "idle" /\ state \in {"PREPARED", "RUNNING", "XRUN", "SUSPENDED"}
    /\ state' = "PREPARED" /\ queued' = 0
    /\ UNCHANGED <<is_input, is_plug, taken, op, result, bursts>>
Drain == ~is_input /\ Emptied
Flush == (state # "PREPARED" \/ queued # 0) /\ Emptied

Call == Begin \/ Drain \/ Flush
Step == Transferred \/ ReadStarts \/ Failed \/ Recover \/ Resume \/ Prepare \/ Complete

Next == Open \/ StartCapture \/ Hardware \/ Suspend \/ Unplug \/ Call \/ Step

\* The worker's thread runs on, and running hardware plays or captures.
Fairness == WF_vars(Step) /\ WF_vars(Hardware)
Spec == Init /\ [][Next]_vars /\ Fairness

-----------------------------------------------------------------------------
\* A transfer that succeeds has moved every frame of the burst exactly once and
\* in order, whatever was recovered in between.
WholeBurst == result = "ok" => taken = [i \in 1..Burst |-> i]

\* A transfer returns: the loops end although the device may fail for ever.
TransferReturns == (op.pc # "idle") ~> (op.pc = "idle")
=============================================================================
