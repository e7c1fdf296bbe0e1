---------------------------- MODULE CameraSession ----------------------------
(***************************************************************************)
(* A capture session (camera session/CameraDeviceSession.cpp): requests    *)
(* come in on the framework's request thread and are processed in order by *)
(* the worker, while other binder threads flush, reconfigure or close it.  *)
(*                                                                         *)
(* A critical section of lock_ is one action; what the worker does between *)
(* two of them (capture_, flash, output buffers, callbacks) is split where *)
(* another thread could tell.  A capture succeeds, fails or finds the      *)
(* device gone.  Metadata, image data and fences are left out: a fence that*)
(* times out is one more way for an output to fail.                        *)
(***************************************************************************)
EXTENDS Naturals, Sequences, FiniteSets

CONSTANTS
    MaxRequests,   \* bound: requests the framework makes
    Streams,       \* stream IDs
    Buffers,       \* buffer IDs of a stream
    Controllers    \* binder threads that flush, configure and close

ASSUME SessionAssumption == MaxRequests \in Nat

Requests == 1 .. MaxRequests
NoRequest == [id |-> 0, outputs |-> {}]
Outcomes == {"ok", "error"}

VARIABLES
    closed, stopping, flushing, busy, queue,   \* the members of those names
    streams,      \* streams_: the configured stream IDs
    cache,        \* buffer_cache_: imported <<stream, buffer>> pairs
    next,         \* requests the framework made so far
    submit,       \* processCaptureRequest(): "idle", "entered" or "prepared"
    pending,      \* the request it prepared and has not queued yet
    flushers,     \* controllers waiting in flush()
    closer,       \* close(): "none", "joining" or "done"
    worker,       \* worker: see TypeOK
    current,      \* the request it took
    streaming,    \* capture_ is streaming
    lost,         \* device_lost_
    lit,          \* the flash is lit by this session
    freed,        \* requests one of whose handles was freed
    accepted, answered   \* what the framework saw, for the abstract service

shared == <<closed, stopping, flushing, busy, queue, streams, cache>>
framework == <<next, submit, pending>>
capture == <<streaming, lost, lit>>
log == <<accepted, answered>>
vars == <<shared, framework, flushers, closer, worker, current, capture, freed, log>>

Init ==
    /\ closed = FALSE /\ stopping = FALSE /\ flushing = FALSE /\ busy = FALSE /\ queue = <<>>
    /\ streams = {} /\ cache = {}
    /\ next = 0 /\ submit = "idle" /\ pending = NoRequest
    /\ flushers = {} /\ closer = "none"
    /\ worker = "wait" /\ current = NoRequest
    /\ streaming = FALSE /\ lost = FALSE /\ lit = FALSE
    /\ freed = {}
    /\ accepted = <<>> /\ answered = <<>>

InFlight ==
    {queue[i] : i \in 1 .. Len(queue)} \cup {pending} \cup (IF worker = "unbusy" THEN {} ELSE {current})
OutputsInFlight == UNION {r.outputs : r \in InFlight}

\* Frees imported buffers; requests that hold them are left with dead handles.
Free(bs) ==
    /\ cache' = cache \ bs
    /\ freed' = freed \cup {r.id : r \in {q \in InFlight : q.outputs \cap bs # {}}}

-----------------------------------------------------------------------------
(* Binder threads. *)

\* Mutant: configureStreams() overlooks the request the worker is busy with.
IdleQueue == queue = <<>>

\* No "requests in flight".
Idle == queue = <<>> /\ ~busy

\* configureStreams() with a combination PlanStreams() accepts; the framework
\* stops its request thread first.  capture_.Configure() stops the stream.
ConfigureStreams(ss) ==
    /\ submit = "idle"
    /\ ~closed /\ ~stopping /\ Idle
    /\ Free({b \in cache : b[1] \notin ss})
    /\ streams' = ss
    /\ streaming' = FALSE
    /\ UNCHANGED <<closed, stopping, flushing, busy, queue, framework, flushers, closer, worker,
                   current, lost, lit, log>>

\* processCaptureRequest(), FreeBuffersLocked(): the framework names buffers
\* that it dropped, none of which is in flight.
ProcessCaptureRequest(dropped) ==
    /\ submit = "idle" /\ next < MaxRequests
    /\ ~closed /\ ~stopping
    /\ dropped \subseteq cache \ OutputsInFlight
    /\ Free(dropped)
    /\ submit' = "entered" /\ next' = next + 1
    /\ UNCHANGED <<closed, stopping, flushing, busy, queue, streams, pending, flushers, closer,
                   worker, current, capture, log>>

\* Prepare(), in a critical section of its own: unknown buffers are imported.
Prepare(outputs) ==
    /\ submit = "entered"
    /\ outputs # {} /\ outputs \subseteq streams \X Buffers /\ outputs \cap OutputsInFlight = {}
    /\ cache' = cache \cup outputs
    /\ pending' = [id |-> next, outputs |-> outputs]
    /\ submit' = "prepared"
    /\ UNCHANGED <<closed, stopping, flushing, busy, queue, streams, next, flushers, closer,
                   worker, current, capture, freed, log>>

\* Prepare() refuses the request: no outputs or settings, or a stream or buffer
\* that is unknown (all of them are after close()) or can not be imported.
\* What it imported before stays in the cache.
RejectRequest(imported) ==
    /\ submit = "entered"
    /\ imported \subseteq streams \X Buffers
    /\ cache' = cache \cup imported
    /\ submit' = "idle"
    /\ UNCHANGED <<closed, stopping, flushing, busy, queue, streams, next, pending, flushers,
                   closer, worker, current, capture, freed, log>>

\* The request is queued, in a third critical section.
QueueRequest ==
    /\ submit = "prepared"
    /\ queue' = Append(queue, pending)
    /\ accepted' = Append(accepted, pending.id)
    /\ submit' = "idle" /\ pending' = NoRequest
    /\ UNCHANGED <<closed, stopping, flushing, busy, streams, cache, next, flushers, closer,
                   worker, current, capture, freed, answered>>

Flush(c) ==
    /\ c \notin flushers /\ ~closed
    /\ flushing' = TRUE
    /\ flushers' = flushers \cup {c}
    /\ UNCHANGED <<closed, stopping, busy, queue, streams, cache, framework, closer, worker,
                   current, capture, freed, log>>

\* Mutant: flush() forgets the request the worker is busy with.
DrainedQueue == queue = <<>>

\* What flush() waits for.
Drained == queue = <<>> /\ ~busy

FlushReturns(c) ==
    /\ c \in flushers /\ Drained
    /\ flushing' = FALSE
    /\ flushers' = flushers \ {c}
    /\ UNCHANGED <<closed, stopping, busy, queue, streams, cache, framework, closer, worker,
                   current, capture, freed, log>>

Close ==
    /\ closer = "none"
    /\ stopping' = TRUE
    /\ closer' = "joining"
    /\ UNCHANGED <<closed, flushing, busy, queue, streams, cache, framework, flushers, worker,
                   current, capture, freed, log>>

\* worker_.join().
WorkerGone == worker = "exited"

\* capture_.Stop() and flash_->Release().
StopAll == streaming' = FALSE /\ lit' = FALSE

CloseReturns ==
    /\ closer = "joining" /\ WorkerGone
    /\ closer' = "done"
    /\ StopAll
    /\ Free(cache)
    /\ streams' = {} /\ closed' = TRUE
    /\ UNCHANGED <<stopping, flushing, busy, queue, framework, flushers, worker, current, lost,
                   log>>

-----------------------------------------------------------------------------
(* The worker, Run(). *)

\* Mutant: the newest request is served first.
TakenLast == Len(queue)

\* queue_.pop_front().
Taken == 1

Without(i) == SubSeq(queue, 1, i - 1) \o SubSeq(queue, i + 1, Len(queue))

\* Requests that are still queued are returned with errors.
Discard == flushing \/ stopping

\* Mutant: the worker leaves requests behind when it is told to stop.
ExitsStopping == stopping

\* Mutant: the worker only looks at stopping_ when it is woken by a request.
ExitsNever == FALSE

\* The loop ends when there is nothing left to do.
Exits == stopping /\ queue = <<>>

MarkBusy == busy' = TRUE

TakeRequest ==
    /\ worker = "wait" /\ queue # <<>> /\ ~Exits
    /\ current' = queue[Taken] /\ queue' = Without(Taken)
    /\ MarkBusy
    /\ worker' = IF Discard \/ lost THEN "fail" ELSE "capture"
    /\ UNCHANGED <<closed, stopping, flushing, streams, cache, framework, flushers, closer,
                   capture, freed, log>>

Exit ==
    /\ worker = "wait" /\ Exits
    /\ worker' = "exited"
    /\ UNCHANGED <<shared, framework, flushers, closer, current, capture, freed, log>>

\* Process() up to the captured frame: the flash is lit for the frame, or kept
\* lit, and the stream is started when it is not running.
CaptureFrame(flash, result) ==
    /\ worker = "capture"
    /\ lit' = (flash = "keep")
    /\ streaming' \in IF result = "ok" THEN {TRUE} ELSE BOOLEAN
    /\ lost' = (result = "lost")
    /\ worker' = IF result = "ok" THEN "write" ELSE "fail"
    /\ UNCHANGED <<shared, framework, flushers, closer, current, freed, log>>

\* The outputs are written; some may fail, which is told per buffer.
WriteOutputs ==
    /\ worker = "write"
    /\ worker' = "answer"
    /\ UNCHANGED <<shared, framework, flushers, closer, current, capture, freed, log>>

Answered(outcome) ==
    /\ answered' = Append(answered, [request |-> current.id, outcome |-> outcome])
    /\ UNCHANGED accepted

\* SendResult() with all buffers, or Fail(), and back to the lock.
Answer ==
    /\ worker \in {"answer", "fail"}
    /\ Answered(IF worker = "answer" THEN "ok" ELSE "error")
    /\ worker' = "unbusy"
    /\ UNCHANGED <<shared, framework, flushers, closer, current, capture, freed>>

Unbusy ==
    /\ worker = "unbusy"
    /\ busy' = FALSE /\ current' = NoRequest
    /\ worker' = "wait"
    /\ UNCHANGED <<closed, stopping, flushing, queue, streams, cache, framework, flushers, closer,
                   capture, freed, log>>

-----------------------------------------------------------------------------
Worker ==
    \/ TakeRequest \/ Exit
    \/ \E flash \in {"off", "frame", "keep"}, result \in {"ok", "error", "lost"} :
          CaptureFrame(flash, result)
    \/ WriteOutputs \/ Answer \/ Unbusy

Submit ==
    \/ \E outputs \in SUBSET (streams \X Buffers) : Prepare(outputs) \/ RejectRequest(outputs)
    \/ QueueRequest

Framework ==
    \/ \E ss \in SUBSET Streams : ConfigureStreams(ss)
    \/ \E dropped \in SUBSET cache : ProcessCaptureRequest(dropped)
    \/ \E c \in Controllers : Flush(c)
    \/ Close

Return == CloseReturns \/ \E c \in Controllers : FlushReturns(c)

\* The framework may stop calling; the session is over once it is closed.
Next == Framework \/ Submit \/ Return \/ Worker

\* Binder and worker threads are scheduled; DequeueFrame() and fences time out.
Fairness ==
    /\ WF_vars(Worker) /\ WF_vars(Submit) /\ WF_vars(CloseReturns)
    /\ \A c \in Controllers : WF_vars(FlushReturns(c))

Spec == Init /\ [][Next]_vars
FairSpec == Spec /\ Fairness

-----------------------------------------------------------------------------
(* Properties. *)

RequestType == [id : 0 .. MaxRequests, outputs : SUBSET (Streams \X Buffers)]

TypeOK ==
    /\ closed \in BOOLEAN /\ stopping \in BOOLEAN /\ flushing \in BOOLEAN /\ busy \in BOOLEAN
    /\ queue \in Seq(RequestType) /\ {current, pending} \subseteq RequestType
    /\ streams \subseteq Streams /\ cache \subseteq Streams \X Buffers
    /\ next \in 0 .. MaxRequests /\ submit \in {"idle", "entered", "prepared"}
    /\ flushers \subseteq Controllers /\ closer \in {"none", "joining", "done"}
    /\ worker \in {"wait", "fail", "capture", "write", "answer", "unbusy", "exited"}
    /\ busy = (worker \notin {"wait", "exited"})
    /\ streaming \in BOOLEAN /\ lost \in BOOLEAN /\ lit \in BOOLEAN
    /\ freed \subseteq Requests

\* "Accepts requests on binder threads and processes them in order on its own
\* worker thread": the session implements the abstract service.
Service == INSTANCE CaptureService
InOrder == Service!Spec

\* flush() returns when every request accepted before has been answered, also
\* the one the worker had taken.
FlushComplete ==
    [][\A c \in Controllers : FlushReturns(c) => Len(answered) = Len(accepted)]_vars

\* The worker never writes to a buffer that was freed: neither a dropped buffer
\* nor a stream that went away takes the handle from a request in progress.
NoWriteAfterFree == worker = "write" => current.id \notin freed

\* A request the worker can still see is answered, whatever is flushed or closed.
QueueServed ==
    \A r \in Requests :
        (worker # "exited" /\ \E i \in 1 .. Len(queue) : queue[i].id = r)
            ~> \E i \in 1 .. Len(answered) : answered[i].request = r

\* close() always gets the worker to end.
CloseEnds == closer = "joining" ~> closer = "done"

\* The worker serves what is queued and is gone when close() asks for it.
WorkerServes == QueueServed /\ CloseEnds

\* "Pending requests are returned with errors on the way out": nothing that was
\* accepted stays unanswered once close() returned.
PendingReturned == closer = "done" => Len(answered) = Len(accepted)
=============================================================================
