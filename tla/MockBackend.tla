------------------------------ MODULE MockBackend ------------------------------
(***************************************************************************)
(* One sensor of the mock backend (backends/mock/MockBackend.cpp) and the  *)
(* PeriodicWorker that makes its samples.  The frontend passes one call at *)
(* a time.  mutex_ of the backend is a lock that a call may hold while it  *)
(* waits; the worker's own mutex is only ever held for one of the steps.   *)
(* What a sample holds does not matter, only whether it repeats the last.  *)
(***************************************************************************)
EXTENDS Naturals

VARIABLES
    mutex,      \* who holds mutex_ of the backend: "call" or nobody
    sensor,     \* active, a last_event is kept
    mode,       \* operation_mode_
    worker,     \* the object: exists, stop_requested_
    thread,     \* its thread: "none", "loop", "task", "post", "wait", "ended"
    period,     \* "changed" until the waiting thread has seen the new period
    call,       \* the call under way
    attached    \* post_events_ is set: the backend is initialized

vars == <<mutex, sensor, mode, worker, thread, period, call, attached>>

NoWorker == [exists |-> FALSE, stop |-> FALSE]

Init ==
    /\ mutex = "free"
    /\ sensor = [active |-> FALSE, last |-> FALSE]
    /\ mode = "NORMAL"
    /\ worker = NoWorker
    /\ thread = "none"
    /\ period = "known"
    /\ call = "idle"
    /\ attached = TRUE

-----------------------------------------------------------------------------
(* PeriodicWorker::Run() and the task, GenerateSample().                   *)

RunTask ==
    /\ thread = "loop"
    /\ thread' = IF worker.stop THEN "ended" ELSE "task"
    /\ UNCHANGED <<mutex, sensor, mode, worker, period, call, attached>>

\* The sample is made under mutex_ and posted without it.  A sensor whose
\* value changes only sometimes posts nothing that repeats its last event.
GenerateSample ==
    /\ thread = "task" /\ mutex = "free"
    /\ IF sensor.active /\ mode = "NORMAL"
         THEN \E posts \in IF sensor.last THEN BOOLEAN ELSE {TRUE} :
                /\ thread' = IF posts /\ attached THEN "post" ELSE "wait"
                /\ sensor' = [sensor EXCEPT !.last = TRUE]
         ELSE thread' = "wait" /\ UNCHANGED sensor
    /\ UNCHANGED <<mutex, mode, worker, period, call, attached>>

Post ==
    /\ thread = "post"
    /\ thread' = "wait"
    /\ UNCHANGED <<mutex, sensor, mode, worker, period, call, attached>>

\* The wait ends at the deadline, or at once when the worker is to stop; a
\* new period moves the deadline.
Wait ==
    /\ thread = "wait"
    /\ IF period = "changed" /\ ~worker.stop
         THEN \E passed \in BOOLEAN : thread' = IF passed THEN "loop" ELSE "wait"
         ELSE thread' = "loop"
    /\ period' = "known"
    /\ UNCHANGED <<mutex, sensor, mode, worker, call, attached>>

-----------------------------------------------------------------------------
(* The calls of the frontend.                                              *)

\* PeriodicWorker::Start() of a worker made by this call: its thread starts.
Activate ==
    /\ call = "idle" /\ mutex = "free" /\ attached /\ ~sensor.active
    /\ sensor' = [active |-> TRUE, last |-> FALSE]
    /\ worker' = [exists |-> TRUE, stop |-> FALSE]
    /\ thread' = "loop"
    /\ period' = "known"
    /\ UNCHANGED <<mutex, mode, call, attached>>

\* A mutant: mutex_ is kept while the worker is stopped.
WhileStoppingKept == "call"

\* Who holds mutex_ while the worker is stopped.
WhileStopping == "free"

\* The worker is moved out of the sensor, so that the call can stop it
\* without mutex_.
Deactivate ==
    /\ call = "idle" /\ mutex = "free" /\ sensor.active
    /\ sensor' = [active |-> FALSE, last |-> FALSE]
    /\ mutex' = WhileStopping
    /\ call' = "stop"
    /\ UNCHANGED <<mode, worker, thread, period, attached>>

Deinitialize ==
    /\ call = "idle" /\ mutex = "free" /\ attached
    /\ sensor' = [sensor EXCEPT !.active = FALSE]
    /\ attached' = FALSE
    /\ call' = IF worker.exists THEN "stop" ELSE "clear"
    /\ UNCHANGED <<mutex, mode, worker, thread, period>>

\* PeriodicWorker::Stop(): ask, wake the thread, join it.
StopAsk ==
    /\ call = "stop"
    /\ worker' = [worker EXCEPT !.stop = TRUE]
    /\ call' = "join"
    /\ UNCHANGED <<mutex, sensor, mode, thread, period, attached>>

StopJoin ==
    /\ call = "join" /\ thread = "ended"
    /\ worker' = NoWorker
    /\ thread' = "none"
    /\ mutex' = "free"
    /\ call' = IF attached THEN "idle" ELSE "clear"
    /\ UNCHANGED <<sensor, mode, period, attached>>

\* The end of Deinitialize(), and a discovery that starts over.
Clear ==
    /\ call = "clear" /\ mutex = "free"
    /\ sensor' = [active |-> FALSE, last |-> FALSE]
    /\ attached' \in BOOLEAN
    /\ call' = IF attached' THEN "idle" ELSE "clear"
    /\ UNCHANGED <<mutex, mode, worker, thread, period>>

Batch ==
    /\ call = "idle" /\ mutex = "free" /\ attached
    /\ period' = IF worker.exists THEN "changed" ELSE period
    /\ UNCHANGED <<mutex, sensor, mode, worker, thread, call, attached>>

SetOperationMode ==
    /\ call = "idle" /\ attached
    /\ mode' \in {"NORMAL", "DATA_INJECTION"}
    /\ UNCHANGED <<mutex, sensor, worker, thread, period, call, attached>>

Worker == RunTask \/ GenerateSample \/ Post \/ Wait
Call == Activate \/ Deactivate \/ Deinitialize \/ Batch \/ SetOperationMode
CallStep == StopAsk \/ StopJoin

Next == Worker \/ Call \/ CallStep \/ Clear

Spec == Init /\ [][Next]_vars /\ WF_vars(Worker) /\ WF_vars(CallStep)

-----------------------------------------------------------------------------
TypeOK ==
    /\ mutex \in {"free", "call"}
    /\ sensor \in [active : BOOLEAN, last : BOOLEAN]
    /\ mode \in {"NORMAL", "DATA_INJECTION"}
    /\ worker \in [exists : BOOLEAN, stop : BOOLEAN]
    /\ thread \in {"none", "loop", "task", "post", "wait", "ended"}
    /\ period \in {"known", "changed"}
    /\ call \in {"idle", "stop", "join", "clear"}
    /\ attached \in BOOLEAN

\* A call that stops the worker ends, wherever the thread is: also between
\* the wait and the mutex_ its task needs (MockBackend::Activate and
\* Deinitialize, PeriodicWorker::Stop and Run).
StopReturns == (call = "stop") ~> (call \in {"idle", "clear"})

\* After the call that deactivated the sensor returned none of its samples
\* is on its way to the frontend (GenerateSample posts without mutex_).
SilentWhenOff == (call = "idle" /\ ~sensor.active) => thread \notin {"task", "post"}
=============================================================================
