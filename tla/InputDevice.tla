------------------------------ MODULE InputDevice ------------------------------
(***************************************************************************)
(* One /dev/input/eventN node with an accelerometer and a proximity switch *)
(* (backends/input/InputDevice.cpp).  The node is open, and a reader       *)
(* thread runs, while one of the sensors is active.  InputBackend passes   *)
(* one call at a time; its mutex_ is held throughout, the device's own     *)
(* mutex_ only for the sections that are the steps below.                  *)
(*                                                                         *)
(* Events of the kernel are "SW" and "ABS" reports, each ended by "SYN".   *)
(* The values of the accelerometer do not matter here; whether a sample is *)
(* decimated (period and time of the last one) is a choice.  What a report *)
(* makes of the sensors is posted afterwards, without the mutex: that part *)
(* of the way is SensorManager's Sample.                                   *)
(***************************************************************************)
EXTENDS Naturals, Sequences, FiniteSets

CONSTANTS
    MaxQueue,       \* bound: events the client's queue of the node holds
    MaxFlips,       \* bound: changes of the switch
    FlushesQueue    \* EVIOCGSW drops the SW events still queued

Handles == {"accel", "switch"}

VARIABLES
    kernel,     \* the switch, its changes, the queue of the open node, unplugged or not
    active,     \* Sensor::active
    last,       \* what last_event of the switch says: {} for none
    emitted,    \* last_emit_ns of the accelerometer is not 0
    raw,        \* raw[0] of the switch
    dirty,      \* the sensors with raw_dirty
    reader,     \* the thread: where it is, and the events it read
    running,    \* reader_running_
    wake,       \* a byte is in the wake pipe
    fd,         \* fd_ is open
    call        \* the call of the backend

device == <<active, last, emitted, raw, dirty>>
thread == <<reader, running, wake, fd>>
vars == <<kernel, device, thread, call>>

NoReader == [pc |-> "none", batch |-> <<>>]
NoCall == [pc |-> "idle", op |-> "none"]
Report(type, value) == <<[type |-> type, value |-> value], [type |-> "SYN", value |-> FALSE]>>

Fresh ==
    /\ active = [s \in Handles |-> FALSE]
    /\ last = {}
    /\ emitted = FALSE
    /\ raw = FALSE
    /\ dirty = {}

Init ==
    /\ \E sw \in BOOLEAN : kernel = [sw |-> sw, flips |-> 0, queue |-> <<>>, gone |-> FALSE]
    /\ Fresh
    /\ reader = NoReader /\ running = FALSE /\ wake = FALSE /\ fd = FALSE
    /\ call = NoCall

-----------------------------------------------------------------------------
(* HandleSyncReport(): every active sensor with new values makes an event. *)

Collected == dirty \cap {s \in Handles : active[s]}

HandleSyncReport ==
    /\ dirty' = dirty \ Collected
    /\ \E sample \in IF "accel" \in Collected THEN {TRUE, emitted} ELSE {emitted} :
         emitted' = sample
    /\ last' = IF "switch" \in Collected THEN {raw} ELSE last
    /\ UNCHANGED <<active, raw>>

-----------------------------------------------------------------------------
(* The reader thread.                                                      *)

ReaderReads ==
    /\ reader.pc = "poll" /\ running /\ ~wake /\ ~kernel.gone /\ kernel.queue # <<>>
    /\ reader' = [pc |-> "handle", batch |-> kernel.queue]
    /\ kernel' = [kernel EXCEPT !.queue = <<>>]
    /\ UNCHANGED <<device, running, wake, fd, call>>

\* With a byte in the pipe the loop only looks at reader_running_ again; the
\* byte is never taken out.
ReaderEnds ==
    /\ reader.pc = "poll" /\ (~running \/ (kernel.gone /\ ~wake))
    /\ reader' = [pc |-> "ended", batch |-> <<>>]
    /\ UNCHANGED <<kernel, device, running, wake, fd, call>>

HandleValue(event) ==
    /\ raw' = IF event.type = "SW" THEN event.value ELSE raw
    /\ dirty' = dirty \cup {IF event.type = "SW" THEN "switch" ELSE "accel"}
    /\ UNCHANGED <<active, last, emitted>>

ReaderHandles ==
    /\ reader.pc = "handle"
    /\ IF reader.batch = <<>>
         THEN reader' = [reader EXCEPT !.pc = "poll"] /\ UNCHANGED device
         ELSE /\ reader' = [reader EXCEPT !.batch = Tail(@)]
              /\ IF Head(reader.batch).type = "SYN"
                   THEN HandleSyncReport
                   ELSE HandleValue(Head(reader.batch))
    /\ UNCHANGED <<kernel, running, wake, fd, call>>

-----------------------------------------------------------------------------
(* The calls.                                                              *)

\* Open(): a node that went away cannot be opened, nor one that is refused.
Open(opened) ==
    IF fd THEN opened /\ UNCHANGED thread
    ELSE /\ opened => ~kernel.gone
         /\ IF opened
              THEN /\ fd' = TRUE /\ running' = TRUE /\ wake' = FALSE
                   /\ reader' = [pc |-> "poll", batch |-> <<>>]
              ELSE UNCHANGED thread

Activate(s) ==
    /\ call.pc = "idle" /\ ~active[s]
    /\ \E opened \in BOOLEAN :
         /\ Open(opened)
         /\ IF opened
              THEN /\ active' = [active EXCEPT ![s] = TRUE]
                   /\ last' = IF s = "switch" THEN {} ELSE last
                   /\ emitted' = (s # "accel" /\ emitted)
                   /\ call' = [pc |-> "read", op |-> "activate"]
              ELSE UNCHANGED <<active, last, emitted, call>>
    /\ UNCHANGED <<kernel, raw, dirty>>

\* EmitInitialState(): the state of every active sensor is read under the
\* mutex; the report is made under it again.

\* A mutant: a switch that did not move since it was last read is left alone.
RefreshedIfMoved == {s \in Handles : active[s] /\ ~kernel.gone /\ (s = "switch" => raw # kernel.sw)}

Refreshed == {s \in Handles : active[s] /\ ~kernel.gone}


ReadState ==
    /\ call.pc = "read"
    /\ raw' = IF "switch" \in Refreshed THEN kernel.sw ELSE raw
    /\ dirty' = dirty \cup Refreshed
    /\ kernel' = IF FlushesQueue /\ "switch" \in Refreshed
                   THEN [kernel EXCEPT !.queue = SelectSeq(@, LAMBDA e : e.type # "SW")]
                   ELSE kernel
    /\ call' = [call EXCEPT !.pc = "sync"]
    /\ UNCHANGED <<active, last, emitted, thread>>

ReportState ==
    /\ call.pc = "sync"
    /\ HandleSyncReport
    /\ call' = NoCall
    /\ UNCHANGED <<kernel, thread>>

Deactivate(s) ==
    /\ call.pc = "idle" /\ active[s]
    /\ active' = [active EXCEPT ![s] = FALSE]
    /\ last' = IF s = "switch" THEN {} ELSE last
    /\ call' = IF \E o \in Handles \ {s} : active[o]
                 THEN NoCall ELSE [pc |-> "close", op |-> "deactivate"]
    /\ UNCHANGED <<kernel, emitted, raw, dirty, thread>>

\* Deinitialize() shuts the device down; discovery makes a new one.
Shutdown ==
    /\ call.pc = "idle"
    /\ active' = [s \in Handles |-> FALSE]
    /\ call' = [pc |-> "close", op |-> "shutdown"]
    /\ UNCHANGED <<kernel, last, emitted, raw, dirty, thread>>

\* A mutant: only the pipe tells it.
StoppingByPipe == [running |-> running, wake |-> TRUE]

\* What Close() tells the reader: reader_running_ and the byte in the pipe.
Stopping == [running |-> FALSE, wake |-> TRUE]

Close ==
    /\ call.pc = "close"
    /\ IF reader.pc = "none"
         THEN UNCHANGED <<running, wake>>
         ELSE running' = Stopping.running /\ wake' = Stopping.wake
    /\ call' = [call EXCEPT !.pc = "join"]
    /\ UNCHANGED <<kernel, device, reader, fd>>

Join ==
    /\ call.pc = "join" /\ reader.pc \in {"none", "ended"}
    /\ reader' = NoReader /\ fd' = FALSE
    /\ running' = FALSE /\ wake' = FALSE
    /\ kernel' = [kernel EXCEPT !.queue = <<>>]
    /\ IF call.op = "shutdown"
         THEN /\ active' = [s \in Handles |-> FALSE]
              /\ last' = {} /\ emitted' = FALSE /\ raw' = FALSE /\ dirty' = {}
         ELSE UNCHANGED device
    /\ call' = NoCall

-----------------------------------------------------------------------------
(* The kernel: the device reports, the switch changes, the node goes.      *)

Queued(type, value) == IF fd THEN kernel.queue \o Report(type, value) ELSE <<>>

Flip ==
    /\ kernel.flips < MaxFlips /\ ~kernel.gone /\ Len(kernel.queue) < MaxQueue
    /\ kernel' = [kernel EXCEPT !.sw = ~@, !.flips = @ + 1, !.queue = Queued("SW", ~kernel.sw)]
    /\ UNCHANGED <<device, thread, call>>

Tilt ==
    /\ fd /\ ~kernel.gone /\ Len(kernel.queue) < MaxQueue
    /\ kernel' = [kernel EXCEPT !.queue = Queued("ABS", FALSE)]
    /\ UNCHANGED <<device, thread, call>>

Unplug ==
    /\ ~kernel.gone
    /\ kernel' = [kernel EXCEPT !.gone = TRUE]
    /\ UNCHANGED <<device, thread, call>>

Reader == ReaderReads \/ ReaderHandles \/ ReaderEnds
Calls == (\E s \in Handles : Activate(s) \/ Deactivate(s)) \/ Shutdown
CallStep == ReadState \/ ReportState \/ Close \/ Join

Next == Reader \/ Calls \/ CallStep \/ Flip \/ Tilt \/ Unplug

Spec == Init /\ [][Next]_vars /\ WF_vars(Reader) /\ WF_vars(CallStep)

-----------------------------------------------------------------------------
TypeOK ==
    /\ kernel \in [sw : BOOLEAN, flips : 0 .. MaxFlips, gone : BOOLEAN,
                   queue : Seq([type : {"SW", "ABS", "SYN"}, value : BOOLEAN])]
    /\ active \in [Handles -> BOOLEAN]
    /\ last \subseteq BOOLEAN
    /\ dirty \subseteq Handles
    /\ {emitted, raw, running, wake, fd} \subseteq BOOLEAN
    /\ reader.pc \in {"none", "poll", "handle", "ended"}
    /\ call.pc \in {"idle", "read", "sync", "close", "join"}

\* The reader has nothing left to do and no call is under way.
Quiet ==
    /\ call.pc = "idle" /\ reader.pc = "poll"
    /\ kernel.queue = <<>> /\ ~kernel.gone

\* Once everything the kernel said is handled, the last event made for an
\* active switch tells its real position: also after changes made while it
\* was off or the node closed, and when an activation of the other sensor
\* reads the state between two events of the reader (EmitInitialState,
\* HandleSwitchEvent, HandleSyncReport with their last_event and raw_dirty).
SwitchIsCurrent == (Quiet /\ active["switch"]) => last = {kernel.sw}

\* A deactivation that closes the node ends: the reader sees that it shall
\* stop wherever it is, also after it went away on its own (Close()).
CloseReturns == (call.pc = "close") ~> (call.pc = "idle")
=============================================================================
