----------------------------- MODULE CameraLocks -----------------------------
(***************************************************************************)
(* The locks of the camera provider and in which order its threads take    *)
(* them: CameraProvider's lock_ and callback_lock_, a Flash's lock_ and a  *)
(* CameraDevice's session_lock_.  A call is the sequence of what it        *)
(* acquires and releases; what it does under the locks is modelled in      *)
(* CameraProvider and CameraFlash.                                         *)
(***************************************************************************)
EXTENDS Naturals, Sequences, FiniteSets

CONSTANTS
    Threads,        \* the monitor thread and binder threads
    Monitor,        \* the thread that rescans
    MaxCalls        \* bound: calls per thread

Locks == {"lock", "callback_lock", "flash_lock", "session_lock"}
Free == "free"
Idle == <<>>

VARIABLES
    owner,   \* who holds a lock
    todo,    \* what a thread still has to acquire and release
    calls    \* calls a thread made

vars == <<owner, todo, calls>>

Acq(l) == <<[op |-> "acquire", lock |-> l]>>
Rel(l) == <<[op |-> "release", lock |-> l]>>
Under(l, body) == Acq(l) \o body \o Rel(l)

\* Flash::Detach() and the other critical sections of a Flash; the listener
\* that NotifyLocked() calls is CameraProvider::NotifyTorch().
Detach == Under("flash_lock", <<>>)
NotifyTorch == Under("callback_lock", <<>>)
SetTorch == Under("flash_lock", NotifyTorch)

\* A flash is detached when its camera is gone.
Rescan(detached) ==
    Under("lock", IF detached THEN Detach ELSE <<>>) \o Under("callback_lock", <<>>)

SetCallback == Under("callback_lock", Under("lock", <<>>))
GetCameraIdList == Under("lock", <<>>)
\* Flash::Acquire() under session_lock_.
Open == Under("session_lock", SetTorch)
\* close(): Flash::Release().
Close == SetTorch

CallsOf(t) ==
    IF t = Monitor THEN {Rescan(FALSE), Rescan(TRUE)} ELSE {SetCallback, GetCameraIdList, SetTorch, Open, Close}

Init ==
    /\ owner = [l \in Locks |-> Free]
    /\ todo = [t \in Threads |-> Idle]
    /\ calls = [t \in Threads |-> 0]

Call(t) ==
    /\ todo[t] = Idle /\ calls[t] < MaxCalls
    /\ \E c \in CallsOf(t) : todo' = [todo EXCEPT ![t] = c]
    /\ calls' = [calls EXCEPT ![t] = @ + 1]
    /\ UNCHANGED owner

AcquireLock(t) ==
    /\ todo[t] # Idle /\ Head(todo[t]).op = "acquire" /\ owner[Head(todo[t]).lock] = Free
    /\ owner' = [owner EXCEPT ![Head(todo[t]).lock] = t]
    /\ todo' = [todo EXCEPT ![t] = Tail(@)]
    /\ UNCHANGED calls

ReleaseLock(t) ==
    /\ todo[t] # Idle /\ Head(todo[t]).op = "release"
    /\ owner' = [owner EXCEPT ![Head(todo[t]).lock] = Free]
    /\ todo' = [todo EXCEPT ![t] = Tail(@)]
    /\ UNCHANGED calls

Step(t) == AcquireLock(t) \/ ReleaseLock(t)
Next == \E t \in Threads : Call(t) \/ Step(t)

Spec == Init /\ [][Next]_vars

-----------------------------------------------------------------------------
(* Properties. *)

Waits(t, u) ==
    /\ todo[t] # Idle /\ Head(todo[t]).op = "acquire" /\ owner[Head(todo[t]).lock] = u

\* "lock_ may be taken while holding [callback_lock_], never the other way
\* round": no threads wait for each other in a circle.
NoCircularWait ==
    \A S \in SUBSET Threads : S = {} \/ \E t \in S : \A u \in S : ~Waits(t, u)
=============================================================================
