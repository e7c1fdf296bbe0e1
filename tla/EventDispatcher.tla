--------------------------- MODULE EventDispatcher ---------------------------
(***************************************************************************)
(* The last stage of the sensors HAL (sensors/mainline/EventDispatcher.cpp *)
(* and Sensors::initialize()): batches are written to the event FMQ, and a *)
(* wake lock is held for the WAKE_UP events the framework has not          *)
(* acknowledged yet.                                                       *)
(*                                                                         *)
(* Actors: posting threads (write_mutex_ held from the write to the wake   *)
(* lock update), the wake lock thread, one (re)initialisation at a time    *)
(* (initialize_mutex_), the clock, and the framework, which is external.   *)
(***************************************************************************)
EXTENDS Integers, Sequences, FiniteSets

CONSTANTS
    Posters,     \* threads that call PostEvents()
    Capacity,    \* getQuantumCount() of the event FMQ
    MaxBatch,    \* bound: events of a kind in one batch
    MaxPosts,    \* bound on calls of PostEvents()
    MaxInits     \* bound on calls of Initialize() and Shutdown()

VARIABLES
    queue,            \* event_queue_, wake_lock_queue_ and the flag: "none" or "open"
    fmq,              \* contents of the event FMQ: [wake, plain]
    acks,             \* contents of the wake lock FMQ
    writer,           \* poster -> batch written, wake lock not updated yet
    outstanding,      \* outstanding_wake_up_events_
    has_wake_lock,    \* has_wake_lock_
    overdue,          \* now > auto_release_time_
    run,              \* wake_lock_thread_run_
    thread,           \* wake lock thread: "none", "loop", "read" or "update"
    handled,          \* its local events_handled
    boot,             \* Initialize()/Shutdown(): "idle", "join", "swap", "reset", "start"
    goal,             \* "open": usable descriptors; "none": unusable ones or Shutdown()
    seen,             \* external: WAKE_UP events the framework read and not acknowledged
    posts, inits,     \* bounds
    unacked,          \* history: WAKE_UP events written to the FMQ whose acknowledgement the
                      \* wake lock thread has not subtracted yet
    denied,           \* history: the last acquire_wake_lock() failed
    forgotten,        \* history: unacknowledged events given up by a timeout
    raced             \* history: a batch was on its way during Initialize()

wakelock == <<outstanding, has_wake_lock, overdue, denied, forgotten>>
vars == <<queue, fmq, acks, writer, wakelock, run, thread, handled, boot, goal, seen,
          unacked, posts, inits, raced>>

NoBatch == [wake |-> 0, plain |-> 0]

\* A batch holds events of wake-up sensors and of others.
Batches == [wake : 0 .. MaxBatch, plain : 0 .. MaxBatch] \ {NoBatch}

Size(b) == b.wake + b.plain

Init ==
    /\ queue = "none" /\ fmq = NoBatch /\ acks = <<>>
    /\ writer = [p \in Posters |-> NoBatch]
    /\ outstanding = 0 /\ has_wake_lock = FALSE /\ overdue = TRUE
    /\ denied = FALSE /\ forgotten = 0
    /\ run = FALSE /\ thread = "none" /\ handled = 0
    /\ boot = "idle" /\ goal = "none"
    /\ seen = 0 /\ unacked = 0 /\ posts = 0 /\ inits = 0 /\ raced = FALSE

-----------------------------------------------------------------------------
\* Mutant: any acknowledgement settles everything.
UpdatedByAnyAck(written, acknowledged) ==
    IF acknowledged > 0 THEN 0 ELSE outstanding + written

\* The new count, clamped at zero.
Updated(written, acknowledged) ==
    IF outstanding + written < acknowledged THEN 0
    ELSE outstanding + written - acknowledged

\* Mutant: the lease never ends.
LateNever(written) == FALSE

\* now > auto_release_time_, after a write renewed the lease.
Late(written) == overdue /\ written = 0

\* UpdateWakeLock(): the whole critical section of wake_lock_mutex_.
UpdateWakeLock(written, acknowledged) ==
    LET updated == Updated(written, acknowledged)
        kept    == IF has_wake_lock /\ Late(written) THEN 0 ELSE updated
    IN  /\ overdue' = Late(written)
        /\ outstanding' = kept
        /\ forgotten' = forgotten + (updated - kept)
        /\ \/ /\ ~has_wake_lock /\ updated > 0
              /\ has_wake_lock' \in BOOLEAN
              /\ denied' = ~has_wake_lock'
           \/ /\ ~has_wake_lock /\ updated = 0
              /\ UNCHANGED <<has_wake_lock, denied>>
           \/ /\ has_wake_lock /\ kept = 0
              /\ has_wake_lock' \in BOOLEAN
              /\ UNCHANGED denied
           \/ /\ has_wake_lock /\ kept > 0
              /\ UNCHANGED <<has_wake_lock, denied>>

-----------------------------------------------------------------------------
(* PostEvents(). *)

\* external: AidlMessageQueue::write() takes a batch as a whole or not at all.
RoomFor(b) == Size(fmq) + Size(b) <= Capacity

WriteMutexFree == \A p \in Posters : writer[p] = NoBatch

\* The write: dropped without a queue or without room for the whole batch; a
\* batch without wake-up events is done with it.
PostEvents(p, b) ==
    /\ posts < MaxPosts /\ posts' = posts + 1
    /\ raced' = (raced \/ boot # "idle")
    /\ WriteMutexFree
    /\ IF queue = "open" /\ RoomFor(b)
       THEN /\ fmq' = [wake |-> fmq.wake + b.wake, plain |-> fmq.plain + b.plain]
            /\ writer' = [writer EXCEPT ![p] = IF b.wake > 0 THEN b ELSE NoBatch]
            /\ unacked' = unacked + b.wake
       ELSE UNCHANGED <<fmq, writer, unacked>>
    /\ UNCHANGED <<queue, acks, wakelock, run, thread, handled, boot, goal, seen, inits>>

\* The wake lock is taken for every event of the batch, after the framework
\* could already see them; only then is write_mutex_ released.
PostUpdate(p) ==
    /\ writer[p] # NoBatch
    /\ UpdateWakeLock(Size(writer[p]), 0)
    /\ writer' = [writer EXCEPT ![p] = NoBatch]
    /\ UNCHANGED <<queue, fmq, acks, run, thread, handled, boot, goal, seen, posts, inits,
                   raced, unacked>>

-----------------------------------------------------------------------------
(* WakeLockThread(). *)

ThreadLoop ==
    /\ thread = "loop"
    /\ thread' = IF run THEN "read" ELSE "none"
    /\ UNCHANGED <<queue, fmq, acks, writer, wakelock, run, handled, boot, goal, seen,
                   posts, inits, raced, unacked>>

\* readBlocking() of one number, or its timeout.
ThreadRead ==
    /\ thread = "read"
    /\ thread' = "update"
    /\ IF acks # <<>> THEN acks' = Tail(acks) /\ handled' = Head(acks)
       ELSE handled' = 0 /\ UNCHANGED acks
    /\ UNCHANGED <<queue, fmq, writer, wakelock, run, boot, goal, seen, posts, inits, raced,
                   unacked>>

ThreadUpdate ==
    /\ thread = "update"
    /\ UpdateWakeLock(0, handled)
    /\ unacked' = unacked - handled
    /\ thread' = "loop" /\ handled' = 0
    /\ UNCHANGED <<queue, fmq, acks, writer, run, boot, goal, seen, posts, inits, raced>>

-----------------------------------------------------------------------------
(* Initialize() with usable or unusable descriptors, and Shutdown(). *)

StopWakeLockThread(g) ==
    /\ boot = "idle" /\ inits < MaxInits
    /\ raced' = (raced \/ ~WriteMutexFree)
    /\ inits' = inits + 1
    /\ goal' = g
    /\ run' = FALSE
    /\ boot' = "join"
    /\ UNCHANGED <<queue, fmq, acks, writer, wakelock, thread, handled, seen, posts, unacked>>

JoinWakeLockThread ==
    /\ boot = "join" /\ thread = "none"
    /\ boot' = "swap"
    /\ UNCHANGED <<queue, fmq, acks, writer, wakelock, run, thread, handled, goal, seen,
                   posts, inits, raced, unacked>>

\* Under write_mutex_: new (empty) queues from the new framework, or none.
SwapQueues ==
    /\ boot = "swap" /\ WriteMutexFree
    /\ queue' = goal
    /\ fmq' = NoBatch /\ acks' = <<>> /\ seen' = 0 /\ unacked' = 0 /\ forgotten' = 0
    /\ boot' = "reset"
    /\ UNCHANGED <<writer, outstanding, has_wake_lock, overdue, denied, run, thread,
                   handled, goal, posts, inits, raced>>

\* Mutant: forgets that the lock may be held.
ForgetWakeLock == outstanding' = 0 /\ UNCHANGED has_wake_lock

\* Here release_wake_lock()'s result is not looked at.
DropWakeLock == outstanding' = 0 /\ has_wake_lock' = FALSE

\* Under wake_lock_mutex_.
ResetWakeLock ==
    /\ boot = "reset"
    /\ DropWakeLock
    /\ boot' = "start"
    /\ UNCHANGED <<queue, fmq, acks, writer, overdue, denied, forgotten, run, thread,
                   handled, goal, seen, posts, inits, raced, unacked>>

StartWakeLockThread ==
    /\ boot = "start"
    /\ IF goal = "open" THEN run' = TRUE /\ thread' = "loop" ELSE UNCHANGED <<run, thread>>
    /\ boot' = "idle"
    /\ UNCHANGED <<queue, fmq, acks, writer, wakelock, handled, goal, seen, posts, inits,
                   raced, unacked>>

-----------------------------------------------------------------------------
(* external: the clock and the framework. *)

\* WAKE_LOCK_TIMEOUT_SECONDS pass without a new WAKE_UP event.
Timeout ==
    /\ ~overdue
    /\ overdue' = TRUE
    /\ UNCHANGED <<queue, fmq, acks, writer, outstanding, has_wake_lock, denied, forgotten,
                   run, thread, handled, boot, goal, seen, posts, inits, raced, unacked>>

FrameworkRead ==
    /\ \/ fmq.wake > 0 /\ fmq' = [fmq EXCEPT !.wake = @ - 1] /\ seen' = seen + 1
       \/ fmq.plain > 0 /\ fmq' = [fmq EXCEPT !.plain = @ - 1] /\ UNCHANGED seen
    /\ UNCHANGED <<queue, acks, writer, wakelock, run, thread, handled, boot, goal, posts,
                   inits, raced, unacked>>

FrameworkAck ==
    /\ queue = "open" /\ seen > 0
    /\ acks' = Append(acks, seen) /\ seen' = 0
    /\ UNCHANGED <<queue, fmq, writer, wakelock, run, thread, handled, boot, goal, posts,
                   inits, raced, unacked>>

-----------------------------------------------------------------------------
Boot ==
    \/ JoinWakeLockThread
    \/ SwapQueues
    \/ ResetWakeLock
    \/ StartWakeLockThread

WakeLockThread == ThreadLoop \/ ThreadRead \/ ThreadUpdate

Next ==
    \/ \E p \in Posters, b \in Batches : PostEvents(p, b)
    \/ \E p \in Posters : PostUpdate(p)
    \/ WakeLockThread
    \/ \E g \in {"open", "none"} : StopWakeLockThread(g)
    \/ Boot
    \/ Timeout
    \/ FrameworkRead
    \/ FrameworkAck

\* Threads are scheduled, readBlocking() returns at its timeout, time passes, and
\* the kernel does not refuse to release the wake lock each time it is asked.
\* The framework need neither read nor acknowledge anything.
Fairness ==
    /\ \A p \in Posters : WF_vars(PostUpdate(p))
    /\ WF_vars(WakeLockThread)
    /\ SF_vars(ThreadUpdate /\ ~has_wake_lock')
    /\ WF_vars(Boot)
    /\ WF_vars(Timeout)

Spec == Init /\ [][Next]_vars
FairSpec == Spec /\ Fairness

-----------------------------------------------------------------------------
(* Properties. *)

TypeOK ==
    /\ queue \in {"none", "open"} /\ goal \in {"none", "open"}
    /\ fmq \in [wake : Nat, plain : Nat] /\ Size(fmq) <= Capacity
    /\ acks \in Seq(Nat)
    /\ writer \in [Posters -> Batches \cup {NoBatch}]
    /\ outstanding \in Nat /\ seen \in Nat /\ handled \in Nat /\ forgotten \in Nat
    /\ unacked \in Int
    /\ has_wake_lock \in BOOLEAN /\ overdue \in BOOLEAN /\ denied \in BOOLEAN
    /\ run \in BOOLEAN
    /\ thread \in {"none", "loop", "read", "update"}
    /\ boot \in {"idle", "join", "swap", "reset", "start"}
    /\ posts \in 0..MaxPosts /\ inits \in 0..MaxInits /\ raced \in BOOLEAN

\* "A wake lock is held while WAKE_UP events written to the FMQ have not been
\* acknowledged", not counting the events a timeout gave up, the time it takes
\* the poster to get from the write to the wake lock, and a kernel that refuses.
\* (Not kept for a batch that meets Initialize(), which only an injected event
\* can, every sensor having been stopped: its lock may be dropped with the old.)
HeldWhileUnacked ==
    boot = "idle" /\ WriteMutexFree /\ ~raced /\ unacked > forgotten =>
        has_wake_lock \/ denied

\* Nobody leaves the wake lock behind: while it is held, the wake lock thread
\* is there to release it, or the Initialize() or Shutdown() in progress is
\* going to release it or to start that thread.
LockHasOwner ==
    has_wake_lock => \/ thread # "none"
                     \/ boot \in {"join", "swap", "reset"}
                     \/ boot = "start" /\ goal = "open"

\* The wake lock covers exactly what it shall: it is there while wake-up events
\* are unacknowledged, and never without someone to release it.
LockCovers == HeldWhileUnacked /\ LockHasOwner

\* The device can sleep again: after the last batch the wake lock is released
\* for good, even if the framework died and acknowledges nothing, and a release
\* that failed is tried again.
LockReleased == <>[](~has_wake_lock)

(* Stated by the documentation and not kept by the code; see README.md. *)

\* "... it is released automatically WAKE_LOCK_TIMEOUT_SECONDS after the last
\* WAKE_UP event": an event written after a timeout has its own full lease.
FullLease ==
    boot = "idle" /\ WriteMutexFree /\ fmq.wake > 0 /\ ~overdue =>
        has_wake_lock \/ denied

\* "A wake lock is held while WAKE_UP events ... have not been acknowledged":
\* once all are acknowledged nothing is outstanding.
ReleasedOnceAcknowledged ==
    boot = "idle" /\ WriteMutexFree /\ queue = "open" /\ unacked = 0 /\ ~overdue =>
        outstanding = 0
=============================================================================
