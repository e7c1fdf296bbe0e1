----------------------------- MODULE MCFrontEnd -----------------------------
(***************************************************************************)
(* The front end of the sensors HAL for TLC: what it makes of the requests *)
(* for its sensors (SensorManager), and how the events get to the          *)
(* framework with a wake lock held (EventDispatcher).  A batch that is     *)
(* delivered by the one is posted by the other; they share no state, so a  *)
(* behaviour is one of `part` and leaves the variables of the other alone. *)
(*                                                                         *)
(* An accelerometer (1) feeds the device orientation composite (3), and a  *)
(* second sensor (2) is of the same device: one reader thread carries both.*)
(* The accelerometer starts out slower than its composite needs it and is  *)
(* faster once the framework set its period; the other sensor has a single *)
(* rate.                                                                   *)
(***************************************************************************)
EXTENDS SensorManager, Integers, Sequences

CONSTANTS Posters, Capacity, MaxBatch, MaxPosts, MaxInits     \* of EventDispatcher

ASSUME DispatcherAssumption ==
    /\ Capacity \in Nat \ {0}
    /\ MaxPosts \in Nat /\ MaxInits \in Nat
    /\ MaxBatch \in Nat

VARIABLES
    part,           \* "manager" or "dispatcher"
    queue, fmq, acks, writer, outstanding, has_wake_lock, overdue, run, thread, handled,
    boot, goal, seen, posts, inits, unacked, denied, forgotten, raced

MCThreads == {"reader"}
MCSensorsOf == [t \in MCThreads |-> {1, 2}]
MCInputOf == [c \in Composites |-> {1}]
MCInputPeriod == [c \in Composites |-> 3]
MCMinDelay == [h \in Hardware |-> IF h = 1 THEN 2 ELSE 0]
MCMaxDelay == [h \in Hardware |-> IF h = 1 THEN 4 ELSE 1]

Dispatcher == INSTANCE EventDispatcher

dispatcher == <<queue, fmq, acks, writer, outstanding, has_wake_lock, overdue, run, thread,
                handled, boot, goal, seen, posts, inits, unacked, denied, forgotten, raced>>
all == <<part, vars, dispatcher>>

-----------------------------------------------------------------------------
MCInit == part \in {"manager", "dispatcher"} /\ Init /\ Dispatcher!Init

(* A step of one part. *)
ManagerStep(A) == part = "manager" /\ A /\ UNCHANGED <<part, dispatcher>>
DispatcherStep(A) == part = "dispatcher" /\ A /\ UNCHANGED <<part, vars>>

\* The bounds are used up.
Ended == boot = "idle" /\ inits = MaxInits /\ UNCHANGED dispatcher

MCNext == ManagerStep(Next) \/ DispatcherStep(Dispatcher!Next) \/ DispatcherStep(Ended)

\* The fairness of each part, for the behaviours of that part.
MCFairness ==
    /\ WF_all(ManagerStep(ControlStep))
    /\ \A t \in EventThreads : WF_all(ManagerStep(EventStep(t)))
    /\ \A p \in Posters : WF_all(DispatcherStep(Dispatcher!PostUpdate(p)))
    /\ WF_all(DispatcherStep(Dispatcher!WakeLockThread))
    /\ SF_all(DispatcherStep(Dispatcher!ThreadUpdate /\ ~has_wake_lock'))
    /\ WF_all(DispatcherStep(Dispatcher!Boot))
    /\ WF_all(DispatcherStep(Dispatcher!Timeout))

MCSpec == MCInit /\ [][MCNext]_all /\ MCFairness

-----------------------------------------------------------------------------
\* Wake-up events that are not acknowledged keep the device awake, and a wake
\* lock has someone to release it (EventDispatcher).
LockCovers == Dispatcher!LockCovers

\* The device can sleep again after the last batch, whatever the framework does.
LockReleased == part = "dispatcher" => Dispatcher!LockReleased
=============================================================================
