------------------------------ MODULE Vibrator ------------------------------
(***************************************************************************)
(* The vibrator HAL: one Vibrator and the VibratorManager in front of it   *)
(* (vibrator/mainline/Vibrator.cpp, VibratorManager.cpp,                   *)
(* VibrationSession.cpp).                                                  *)
(*                                                                         *)
(* main() gives binder one thread, so API calls are serial; on() and       *)
(* performVendorEffect() leave a sleeping thread behind, perform() and     *)
(* compose() one that drives the motor.  Those detached threads share      *)
(* mLastEffectId with the binder thread and no lock protects it: every     *)
(* access to the kernel is a step of its own.  Without a device the HAL    *)
(* answers all the same and leaves the motor alone.  Effect durations and  *)
(* amplitudes are left out; a sleep ends at any time.                      *)
(***************************************************************************)
EXTENDS Naturals, FiniteSets

CONSTANTS
    MaxCalls,   \* bound: API calls that carry a callback
    MaxPulses   \* bound: FF effects in one composition

ASSUME VibratorAssumption == MaxCalls \in Nat \ {0} /\ MaxPulses \in Nat \ {0, 1}

Calls == 1 .. MaxCalls   \* a call, its callback and the thread it starts
NoCall == 0
Binder == 0              \* the actor that is the binder thread
Actors == {Binder} \cup Calls
NoEffect == 0
Effects == 1 .. Cardinality(Actors) + 1

VARIABLES
    vibrating,    \* mIsVibrating
    callback,     \* mVibrationCallback
    global,       \* mGlobalVibrationCallback: the session its VibratorCallback ends
    device,       \* whether mEventFd is open
    last,         \* mLastEffectId
    effects,      \* external: effects uploaded through this fd
    calls,        \* API calls made so far
    step,         \* actor -> where it is
    kind,         \* thread -> what it runs
    left,         \* thread -> FF effects still to play
    binder,       \* the call the binder thread is in, and the session it looked up
    preparing,    \* mIsPreparing
    session,      \* mSession, with mSessionCallback
    ending,       \* sessions whose VibratorCallback::onComplete() is running
    posted        \* callback -> how often onComplete() was called

motor == <<device, last, effects>>
state == <<vibrating, callback, global>>
manager == <<preparing, session>>
vars == <<state, motor, calls, step, kind, left, binder, manager, ending, posted>>

Idle == [op |-> "none", session |-> NoCall]
BinderIdle == binder = Idle /\ step[Binder] = "none"

\* A node of /dev/input: whether it opens, and whether it has FF effects.
InputNodes == [opens : BOOLEAN, ff : BOOLEAN]

\* findDevice(): the node the property names decides alone; without the property
\* the first node that opens and has effects is taken.
FindDevice(named, nodes) ==
    IF named # {} THEN \A n \in named : n.opens ELSE \E n \in nodes : n.opens /\ n.ff

Init ==
    /\ \E named \in {{}} \cup {{n} : n \in InputNodes}, nodes \in SUBSET InputNodes :
          device = FindDevice(named, nodes)
    /\ vibrating = FALSE /\ callback = NoCall /\ global = NoCall
    /\ last = NoEffect /\ effects = {}
    /\ calls = 0
    /\ step = [a \in Actors |-> "none"]
    /\ kind = [c \in Calls |-> "none"] /\ left = [c \in Calls |-> 0]
    /\ binder = Idle
    /\ preparing = FALSE /\ session = NoCall /\ ending = {}
    /\ posted = [c \in Calls |-> 0]

Post(cs) == posted' = [c \in Calls |-> posted[c] + (IF c \in cs THEN 1 ELSE 0)]
EndSession(s) == ending' = ending \cup ({s} \ {NoCall})

-----------------------------------------------------------------------------
(* The motor: any actor, without a lock. *)

\* stopEffect() and eraseEffect(); without a device nothing was uploaded.
StopEffect ==
    /\ last' = NoEffect
    /\ effects' = effects \ {last}
    /\ UNCHANGED device

\* EVIOCSFF of uploadEffect(), which the kernel may refuse.
Upload ==
    \/ /\ device /\ UNCHANGED device
       /\ \E e \in Effects \ effects :
          /\ \A f \in Effects \ effects : e <= f
          /\ effects' = effects \cup {e} /\ last' = e
    \/ UNCHANGED motor

\* uploadEffect() is two steps, stopEffect() and EVIOCSFF; playEffect() only
\* reads mLastEffectId and is part of the second.
PlayStep(a) ==
    \/ /\ step[a] = "stop" /\ StopEffect /\ step' = [step EXCEPT ![a] = "upload"]
       /\ UNCHANGED left
    \/ /\ step[a] = "upload" /\ Upload
       /\ step' = [step EXCEPT ![a] = IF a = Binder THEN "dispatch" ELSE "sleep"]
       /\ left' = IF a = Binder THEN left ELSE [left EXCEPT ![a] = @ - 1]
    \/ /\ step[a] = "clear" /\ StopEffect
       /\ step' = [step EXCEPT ![a] = IF left[a] > 0 THEN "stop" ELSE "finish"]
       /\ UNCHANGED left

Motor(a) ==
    /\ PlayStep(a)
    /\ UNCHANGED <<state, calls, kind, binder, manager, ending, posted>>

-----------------------------------------------------------------------------
(* API calls. *)

NewCall ==
    /\ BinderIdle
    /\ calls < MaxCalls /\ calls' = calls + 1

\* Starts the thread of the call.
Spawn(k, n, at) ==
    /\ kind' = [kind EXCEPT ![calls'] = k]
    /\ left' = [left EXCEPT ![calls'] = n]
    /\ step' = [step EXCEPT ![calls'] = at, ![Binder] = "none"]

\* on(): the motor first, then dispatchVibrate().
On ==
    /\ NewCall
    /\ step' = [step EXCEPT ![Binder] = "stop"]
    /\ UNCHANGED <<state, motor, kind, left, binder, manager, ending, posted>>

\* performVendorEffect() with valid parameters goes the same way.
PerformVendorEffect == On

\* dispatchVibrate(): a vibrator that is vibrating already forgets the callback.
DispatchVibrate ==
    /\ step[Binder] = "dispatch"
    /\ IF vibrating
       THEN /\ step' = [step EXCEPT ![Binder] = "none"]
            /\ UNCHANGED <<vibrating, callback, kind, left>>
       ELSE /\ vibrating' = TRUE /\ callback' = calls
            /\ kind' = [kind EXCEPT ![calls] = "dispatch"]
            /\ step' = [step EXCEPT ![calls] = "sleep", ![Binder] = "none"]
            /\ UNCHANGED left
    /\ UNCHANGED <<global, motor, calls, binder, manager, ending, posted>>

\* perform() of a supported effect; a double click plays two.
Perform(n) ==
    /\ NewCall
    /\ IF vibrating
       THEN UNCHANGED <<vibrating, callback, step, kind, left>>
       ELSE vibrating' = TRUE /\ callback' = calls' /\ Spawn("perform", n, "stop")
    /\ UNCHANGED <<global, motor, binder, manager, ending, posted>>

\* Mutant: a composition marks the vibrator as busy, and nothing unmarks it.
MarkComposing == vibrating' = TRUE

\* A composition leaves mIsVibrating alone.
Composing == UNCHANGED vibrating

\* compose() of n primitives; NOOPs and delays play nothing.
Compose(n) ==
    /\ NewCall
    /\ Spawn("compose", n, IF n = 0 THEN "finish" ELSE "stop")
    /\ Composing
    /\ UNCHANGED <<callback, global, motor, binder, manager, ending, posted>>

\* Mutant: the callback that is being notified stays registered.
OffKeepsCallback ==
    /\ vibrating' = FALSE /\ global' = NoCall
    /\ UNCHANGED callback

\* The critical section of off().
OffLocked ==
    /\ vibrating' = FALSE /\ callback' = NoCall /\ global' = NoCall

\* off(), also on behalf of abortSession(): what was registered is notified from
\* a new thread after the motor stopped.
Off ==
    /\ OffLocked
    /\ StopEffect
    /\ Post({callback} \ {NoCall})
    /\ EndSession(global)

OffCall ==
    /\ BinderIdle
    /\ Off
    /\ UNCHANGED <<calls, step, kind, left, binder, manager>>

-----------------------------------------------------------------------------
(* VibratorManager and VibrationSession. *)

\* prepareSynced(), triggerSynced() and cancelSynced(); a trigger's callback is
\* notified at once.
PrepareSynced ==
    /\ BinderIdle
    /\ preparing' = ~preparing
    /\ UNCHANGED <<state, motor, calls, step, kind, left, binder, session, ending, posted>>

StartSession ==
    /\ NewCall
    /\ session' = IF preparing \/ session # NoCall THEN session ELSE calls'
    /\ UNCHANGED <<state, motor, step, kind, left, binder, preparing, ending, posted>>

\* closeSession() and abortSession() look the session up under mMutex ...
LookUp(op) ==
    /\ BinderIdle /\ session # NoCall
    /\ binder' = [op |-> op, session |-> session]
    /\ UNCHANGED <<state, motor, calls, step, kind, left, manager, ending, posted>>

\* ... and act on it after its release: setGlobalVibrationCallback().
CloseSession ==
    /\ binder.op = "close"
    /\ IF vibrating
       THEN global' = binder.session /\ UNCHANGED ending
       ELSE EndSession(binder.session) /\ UNCHANGED global
    /\ binder' = Idle
    /\ UNCHANGED <<vibrating, callback, motor, calls, step, kind, left, manager, posted>>

AbortSession ==
    /\ binder.op = "abort"
    /\ Off
    /\ binder' = [binder EXCEPT !.op = "clear"]
    /\ UNCHANGED <<calls, step, kind, left, manager>>

\* Mutant: whatever session there is gets cleared.
ClearableAny(s) == session # NoCall

\* The session to be cleared is still the current one.
Clearable(s) == session = s

\* clearSession().
ClearSession(s) ==
    IF Clearable(s)
    THEN session' = NoCall /\ Post({session})
    ELSE UNCHANGED <<session, posted>>

AbortClears ==
    /\ binder.op = "clear"
    /\ ClearSession(binder.session)
    /\ binder' = Idle
    /\ UNCHANGED <<state, motor, calls, step, kind, left, preparing, ending>>

\* VibratorCallback::onComplete(), after its delay.
SessionEnds(s) ==
    /\ s \in ending
    /\ ending' = ending \ {s}
    /\ ClearSession(s)
    /\ UNCHANGED <<state, motor, calls, step, kind, left, binder, preparing>>

-----------------------------------------------------------------------------
(* The detached threads. *)

Wake(c) ==
    /\ step[c] = "sleep"
    /\ step' = [step EXCEPT ![c] = IF kind[c] = "dispatch" THEN "finish" ELSE "clear"]
    /\ UNCHANGED <<state, motor, calls, kind, left, binder, manager, ending, posted>>

\* Mutant: the global callback is reset before it is taken over.
TakeGlobalLost == global' = NoCall /\ UNCHANGED ending

\* The global callback is taken over and run by the thread.
TakeGlobal == global' = NoCall /\ EndSession(global)

\* The end of a dispatch or perform() thread, under mMutex, and its callbacks.
FinishVibration(c) ==
    /\ step[c] = "finish" /\ kind[c] # "compose"
    /\ step' = [step EXCEPT ![c] = "none"]
    /\ vibrating' = FALSE
    /\ callback' = IF callback = c THEN NoCall ELSE callback
    /\ Post({c} \cap {callback})
    /\ TakeGlobal
    /\ UNCHANGED <<motor, calls, kind, left, binder, manager>>

FinishComposition(c) ==
    /\ step[c] = "finish" /\ kind[c] = "compose"
    /\ step' = [step EXCEPT ![c] = "none"]
    /\ Post({c})
    /\ UNCHANGED <<state, motor, calls, kind, left, binder, manager, ending>>

-----------------------------------------------------------------------------
Api ==
    \/ On \/ PerformVendorEffect \/ OffCall
    \/ \E n \in 1 .. 2 : Perform(n)
    \/ \E n \in 0 .. MaxPulses : Compose(n)
    \/ PrepareSynced \/ StartSession
    \/ \E op \in {"close", "abort"} : LookUp(op)

BinderStep == Motor(Binder) \/ DispatchVibrate \/ CloseSession \/ AbortSession \/ AbortClears

Thread(c) == Motor(c) \/ Wake(c) \/ FinishVibration(c) \/ FinishComposition(c) \/ SessionEnds(c)

Next == Api \/ BinderStep \/ \E c \in Calls : Thread(c)

\* Threads are scheduled and their sleeps are finite.
Fairness == WF_vars(BinderStep) /\ \A c \in Calls : WF_vars(Thread(c))

Spec == Init /\ [][Next]_vars
FairSpec == Spec /\ Fairness

-----------------------------------------------------------------------------
(* Properties. *)

TypeOK ==
    /\ vibrating \in BOOLEAN /\ preparing \in BOOLEAN
    /\ {callback, global, session, calls} \subseteq Calls \cup {NoCall}
    /\ device \in BOOLEAN /\ (~device => last = NoEffect /\ effects = {})
    /\ last \in effects \cup {NoEffect} /\ effects \subseteq Effects
    /\ step \in [Actors -> {"none", "stop", "upload", "dispatch", "sleep", "clear", "finish"}]
    /\ kind \in [Calls -> {"none", "dispatch", "perform", "compose"}]
    /\ left \in [Calls -> 0 .. MaxPulses]
    /\ binder \in [op : {"none", "close", "abort", "clear"}, session : Calls \cup {NoCall}]
    /\ ending \subseteq Calls
    /\ posted \in [Calls -> Nat]

\* mIsVibrating makes perform() refuse and close() wait, so it may only be set
\* while a thread is under way that will clear it, whatever off() and the
\* threads of earlier vibrations did in between.
VibratingEnds ==
    vibrating => \E c \in Calls : step[c] # "none" /\ kind[c] \in {"dispatch", "perform"}

\* A callback is notified once, although off(), abort(), the thread of its own
\* vibration and those of others all look for callbacks to notify.
CompleteOnce == \A c \in Calls : posted[c] <= 1

\* However the threads of ended vibrations meet off(), abort() and each other,
\* the flag has a thread that clears it and no callback is notified twice.
EndsOnce == VibratingEnds /\ CompleteOnce

\* A session that was notified is over for good: a late VibratorCallback or
\* abort() of it does not touch the session started since.
OnlyOwnSession == [][session # NoCall /\ session' = NoCall =>
                        session \in ending \/ binder.session = session]_vars

\* A session that was closed ends, also when the vibration it waited for was
\* ended by off() or replaced.
ClosedSessionEnds ==
    \A s \in Calls : (global = s \/ s \in ending) ~> session # s
=============================================================================
