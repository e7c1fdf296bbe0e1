--------------------------- MODULE VibratorProofs ---------------------------
(***************************************************************************)
(* The flag of the vibrator is always cleared by some thread and every     *)
(* callback is notified once at most, for any number of calls and pulses.  *)
(***************************************************************************)
EXTENDS Vibrator, TLAPS

\* Threads that drive the motor have pulses left, and only the binder thread is
\* where a motor call dispatches a thread.
PulseInv ==
    /\ step[Binder] \in {"none", "stop", "upload", "dispatch"}
    /\ \A c \in Calls : step[c] # "dispatch" /\ (step[c] \in {"stop", "upload"} => left[c] > 0)

\* What calls did not use yet.
FreshInv ==
    /\ \A c \in Calls : c > calls =>
          posted[c] = 0 /\ step[c] = "none" /\ c \notin {callback, session}
    /\ step[Binder] # "none" =>
          /\ calls \in Calls /\ posted[calls] = 0 /\ step[calls] = "none"
          /\ calls \notin {callback, session}

\* A callback is registered in one place, until it is notified: with the
\* vibration, with the composition that runs for it, or with the session.
OnceInv ==
    /\ CompleteOnce
    /\ callback # NoCall => callback # session
    /\ \A c \in Calls : c \in {callback, session} => posted[c] = 0
    /\ \A c \in Calls : step[c] # "none" /\ kind[c] = "compose" =>
          posted[c] = 0 /\ c \notin {callback, session}

VibratorInv == TypeOK /\ PulseInv /\ FreshInv /\ OnceInv /\ VibratingEnds

\* The binder thread is not one of the threads that calls leave behind.
LEMMA Threads == Calls \subseteq Nat /\ Binder \notin Calls /\ NoCall \notin Calls /\ Binder \in Actors
    BY VibratorAssumption DEF Calls, Binder, NoCall, Actors

\* A new call has a number of its own.
LEMMA NumberedCall ==
    ASSUME TypeOK, NewCall
    PROVE  /\ calls' \in Calls /\ calls' > calls /\ step[Binder] = "none"
           /\ \A c \in Calls : c > calls' => c > calls /\ c # calls'
<1>1. calls \in Nat /\ calls' = calls + 1 /\ calls' <= MaxCalls
    BY VibratorAssumption DEF TypeOK, NewCall, Calls, NoCall
<1>2. calls' \in Calls /\ calls' > calls
    BY <1>1, VibratorAssumption DEF Calls
<1>3. step[Binder] = "none"
    BY DEF NewCall, BinderIdle
<1>4. ASSUME NEW c \in Calls, c > calls'
      PROVE  c > calls /\ c # calls'
    <2>1. c \in Nat
        BY Threads
    <2>2. c > calls + 1
        BY <1>1, <1>4
    <2> QED
        BY <1>1, <2>1, <2>2
<1> QED
    BY <1>2, <1>3, <1>4

\* Where threads can be keeps making sense.
LEMMA PulseStep ==
    ASSUME VibratorInv, [Next]_vars
    PROVE  PulseInv'
<1> USE Threads DEF VibratorInv, PulseInv
<1>0. /\ step \in [Actors -> {"none", "stop", "upload", "dispatch", "sleep", "clear", "finish"}]
      /\ left \in [Calls -> 0 .. MaxPulses] /\ Calls \subseteq Actors
    BY DEF TypeOK, Actors
<1>1. ASSUME NEW a \in Actors, Motor(a)
      PROVE  PulseInv'
    <2>1. CASE step[a] = "stop"
        BY <1>0, <1>1, <2>1 DEF Motor, PlayStep
    <2>2. CASE step[a] = "upload"
        BY <1>0, <1>1, <2>2 DEF Motor, PlayStep, Actors
    <2>3. CASE step[a] = "clear"
        BY <1>0, <1>1, <2>3 DEF Motor, PlayStep, Actors
    <2> QED
        BY <1>1, <2>1, <2>2, <2>3 DEF Motor, PlayStep
<1>2. CASE On
    BY <1>0, <1>2 DEF On
<1>3. ASSUME NEW n \in 1 .. 2, Perform(n)
      PROVE  PulseInv'
    <2>1. calls' \in Calls /\ n > 0
        BY <1>3, NumberedCall DEF Perform
    <2> QED
        BY <1>0, <1>3, <2>1 DEF Perform, Spawn
<1>4. ASSUME NEW n \in 0 .. MaxPulses, Compose(n)
      PROVE  PulseInv'
    <2>1. calls' \in Calls /\ (n # 0 => n > 0)
        BY <1>4, NumberedCall, VibratorAssumption DEF Compose
    <2> QED
        BY <1>0, <1>4, <2>1 DEF Compose, Spawn
<1>5. CASE DispatchVibrate
    BY <1>0, <1>5 DEF DispatchVibrate, FreshInv
<1>6. ASSUME NEW c \in Calls, Wake(c) \/ FinishVibration(c) \/ FinishComposition(c)
      PROVE  PulseInv'
    BY <1>0, <1>6 DEF Wake, FinishVibration, FinishComposition
<1>7. CASE UNCHANGED <<step, left>>
    BY <1>7
<1> QED
    BY <1>1, <1>2, <1>3, <1>4, <1>5, <1>6, <1>7
    DEF Next, Api, BinderStep, Thread, Actors, OffCall, PrepareSynced, StartSession, LookUp,
        PerformVendorEffect, CloseSession, AbortSession, AbortClears, SessionEnds, vars

\* Nothing but the end of a vibration takes its thread away, and then the flag
\* is cleared.
LEMMA VibratingStep ==
    ASSUME VibratorInv, [Next]_vars
    PROVE  VibratingEnds'
<1> USE Threads DEF VibratorInv, VibratingEnds
<1>0. /\ step \in [Actors -> {"none", "stop", "upload", "dispatch", "sleep", "clear", "finish"}]
      /\ kind \in [Calls -> {"none", "dispatch", "perform", "compose"}] /\ Calls \subseteq Actors
    BY DEF TypeOK, Actors
<1>1. ASSUME NEW a \in Actors, Motor(a)
      PROVE  VibratingEnds'
    <2>1. vibrating' = vibrating /\ kind' = kind
        BY <1>1 DEF Motor, state
    <2>2. \A c \in Calls : step[c] # "none" => step'[c] # "none"
        BY <1>0, <1>1 DEF Motor, PlayStep
    <2> QED
        BY <2>1, <2>2
<1>2. CASE On
    BY <1>0, <1>2 DEF On, state
<1>3. ASSUME NEW n \in 1 .. 2, Perform(n)
      PROVE  VibratingEnds'
    <2>1. calls' \in Calls
        BY <1>3, NumberedCall DEF Perform
    <2> QED
        BY <1>0, <1>3, <2>1 DEF Perform, Spawn
<1>4. ASSUME NEW n \in 0 .. MaxPulses, Compose(n)
      PROVE  VibratingEnds'
    <2>1. calls' \in Calls /\ step[calls'] = "none"
        BY <1>4, NumberedCall DEF Compose, FreshInv
    <2>2. \A c \in Calls : c # calls' => step'[c] = step[c] /\ kind'[c] = kind[c]
        BY <1>0, <1>4, <2>1 DEF Compose, Spawn
    <2> QED
        BY <1>4, <2>1, <2>2 DEF Compose, Composing
<1>5. CASE DispatchVibrate
    BY <1>0, <1>5 DEF DispatchVibrate, FreshInv
<1>6. ASSUME NEW c \in Calls, Wake(c) \/ FinishComposition(c)
      PROVE  VibratingEnds'
    BY <1>0, <1>6 DEF Wake, FinishComposition, state
<1>7. ASSUME NEW c \in Calls, FinishVibration(c)
      PROVE  VibratingEnds'
    BY <1>7 DEF FinishVibration
<1>8. CASE OffCall \/ AbortSession
    BY <1>8 DEF OffCall, AbortSession, Off, OffLocked
<1>9. CASE UNCHANGED <<vibrating, step, kind>>
    BY <1>9
<1> QED
    BY <1>1, <1>2, <1>3, <1>4, <1>5, <1>6, <1>7, <1>8, <1>9
    DEF Next, Api, BinderStep, Thread, Actors, PrepareSynced, StartSession, LookUp,
        PerformVendorEffect, CloseSession, AbortClears, SessionEnds, state, vars

\* A callback that is notified was registered once.
LEMMA Posted ==
    ASSUME TypeOK, NEW cs, Post(cs)
    PROVE  /\ \A c \in Calls : c \notin cs => posted'[c] = posted[c]
           /\ \A c \in Calls : c \in cs /\ posted[c] = 0 => posted'[c] = 1
           /\ \A c \in Calls : posted'[c] \in Nat
    BY DEF Post, TypeOK

\* Clearing a session notifies it, and only it.
LEMMA Cleared ==
    ASSUME TypeOK, FreshInv, OnceInv, NEW s, ClearSession(s),
           UNCHANGED <<callback, calls, step, kind>>
    PROVE  FreshInv' /\ OnceInv'
<1> USE Threads
<1>1. CASE session = s /\ session # NoCall
    <2>1. session' = NoCall /\ Post({session}) /\ session \in Calls
        BY <1>1 DEF ClearSession, Clearable, TypeOK
    <2>2. posted[session] = 0 /\ posted'[session] = 1
            /\ \A c \in Calls : c # session => posted'[c] = posted[c]
        BY <2>1, Posted DEF OnceInv
    <2>3. callback # session
        BY <1>1 DEF OnceInv
    <2>4. CompleteOnce'
        BY <2>2 DEF OnceInv, CompleteOnce
    <2>5. FreshInv'
        BY <2>1, <2>2 DEF FreshInv
    <2>6. \A c \in Calls : c \in {callback', session'} => posted'[c] = 0
        BY <2>1, <2>2, <2>3 DEF OnceInv
    <2>7. \A c \in Calls : step'[c] # "none" /\ kind'[c] = "compose" =>
            posted'[c] = 0 /\ c \notin {callback', session'}
        BY <2>1, <2>2 DEF OnceInv
    <2> QED
        BY <2>1, <2>4, <2>5, <2>6, <2>7 DEF OnceInv
<1>2. CASE session = s /\ session = NoCall
    <2>1. session' = NoCall /\ Post({NoCall})
        BY <1>2 DEF ClearSession, Clearable
    <2>2. \A c \in Calls : posted'[c] = posted[c]
        BY <2>1, Posted
    <2> QED
        BY <1>2, <2>1, <2>2 DEF FreshInv, OnceInv, CompleteOnce
<1>3. CASE session # s
    BY <1>3 DEF ClearSession, Clearable, FreshInv, OnceInv, CompleteOnce
<1> QED
    BY <1>1, <1>2, <1>3

\* off() notifies what was registered with the vibration, and only that.
LEMMA TurnedOff ==
    ASSUME TypeOK, FreshInv, OnceInv, Off, UNCHANGED <<session, calls, step, kind>>
    PROVE  FreshInv' /\ OnceInv'
<1> USE Threads
<1>1. callback' = NoCall /\ Post({callback} \ {NoCall})
    BY DEF Off, OffLocked
<1>2. \A c \in Calls : c # callback => posted'[c] = posted[c]
    BY <1>1, Posted
<1>3. callback \in Calls => posted'[callback] = 1
    BY <1>1, Posted DEF OnceInv
<1>4. callback # NoCall => callback # session
    BY DEF OnceInv
<1>5. CompleteOnce'
    <2> SUFFICES ASSUME NEW c \in Calls
                 PROVE  posted'[c] <= 1
        BY DEF CompleteOnce
    <2>1. CASE c = callback
        BY <1>3, <2>1
    <2>2. CASE c # callback
        BY <1>2, <2>2 DEF OnceInv, CompleteOnce
    <2> QED
        BY <2>1, <2>2
<1>6. FreshInv'
    BY <1>1, <1>2 DEF FreshInv
<1>7. \A c \in Calls : c \in {callback', session'} => posted'[c] = 0
    BY <1>1, <1>2, <1>4 DEF OnceInv
<1>8. \A c \in Calls : step'[c] # "none" /\ kind'[c] = "compose" =>
        posted'[c] = 0 /\ c \notin {callback', session'}
    BY <1>1, <1>2 DEF OnceInv
<1> QED
    BY <1>1, <1>5, <1>6, <1>7, <1>8 DEF OnceInv

\* A callback is registered once and notified once.
LEMMA OnceStep ==
    ASSUME VibratorInv, [Next]_vars
    PROVE  FreshInv' /\ OnceInv'
<1> USE Threads DEF VibratorInv
<1>0. /\ step \in [Actors -> {"none", "stop", "upload", "dispatch", "sleep", "clear", "finish"}]
      /\ kind \in [Calls -> {"none", "dispatch", "perform", "compose"}] /\ Calls \subseteq Actors
      /\ calls \in Calls \cup {NoCall} /\ posted \in [Calls -> Nat]
    BY DEF TypeOK, Actors
<1>1. ASSUME NEW a \in Actors, Motor(a)
      PROVE  FreshInv' /\ OnceInv'
    <2>1. UNCHANGED <<posted, callback, session, kind, calls>>
        BY <1>1 DEF Motor, state, manager
    <2>2. \A b \in Actors : step[b] = "none" <=> step'[b] = "none"
        BY <1>0, <1>1 DEF Motor, PlayStep
    <2> QED
        BY <1>0, <2>1, <2>2 DEF FreshInv, OnceInv, CompleteOnce
<1>2. CASE On
    <2>1. calls' \in Calls /\ posted[calls'] = 0 /\ step[calls'] = "none"
            /\ calls' \notin {callback, session}
            /\ \A c \in Calls : c > calls' => c > calls /\ c # calls'
        BY <1>2, NumberedCall DEF On, FreshInv
    <2>2. UNCHANGED <<posted, callback, session, kind>>
            /\ \A c \in Calls : step'[c] = step[c]
        BY <1>0, <1>2 DEF On, state, manager
    <2> QED
        BY <2>1, <2>2 DEF FreshInv, OnceInv, CompleteOnce
<1>3. ASSUME NEW n \in 1 .. 2, Perform(n)
      PROVE  FreshInv' /\ OnceInv'
    <2>1. calls' \in Calls /\ posted[calls'] = 0 /\ step[calls'] = "none"
            /\ calls' \notin {callback, session} /\ step[Binder] = "none"
            /\ \A c \in Calls : c > calls' => c > calls /\ c # calls'
        BY <1>3, NumberedCall DEF Perform, FreshInv
    <2>2. CASE vibrating
        BY <1>3, <2>1, <2>2 DEF Perform, FreshInv, OnceInv, CompleteOnce, manager
    <2>3. CASE ~vibrating
        <3>1. UNCHANGED <<posted, session>> /\ callback' = calls' /\ step'[Binder] = "none"
                /\ kind'[calls'] = "perform"
                /\ \A c \in Calls : c # calls' => step'[c] = step[c] /\ kind'[c] = kind[c]
            BY <1>0, <1>3, <2>1, <2>3 DEF Perform, Spawn, manager
        <3> QED
            BY <2>1, <3>1 DEF FreshInv, OnceInv, CompleteOnce
    <2> QED
        BY <2>2, <2>3
<1>4. ASSUME NEW n \in 0 .. MaxPulses, Compose(n)
      PROVE  FreshInv' /\ OnceInv'
    <2>1. calls' \in Calls /\ posted[calls'] = 0 /\ step[calls'] = "none"
            /\ calls' \notin {callback, session} /\ step[Binder] = "none"
            /\ \A c \in Calls : c > calls' => c > calls /\ c # calls'
        BY <1>4, NumberedCall DEF Compose, FreshInv
    <2>2. UNCHANGED <<posted, session, callback>> /\ step'[Binder] = "none"
            /\ \A c \in Calls : c # calls' => step'[c] = step[c] /\ kind'[c] = kind[c]
        BY <1>0, <1>4, <2>1 DEF Compose, Spawn, manager
    <2> QED
        BY <2>1, <2>2 DEF FreshInv, OnceInv, CompleteOnce
<1>5. CASE DispatchVibrate
    <2>1. step[Binder] # "none" /\ UNCHANGED <<posted, session, calls>> /\ step'[Binder] = "none"
        BY <1>0, <1>5 DEF DispatchVibrate, manager
    <2>2. calls \in Calls /\ posted[calls] = 0 /\ step[calls] = "none"
            /\ calls \notin {callback, session} /\ calls \in Nat
        BY <2>1 DEF FreshInv
    <2>3. CASE vibrating
        <3>1. callback' = callback /\ kind' = kind /\ \A c \in Calls : step'[c] = step[c]
            BY <1>0, <1>5, <2>3 DEF DispatchVibrate
        <3> QED
            BY <2>1, <3>1 DEF FreshInv, OnceInv, CompleteOnce
    <2>4. CASE ~vibrating
        <3>1. callback' = calls /\ kind'[calls] = "dispatch"
                /\ \A c \in Calls : c # calls => step'[c] = step[c] /\ kind'[c] = kind[c]
            <4>1. kind' = [kind EXCEPT ![calls] = "dispatch"] /\ callback' = calls
                    /\ step' = [step EXCEPT ![calls] = "sleep", ![Binder] = "none"]
                BY <1>5, <2>4 DEF DispatchVibrate
            <4> QED
                BY <1>0, <2>2, <4>1
        <3>2. \A c \in Calls : c > calls => c # calls
            BY <2>2
        <3> QED
            BY <2>1, <2>2, <3>1, <3>2 DEF FreshInv, OnceInv, CompleteOnce
    <2> QED
        BY <2>3, <2>4
<1>6. CASE OffCall \/ AbortSession
    BY <1>6, TurnedOff DEF OffCall, AbortSession, manager
<1>7. CASE StartSession
    <2>1. calls' \in Calls /\ posted[calls'] = 0 /\ step[calls'] = "none"
            /\ calls' \notin {callback, session} /\ step[Binder] = "none"
            /\ \A c \in Calls : c > calls' => c > calls /\ c # calls'
        BY <1>7, NumberedCall DEF StartSession, FreshInv
    <2>2. UNCHANGED <<posted, callback, step, kind>> /\ session' \in {session, calls'}
        BY <1>7 DEF StartSession, state
    <2> QED
        BY <2>1, <2>2 DEF FreshInv, OnceInv, CompleteOnce
<1>8. CASE AbortClears \/ \E s \in Calls : SessionEnds(s)
    BY <1>8, Cleared DEF AbortClears, SessionEnds, state
<1>9. ASSUME NEW c \in Calls, Wake(c)
      PROVE  FreshInv' /\ OnceInv'
    <2>1. UNCHANGED <<posted, callback, session, kind, calls>>
        BY <1>9 DEF Wake, state, manager
    <2>2. \A b \in Actors : step[b] = "none" <=> step'[b] = "none"
        BY <1>0, <1>9 DEF Wake
    <2> QED
        BY <1>0, <2>1, <2>2 DEF FreshInv, OnceInv, CompleteOnce
<1>10. ASSUME NEW c \in Calls, FinishVibration(c) \/ FinishComposition(c)
       PROVE  FreshInv' /\ OnceInv'
    <2>1. UNCHANGED <<session, kind, calls>> /\ step[c] # "none" /\ step'[c] = "none"
            /\ \A b \in Actors : b # c => step'[b] = step[b]
        BY <1>0, <1>10 DEF FinishVibration, FinishComposition, manager
    <2>2. CASE FinishVibration(c)
        <3>1. Post({c} \cap {callback})
                /\ callback' = IF callback = c THEN NoCall ELSE callback
            BY <2>2 DEF FinishVibration
        <3>2. \A b \in Calls : b # c \/ b # callback => posted'[b] = posted[b]
            BY <3>1, Posted
        <3>3. callback = c => posted'[c] = 1
            BY <3>1, Posted DEF OnceInv
        <3> QED
            BY <1>0, <2>1, <3>1, <3>2, <3>3 DEF FreshInv, OnceInv, CompleteOnce
    <2>3. CASE FinishComposition(c)
        <3>1. Post({c}) /\ callback' = callback /\ kind[c] = "compose"
            BY <2>3 DEF FinishComposition, state
        <3>2. \A b \in Calls : b # c => posted'[b] = posted[b]
            BY <3>1, Posted
        <3>3. posted'[c] = 1 /\ c \notin {callback, session}
            BY <2>1, <3>1, Posted DEF OnceInv
        <3> QED
            BY <1>0, <2>1, <3>1, <3>2, <3>3 DEF FreshInv, OnceInv, CompleteOnce
    <2> QED
        BY <1>10, <2>2, <2>3
<1>11. CASE UNCHANGED <<posted, callback, session, step, kind, calls>>
    BY <1>11 DEF FreshInv, OnceInv, CompleteOnce
<1> QED
    BY <1>1, <1>2, <1>3, <1>4, <1>5, <1>6, <1>7, <1>8, <1>9, <1>10, <1>11
    DEF Next, Api, BinderStep, Thread, Actors, PrepareSynced, LookUp, PerformVendorEffect,
        CloseSession, state, manager, vars

\* Types.
LEMMA TypeStep ==
    ASSUME VibratorInv, [Next]_vars
    PROVE  TypeOK'
<1> USE Threads DEF VibratorInv
<1> DEFINE Steps == {"none", "stop", "upload", "dispatch", "sleep", "clear", "finish"}
           Kinds == {"none", "dispatch", "perform", "compose"}
<1>0. step \in [Actors -> Steps] /\ left \in [Calls -> 0 .. MaxPulses] /\ Calls \subseteq Actors
    BY DEF TypeOK, Actors
<1>1. ASSUME NEW a \in Actors, Motor(a)
      PROVE  TypeOK'
    <2>1. /\ last' \in effects' \cup {NoEffect} /\ effects' \subseteq Effects
          /\ device' \in BOOLEAN /\ (~device' => last' = NoEffect /\ effects' = {})
        <3>1. StopEffect \/ Upload
            BY <1>1 DEF Motor, PlayStep
        <3>2. CASE StopEffect
            BY <3>2 DEF StopEffect, TypeOK
        <3>3. CASE Upload
            BY <3>3 DEF Upload, TypeOK, motor
        <3> QED
            BY <3>1, <3>2, <3>3
    <2>2. step' \in [Actors -> Steps]
        BY <1>0, <1>1 DEF Motor, PlayStep
    <2>3. left' \in [Calls -> 0 .. MaxPulses]
        <3>1. CASE left' = left
            BY <1>0, <3>1
        <3>2. CASE step[a] = "upload" /\ a # Binder /\ left' = [left EXCEPT ![a] = @ - 1]
            <4>1. a \in Calls /\ left[a] > 0 /\ left[a] \in 0 .. MaxPulses
                BY <1>0, <3>2 DEF Actors, PulseInv
            <4>2. left[a] - 1 \in 0 .. MaxPulses
                BY <4>1, VibratorAssumption
            <4> QED
                BY <1>0, <3>2, <4>2
        <3> QED
            BY <1>1, <3>1, <3>2 DEF Motor, PlayStep
    <2> QED
        BY <1>1, <2>1, <2>2, <2>3 DEF Motor, TypeOK, state, manager
<1>2. CASE On
    <2>1. calls' \in Calls /\ step' \in [Actors -> Steps]
        BY <1>0, <1>2, NumberedCall DEF On
    <2> QED
        BY <1>2, <2>1 DEF On, TypeOK, state, motor, manager
<1>3. ASSUME NEW n \in 1 .. 2, Perform(n)
      PROVE  TypeOK'
    <2>1. calls' \in Calls /\ n \in 0 .. MaxPulses
        BY <1>3, NumberedCall, VibratorAssumption DEF Perform
    <2>2. /\ step' \in [Actors -> Steps] /\ left' \in [Calls -> 0 .. MaxPulses]
          /\ kind' \in [Calls -> Kinds]
        BY <1>0, <1>3, <2>1 DEF Perform, Spawn, TypeOK
    <2>3. vibrating' \in BOOLEAN /\ callback' \in Calls \cup {NoCall}
        BY <1>3, <2>1 DEF Perform, TypeOK
    <2> QED
        BY <1>3, <2>1, <2>2, <2>3 DEF Perform, TypeOK, motor, manager
<1>4. ASSUME NEW n \in 0 .. MaxPulses, Compose(n)
      PROVE  TypeOK'
    <2>1. calls' \in Calls
        BY <1>4, NumberedCall DEF Compose
    <2>2. /\ step' \in [Actors -> Steps] /\ left' \in [Calls -> 0 .. MaxPulses]
          /\ kind' \in [Calls -> Kinds]
        BY <1>0, <1>4, <2>1 DEF Compose, Spawn, TypeOK
    <2> QED
        BY <1>4, <2>1, <2>2 DEF Compose, Composing, TypeOK, motor, manager
<1>5. CASE DispatchVibrate
    <2>1. calls \in Calls
        BY <1>5 DEF DispatchVibrate, FreshInv
    <2>2. step' \in [Actors -> Steps] /\ kind' \in [Calls -> Kinds]
        BY <1>0, <1>5, <2>1 DEF DispatchVibrate, TypeOK
    <2>3. callback' \in Calls \cup {NoCall}
        BY <1>5, <2>1 DEF DispatchVibrate, TypeOK
    <2>4. vibrating' \in BOOLEAN
        <3>1. vibrating' = vibrating \/ vibrating' = TRUE
            BY <1>5 DEF DispatchVibrate
        <3>2. vibrating \in BOOLEAN
            BY DEF TypeOK
        <3> QED
            BY <3>1, <3>2, Zenon
    <2>5. UNCHANGED <<global, device, last, effects, calls, left, binder, preparing, session, ending, posted>>
        BY <1>5 DEF DispatchVibrate, motor, manager
    <2> QED
        BY <2>2, <2>3, <2>4, <2>5 DEF TypeOK
<1>6. ASSUME NEW cs, Post(cs)
      PROVE  posted' \in [Calls -> Nat]
    BY <1>6 DEF Post, TypeOK
<1>7. ASSUME NEW s \in Calls \cup {NoCall}, EndSession(s)
      PROVE  ending' \subseteq Calls
    BY <1>7 DEF EndSession, TypeOK
<1>8. ASSUME NEW s, ClearSession(s)
      PROVE  session' \in Calls \cup {NoCall} /\ posted' \in [Calls -> Nat]
    BY <1>6, <1>8 DEF ClearSession, TypeOK
<1>9. CASE OffCall \/ AbortSession
    <2>1. Off
        BY <1>9 DEF OffCall, AbortSession
    <2>2. /\ vibrating' = FALSE /\ callback' = NoCall /\ global' = NoCall
          /\ last' = NoEffect /\ effects' \subseteq Effects
          /\ device' \in BOOLEAN /\ (~device' => effects' = {})
          /\ posted' \in [Calls -> Nat] /\ ending' \subseteq Calls
        BY <1>6, <1>7, <2>1 DEF Off, OffLocked, StopEffect, TypeOK
    <2>3. binder' \in [op : {"none", "close", "abort", "clear"}, session : Calls \cup {NoCall}]
        BY <1>9 DEF OffCall, AbortSession, TypeOK
    <2> QED
        BY <1>9, <2>2, <2>3 DEF OffCall, AbortSession, TypeOK, manager
<1>10. CASE PrepareSynced
    BY <1>10 DEF PrepareSynced, TypeOK, state, motor
<1>11. CASE StartSession
    <2>1. calls' \in Calls
        BY <1>11, NumberedCall DEF StartSession
    <2> QED
        BY <1>11, <2>1 DEF StartSession, TypeOK, state, motor
<1>12. ASSUME NEW op \in {"close", "abort"}, LookUp(op)
       PROVE  TypeOK'
    <2>1. binder' \in [op : {"none", "close", "abort", "clear"}, session : Calls \cup {NoCall}]
        BY <1>12 DEF LookUp, TypeOK
    <2> QED
        BY <1>12, <2>1 DEF LookUp, TypeOK, state, motor, manager
<1>13. CASE CloseSession
    <2>1. binder.session \in Calls \cup {NoCall} /\ binder' \in
            [op : {"none", "close", "abort", "clear"}, session : Calls \cup {NoCall}]
        BY <1>13 DEF CloseSession, Idle, TypeOK
    <2>2. global' \in Calls \cup {NoCall} /\ ending' \subseteq Calls
        BY <1>7, <1>13, <2>1 DEF CloseSession, TypeOK
    <2> QED
        BY <1>13, <2>1, <2>2 DEF CloseSession, TypeOK, motor, manager
<1>14. CASE AbortClears
    <2>1. binder' \in [op : {"none", "close", "abort", "clear"}, session : Calls \cup {NoCall}]
        BY <1>14 DEF AbortClears, Idle
    <2>2. session' \in Calls \cup {NoCall} /\ posted' \in [Calls -> Nat]
        BY <1>8, <1>14 DEF AbortClears
    <2> QED
        BY <1>14, <2>1, <2>2 DEF AbortClears, TypeOK, state, motor
<1>15. ASSUME NEW s \in Calls, SessionEnds(s)
       PROVE  TypeOK'
    BY <1>8, <1>15 DEF SessionEnds, TypeOK, state, motor
<1>16. ASSUME NEW c \in Calls, Wake(c)
       PROVE  TypeOK'
    BY <1>0, <1>16 DEF Wake, TypeOK, state, motor, manager
<1>17. ASSUME NEW c \in Calls, FinishVibration(c)
       PROVE  TypeOK'
    <2>1. posted' \in [Calls -> Nat] /\ ending' \subseteq Calls /\ global' = NoCall
        BY <1>6, <1>7, <1>17 DEF FinishVibration, TakeGlobal, TypeOK
    <2>2. step' \in [Actors -> Steps] /\ callback' \in Calls \cup {NoCall}
        BY <1>0, <1>17 DEF FinishVibration, TypeOK
    <2> QED
        BY <1>17, <2>1, <2>2 DEF FinishVibration, TypeOK, motor, manager
<1>18. ASSUME NEW c \in Calls, FinishComposition(c)
       PROVE  TypeOK'
    <2>1. posted' \in [Calls -> Nat] /\ step' \in [Actors -> Steps]
        BY <1>0, <1>6, <1>18 DEF FinishComposition
    <2> QED
        BY <1>18, <2>1 DEF FinishComposition, TypeOK, state, motor, manager
<1>19. CASE UNCHANGED vars
    BY <1>19 DEF vars, state, motor, manager, TypeOK
<1> QED
    BY <1>1, <1>2, <1>3, <1>4, <1>5, <1>9, <1>10, <1>11, <1>12, <1>13, <1>14, <1>15, <1>16, <1>17,
       <1>18, <1>19 DEF Next, Api, BinderStep, Thread, Actors, PerformVendorEffect

\* The invariant holds from the start and is kept.
LEMMA VibratorAlways == Spec => []VibratorInv
<1>1. Init => VibratorInv
    <2> SUFFICES ASSUME Init
                 PROVE  VibratorInv
        OBVIOUS
    <2>1. TypeOK
        <3>1. /\ step \in [Actors -> {"none", "stop", "upload", "dispatch", "sleep", "clear",
                                      "finish"}]
              /\ kind \in [Calls -> {"none", "dispatch", "perform", "compose"}]
            BY DEF Init
        <3>2. left \in [Calls -> 0 .. MaxPulses] /\ posted \in [Calls -> Nat]
            BY VibratorAssumption DEF Init
        <3>3. vibrating \in BOOLEAN /\ preparing \in BOOLEAN
            BY DEF Init
        <3>4. {callback, global, session, calls} \subseteq Calls \cup {NoCall}
            BY DEF Init, NoCall
        <3>5. /\ last \in effects \cup {NoEffect} /\ effects \subseteq Effects /\ ending \subseteq Calls
              /\ device \in BOOLEAN /\ (~device => last = NoEffect /\ effects = {})
            BY DEF Init, FindDevice
        <3>6. binder \in [op : {"none", "close", "abort", "clear"}, session : Calls \cup {NoCall}]
            BY DEF Init, Idle
        <3> QED
            BY <3>1, <3>2, <3>3, <3>4, <3>5, <3>6 DEF TypeOK
    <2>2. /\ \A a \in Actors : step[a] = "none"
          /\ \A c \in Calls : posted[c] = 0 /\ step[c] = "none"
          /\ callback = NoCall /\ session = NoCall /\ vibrating = FALSE
        BY Threads DEF Init, Actors
    <2>3. PulseInv
        BY <2>2, Threads DEF PulseInv
    <2>4. FreshInv
        BY <2>2, Threads DEF FreshInv
    <2>5. OnceInv /\ VibratingEnds
        BY <2>2, Threads DEF OnceInv, CompleteOnce, VibratingEnds
    <2> QED
        BY <2>1, <2>3, <2>4, <2>5 DEF VibratorInv
<1>2. VibratorInv /\ [Next]_vars => VibratorInv'
    BY TypeStep, PulseStep, OnceStep, VibratingStep DEF VibratorInv
<1> QED
    BY <1>1, <1>2, PTL DEF Spec

\* Vibrator.cpp: whatever off(), abort() and the threads of earlier vibrations
\* do, a vibrating vibrator has a thread that will clear the flag, and no
\* callback is notified twice.
THEOREM EndsOnceAlways == Spec => []EndsOnce
<1>1. VibratorInv => EndsOnce
    BY DEF VibratorInv, OnceInv, EndsOnce
<1> QED
    BY <1>1, VibratorAlways, PTL

\* VibratorManager.cpp: only the callback or the abort of a session ends it, never
\* a late one of a session before it.
THEOREM SessionsApart == Spec => OnlyOwnSession
<1>1. [Next]_vars =>
        [session # NoCall /\ session' = NoCall => session \in ending \/ binder.session = session]_vars
    <2> SUFFICES ASSUME [Next]_vars, session # NoCall, session' = NoCall
                 PROVE  session \in ending \/ binder.session = session
        BY DEF vars
    <2>1. CASE AbortClears
        BY <2>1 DEF AbortClears, ClearSession, Clearable
    <2>2. ASSUME NEW s \in Calls, SessionEnds(s)
          PROVE  session \in ending
        BY <2>2 DEF SessionEnds, ClearSession, Clearable
    <2>3. CASE StartSession
        BY <2>3 DEF StartSession
    <2> QED
        BY <2>1, <2>2, <2>3
        DEF Next, Api, BinderStep, Thread, Motor, On, PerformVendorEffect, OffCall, Perform, Compose,
            PrepareSynced, LookUp, DispatchVibrate, CloseSession, AbortSession, Wake,
            FinishVibration, FinishComposition, manager, vars
<1> QED
    BY <1>1, PTL DEF Spec, OnlyOwnSession
=============================================================================
