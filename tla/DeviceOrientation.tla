--------------------------- MODULE DeviceOrientation ---------------------------
(***************************************************************************)
(* The device orientation composite (composite/DeviceOrientationSensor.cpp)*)
(* turns samples of the accelerometer into one of four rotations.  The     *)
(* gravity vector is its angle in the plane of the screen, in steps of 15  *)
(* degrees from +Y towards +X, or Flat.  Time is in units of a third of    *)
(* kSettleTimeNs.                                                          *)
(***************************************************************************)
EXTENDS Integers

CONSTANTS
    Angles,     \* angles the device is held at, as multiples of 15 degrees, and Flat
    Settings,   \* [swap, invertX, invertY, offset]: the workarounds configured
    MaxTime     \* bound: the clock

Flat == -1
NoRotation == -1
Settle == 3
Turn == 24

VARIABLES
    now,        \* the timestamp of the last sample
    held,       \* what the samples have said without interruption, and since when
    setting,    \* the workarounds read by the last Activate()
    active,     \* active_
    reported,   \* reported_rotation_
    candidate,  \* candidate_rotation_
    since       \* candidate_since_ns_

vars == <<now, held, setting, active, reported, candidate, since>>

-----------------------------------------------------------------------------
(* LoadWorkarounds() and ComputeRotation().                                *)

\* The matrix negates x and y, then swaps its first two rows.  In angles: x
\* negated mirrors at +Y, y negated at +X, the swap at the diagonal.
Worked(s, angle) ==
    LET x == IF s.invertX THEN -angle ELSE angle
        y == IF s.invertY THEN Turn \div 2 - x ELSE x
    IN  (IF s.swap THEN Turn \div 4 - y ELSE y) % Turn

Nearest(angle) == ((angle + 3) \div 6) % 4

Distance(angle, rotation) ==
    LET d == IF angle >= 6 * rotation THEN angle - 6 * rotation ELSE 6 * rotation - angle
    IN  IF d > Turn \div 2 THEN Turn - d ELSE d

\* NoRotation when the device is flat or too close to the middle of two rotations.
ComputeRotation(s, angle) ==
    IF angle = Flat THEN NoRotation
    ELSE LET a == Worked(s, angle)
             c == Nearest(a)
         IN  IF Distance(a, c) > 2 THEN NoRotation ELSE (c + s.offset) % 4

-----------------------------------------------------------------------------
Off ==
    /\ reported = NoRotation
    /\ candidate = NoRotation
    /\ since = 0

Init ==
    /\ now = 0
    /\ held = [rotation |-> NoRotation, since |-> 0]
    /\ setting \in Settings
    /\ active = FALSE
    /\ Off

Activate(enabled) ==
    /\ active' = enabled
    /\ reported' = NoRotation /\ candidate' = NoRotation /\ since' = 0
    /\ setting' \in IF enabled THEN Settings ELSE {setting}
    /\ held' = [rotation |-> NoRotation, since |-> now]
    /\ UNCHANGED now

\* A mutant: a sample without a rotation leaves the candidate.
CandidateKept(rotation, time) ==
    IF rotation = NoRotation THEN [rotation |-> candidate, since |-> since]
    ELSE IF rotation # candidate THEN [rotation |-> rotation, since |-> time]
    ELSE [rotation |-> candidate, since |-> since]

\* The candidate after a sample that shows this rotation.
Candidate(rotation, time) ==
    IF rotation = NoRotation THEN [rotation |-> NoRotation, since |-> since]
    ELSE IF rotation # candidate THEN [rotation |-> rotation, since |-> time]
    ELSE [rotation |-> candidate, since |-> since]

\* The first rotation is reported at once, another one when it has settled.
Reports(rotation, next, time) ==
    /\ rotation # NoRotation /\ rotation # reported
    /\ reported = NoRotation \/ time - next.since >= Settle

ProcessEvent ==
    /\ active /\ now < MaxTime
    /\ \E angle \in Angles, time \in now .. now + 1 :
         \E r \in {ComputeRotation(setting, angle)} : \E next \in {Candidate(r, time)} :
            /\ time <= MaxTime
            /\ now' = time
            /\ candidate' = next.rotation
            /\ since' = next.since
            /\ reported' = IF Reports(r, next, time) THEN r ELSE reported
            /\ held' = IF r = held.rotation THEN held ELSE [rotation |-> r, since |-> time]
    /\ UNCHANGED <<active, setting>>

\* Samples are still collected while the composite is off, and ignored.
Ignore ==
    /\ ~active
    /\ now < MaxTime
    /\ now' = now + 1
    /\ UNCHANGED <<held, setting, active, reported, candidate, since>>

Next == (\E enabled \in BOOLEAN : Activate(enabled)) \/ ProcessEvent \/ Ignore

Spec == Init /\ [][Next]_vars

-----------------------------------------------------------------------------
TypeOK ==
    /\ now \in 0 .. MaxTime
    /\ setting \in Settings
    /\ active \in BOOLEAN
    /\ {reported, candidate} \subseteq NoRotation .. 3
    /\ since \in 0 .. MaxTime

\* The framework is told a rotation when the device was held in it, without
\* a sample that says otherwise or nothing, for the settle time, and only
\* then; the first one after an activation is told at once.  A device laid
\* flat on the way starts the settle time over (ProcessEvent).
ReportsWhenHeld ==
    [][(active /\ active' /\ held'.rotation # NoRotation) =>
        (reported' = held'.rotation <=>
            (reported \in {NoRotation, held'.rotation} \/ now' - held'.since >= Settle))]_vars
=============================================================================
