---------------------------- MODULE CameraProofs ----------------------------
(***************************************************************************)
(* Proofs about the flash of a camera (CameraFlash), for any number of     *)
(* callers and sessions, about the frames of a session (CaptureStream),    *)
(* for any number of buffers, settings and limits, about the list of       *)
(* cameras and their IDs (CameraProvider), for any number of cameras, and  *)
(* about the scan of /dev, the pipelines of sensors (CameraDiscovery) and  *)
(* the choice of a mode (StreamPlanner), for any graph of entities and     *)
(* links and any formats.                                                  *)
(***************************************************************************)
EXTENDS MCCamera, FiniteSetTheorems, SequenceTheorems, WellFoundedInduction, TLAPS

\* The states a flash can be in: what TypeOK, LitByOwner and TorchTold say, and
\* that a flash without listener is one of a camera that is gone.
FlashInv == TypeOK /\ LitByOwner /\ TorchTold /\ (~detached => listener) /\ (detached => disconnected)

\* Only the session that session_ refers to is open or being closed.  Unless an
\* open() met a destructor, there is one user of the flash at a time (an open(),
\* a session or a destructor), and the first two have it until the camera goes.
SessionInv ==
    /\ TypeOK
    /\ detached => disconnected
    /\ \A s \in Sessions :
          session[s] \in {"open", "closing"} => current = s /\ opening # "acquired"
    /\ ~overlapped =>
         /\ \A r, s \in Sessions :
               session[r] = "dropped" /\ session[s] \in {"open", "closing", "dropped"} => r = s
         /\ opening = "acquired" =>
               /\ \A s \in Sessions : session[s] # "dropped"
               /\ ~disconnected => acquired
         /\ \A s \in Sessions :
               session[s] \in {"open", "closing"} /\ ~disconnected => acquired

USE DEF NoSession

-----------------------------------------------------------------------------
(* The type invariant. *)

LEMMA FlashTypes == TypeOK /\ [Next]_vars => TypeOK'
<1> SUFFICES ASSUME TypeOK, [Next]_vars PROVE TypeOK'
    OBVIOUS
<1> USE FlashAssumption DEF TypeOK
<1>1. ASSUME NEW c \in Callers, TorchApplies(c) PROVE TypeOK'
    BY <1>1 DEF TorchApplies, SetTorchLevel, SetTorch, NotifyLocked, LevelIsNews, device, flash
<1>2. ASSUME NEW c \in Callers, NEW what \in {"on", "off", "level"}, TorchCall(c, what)
      PROVE TypeOK'
    BY <1>2 DEF TorchCall, device, flash
<1>3. CASE OpenCall
    BY <1>3 DEF OpenCall, device, flash
<1>4. CASE OpenRefused
    BY <1>4 DEF OpenRefused, device, flash
<1>5. CASE OpenAcquires
  <2>1. CASE acquired
    BY <1>5, <2>1 DEF OpenAcquires, Acquire, NotifyLocked, device, flash
  <2>2. CASE ~acquired
    <3>1. acquired' = TRUE /\ torchOn' = FALSE /\ led' = "off" /\ UNCHANGED listener
      BY <1>5, <2>2 DEF OpenAcquires, Acquire
    <3>2. told' \in {"on", "off", "unavailable"}
      BY <1>5, <2>2 DEF OpenAcquires, Acquire, NotifyLocked
    <3>3. QED
      BY <1>5, <3>1, <3>2 DEF OpenAcquires, device
  <2>3. QED
    BY <2>1, <2>2
<1>6. CASE OpenFails
  <2>1. CASE acquired
    <3>1. acquired' = FALSE /\ led' = "off" /\ UNCHANGED <<torchOn, listener>>
      BY <1>6, <2>1 DEF OpenFails, Release
    <3>2. told' \in {"on", "off", "unavailable"}
      BY <1>6, <2>1 DEF OpenFails, Release, NotifyLocked
    <3>3. QED
      BY <1>6, <3>1, <3>2 DEF OpenFails, device
  <2>2. CASE ~acquired
    BY <1>6, <2>2 DEF OpenFails, Release, NotifyLocked, device, flash
  <2>3. QED
    BY <2>1, <2>2
<1>7. CASE Disconnect
    BY <1>7 DEF Disconnect, flash
<1>8. CASE DisconnectDetaches
    BY <1>8 DEF DisconnectDetaches, Detach
<1>9. ASSUME NEW s \in Sessions, OpenSucceeds(s) PROVE TypeOK'
    BY <1>9 DEF OpenSucceeds, device, flash
<1>10. ASSUME NEW s \in Sessions, CloseCall(s) PROVE TypeOK'
    BY <1>10 DEF CloseCall, device, flash
<1>11. ASSUME NEW s \in Sessions, Drop(s) PROVE TypeOK'
    BY <1>11 DEF Drop, device, flash
<1>12. ASSUME NEW s \in Sessions, CloseReleases(s) PROVE TypeOK'
  <2>1. CASE acquired
    <3>1. acquired' = FALSE /\ led' = "off" /\ UNCHANGED <<torchOn, listener>>
      BY <1>12, <2>1 DEF CloseReleases, Release
    <3>2. told' \in {"on", "off", "unavailable"}
      BY <1>12, <2>1 DEF CloseReleases, Release, NotifyLocked
    <3>3. QED
      BY <1>12, <3>1, <3>2 DEF CloseReleases, device
  <2>2. CASE ~acquired
    BY <1>12, <2>2 DEF CloseReleases, Release, NotifyLocked, device, flash
  <2>3. QED
    BY <2>1, <2>2
<1>13. ASSUME NEW s \in Sessions, NEW lit \in BOOLEAN, SessionLights(s, lit) PROVE TypeOK'
    BY <1>13 DEF SessionLights, SetLit, device
<1>14. CASE UNCHANGED vars
    BY <1>14 DEF vars, device, flash
<1>15. QED
    BY <1>1, <1>2, <1>3, <1>4, <1>5, <1>6, <1>7, <1>8, <1>9, <1>10, <1>11, <1>12, <1>13, <1>14
       DEF Next

-----------------------------------------------------------------------------
(* Torch and flash. *)

LEMMA FlashStep == FlashInv /\ [Next]_vars => FlashInv'
<1> SUFFICES ASSUME FlashInv, [Next]_vars PROVE FlashInv'
    OBVIOUS
<1>0. TypeOK'
    BY FlashTypes DEF FlashInv
<1> DEFINE Rest == LitByOwner /\ TorchTold /\ (~detached => listener) /\ (detached => disconnected)
<1>a. TypeOK /\ Rest
    BY DEF FlashInv
<1> USE <1>a DEF TypeOK, LitByOwner, TorchTold
<1>1. ASSUME NEW c \in Callers, TorchApplies(c) PROVE Rest'
  <2>1. CASE acquired
    BY <1>1, <2>1 DEF TorchApplies, SetTorchLevel, SetTorch, device, flash
  <2>2. CASE ~acquired /\ torch[c] = "level"
    BY <1>1, <2>2 DEF TorchApplies, SetTorchLevel, NotifyLocked, LevelIsNews, device
  <2>3. CASE ~acquired /\ torch[c] # "level"
    BY <1>1, <2>3 DEF TorchApplies, SetTorch, NotifyLocked, device
  <2>4. QED
    BY <2>1, <2>2, <2>3
<1>2. ASSUME NEW c \in Callers, NEW what \in {"on", "off", "level"}, TorchCall(c, what)
      PROVE Rest'
    BY <1>2 DEF TorchCall, device, flash
<1>3. ASSUME OpenCall \/ OpenRefused PROVE Rest'
    BY <1>3 DEF OpenCall, OpenRefused, device, flash
<1>4. ASSUME OpenAcquires PROVE Rest'
    BY <1>4 DEF OpenAcquires, Acquire, NotifyLocked, device, flash
<1>5. ASSUME OpenFails PROVE Rest'
    BY <1>5 DEF OpenFails, Release, NotifyLocked, device, flash
<1>6. ASSUME Disconnect PROVE Rest'
    BY <1>6 DEF Disconnect, flash
<1>7. ASSUME DisconnectDetaches PROVE Rest'
    BY <1>7 DEF DisconnectDetaches, Detach
<1>8. ASSUME NEW s \in Sessions, OpenSucceeds(s) \/ CloseCall(s) \/ Drop(s) PROVE Rest'
    BY <1>8 DEF OpenSucceeds, CloseCall, Drop, device, flash
<1>9. ASSUME NEW s \in Sessions, CloseReleases(s) PROVE Rest'
    BY <1>9 DEF CloseReleases, Release, NotifyLocked, device, flash
<1>10. ASSUME NEW s \in Sessions, NEW lit \in BOOLEAN, SessionLights(s, lit) PROVE Rest'
    BY <1>10 DEF SessionLights, SetLit, device
<1>11. ASSUME UNCHANGED vars PROVE Rest'
    BY <1>11 DEF vars, device, flash
<1>12. Rest'
    BY <1>1, <1>2, <1>3, <1>4, <1>5, <1>6, <1>7, <1>8, <1>9, <1>10, <1>11 DEF Next
<1>13. QED
    BY <1>0, <1>12 DEF FlashInv

\* Whatever torch calls, sessions, dying clients and disconnection do: torch and
\* flash never light the LEDs against each other, and the status that
\* NotifyLocked() reported last is the status of the flash.
THEOREM FlashSafe == Spec => [](TypeOK /\ LitByOwner /\ TorchTold)
<1>1. Init => FlashInv
    BY FlashAssumption DEF Init, FlashInv, TypeOK, LitByOwner, TorchTold
<1>2. FlashInv => TypeOK /\ LitByOwner /\ TorchTold
    BY DEF FlashInv
<1>3. QED
    BY <1>1, <1>2, FlashStep, PTL DEF Spec

-----------------------------------------------------------------------------
(* Sessions. *)

LEMMA SessionStep == SessionInv /\ [Next]_vars => SessionInv'
<1> SUFFICES ASSUME SessionInv, [Next]_vars PROVE SessionInv'
    OBVIOUS
<1> DEFINE Current == \A s \in Sessions :
               session[s] \in {"open", "closing"} => current = s /\ opening # "acquired"
           One == \A r, s \in Sessions :
               session[r] = "dropped" /\ session[s] \in {"open", "closing", "dropped"} => r = s
           Opening == opening = "acquired" =>
               /\ \A s \in Sessions : session[s] # "dropped"
               /\ ~disconnected => acquired
           Has == \A s \in Sessions :
               session[s] \in {"open", "closing"} /\ ~disconnected => acquired
           Rest == /\ detached => disconnected
                   /\ Current
                   /\ ~overlapped => One /\ Opening /\ Has
<1>0. TypeOK'
    BY FlashTypes DEF SessionInv
<1>a. TypeOK /\ Rest
    BY DEF SessionInv
<1> USE <1>a DEF TypeOK
<1>1. ASSUME NEW c \in Callers, TorchApplies(c) PROVE Rest'
    BY <1>1 DEF TorchApplies, SetTorchLevel, SetTorch, device, flash
<1>2. ASSUME NEW c \in Callers, NEW what \in {"on", "off", "level"}, TorchCall(c, what)
      PROVE Rest'
    BY <1>2 DEF TorchCall, device, flash
<1>3. ASSUME OpenCall \/ OpenRefused PROVE Rest'
    BY <1>3 DEF OpenCall, OpenRefused, device, flash
<1>4. ASSUME OpenAcquires PROVE Rest'
  <2>1. \A s \in Sessions : session[s] \notin {"open", "closing"}
    BY <1>4, FlashAssumption DEF OpenAcquires, InUse
  <2>2. acquired'
    BY <1>4 DEF OpenAcquires, Acquire, flash
  <2>3. ~overlapped' => ~overlapped /\ \A s \in Sessions : session[s] # "dropped"
    BY <1>4 DEF OpenAcquires
  <2>4. QED
    BY <1>4, <2>1, <2>2, <2>3 DEF OpenAcquires, device
<1>5. ASSUME OpenFails PROVE Rest'
    BY <1>5 DEF OpenFails, device
<1>6. ASSUME Disconnect PROVE Rest'
    BY <1>6 DEF Disconnect, flash
<1>7. ASSUME DisconnectDetaches PROVE Rest'
    BY <1>7 DEF DisconnectDetaches
<1>8. ASSUME NEW s \in Sessions, OpenSucceeds(s) PROVE Rest'
  <2>1. /\ session' = [session EXCEPT ![s] = "open"] /\ current' = s /\ opening' = "idle"
        /\ UNCHANGED <<device, acquired, overlapped>>
    BY <1>8 DEF OpenSucceeds, flash
  <2>2. opening = "acquired"
    BY <1>8 DEF OpenSucceeds
  <2>3. Current'
    BY <2>1, <2>2, <1>8 DEF OpenSucceeds
  <2>4. ~overlapped => (One /\ Opening /\ Has)'
    BY <2>1, <2>2 DEF device
  <2>5. QED
    BY <2>1, <2>3, <2>4 DEF device
<1>9. ASSUME NEW s \in Sessions, CloseCall(s) PROVE Rest'
    BY <1>9 DEF CloseCall, device, flash
<1>10. ASSUME NEW s \in Sessions, Drop(s) PROVE Rest'
  <2>1. /\ session[s] = "open" /\ session' = [session EXCEPT ![s] = "dropped"]
        /\ current = s /\ UNCHANGED <<device, acquired, opening, overlapped>>
    BY <1>10 DEF Drop, flash
  <2>2. \A r \in Sessions : r # s => session'[r] \notin {"open", "closing"}
    BY <2>1
  <2>3. QED
    BY <2>1, <2>2 DEF device
<1>11. ASSUME NEW s \in Sessions, CloseReleases(s) PROVE Rest'
  <2>1. session' = [session EXCEPT ![s] = "closed"]
        /\ UNCHANGED <<device, current, opening, overlapped>>
    BY <1>11 DEF CloseReleases
  <2>2. session[s] \in {"closing", "dropped"}
    BY <1>11 DEF CloseReleases
  <2>3. ~overlapped => /\ \A r \in Sessions : session'[r] \notin {"open", "closing", "dropped"}
                       /\ opening # "acquired"
    BY <2>1, <2>2
  <2>4. QED
    BY <2>1, <2>3 DEF device
<1>12. ASSUME NEW s \in Sessions, NEW lit \in BOOLEAN, SessionLights(s, lit) PROVE Rest'
    BY <1>12 DEF SessionLights, SetLit, device
<1>13. ASSUME UNCHANGED vars PROVE Rest'
    BY <1>13 DEF vars, device, flash
<1>14. Rest'
    BY <1>1, <1>2, <1>3, <1>4, <1>5, <1>6, <1>7, <1>8, <1>9, <1>10, <1>11, <1>12, <1>13 DEF Next
<1>15. QED
    BY <1>0, <1>14 DEF SessionInv

\* The open session has the flash, whatever close() of an earlier session, failed
\* open() and torch call come in between, unless it was opened while the
\* destructor of a session was still running.
THEOREM SessionKeepsFlash == Spec => []SessionHasFlash
<1>1. Init => SessionInv
    BY FlashAssumption DEF Init, SessionInv, TypeOK
<1>2. SessionInv => SessionHasFlash
    BY DEF SessionInv, SessionHasFlash
<1>3. SessionInv /\ [Next]_vars => SessionInv'
    BY SessionStep
<1>4. QED
    BY <1>1, <1>2, <1>3, PTL DEF Spec

-----------------------------------------------------------------------------
(***************************************************************************)
(* The frames of a session                                                 *)
(***************************************************************************)

Indices == 1..BufferCount
Frames == [index : Indices, exposed : Nat, mode : Modes \cup {None}, corrupt : BOOLEAN]
Filled == [index : Indices, exposed : Nat]

\* The buffers of frames that are done.
Ids(done) == [i \in 1..Len(done) |-> done[i].index]

\* What the worker of the session has in its hands.
Held == IF op.frame # None /\ op.pc # "end" THEN {op.frame.index} ELSE {}

Distinct(s) == \A i, j \in 1..Len(s) : s[i] = s[j] => i = j

\* Each buffer is at one place: queued, done, held or lost.
Placed(queued, done, held, gone) ==
    /\ Distinct(queued) /\ Distinct(done)
    /\ \A b \in Indices :
        \/ b \in Range(queued) /\ b \notin Range(done) \cup held \cup gone
        \/ b \in Range(done) /\ b \notin Range(queued) \cup held \cup gone
        \/ b \in held /\ b \notin Range(queued) \cup Range(done) \cup gone
        \/ b \in gone /\ b \notin Range(queued) \cup Range(done) \cup held

Controls == [precapture : {"idle", "running", "done"}, start : Nat, preflash : BOOLEAN,
             lit : BOOLEAN, since : Nat, dark : BOOLEAN]

CaptureTypes ==
    /\ now \in Nat /\ mode_ \in Modes \cup {None} /\ format_ \in Modes \cup {None}
    /\ streaming \in BOOLEAN /\ lost \subseteq Indices
    /\ DOMAIN dev = {"format", "interval", "allocated", "on", "queued", "done", "gone"}
    /\ dev.allocated \in BOOLEAN /\ dev.gone \in BOOLEAN
    /\ dev.queued \in Seq(Indices) /\ dev.done \in Seq(Filled)
    /\ fc \in Controls /\ lamp \in Nat \cup {None}
    /\ DOMAIN op = {"pc", "settings", "plan", "attempt", "stale", "frame", "result"}
    /\ op.pc \in {"idle", "prepare", "dequeue", "requeue_stale", "requeue", "end"}
    /\ op.stale \in Nat /\ op.frame \in Frames \cup {None}

Asks(plan) ==
    /\ DOMAIN plan = {"lit", "keep_lit", "not_before", "ae_state"}
    /\ plan.lit \in BOOLEAN /\ plan.keep_lit \in BOOLEAN /\ plan.not_before \in Nat

\* What the stream is set to.
StreamSet ==
    /\ buffers = (IF streaming THEN BufferCount ELSE 0)
    /\ ~streaming => ~dev.allocated
    /\ streaming => format_ # None
    /\ format_ # None => format_ = mode_ /\ (dev.gone \/ dev.format = mode_)
    /\ op.pc # "idle" => mode_ # None
    /\ streaming /\ ~dev.gone => Placed(dev.queued, Ids(dev.done), Held, lost)

\* Which frame a request works on.
FrameFits ==
    /\ op.pc # "idle" => op.settings \in Settings /\ Asks(op.plan)
    /\ op.pc \in {"dequeue", "requeue_stale", "requeue"} =>
            streaming /\ interval_ = op.settings.interval
    /\ op.pc \in {"requeue_stale", "requeue"} => op.frame # None /\ op.frame.mode = mode_
    /\ op.pc \in {"idle", "prepare", "dequeue"} => op.frame = None
    /\ op.pc = "end" /\ op.result = "ok" =>
            /\ streaming /\ interval_ = op.settings.interval
            /\ op.frame # None /\ op.frame.mode = mode_

Settled ==
    \/ ~stamps \/ op.stale > MaxStaleFrames \/ op.frame.exposed >= op.plan.not_before

\* The LEDs are lit for as long as FlashControl says.
LampLit ==
    /\ fc.lit <=> lamp # None
    /\ fc.lit => lamp = fc.since
    /\ op.pc # "idle" => /\ op.plan.lit <=> fc.lit
                         /\ op.plan.not_before > 0 => fc.lit /\ op.plan.not_before = lamp + Settle
    /\ op.pc = "requeue" => Settled
    /\ op.pc = "end" /\ op.result = "ok" => Settled

CaptureInv == CaptureTypes /\ StreamSet /\ FrameFits /\ LampLit

LEMMA TailOfDistinct ==
    ASSUME NEW S, NEW s \in Seq(S), s # <<>>, Distinct(s)
    PROVE  /\ Head(s) \in S /\ Tail(s) \in Seq(S)
           /\ Distinct(Tail(s)) /\ Range(Tail(s)) = Range(s) \ {Head(s)} /\ Head(s) \in Range(s)
<1>1. /\ Len(s) \in Nat \ {0} /\ Head(s) = s[1]
      /\ Head(s) \in S /\ Tail(s) \in Seq(S) /\ Len(Tail(s)) = Len(s) - 1
      /\ \A i \in 1..Len(Tail(s)) : Tail(s)[i] = s[i + 1]
    BY HeadTailProperties, EmptySeq
<1>2. Distinct(Tail(s))
    BY <1>1 DEF Distinct
<1>3. Range(s) = {s[i] : i \in 1..Len(s)} /\ Range(Tail(s)) = {Tail(s)[i] : i \in 1..Len(Tail(s))}
    BY <1>1, RangeEquality
<1>4. Head(s) \in Range(s)
    BY <1>1, <1>3
<1>5. ASSUME NEW x \in Range(Tail(s)) PROVE x \in Range(s) /\ x # Head(s)
  <2>1. PICK i \in 1..Len(Tail(s)) : x = Tail(s)[i]
      BY <1>3
  <2>2. i + 1 \in 1..Len(s) /\ x = s[i + 1] /\ 1 \in 1..Len(s) /\ i + 1 # 1
      BY <1>1, <2>1
  <2>3. QED
      BY <1>1, <1>3, <2>2 DEF Distinct
<1>6. ASSUME NEW x \in Range(s), x # Head(s) PROVE x \in Range(Tail(s))
  <2>1. PICK i \in 1..Len(s) : x = s[i]
      BY <1>3
  <2>2. i # 1 /\ i - 1 \in 1..Len(Tail(s)) /\ (i - 1) + 1 = i
      BY <1>1, <1>6, <2>1
  <2>3. x = Tail(s)[i - 1]
      BY <1>1, <2>1, <2>2
  <2>4. QED
      BY <1>3, <2>2, <2>3
<1>7. QED
    BY <1>1, <1>2, <1>4, <1>5, <1>6

LEMMA AppendOfDistinct ==
    ASSUME NEW S, NEW s \in Seq(S), NEW x \in S, Distinct(s), x \notin Range(s)
    PROVE  Append(s, x) \in Seq(S) /\ Distinct(Append(s, x)) /\ Range(Append(s, x)) = Range(s) \cup {x}
<1> DEFINE t == Append(s, x)
<1>1. /\ Len(s) \in Nat /\ t \in Seq(S) /\ Len(t) = Len(s) + 1 /\ t[Len(s) + 1] = x
      /\ \A i \in 1..Len(s) : t[i] = s[i]
    BY AppendProperties
<1>2. Range(s) = {s[i] : i \in 1..Len(s)} /\ Range(t) = {t[i] : i \in 1..Len(t)}
    BY <1>1, RangeEquality
<1> HIDE DEF t
<1>3. \A i \in 1..Len(t) : i \in 1..Len(s) \/ i = Len(s) + 1
    BY <1>1
<1>4. \A i \in 1..Len(s) : t[i] # x
    BY <1>1, <1>2
<1>5. Distinct(t)
    BY <1>1, <1>3, <1>4 DEF Distinct
<1>6. Range(t) = Range(s) \cup {x}
  <2>1. \A i \in 1..Len(s) : i \in 1..Len(t)
      BY <1>1
  <2>2. Len(s) + 1 \in 1..Len(t)
      BY <1>1
  <2>3. QED
      BY <1>1, <1>2, <1>3, <2>1, <2>2
<1>7. QED
    BY <1>1, <1>5, <1>6 DEF t

\* A frame that is done, or taken, is its buffer done, or taken.
LEMMA IdsOf ==
    ASSUME NEW done \in Seq(Filled)
    PROVE  /\ Ids(done) \in Seq(Indices) /\ Len(Ids(done)) = Len(done)
           /\ done # <<>> => /\ Ids(done) # <<>> /\ Head(Ids(done)) = Head(done).index
                             /\ Head(done) \in Filled
                             /\ Tail(done) \in Seq(Filled) /\ Ids(Tail(done)) = Tail(Ids(done))
           /\ \A f \in Filled : /\ Append(done, f) \in Seq(Filled)
                                /\ Ids(Append(done, f)) = Append(Ids(done), f.index)
<1>1. /\ Len(done) \in Nat /\ \A i \in 1..Len(done) : done[i] \in Filled /\ done[i].index \in Indices
  <2>1. Len(done) \in Nat
      BY LenProperties
  <2>2. \A i \in 1..Len(done) : done[i] \in Filled
      BY ElementOfSeq
  <2>3. QED
      BY <2>1, <2>2 DEF Filled
<1>2. Ids(done) \in Seq(Indices) /\ Len(Ids(done)) = Len(done)
      /\ \A i \in 1..Len(done) : Ids(done)[i] = done[i].index
    BY <1>1 DEF Ids
<1>3. ASSUME done # <<>>
      PROVE  /\ Ids(done) # <<>> /\ Head(Ids(done)) = Head(done).index /\ Head(done) \in Filled
             /\ Tail(done) \in Seq(Filled) /\ Ids(Tail(done)) = Tail(Ids(done))
  <2>1. Len(done) \in Nat \ {0} /\ Ids(done) # <<>>
      BY <1>1, <1>2, <1>3, EmptySeq
  <2>2. /\ Tail(done) \in Seq(Filled) /\ Len(Tail(done)) = Len(done) - 1 /\ Head(done) \in Filled
        /\ \A i \in 1..Len(Tail(done)) : Tail(done)[i] = done[i + 1]
      BY <1>3, HeadTailProperties
  <2>3. /\ Tail(Ids(done)) \in Seq(Indices) /\ Len(Tail(Ids(done))) = Len(done) - 1
        /\ \A i \in 1..Len(Tail(Ids(done))) : Tail(Ids(done))[i] = Ids(done)[i + 1]
      BY <1>2, <2>1, HeadTailProperties
  <2>4. /\ Ids(Tail(done)) \in Seq(Indices) /\ Len(Ids(Tail(done))) = Len(done) - 1
        /\ \A i \in 1..Len(Ids(Tail(done))) : Ids(Tail(done))[i] = Tail(done)[i].index
    <3>1. /\ Len(Tail(done)) \in Nat /\ \A i \in 1..Len(Tail(done)) : Tail(done)[i].index \in Indices
        BY <1>1, <2>1, <2>2
    <3>2. QED
        BY <2>2, <3>1 DEF Ids
  <2>5. \A i \in 1..(Len(done) - 1) : Ids(Tail(done))[i] = Tail(Ids(done))[i]
    <3>1. \A i \in 1..(Len(done) - 1) : i + 1 \in 1..Len(done)
        BY <2>1
    <3>2. QED
        BY <1>2, <2>2, <2>3, <2>4, <3>1
  <2>6. Ids(Tail(done)) = Tail(Ids(done))
      BY <2>3, <2>4, <2>5, SeqEqual
  <2>7. Head(done) = done[1] /\ Head(Ids(done)) = Ids(done)[1] /\ 1 \in 1..Len(done)
      BY <1>2, <2>1
  <2>8. QED
      BY <1>2, <2>1, <2>2, <2>6, <2>7
<1>4. ASSUME NEW f \in Filled
      PROVE  /\ Append(done, f) \in Seq(Filled) /\ Ids(Append(done, f)) = Append(Ids(done), f.index)
  <2> DEFINE t == Append(done, f)
             u == Append(Ids(done), f.index)
  <2>1. /\ t \in Seq(Filled) /\ Len(t) = Len(done) + 1 /\ t[Len(done) + 1] = f
        /\ \A i \in 1..Len(done) : t[i] = done[i]
      BY AppendProperties
  <2>2. f.index \in Indices
      BY DEF Filled
  <2>3. /\ u \in Seq(Indices) /\ Len(u) = Len(done) + 1 /\ u[Len(done) + 1] = f.index
        /\ \A i \in 1..Len(done) : u[i] = Ids(done)[i]
      BY <1>2, <2>2, AppendProperties
  <2> HIDE DEF t, u
  <2>4. /\ Len(t) \in Nat /\ \A i \in 1..Len(t) : t[i].index \in Indices
    <3>1. Len(t) \in Nat
        BY <2>1, LenProperties
    <3>2. \A i \in 1..Len(t) : t[i] \in Filled
        BY <2>1, ElementOfSeq
    <3>3. QED
        BY <3>1, <3>2 DEF Filled
  <2>5. /\ Ids(t) \in Seq(Indices) /\ Len(Ids(t)) = Len(done) + 1
        /\ \A i \in 1..Len(t) : Ids(t)[i] = t[i].index
      BY <2>1, <2>4 DEF Ids
  <2>6. \A i \in 1..(Len(done) + 1) : Ids(t)[i] = u[i]
    <3>1. \A i \in 1..(Len(done) + 1) : i \in 1..Len(done) \/ i = Len(done) + 1
        BY <1>1
    <3>2. QED
        BY <1>2, <2>1, <2>3, <2>5, <3>1
  <2>7. Ids(t) = u
      BY <2>3, <2>5, <2>6, SeqEqual
  <2>8. QED
      BY <2>1, <2>7 DEF t, u
<1>5. QED
    BY <1>2, <1>3, <1>4

\* What the steps of the stream do with a buffer leaves each at one place.
LEMMA BufferMoves ==
    ASSUME NEW queued \in Seq(Indices), NEW done \in Seq(Indices),
           NEW held \in SUBSET Indices, NEW gone \in SUBSET Indices,
           Placed(queued, done, held, gone)
    PROVE  /\ queued # <<>> =>
                /\ Head(queued) \in Indices /\ Tail(queued) \in Seq(Indices)
                /\ Placed(Tail(queued), Append(done, Head(queued)), held, gone)
           /\ done # <<>> /\ held = {} => Placed(queued, Tail(done), {Head(done)}, gone)
           /\ \A b \in Indices : held = {b} =>
                /\ Append(queued, b) \in Seq(Indices)
                /\ Placed(Append(queued, b), done, {}, gone) /\ Placed(queued, done, {}, gone \cup {b})
<1>1. Distinct(queued) /\ Distinct(done)
    BY DEF Placed
<1>2. ASSUME queued # <<>>
      PROVE  /\ Head(queued) \in Indices /\ Tail(queued) \in Seq(Indices)
             /\ Placed(Tail(queued), Append(done, Head(queued)), held, gone)
  <2>1. /\ Head(queued) \in Indices /\ Tail(queued) \in Seq(Indices) /\ Distinct(Tail(queued))
        /\ Range(Tail(queued)) = Range(queued) \ {Head(queued)} /\ Head(queued) \in Range(queued)
      BY <1>1, <1>2, TailOfDistinct
  <2>2. Head(queued) \notin Range(done)
      BY <2>1 DEF Placed
  <2>3. Distinct(Append(done, Head(queued)))
        /\ Range(Append(done, Head(queued))) = Range(done) \cup {Head(queued)}
      BY <1>1, <2>1, <2>2, AppendOfDistinct
  <2>4. QED
      BY <2>1, <2>3 DEF Placed
<1>3. ASSUME done # <<>>, held = {} PROVE Placed(queued, Tail(done), {Head(done)}, gone)
  <2>1. Distinct(Tail(done)) /\ Range(Tail(done)) = Range(done) \ {Head(done)} /\ Head(done) \in Range(done)
      BY <1>1, <1>3, TailOfDistinct
  <2>2. QED
      BY <1>1, <1>3, <2>1 DEF Placed
<1>4. ASSUME NEW b \in Indices, held = {b}
      PROVE  /\ Append(queued, b) \in Seq(Indices)
             /\ Placed(Append(queued, b), done, {}, gone) /\ Placed(queued, done, {}, gone \cup {b})
  <2>1. b \notin Range(queued)
      BY <1>4 DEF Placed
  <2>2. /\ Append(queued, b) \in Seq(Indices) /\ Distinct(Append(queued, b))
        /\ Range(Append(queued, b)) = Range(queued) \cup {b}
      BY <1>1, <2>1, AppendOfDistinct
  <2>3. Placed(Append(queued, b), done, {}, gone)
      BY <1>1, <1>4, <2>2 DEF Placed
  <2>4. Placed(queued, done, {}, gone \cup {b})
      BY <1>1, <1>4 DEF Placed
  <2>5. QED
      BY <2>2, <2>3, <2>4
<1>5. QED
    BY <1>2, <1>3, <1>4

\* A stream starts with every buffer queued.
LEMMA AllQueued ==
    LET q == [i \in Indices |-> i] IN
    q \in Seq(Indices) /\ Ids(<<>>) = <<>> /\ Placed(q, Ids(<<>>), {}, {})
<1> DEFINE q == [i \in Indices |-> i]
<1>1. BufferCount \in Nat \ {0} /\ Indices = 1..BufferCount
    BY CaptureAssumption DEF Indices
<1>2. q \in Seq(Indices) /\ Len(q) = BufferCount /\ \A i \in Indices : q[i] = i
    BY <1>1
<1>3. Ids(<<>>) = <<>> /\ <<>> \in Seq(Indices) /\ Len(<<>>) = 0
    BY DEF Ids
<1>4. Range(q) = {q[i] : i \in 1..Len(q)} /\ Range(<<>>) = {<<>>[i] : i \in 1..Len(<<>>)}
    BY <1>2, <1>3, RangeEquality
<1> HIDE DEF q
<1>5. Range(q) = Indices /\ Range(<<>>) = {}
    BY <1>1, <1>2, <1>3, <1>4
<1>6. Distinct(q) /\ Distinct(<<>>)
    BY <1>1, <1>2, <1>3 DEF Distinct
<1>7. Placed(q, <<>>, {}, {})
    BY <1>5, <1>6 DEF Placed
<1>8. QED
    BY <1>2, <1>3, <1>7 DEF q

\* Buffers of which each is at one place are all there and counted once.
LEMMA PlacedIsAccounted ==
    ASSUME NEW queued \in Seq(Indices), NEW done \in Seq(Indices),
           NEW held \in SUBSET Indices, NEW gone \in SUBSET Indices,
           Placed(queued, done, held, gone)
    PROVE  /\ Range(queued) \cup Range(done) \cup held \cup gone = Indices
           /\ Cardinality(Range(queued)) + Cardinality(Range(done)) + Cardinality(held)
                + Cardinality(gone) = BufferCount
<1>1. BufferCount \in Nat /\ IsFiniteSet(Indices) /\ Cardinality(Indices) = BufferCount
    BY CaptureAssumption, FS_Interval DEF Indices
<1>2. Range(queued) \in SUBSET Indices /\ Range(done) \in SUBSET Indices
    BY RangeOfSeq
<1>3. Range(queued) \cup Range(done) \cup held \cup gone = Indices
    BY <1>2 DEF Placed
<1> DEFINE A == Range(queued)
           B == Range(done)
<1>4. A \cap B = {} /\ (A \cup B) \cap held = {} /\ (A \cup B \cup held) \cap gone = {}
    BY <1>2 DEF Placed
<1>5. A \in SUBSET Indices /\ B \in SUBSET Indices /\ A \cup B \cup held \cup gone = Indices
    BY <1>2, <1>3
<1> HIDE DEF A, B
<1>6. IsFiniteSet(A) /\ IsFiniteSet(B) /\ IsFiniteSet(held) /\ IsFiniteSet(gone)
    BY <1>1, <1>5, FS_Subset
<1> DEFINE AB == A \cup B
           ABH == AB \cup held
<1>7. IsFiniteSet(AB) /\ Cardinality(AB) = Cardinality(A) + Cardinality(B) - Cardinality({})
    BY <1>4, <1>6, FS_Union
<1>0. AB \cap held = {} /\ ABH \cap gone = {} /\ ABH \cup gone = Indices
    BY <1>4, <1>5
<1> HIDE DEF AB
<1>8. IsFiniteSet(ABH) /\ Cardinality(ABH) = Cardinality(AB) + Cardinality(held) - Cardinality({})
    BY <1>0, <1>6, <1>7, FS_Union
<1> HIDE DEF ABH
<1>9. Cardinality(Indices) = Cardinality(ABH) + Cardinality(gone) - Cardinality({})
    BY <1>0, <1>6, <1>8, FS_Union
<1>10. /\ Cardinality({}) = 0 /\ Cardinality(A) \in Nat /\ Cardinality(B) \in Nat
       /\ Cardinality(held) \in Nat /\ Cardinality(gone) \in Nat
    BY <1>6, FS_EmptySet, FS_CardinalityType
<1>11. Cardinality(A) + Cardinality(B) + Cardinality(held) + Cardinality(gone) = BufferCount
    BY <1>1, <1>7, <1>8, <1>9, <1>10
<1>12. QED
    BY <1>3, <1>11 DEF A, B

-----------------------------------------------------------------------------
(* The steps of the frames of a session. *)

\* What Begin() returns.
Begun(c, s, time, b) ==
    /\ b.control \in Controls /\ Asks(b.plan)
    /\ b.plan.lit <=> b.control.lit
    /\ b.control.since = (IF b.plan.lit /\ ~c.lit THEN time ELSE c.since)
    /\ b.plan.not_before > 0 => b.plan.lit /\ b.plan.not_before = b.control.since + Settle

LEMMA BeginFits ==
    ASSUME NEW c \in Controls, NEW s \in Settings, NEW time \in Nat
    PROVE  Begun(c, s, time, Capture!Begin(c, s, time))
<1> DEFINE begun == Capture!Elapsed(Capture!Triggered(c, s, time), s, time)
           lit == Capture!Fires(begun, s) \/ Capture!Torch(begun, s)
           spent == IF Capture!StillWithFlash(begun, s)
                    THEN [begun EXCEPT !.preflash = FALSE, !.precapture = "idle"] ELSE begun
           after == [spent EXCEPT !.lit = lit, !.since = IF lit /\ ~c.lit THEN time ELSE @]
           fires == Capture!Fires(begun, s)
           keeps == Capture!Torch(begun, s)
           plan == [lit |-> lit, keep_lit |-> keeps, not_before |-> IF fires THEN after.since + Settle ELSE 0,
                    ae_state |-> Capture!AeState(after, s, lit)]
<1>1. s.still \in BOOLEAN /\ Settle \in Nat
    BY CaptureAssumption
<1>2. Capture!Triggered(c, s, time) \in Controls
      /\ Capture!Triggered(c, s, time).since = c.since
    BY DEF Capture!Triggered, Capture!NeedsFlash, Capture!FlashAe, Controls
<1>3. begun \in Controls /\ begun.since = c.since
    BY <1>2 DEF Capture!Elapsed, Capture!FlashAe, Controls
<1> HIDE DEF begun
<1>4. fires \in BOOLEAN /\ keeps \in BOOLEAN
    BY <1>1, <1>3 DEF Capture!Fires, Capture!Torch, Capture!StillWithFlash, Capture!FlashAe,
                      Capture!NeedsFlash, Controls
<1>5. spent \in Controls /\ spent.since = c.since
    BY <1>3 DEF Controls
<1> HIDE DEF spent, fires, keeps
<1>6. lit \in BOOLEAN /\ lit = (fires \/ keeps)
    BY <1>4 DEF fires, keeps
<1> HIDE DEF lit
<1>7. after \in Controls /\ after.lit = lit /\ after.since = (IF lit /\ ~c.lit THEN time ELSE c.since)
    BY <1>5, <1>6 DEF Controls
<1> HIDE DEF after
<1>8. after.since \in Nat
    BY <1>7 DEF Controls
<1>9. Begun(c, s, time, [control |-> after, plan |-> plan])
    BY <1>1, <1>4, <1>6, <1>7, <1>8 DEF Begun, Asks
<1>10. Capture!Begin(c, s, time) = [control |-> after, plan |-> plan]
    BY DEF Capture!Begin, begun, lit, spent, after, fires, keeps
<1>11. QED
    BY <1>9, <1>10

LEMMA ClockAndDriver ==
    CaptureInv /\ (Capture!Tick \/ Capture!DriverFrame \/ Capture!Unplug) => CaptureInv'
<1> SUFFICES ASSUME CaptureInv, Capture!Tick \/ Capture!DriverFrame \/ Capture!Unplug PROVE CaptureInv'
    OBVIOUS
<1> USE DEF CaptureInv
<1>1. CASE Capture!Tick
  <2>1. now' = now + 1 /\ UNCHANGED <<configures, stamps, dev, exposure, lock_3a, streaming, buffers, mode_,
                                     format_, interval_, ae_locked, auto_exposure_mode, fc, lamp, op, lost>>
      BY <1>1 DEF Capture!Tick, Capture!driver, Capture!stream, Capture!controls
  <2>2. CaptureTypes'
      BY <2>1 DEF CaptureTypes
  <2>3. StreamSet' /\ FrameFits' /\ LampLit'
      BY <2>1 DEF StreamSet, FrameFits, LampLit, Settled, Held
  <2>4. QED
      BY <2>2, <2>3
<1>2. CASE Capture!DriverFrame
  <2> DEFINE f == [index |-> Head(dev.queued), exposed |-> now]
  <2>1. /\ dev.queued # <<>> /\ dev' = [dev EXCEPT !.queued = Tail(@), !.done = Append(@, f)]
        /\ UNCHANGED <<now, configures, stamps, exposure, lock_3a, streaming, buffers, mode_, format_,
                       interval_, ae_locked, auto_exposure_mode, fc, lamp, op, lost>>
      BY <1>2 DEF Capture!DriverFrame, Capture!stream, Capture!controls
  <2>2. /\ Head(dev.queued) \in Indices /\ Tail(dev.queued) \in Seq(Indices)
      BY <2>1, HeadTailProperties DEF CaptureTypes
  <2>3. f \in Filled /\ f.index = Head(dev.queued)
      BY <2>2 DEF CaptureTypes, Filled
  <2> HIDE DEF f
  <2>4. /\ Append(dev.done, f) \in Seq(Filled) /\ Ids(dev.done) \in Seq(Indices)
        /\ Ids(Append(dev.done, f)) = Append(Ids(dev.done), Head(dev.queued))
      BY <2>3, IdsOf DEF CaptureTypes
  <2>5. /\ dev'.queued = Tail(dev.queued) /\ dev'.done = Append(dev.done, f)
        /\ dev'.gone = dev.gone /\ dev'.format = dev.format /\ dev'.allocated = dev.allocated
        /\ DOMAIN dev' = DOMAIN dev
      BY <2>1 DEF CaptureTypes
  <2>6. CaptureTypes'
      BY <2>1, <2>2, <2>4, <2>5 DEF CaptureTypes
  <2>7. Held \in SUBSET Indices
      BY DEF CaptureTypes, Held, Frames
  <2>8. Placed(dev.queued, Ids(dev.done), Held, lost) =>
            Placed(Tail(dev.queued), Append(Ids(dev.done), Head(dev.queued)), Held, lost)
      BY <2>1, <2>4, <2>7, BufferMoves DEF CaptureTypes
  <2>9. StreamSet'
      BY <2>1, <2>4, <2>5, <2>8 DEF StreamSet, Held
  <2>10. FrameFits' /\ LampLit'
      BY <2>1 DEF FrameFits, LampLit, Settled
  <2>11. QED
      BY <2>6, <2>9, <2>10
<1>3. CASE Capture!Unplug
  <2>1. /\ dev' = [format |-> None, interval |-> None, allocated |-> FALSE, on |-> FALSE,
                   queued |-> <<>>, done |-> <<>>, gone |-> TRUE]
        /\ UNCHANGED <<now, configures, stamps, exposure, lock_3a, streaming, buffers, mode_, format_,
                       interval_, ae_locked, auto_exposure_mode, fc, lamp, op, lost>>
      BY <1>3 DEF Capture!Unplug, Capture!InitDriver, Capture!stream, Capture!controls
  <2>2. CaptureTypes'
      BY <2>1, EmptySeq DEF CaptureTypes
  <2>3. StreamSet' /\ FrameFits' /\ LampLit'
      BY <2>1 DEF StreamSet, FrameFits, LampLit, Settled
  <2>4. QED
      BY <2>2, <2>3
<1>4. QED
    BY <1>1, <1>2, <1>3

LEMMA ConfigureKeeps ==
    ASSUME NEW m \in Modes, CaptureInv, Capture!Configure(m)
    PROVE  CaptureInv'
<1> USE DEF CaptureInv
<1>1. /\ op.pc = "idle" /\ dev' = Capture!Stopped(dev) /\ streaming' = FALSE /\ buffers' = 0
      /\ mode_' = m /\ format_' = None /\ interval_' = None /\ lost' = {}
      /\ UNCHANGED <<now, stamps, exposure, lock_3a, fc, lamp, op>>
    BY DEF Capture!Configure
<1>2. /\ DOMAIN dev' = DOMAIN dev /\ dev'.allocated = FALSE /\ dev'.gone = dev.gone
      /\ dev'.queued \in Seq(Indices) /\ dev'.done \in Seq(Filled)
  <2>1. CASE buffers = 0
      BY <1>1, <2>1, CaptureAssumption DEF Capture!Stopped, StreamSet, CaptureTypes
  <2>2. CASE buffers # 0
      BY <1>1, <2>2, EmptySeq DEF Capture!Stopped, Capture!Released, CaptureTypes
  <2>3. QED
      BY <2>1, <2>2
<1>3. CaptureTypes'
    BY <1>1, <1>2 DEF CaptureTypes
<1>4. m # None
    BY CaptureAssumption
<1>5. StreamSet'
    BY <1>1, <1>2, <1>4 DEF StreamSet
<1>6. FrameFits' /\ LampLit'
    BY <1>1 DEF FrameFits, LampLit, Settled
<1>7. QED
    BY <1>3, <1>5, <1>6

LEMMA BeginRequestKeeps ==
    ASSUME NEW s \in Settings, CaptureInv, Capture!BeginRequest(s)
    PROVE  CaptureInv'
<1> USE DEF CaptureInv
<1> DEFINE begun == Capture!Begin(fc, s, now)
<1>1. /\ op.pc = "idle" /\ mode_ # None
      /\ fc' = begun.control
      /\ lamp' = (IF begun.plan.lit THEN (IF lamp = None THEN now ELSE lamp) ELSE None)
      /\ op' = [pc |-> "prepare", settings |-> s, plan |-> begun.plan, attempt |-> 0, stale |-> 0,
                frame |-> None, result |-> None]
      /\ UNCHANGED <<now, configures, stamps, dev, exposure, lock_3a, streaming, buffers, mode_, format_,
                     interval_, ae_locked, auto_exposure_mode, lost>>
    BY DEF Capture!BeginRequest, Capture!Idle, Capture!driver, Capture!stream, Capture!controls
<1>2. Begun(fc, s, now, begun)
    BY BeginFits DEF CaptureTypes
<1> HIDE DEF begun
<1>3. None \notin Nat
    BY CaptureAssumption
<1>4. CaptureTypes'
    BY <1>1, <1>2 DEF CaptureTypes, Begun
<1>5. op.frame = None
    BY <1>1 DEF FrameFits
<1>6. StreamSet'
    BY <1>1, <1>5 DEF StreamSet, Held
<1>7. FrameFits'
    BY <1>1, <1>2 DEF FrameFits, Begun
<1>8. LampLit'
  <2>1. (fc'.lit <=> lamp' # None) /\ (fc'.lit => lamp' = fc'.since)
      BY <1>1, <1>2, <1>3 DEF LampLit, Begun, CaptureTypes
  <2>2. op'.plan = begun.plan /\ op'.pc = "prepare"
      BY <1>1
  <2>3. /\ op'.plan.lit <=> fc'.lit
        /\ op'.plan.not_before > 0 => fc'.lit /\ op'.plan.not_before = lamp' + Settle
      BY <1>1, <1>2, <2>1, <2>2 DEF Begun
  <2>4. QED
      BY <2>1, <2>2, <2>3 DEF LampLit
<1>9. QED
    BY <1>4, <1>6, <1>7, <1>8

LEMMA PrepareRunningKeeps ==
    ASSUME CaptureInv, Capture!PrepareRunning
    PROVE  CaptureInv'
<1> USE DEF CaptureInv
<1>1. /\ op.pc = "prepare" /\ streaming /\ op.settings.interval = interval_
      /\ op' = [op EXCEPT !.pc = "dequeue"]
      /\ UNCHANGED <<now, configures, stamps, dev, streaming, buffers, mode_, format_, interval_,
                     fc, lamp, lost>>
    BY DEF Capture!PrepareRunning, Capture!NeedsStart, Capture!stream
<1>2. /\ DOMAIN op' = DOMAIN op /\ op'.pc = "dequeue" /\ op'.settings = op.settings
      /\ op'.plan = op.plan /\ op'.frame = op.frame /\ op'.stale = op.stale
    BY <1>1 DEF CaptureTypes
<1>3. CaptureTypes'
    BY <1>1, <1>2 DEF CaptureTypes
<1>4. op.frame = None
    BY <1>1 DEF FrameFits
<1>5. StreamSet'
    BY <1>1, <1>2, <1>4 DEF StreamSet, Held
<1>6. FrameFits' /\ LampLit'
    BY <1>1, <1>2, <1>4 DEF FrameFits, LampLit
<1>7. QED
    BY <1>3, <1>5, <1>6

LEMMA PrepareStartKeeps ==
    ASSUME CaptureInv, Capture!PrepareStart, FirstBufferFails = FALSE
    PROVE  CaptureInv'
<1> USE DEF CaptureInv
<1> DEFINE d == Capture!Stopped(dev)
<1>1. /\ DOMAIN d = DOMAIN dev /\ d.allocated = FALSE /\ d.gone = dev.gone /\ d.format = dev.format
      /\ d.queued \in Seq(Indices) /\ d.done \in Seq(Filled)
  <2>1. CASE buffers = 0
      BY <2>1, CaptureAssumption DEF Capture!Stopped, StreamSet, CaptureTypes
  <2>2. CASE buffers # 0
      BY <2>2, EmptySeq DEF Capture!Stopped, Capture!Released, CaptureTypes
  <2>3. QED
      BY <2>1, <2>2
<1>2. /\ op.pc = "prepare" /\ lost' = {}
      /\ UNCHANGED <<now, configures, stamps, mode_, fc, lamp>>
    BY DEF Capture!PrepareStart
<1>3. mode_ # None /\ mode_ \in Modes /\ op.frame = None
    BY <1>2 DEF StreamSet, FrameFits, CaptureTypes
<1>4. PICK set \in IF format_ = None THEN Capture!SetFormat(d, mode_) ELSE {[ok |-> TRUE, dev |-> d]} :
        IF ~set.ok
        THEN /\ dev' = set.dev /\ streaming' = FALSE /\ buffers' = 0
             /\ UNCHANGED <<format_, interval_>> /\ Capture!End("error")
        ELSE \E applied \in BOOLEAN :
             \E started \in Capture!StartStreaming(
                    IF applied THEN [set.dev EXCEPT !.interval = op.settings.interval] ELSE set.dev) :
              /\ dev' = started.dev /\ streaming' = started.ok
              /\ buffers' = IF started.ok THEN BufferCount ELSE 0
              /\ format_' = mode_ /\ interval_' = op.settings.interval
              /\ IF started.ok THEN op' = [op EXCEPT !.pc = "dequeue"] ELSE Capture!End("error")
    BY DEF Capture!PrepareStart
<1> HIDE DEF d
<1>5. /\ DOMAIN set.dev = DOMAIN dev /\ set.dev.allocated = FALSE /\ set.dev.gone = dev.gone
      /\ set.dev.queued \in Seq(Indices) /\ set.dev.done \in Seq(Filled)
      /\ set.ok => set.dev.gone \/ set.dev.format = mode_
    BY <1>1, <1>4 DEF Capture!SetFormat, StreamSet, CaptureTypes
<1>6. CASE ~set.ok
  <2>1. /\ dev' = set.dev /\ streaming' = FALSE /\ buffers' = 0 /\ format_' = format_ /\ interval_' = interval_
        /\ op' = [op EXCEPT !.pc = "end", !.result = "error", !.frame = None]
      BY <1>4, <1>6 DEF Capture!End
  <2>2. /\ DOMAIN op' = DOMAIN op /\ op'.pc = "end" /\ op'.settings = op.settings
        /\ op'.plan = op.plan /\ op'.frame = None /\ op'.stale = op.stale /\ op'.result = "error"
      BY <2>1 DEF CaptureTypes
  <2>3. CaptureTypes'
      BY <1>2, <1>5, <2>1, <2>2 DEF CaptureTypes
  <2>4. format_ = None
      BY <1>4, <1>6
  <2>5. StreamSet'
      BY <1>2, <1>3, <1>5, <2>1, <2>4 DEF StreamSet
  <2>6. FrameFits' /\ LampLit'
      BY <1>2, <2>1, <2>2 DEF FrameFits, LampLit
  <2>7. QED
      BY <2>3, <2>5, <2>6
<1>7. CASE set.ok
  <2>1. PICK applied \in BOOLEAN :
        \E started \in Capture!StartStreaming(
               IF applied THEN [set.dev EXCEPT !.interval = op.settings.interval] ELSE set.dev) :
              /\ dev' = started.dev /\ streaming' = started.ok
              /\ buffers' = IF started.ok THEN BufferCount ELSE 0
              /\ format_' = mode_ /\ interval_' = op.settings.interval
              /\ IF started.ok THEN op' = [op EXCEPT !.pc = "dequeue"] ELSE Capture!End("error")
      BY <1>4, <1>7
  <2> DEFINE e == IF applied THEN [set.dev EXCEPT !.interval = op.settings.interval] ELSE set.dev
  <2>2. PICK started \in Capture!StartStreaming(e) :
              /\ dev' = started.dev /\ streaming' = started.ok
              /\ buffers' = IF started.ok THEN BufferCount ELSE 0
              /\ format_' = mode_ /\ interval_' = op.settings.interval
              /\ IF started.ok THEN op' = [op EXCEPT !.pc = "dequeue"] ELSE Capture!End("error")
      BY <2>1
  <2>3. /\ DOMAIN e = DOMAIN dev /\ e.allocated = FALSE /\ e.gone = dev.gone
        /\ e.queued \in Seq(Indices) /\ e.done \in Seq(Filled)
        /\ e.gone \/ e.format = mode_
      BY <1>5, <1>7 DEF CaptureTypes
  <2> HIDE DEF e
  <2> DEFINE q == [i \in Indices |-> i]
             on == [e EXCEPT !.allocated = TRUE, !.on = TRUE, !.done = <<>>, !.queued = q]
  <2>4. \/ started.ok = FALSE /\ started.dev = e
        \/ started.ok = FALSE /\ started.dev = Capture!Released(e)
        \/ started.ok = TRUE /\ started.dev = on
      BY <2>2 DEF Capture!StartStreaming, Capture!Indices, Indices
  <2>5. CASE started.ok = FALSE
    <3>1. /\ DOMAIN started.dev = DOMAIN dev /\ started.dev.allocated = FALSE
          /\ started.dev.gone = dev.gone
          /\ started.dev.queued \in Seq(Indices) /\ started.dev.done \in Seq(Filled)
          /\ started.dev.gone \/ started.dev.format = mode_
      <4>1. CASE started.dev = e
          BY <2>3, <4>1
      <4>2. CASE started.dev = Capture!Released(e)
        <5>1. started.dev = [e EXCEPT !.on = FALSE, !.queued = <<>>, !.done = <<>>, !.allocated = FALSE]
            BY <4>2 DEF Capture!Released
        <5>2. <<>> \in Seq(Indices) /\ <<>> \in Seq(Filled)
            BY EmptySeq
        <5>3. QED
            BY <2>3, <5>1, <5>2 DEF CaptureTypes
      <4>3. QED
          BY <2>4, <2>5, <4>1, <4>2
    <3>2. /\ dev' = started.dev /\ streaming' = FALSE /\ buffers' = 0
          /\ format_' = mode_ /\ interval_' = op.settings.interval
          /\ op' = [op EXCEPT !.pc = "end", !.result = "error", !.frame = None]
        BY <2>2, <2>5 DEF Capture!End
    <3>3. /\ DOMAIN op' = DOMAIN op /\ op'.pc = "end" /\ op'.settings = op.settings
          /\ op'.plan = op.plan /\ op'.frame = None /\ op'.stale = op.stale /\ op'.result = "error"
        BY <3>2 DEF CaptureTypes
    <3>4. CaptureTypes'
        BY <1>2, <1>3, <3>1, <3>2, <3>3 DEF CaptureTypes
    <3>5. StreamSet'
        BY <1>2, <1>3, <3>1, <3>2 DEF StreamSet
    <3>6. FrameFits' /\ LampLit'
        BY <1>2, <3>2, <3>3 DEF FrameFits, LampLit
    <3>7. QED
        BY <3>4, <3>5, <3>6
  <2>6. CASE started.ok = TRUE
    <3>1. q \in Seq(Indices) /\ Placed(q, Ids(<<>>), {}, {})
        BY AllQueued
    <3> HIDE DEF q
    <3>2. /\ dev' = on /\ streaming' = TRUE /\ buffers' = BufferCount
          /\ format_' = mode_ /\ interval_' = op.settings.interval /\ op' = [op EXCEPT !.pc = "dequeue"]
        BY <2>2, <2>4, <2>6
    <3>3. /\ DOMAIN dev' = DOMAIN dev /\ dev'.allocated = TRUE /\ dev'.gone = dev.gone
          /\ dev'.queued = q /\ dev'.done = <<>> /\ dev'.format = e.format
        BY <2>3, <3>2 DEF CaptureTypes
    <3>4. /\ DOMAIN op' = DOMAIN op /\ op'.pc = "dequeue" /\ op'.settings = op.settings
          /\ op'.plan = op.plan /\ op'.frame = op.frame /\ op'.stale = op.stale
        BY <3>2 DEF CaptureTypes
    <3>5. CaptureTypes'
        BY <1>2, <1>3, <3>1, <3>2, <3>3, <3>4, EmptySeq DEF CaptureTypes
    <3>6. Held' = {}
        BY <1>3, <3>4 DEF Held
    <3>7. StreamSet'
        BY <1>2, <1>3, <2>3, <3>1, <3>2, <3>3, <3>6 DEF StreamSet
    <3>8. FrameFits' /\ LampLit'
        BY <1>2, <1>3, <3>2, <3>4 DEF FrameFits, LampLit
    <3>9. QED
        BY <3>5, <3>7, <3>8
  <2>7. QED
      BY <2>4, <2>5, <2>6
<1>8. QED
    BY <1>6, <1>7

LEMMA DequeueKeeps ==
    ASSUME CaptureInv, Capture!Dequeue
    PROVE  CaptureInv'
<1> USE DEF CaptureInv
<1> DEFINE frame == Head(dev.done)
           skip == Capture!TooOld(frame) /\ op.stale < MaxStaleFrames
<1>1. /\ op.pc = "dequeue" /\ dev.done # <<>> /\ ~dev.gone /\ dev' = [dev EXCEPT !.done = Tail(@)]
      /\ UNCHANGED <<now, configures, stamps, exposure, lock_3a, streaming, buffers, mode_, format_,
                     interval_, fc, lamp, lost>>
    BY DEF Capture!Dequeue, Capture!stream, Capture!controls
<1>2. PICK corrupt \in BOOLEAN :
        op' = [op EXCEPT !.pc = IF skip THEN "requeue_stale" ELSE "requeue",
                         !.stale = IF Capture!TooOld(frame) THEN @ + 1 ELSE @,
                         !.frame = [index |-> frame.index, exposed |-> frame.exposed,
                                    mode |-> dev.format, corrupt |-> corrupt /\ ~skip]]
    BY Zenon DEF Capture!Dequeue
<1>3. streaming /\ format_ # None /\ dev.format = mode_ /\ mode_ \in Modes /\ op.frame = None
    BY <1>1, CaptureAssumption DEF StreamSet, FrameFits, CaptureTypes
<1>4. /\ frame \in Filled /\ Tail(dev.done) \in Seq(Filled) /\ Ids(dev.done) # <<>>
      /\ Head(Ids(dev.done)) = frame.index /\ Ids(Tail(dev.done)) = Tail(Ids(dev.done))
      /\ Ids(dev.done) \in Seq(Indices)
    BY <1>1, IdsOf DEF CaptureTypes
<1> HIDE DEF frame
<1> DEFINE stale == IF Capture!TooOld(frame) THEN op.stale + 1 ELSE op.stale
           taken == [index |-> frame.index, exposed |-> frame.exposed,
                     mode |-> dev.format, corrupt |-> corrupt /\ ~skip]
<1>5. stale \in Nat /\ (~skip => \/ ~stamps \/ stale > MaxStaleFrames
                                 \/ frame.exposed >= op.plan.not_before)
  <2>1. op.stale \in Nat /\ MaxStaleFrames \in Nat /\ frame.exposed \in Nat /\ op.plan.not_before \in Nat
      BY <1>1, <1>4, CaptureAssumption DEF CaptureTypes, Filled, FrameFits, Asks
  <2>2. Capture!TooOld(frame) <=> stamps /\ frame.exposed < op.plan.not_before
      BY DEF Capture!TooOld
  <2>3. QED
      BY <2>1, <2>2
<1>6. taken \in Frames /\ taken.index = frame.index /\ taken.mode = mode_ /\ taken.exposed = frame.exposed
      /\ taken # None
  <2>1. taken \in Frames
      BY <1>3, <1>4 DEF Frames, Filled
  <2>2. QED
      BY <1>3, <2>1, CaptureAssumption DEF Frames, Indices
<1>7. op' = [op EXCEPT !.pc = IF skip THEN "requeue_stale" ELSE "requeue", !.stale = stale, !.frame = taken]
    BY <1>2
<1> HIDE DEF skip, stale, taken
<1>8. /\ DOMAIN op' = DOMAIN op /\ op'.pc = (IF skip THEN "requeue_stale" ELSE "requeue")
      /\ op'.settings = op.settings /\ op'.plan = op.plan /\ op'.frame = taken /\ op'.stale = stale
    BY <1>7 DEF CaptureTypes
<1>9. /\ DOMAIN dev' = DOMAIN dev /\ dev'.allocated = dev.allocated /\ dev'.gone = dev.gone
      /\ dev'.format = dev.format /\ dev'.queued = dev.queued /\ dev'.done = Tail(dev.done)
    BY <1>1 DEF CaptureTypes
<1>10. CaptureTypes'
    BY <1>1, <1>4, <1>5, <1>6, <1>8, <1>9 DEF CaptureTypes
<1>11. Held = {} /\ Held' = {frame.index}
    BY <1>3, <1>6, <1>8 DEF Held
<1>12. Placed(dev.queued, Tail(Ids(dev.done)), {frame.index}, lost)
  <2>1. Placed(dev.queued, Ids(dev.done), {}, lost)
      BY <1>1, <1>3, <1>11 DEF StreamSet
  <2>2. QED
      BY <1>4, <2>1, BufferMoves DEF CaptureTypes
<1>13. StreamSet'
    BY <1>1, <1>3, <1>4, <1>9, <1>11, <1>12 DEF StreamSet
<1>14. FrameFits'
    BY <1>1, <1>3, <1>6, <1>8 DEF FrameFits
<1>15. Settled' \/ skip
    BY <1>1, <1>5, <1>6, <1>8 DEF Settled
<1>16. LampLit'
    BY <1>1, <1>8, <1>15 DEF LampLit
<1>17. QED
    BY <1>10, <1>13, <1>14, <1>16

LEMMA DequeueFailsKeeps ==
    ASSUME CaptureInv, Capture!DequeueFails
    PROVE  CaptureInv'
<1> USE DEF CaptureInv
<1>1. /\ op.pc = "dequeue"
      /\ UNCHANGED <<now, configures, stamps, dev, exposure, lock_3a, streaming, buffers, mode_, format_,
                     interval_, fc, lamp, lost>>
    BY DEF Capture!DequeueFails, Capture!driver, Capture!stream, Capture!controls
<1>2. PICK result \in {"gone", "error"} : op' = [op EXCEPT !.pc = "end", !.result = result, !.frame = None]
    BY DEF Capture!DequeueFails, Capture!End
<1>3. /\ DOMAIN op' = DOMAIN op /\ op'.pc = "end" /\ op'.settings = op.settings
      /\ op'.plan = op.plan /\ op'.frame = None /\ op'.stale = op.stale /\ op'.result # "ok"
    BY <1>2 DEF CaptureTypes
<1>4. op.frame = None
    BY <1>1 DEF FrameFits
<1>5. CaptureTypes'
    BY <1>1, <1>3 DEF CaptureTypes
<1>6. StreamSet'
    BY <1>1, <1>3, <1>4 DEF StreamSet, Held
<1>7. FrameFits' /\ LampLit'
    BY <1>1, <1>3 DEF FrameFits, LampLit
<1>8. QED
    BY <1>5, <1>6, <1>7

LEMMA RequeueKeeps ==
    ASSUME CaptureInv, Capture!Requeue
    PROVE  CaptureInv'
<1> USE DEF CaptureInv
<1> DEFINE b == op.frame.index
<1>1. /\ op.pc \in {"requeue_stale", "requeue"}
      /\ UNCHANGED <<now, configures, stamps, exposure, lock_3a, streaming, buffers, mode_, format_,
                     interval_, fc, lamp>>
    BY DEF Capture!Requeue, Capture!stream, Capture!controls
<1>2. /\ streaming /\ interval_ = op.settings.interval /\ op.frame # None /\ op.frame.mode = mode_
      /\ op.frame \in Frames /\ b \in Indices /\ op.settings \in Settings /\ Asks(op.plan)
    BY <1>1 DEF FrameFits, CaptureTypes, Frames
<1>3. \/ dev' = dev /\ lost' = lost \cup {b}
      \/ ~dev.gone /\ dev' = [dev EXCEPT !.queued = Append(@, b)] /\ lost' = lost
    BY DEF Capture!Requeue, Capture!GivenBack
<1>4. \/ op' = [op EXCEPT !.pc = "dequeue", !.frame = None]
      \/ op.pc = "requeue" /\ op' = [op EXCEPT !.pc = "end", !.result = "ok"]
      \/ \E result \in {"gone", "error"} : op' = [op EXCEPT !.pc = "end", !.result = result, !.frame = None]
      \/ op' = [op EXCEPT !.pc = "dequeue", !.frame = None, !.attempt = op.attempt + 1]
    BY <1>1 DEF Capture!Requeue, Capture!AfterFrame, Capture!End
<1> HIDE DEF b
<1>5. /\ DOMAIN op' = DOMAIN op /\ op'.settings = op.settings /\ op'.plan = op.plan /\ op'.stale = op.stale
      /\ \/ op'.pc = "dequeue" /\ op'.frame = None
         \/ op'.pc = "end" /\ op'.result = "ok" /\ op'.frame = op.frame /\ op.pc = "requeue"
         \/ op'.pc = "end" /\ op'.result # "ok" /\ op'.frame = None
    BY <1>4 DEF CaptureTypes
<1>6. Append(dev.queued, b) \in Seq(Indices)
    BY <1>2, AppendProperties DEF CaptureTypes
<1>7. /\ DOMAIN dev' = DOMAIN dev /\ dev'.allocated = dev.allocated /\ dev'.gone = dev.gone
      /\ dev'.format = dev.format /\ dev'.done = dev.done
      /\ \/ dev'.queued = dev.queued /\ lost' = lost \cup {b}
         \/ dev'.queued = Append(dev.queued, b) /\ lost' = lost
    BY <1>3 DEF CaptureTypes
<1>8. CaptureTypes'
    BY <1>1, <1>2, <1>5, <1>6, <1>7 DEF CaptureTypes
<1>9. Held = {b} /\ Held' = {}
    BY <1>1, <1>2, <1>5 DEF Held, b
<1>10. ASSUME ~dev.gone PROVE Placed(dev'.queued, Ids(dev.done), {}, lost')
  <2>1. Placed(dev.queued, Ids(dev.done), {b}, lost)
      BY <1>2, <1>9, <1>10 DEF StreamSet
  <2>2. Ids(dev.done) \in Seq(Indices)
      BY IdsOf DEF CaptureTypes
  <2>3. /\ Placed(Append(dev.queued, b), Ids(dev.done), {}, lost)
        /\ Placed(dev.queued, Ids(dev.done), {}, lost \cup {b})
      BY <1>2, <2>1, <2>2, BufferMoves DEF CaptureTypes
  <2>4. QED
      BY <1>7, <2>3
<1>11. StreamSet'
    BY <1>1, <1>2, <1>5, <1>7, <1>9, <1>10 DEF StreamSet
<1>12. FrameFits'
    BY <1>1, <1>2, <1>5 DEF FrameFits
<1>13. LampLit'
  <2>1. op.pc = "requeue" => Settled
      BY DEF LampLit
  <2>2. op'.pc = "end" /\ op'.result = "ok" => Settled'
      BY <1>1, <1>5, <2>1 DEF Settled
  <2>3. QED
      BY <1>1, <1>5, <2>2 DEF LampLit
<1>14. QED
    BY <1>8, <1>11, <1>12, <1>13

LEMMA EndRequestKeeps ==
    ASSUME CaptureInv, Capture!EndRequest
    PROVE  CaptureInv'
<1> USE DEF CaptureInv
<1> DEFINE off == op.plan.lit /\ ~op.plan.keep_lit
           unlit == IF off THEN [fc EXCEPT !.lit = FALSE] ELSE fc
<1>1. /\ op.pc = "end" /\ lamp' = (IF off THEN None ELSE lamp)
      /\ op' = [pc |-> "idle", settings |-> None, plan |-> None, attempt |-> 0, stale |-> 0,
                frame |-> None, result |-> None]
      /\ UNCHANGED <<now, configures, stamps, dev, exposure, lock_3a, streaming, buffers, mode_, format_,
                     interval_, lost>>
    BY DEF Capture!EndRequest, Capture!Idle, Capture!driver, Capture!stream, Capture!controls
<1>2. PICK dark \in BOOLEAN : fc' = unlit \/ fc' = [unlit EXCEPT !.dark = dark]
    BY DEF Capture!EndRequest, Capture!SetBrightness, Capture!Unlit
<1>3. off \in BOOLEAN
    BY <1>1 DEF FrameFits, Asks
<1> HIDE DEF off
<1>4. unlit \in Controls /\ unlit.lit = (fc.lit /\ ~off) /\ unlit.since = fc.since
    BY <1>3 DEF CaptureTypes, Controls
<1> HIDE DEF unlit
<1>5. fc' \in Controls /\ fc'.lit = (fc.lit /\ ~off) /\ fc'.since = fc.since
    BY <1>2, <1>4 DEF Controls
<1>6. CaptureTypes'
    BY <1>1, <1>5 DEF CaptureTypes
<1>7. Held = {} /\ Held' = {}
    BY <1>1 DEF Held
<1>8. StreamSet'
    BY <1>1, <1>7 DEF StreamSet
<1>9. FrameFits'
    BY <1>1 DEF FrameFits
<1>10. LampLit'
    BY <1>1, <1>5 DEF LampLit
<1>11. QED
    BY <1>6, <1>8, <1>9, <1>10

\* What the invariant says of buffers, of the configuration and of the light.
LEMMA CaptureSound == CaptureInv => FramesSound
<1> SUFFICES ASSUME CaptureInv PROVE FramesSound
    OBVIOUS
<1> USE DEF CaptureInv
<1>1. BuffersAccounted
  <2>1. ~streaming => ~dev.allocated
      BY DEF StreamSet
  <2> DEFINE Q == Capture!ToSet(dev.queued)
             D == {dev.done[i].index : i \in DOMAIN dev.done}
  <2>2. ASSUME streaming, ~dev.gone
        PROVE  /\ Q \cup D \cup Held \cup lost = Indices
               /\ Cardinality(Q) + Cardinality(D) + Cardinality(Held) + Cardinality(lost) = BufferCount
    <3>1. Ids(dev.done) \in Seq(Indices) /\ Held \in SUBSET Indices
          /\ Placed(dev.queued, Ids(dev.done), Held, lost)
        BY <2>2, IdsOf DEF CaptureTypes, StreamSet, Held, Frames
    <3>2. Q = Range(dev.queued)
        BY DEF Capture!ToSet, Range
    <3>3. D = Range(Ids(dev.done))
      <4>1. DOMAIN dev.done = 1..Len(dev.done) /\ Len(Ids(dev.done)) = Len(dev.done)
          BY IdsOf, LenProperties DEF CaptureTypes
      <4>2. Range(Ids(dev.done)) = {Ids(dev.done)[i] : i \in 1..Len(dev.done)}
          BY <3>1, <4>1, RangeEquality
      <4>3. \A i \in 1..Len(dev.done) : Ids(dev.done)[i] = dev.done[i].index
          BY DEF Ids
      <4>4. QED
          BY <4>1, <4>2, <4>3
    <3>4. dev.queued \in Seq(Indices) /\ lost \in SUBSET Indices
        BY DEF CaptureTypes
    <3> HIDE DEF Q, D
    <3>5. /\ Range(dev.queued) \cup Range(Ids(dev.done)) \cup Held \cup lost = Indices
          /\ Cardinality(Range(dev.queued)) + Cardinality(Range(Ids(dev.done))) + Cardinality(Held)
               + Cardinality(lost) = BufferCount
        BY <3>1, <3>4, PlacedIsAccounted
    <3>6. QED
        BY <3>2, <3>3, <3>5
  <2>3. QED
    <3>1. BuffersAccounted <=>
            /\ (streaming /\ ~dev.gone) =>
                    /\ Q \cup D \cup Held \cup lost = Indices
                    /\ Cardinality(Q) + Cardinality(D) + Cardinality(Held) + Cardinality(lost) = BufferCount
            /\ ~streaming => ~dev.allocated
      <4>1. \A S : Capture!Cardinality(S) = Cardinality(S)
          BY DEF Capture!Cardinality, Cardinality
      <4>2. QED
          BY <4>1, Zenon DEF BuffersAccounted, Capture!BuffersAccounted, Held, Indices, Capture!Indices
    <3>2. QED
        BY <2>1, <2>2, <3>1
<1>2. FrameAsConfigured
    BY DEF FrameAsConfigured, Capture!FrameAsConfigured, FrameFits, StreamSet
<1>3. ExposedWithFlash
    BY DEF ExposedWithFlash, Capture!ExposedWithFlash, FrameFits, LampLit, Settled
<1>4. QED
    BY <1>1, <1>2, <1>3 DEF FramesSound

\* Whatever the driver, unplugging, failing ioctls and corrupt, late or missing
\* frames do: buffers are never forgotten, a request gets a frame of its own
\* configuration, and one with the flash was exposed while the LEDs were lit.
\* A first buffer that can not be set up is the known exception (the buffers stay
\* allocated, V4l2VideoDevice.cpp).
THEOREM FramesSoundAlways == ASSUME FirstBufferFails = FALSE PROVE MCSpec => []FramesSound
<1>1. MCInit => CaptureInv
  <2> SUFFICES ASSUME MCInit PROVE CaptureInv
      OBVIOUS
  <2>1. /\ now = 1
        /\ dev = [format |-> None, interval |-> None, allocated |-> FALSE, on |-> FALSE,
                  queued |-> <<>>, done |-> <<>>, gone |-> FALSE]
        /\ streaming = FALSE /\ buffers = 0 /\ mode_ = None /\ format_ = None
        /\ fc = [precapture |-> "idle", start |-> 0, preflash |-> FALSE,
                 lit |-> FALSE, since |-> 0, dark |-> FALSE]
        /\ lamp = None /\ lost = {}
        /\ op = [pc |-> "idle", settings |-> None, plan |-> None, attempt |-> 0, stale |-> 0,
                 frame |-> None, result |-> None]
      BY DEF MCInit, Capture!Init, Capture!InitDriver, Capture!InitControl, Capture!Idle
  <2>2. <<>> \in Seq(Indices) /\ <<>> \in Seq(Filled)
      BY EmptySeq
  <2>3. CaptureTypes
      BY <2>1, <2>2 DEF CaptureTypes, Controls
  <2>4. StreamSet /\ FrameFits /\ LampLit
      BY <2>1 DEF StreamSet, FrameFits, LampLit
  <2>5. QED
      BY <2>3, <2>4 DEF CaptureInv
<1>2. CaptureInv /\ [MCNext]_all => CaptureInv'
  <2> SUFFICES ASSUME CaptureInv, [MCNext]_all PROVE CaptureInv'
      OBVIOUS
  <2>1. CASE UNCHANGED capture
      BY <2>1 DEF capture, CaptureInv, CaptureTypes, StreamSet, FrameFits, LampLit, Settled, Held
  <2>2. CASE Capture!Next
      BY <2>2, ClockAndDriver, ConfigureKeeps, BeginRequestKeeps, PrepareRunningKeeps, PrepareStartKeeps,
         DequeueKeeps, DequeueFailsKeeps, RequeueKeeps, EndRequestKeeps
         DEF Capture!Next, Capture!Step
  <2>3. QED
      BY <2>1, <2>2 DEF MCNext, FlashNext, CaptureNext, DiscoveryNext, PlannerNext, ProviderNext, all
<1>3. CaptureInv => FramesSound
    BY CaptureSound
<1>4. QED
    BY <1>1, <1>2, <1>3, PTL DEF MCSpec

-----------------------------------------------------------------------------
(* The list of cameras, the allocator of IDs and the framework.            *)

Change == [id : Nat, present : BOOLEAN]

\* The IDs a list of changes is about.
Changed(cs) == {cs[i].id : i \in 1..Len(cs)}

\* The last change of an ID says whether it is one of ids.
LastRight(cs, ids) ==
    \A i \in 1..Len(cs) :
        (\A j \in i + 1..Len(cs) : cs[j].id # cs[i].id) => (cs[i].present <=> cs[i].id \in ids)

\* Who knows `known` has heard right of all IDs that no change is about: none
\* but of ids, and of those he must know.
HeardRight(cs, known, ids, must) ==
    \A id : id \notin Changed(cs) => (id \in known => id \in ids) /\ (id \in must => id \in known)

\* Until it read getCameraIdList() the framework only has to know of the
\* external cameras.
MustKnow == IF listed THEN inUse ELSE Provider!Ids(DOMAIN cameras_ \ Internal)

\* The allocator agrees with the list; what the framework knows, and what is on
\* its way to it, agree with both.
BooksInv ==
    /\ changes \in Seq(Change)
    /\ DOMAIN cameras_ \subseteq DOMAIN assigned
    /\ \A k \in DOMAIN assigned : assigned[k] \in Nat
    /\ IsFiniteSet(inUse)
    /\ Provider!UniqueIds

ToldInv ==
    /\ LastRight(changes, inUse)
    /\ callback => HeardRight(changes, view, inUse, MustKnow)

ProviderInv == BooksInv /\ ToldInv

-----------------------------------------------------------------------------
\* A set of numbers has a least one.
LEMMA LeastNumber ==
    ASSUME NEW S \in SUBSET Nat, S # {}
    PROVE  \E m \in S : \A k \in S : m <= k
  <1> DEFINE T == {0..m : m \in S}
             R == StrictSubsetOrdering(Nat)
             F == FiniteSubsetsOf(Nat)
  <1>1. T \subseteq F /\ T # {}
    <2>1. \A m \in S : 0..m \in SUBSET Nat /\ IsFiniteSet(0..m)
      BY FS_Interval
    <2> QED
      BY <2>1, Zenon DEF FiniteSubsetsOf
  <1>2. IsWellFoundedOn(R, F)
    BY FS_StrictSubsetOrderingWellFounded
  <1>3. PICK x \in T : \A y \in T : ~(<<y, x>> \in R)
    <2> HIDE DEF T, R, F
    <2> QED  BY <1>1, <1>2, WFMin
  <1>4. PICK m \in S : x = 0..m
    OBVIOUS
  <1>5. ASSUME NEW k \in S, k < m PROVE FALSE
    <2>1. 0..k \in T /\ 0..k \in SUBSET Nat /\ 0..m \in SUBSET Nat
      OBVIOUS
    <2>2. 0..k \subseteq 0..m /\ 0..k # 0..m
      <3>1. m \in 0..m /\ m \notin 0..k
        BY <1>5
      <3> QED  BY <1>5, <3>1
    <2>3. <<0..k, 0..m>> \in R
      BY <2>1, <2>2, Zenon DEF StrictSubsetOrdering
    <2> QED
      BY <1>3, <1>4, <2>1, <2>3
  <1> QED  BY <1>5

\* One of n + 1 numbers in a row is not among n.
LEMMA FreeNumber ==
    ASSUME NEW first \in Nat, NEW used, IsFiniteSet(used)
    PROVE  /\ Cardinality(used) \in Nat
           /\ (first..first + Cardinality(used)) \ used # {}
<1> DEFINE n == Cardinality(used)
           row == first..first + n
<1>1. n \in Nat
    BY FS_CardinalityType
<1>2. IsFiniteSet(row) /\ Cardinality(row) = n + 1
  <2> HIDE DEF n
  <2> QED
      BY <1>1, FS_Interval
<1>3. row \subseteq used => Cardinality(row) <= n
    BY FS_Subset
<1>4. ~(n + 1 <= n)
  <2> HIDE DEF n
  <2> QED
      BY <1>1
<1> QED
    BY <1>1, <1>2, <1>3, <1>4

\* An ID that is handed out is a number that is not in use.
LEMMA AllocatedIsFree ==
    ASSUME NEW k, IsFiniteSet(inUse), \A c \in DOMAIN assigned : assigned[c] \in Nat
    PROVE  Provider!Allocate(k) \in Nat /\ Provider!Allocate(k) \notin inUse
<1>1. CASE Provider!Reusable(k)
    BY <1>1 DEF Provider!Allocate, Provider!Reusable
<1>2. CASE ~Provider!Reusable(k)
  <2> DEFINE first == IF k \in Internal THEN 0 ELSE ExternalOffset
             free == (first..first + Cardinality(inUse)) \ inUse
  <2>1. first \in Nat
      BY IdsAssumption
  <2>2. Cardinality(inUse) \in Nat /\ free # {}
    <3> HIDE DEF first
    <3> QED
        BY <2>1, FreeNumber
  <2>3. free \in SUBSET Nat
    <3> HIDE DEF first
    <3> QED
        BY <2>1, <2>2
  <2>4. Provider!FreeId(k) = CHOOSE x \in free : \A y \in free : x <= y
      BY DEF Provider!FreeId, Provider!Min, Provider!Cardinality, Cardinality
  <2>5. \E x \in free : \A y \in free : x <= y
    <3> HIDE DEF free
    <3> QED
        BY <2>2, <2>3, LeastNumber
  <2>6. Provider!FreeId(k) \in free
    <3> HIDE DEF free
    <3> QED
        BY <2>4, <2>5
  <2> QED
      BY <1>2, <2>3, <2>6 DEF Provider!Allocate
<1> QED
    BY <1>1, <1>2

\* One more change is on its way, and ids differ in nothing else.
LEMMA OneMoreChange ==
    ASSUME NEW cs \in Seq(Change), NEW c \in Change, NEW ids, NEW ids2,
           LastRight(cs, ids), c.present <=> c.id \in ids2,
           \A id : id # c.id => (id \in ids <=> id \in ids2)
    PROVE  /\ Append(cs, c) \in Seq(Change)
           /\ LastRight(Append(cs, c), ids2)
           /\ Changed(Append(cs, c)) = Changed(cs) \cup {c.id}
<1> DEFINE cs2 == Append(cs, c)
<1>1. /\ cs2 \in Seq(Change) /\ Len(cs2) = Len(cs) + 1 /\ Len(cs) \in Nat
      /\ \A i \in 1..Len(cs) : cs2[i] = cs[i]
      /\ cs2[Len(cs) + 1] = c
    BY AppendProperties
<1> HIDE DEF cs2
<1>2. Changed(cs2) = Changed(cs) \cup {c.id}
  <2>1. 1..Len(cs2) = 1..Len(cs) \cup {Len(cs) + 1}
      BY <1>1
  <2> QED
      BY <1>1, <2>1 DEF Changed
<1>3. LastRight(cs2, ids2)
  <2> SUFFICES ASSUME NEW i \in 1..Len(cs2), \A j \in i + 1..Len(cs2) : cs2[j].id # cs2[i].id
               PROVE  cs2[i].present <=> cs2[i].id \in ids2
      BY DEF LastRight
  <2>1. CASE i = Len(cs) + 1
      BY <1>1, <2>1
  <2>2. CASE i # Len(cs) + 1
    <3>1. i \in 1..Len(cs) /\ Len(cs) + 1 \in i + 1..Len(cs2)
          /\ \A j \in i + 1..Len(cs) : j \in i + 1..Len(cs2) /\ j \in 1..Len(cs)
        BY <1>1, <2>2
    <3>2. cs2[i] = cs[i] /\ cs2[i].id # c.id
        BY <1>1, <3>1
    <3>3. \A j \in i + 1..Len(cs) : cs[j].id # cs[i].id
        BY <1>1, <3>1, <3>2
    <3>4. cs[i].present <=> cs[i].id \in ids
        BY <3>1, <3>3 DEF LastRight
    <3> QED
        BY <3>2, <3>4
  <2> QED
      BY <2>1, <2>2
<1> QED
    BY <1>1, <1>2, <1>3 DEF cs2

\* The first change arrives.
LEMMA ChangeArrives ==
    ASSUME NEW cs \in Seq(Change), cs # <<>>, NEW known, NEW ids, NEW must \in SUBSET ids,
           LastRight(cs, ids), HeardRight(cs, known, ids, must)
    PROVE  /\ Tail(cs) \in Seq(Change) /\ LastRight(Tail(cs), ids)
           /\ HeardRight(Tail(cs), Provider!Told(known, Head(cs)), ids, must)
<1> DEFINE rest == Tail(cs)
           c == cs[1]
<1>1. /\ rest \in Seq(Change) /\ Len(cs) \in Nat \ {0} /\ Len(rest) = Len(cs) - 1
      /\ \A i \in 1..Len(rest) : rest[i] = cs[i + 1]
      /\ Head(cs) = c /\ c \in Change
  <2>1. Len(cs) \in Nat \ {0} /\ 1 \in 1..Len(cs)
      BY EmptySeq
  <2>2. Head(cs) = c
      BY HeadTailProperties
  <2>3. c \in Change
      BY <2>1, ElementOfSeq
  <2>4. /\ rest \in Seq(Change) /\ Len(rest) = Len(cs) - 1
        /\ \A i \in 1..Len(rest) : rest[i] = cs[i + 1]
      BY HeadTailProperties
  <2> QED
      BY <2>1, <2>2, <2>3, <2>4
<1> HIDE DEF rest, c
<1>2. LastRight(rest, ids)
  <2> SUFFICES ASSUME NEW i \in 1..Len(rest), \A j \in i + 1..Len(rest) : rest[j].id # rest[i].id
               PROVE  rest[i].present <=> rest[i].id \in ids
      BY DEF LastRight
  <2>1. i + 1 \in 1..Len(cs) /\ rest[i] = cs[i + 1]
      BY <1>1
  <2>2. ASSUME NEW j \in i + 2..Len(cs) PROVE cs[j].id # cs[i + 1].id
    <3>1. j - 1 \in i + 1..Len(rest) /\ j - 1 \in 1..Len(rest) /\ (j - 1) + 1 = j
        BY <1>1
    <3> QED
        BY <1>1, <2>1, <3>1
  <2>3. (i + 1) + 1 = i + 2
      BY <1>1
  <2> QED
      BY <2>1, <2>2, <2>3 DEF LastRight
<1>3. HeardRight(rest, Provider!Told(known, c), ids, must)
  <2> SUFFICES ASSUME NEW id, id \notin Changed(rest)
               PROVE  /\ id \in Provider!Told(known, c) => id \in ids
                      /\ id \in must => id \in Provider!Told(known, c)
      BY DEF HeardRight
  <2>1. \A j \in 2..Len(cs) : cs[j].id # id
    <3> SUFFICES ASSUME NEW j \in 2..Len(cs) PROVE cs[j].id # id
        OBVIOUS
    <3>1. j - 1 \in 1..Len(rest) /\ (j - 1) + 1 = j
        BY <1>1
    <3>2. rest[j - 1] = cs[j]
        BY <1>1, <3>1
    <3> QED
        BY <3>1, <3>2 DEF Changed
  <2>2. CASE id = c.id
    <3>1. c.present <=> c.id \in ids
      <4>1. 1 \in 1..Len(cs) /\ 1 + 1 = 2
          BY <1>1
      <4> QED
          BY <2>1, <2>2, <4>1 DEF LastRight, c
    <3>2. c.present \in BOOLEAN
        BY <1>1 DEF Change
    <3>3. CASE c.present
        BY <2>2, <3>1, <3>3 DEF Provider!Told
    <3>4. CASE ~c.present
        BY <2>2, <3>1, <3>4 DEF Provider!Told
    <3> QED
        BY <3>2, <3>3, <3>4
  <2>3. CASE id # c.id
    <3>1. id \notin Changed(cs)
      <4>1. \A j \in 1..Len(cs) : j = 1 \/ j \in 2..Len(cs)
          BY <1>1
      <4> QED
          BY <2>1, <2>3, <4>1 DEF Changed, c
    <3>2. id \in Provider!Told(known, c) <=> id \in known
        BY <2>3 DEF Provider!Told
    <3> QED
        BY <3>1, <3>2 DEF HeardRight
  <2> QED
      BY <2>2, <2>3
<1> QED
    BY <1>1, <1>2, <1>3 DEF rest

-----------------------------------------------------------------------------
\* The IDs of the listed cameras once one with the ID id was added or removed.
LEMMA BooksOfRemoval ==
    ASSUME BooksInv, NEW k \in Keys, Provider!RemoveCamera(k)
    PROVE  /\ BooksInv' /\ UNCHANGED <<callback, listed, view>>
           /\ cameras_[k].id \in Nat
           /\ changes' = Append(changes, [id |-> cameras_[k].id, present |-> FALSE])
           /\ cameras_[k].id \notin inUse'
           /\ \A id : id # cameras_[k].id => (id \in inUse <=> id \in inUse')
           /\ \A id : id # cameras_[k].id => (id \in MustKnow <=> id \in MustKnow')
<1> DEFINE id0 == cameras_[k].id
<1>1. /\ k \in DOMAIN cameras_ /\ k \in DOMAIN assigned
      /\ changes' = Append(changes, [id |-> id0, present |-> FALSE])
      /\ inUse' = inUse \ {assigned[k]}
      /\ cameras_' = [c \in DOMAIN cameras_ \ {k} |-> cameras_[c]]
      /\ UNCHANGED <<assigned, callback, listed, view>>
    BY DEF BooksInv, Provider!RemoveCamera, Provider!Removed, Provider!framework
<1>2. /\ \A i, j \in DOMAIN cameras_ : cameras_[i].id = cameras_[j].id => i = j
      /\ inUse = {cameras_[c].id : c \in DOMAIN cameras_}
      /\ \A c \in DOMAIN cameras_ : assigned[c] = cameras_[c].id
    BY DEF BooksInv, Provider!UniqueIds, Provider!Ids
<1>3. assigned[k] = id0 /\ id0 \in Nat
    BY <1>1, <1>2 DEF BooksInv
<1>4. DOMAIN cameras_' = DOMAIN cameras_ \ {k} /\ \A c \in DOMAIN cameras_ \ {k} : cameras_'[c] = cameras_[c]
    BY <1>1
<1>5. inUse' = {cameras_'[c].id : c \in DOMAIN cameras_'}
  <2>1. \A c \in DOMAIN cameras_ \ {k} : cameras_[c].id # id0
      BY <1>1, <1>2
  <2>2. inUse' = {cameras_[c].id : c \in DOMAIN cameras_ \ {k}}
    <3> DEFINE left == {cameras_[c].id : c \in DOMAIN cameras_ \ {k}}
    <3>1. \A id : id \in left => id \in inUse /\ id # id0
        BY <1>2, <2>1
    <3>2. \A id : id \in inUse /\ id # id0 => id \in left
        BY <1>2
    <3> HIDE DEF left
    <3> QED
        BY <1>1, <1>3, <3>1, <3>2 DEF left
  <2> QED
      BY <1>4, <2>2
<1>6. Provider!UniqueIds'
  <2>1. \A i, j \in DOMAIN cameras_' : cameras_'[i].id = cameras_'[j].id => i = j
      BY <1>2, <1>4
  <2>2. \A c \in DOMAIN cameras_' : assigned'[c] = cameras_'[c].id
      BY <1>1, <1>2, <1>4
  <2> QED
      BY <1>5, <2>1, <2>2 DEF Provider!UniqueIds, Provider!Ids
<1>7. changes' \in Seq(Change)
  <2>1. [id |-> id0, present |-> FALSE] \in Change
      BY <1>3 DEF Change
  <2> QED
      BY <1>1, <2>1, AppendProperties DEF BooksInv
<1>8. BooksInv'
  <2>1. IsFiniteSet(inUse')
      BY <1>1, FS_RemoveElement DEF BooksInv
  <2>2. DOMAIN cameras_' \subseteq DOMAIN assigned' /\ \A c \in DOMAIN assigned' : assigned'[c] \in Nat
      BY <1>1, <1>4 DEF BooksInv
  <2> QED
      BY <1>6, <1>7, <2>1, <2>2 DEF BooksInv
<1>9. \A id : id # id0 => (id \in inUse <=> id \in inUse')
    BY <1>1, <1>3
<1>10. \A id : id # id0 => (id \in MustKnow <=> id \in MustKnow')
  <2>1. \A id : id # id0 => (id \in Provider!Ids(DOMAIN cameras_ \ Internal)
                               <=> id \in Provider!Ids(DOMAIN cameras_ \ Internal)')
      BY <1>4 DEF Provider!Ids
  <2> QED
      BY <1>1, <1>9, <2>1 DEF MustKnow
<1> QED
    BY <1>1, <1>3, <1>8, <1>9, <1>10

LEMMA BooksOfAddition ==
    ASSUME BooksInv, NEW k \in Keys, Provider!AddCamera(k)
    PROVE  LET id0 == Provider!Allocate(k)
           IN  /\ BooksInv' /\ UNCHANGED <<callback, listed, view>>
               /\ id0 \in Nat /\ id0 \in inUse'
               /\ changes' = Append(changes, [id |-> id0, present |-> TRUE])
               /\ \A id : id # id0 => (id \in inUse <=> id \in inUse')
               /\ \A id : id # id0 => (id \in MustKnow <=> id \in MustKnow')
<1> DEFINE id0 == Provider!Allocate(k)
<1>1. /\ k \notin DOMAIN cameras_
      /\ assigned' = [c \in DOMAIN assigned \cup {k} |-> IF c = k THEN id0 ELSE assigned[c]]
      /\ inUse' = inUse \cup {id0}
      /\ changes' = Append(changes, [id |-> id0, present |-> TRUE])
      /\ cameras_' = [c \in DOMAIN cameras_ \cup {k} |->
                        IF c = k THEN [id |-> id0, node |-> found[k]] ELSE cameras_[c]]
      /\ UNCHANGED <<callback, listed, view>>
    BY DEF Provider!AddCamera, Provider!Added, Provider!Update, Provider!framework
<1>2. /\ \A i, j \in DOMAIN cameras_ : cameras_[i].id = cameras_[j].id => i = j
      /\ inUse = {cameras_[c].id : c \in DOMAIN cameras_}
      /\ \A c \in DOMAIN cameras_ : assigned[c] = cameras_[c].id
    BY DEF BooksInv, Provider!UniqueIds, Provider!Ids
<1>3. id0 \in Nat /\ id0 \notin inUse
    BY AllocatedIsFree DEF BooksInv
<1> HIDE DEF id0
<1>4. /\ DOMAIN cameras_' = DOMAIN cameras_ \cup {k} /\ cameras_'[k].id = id0
      /\ \A c \in DOMAIN cameras_ : cameras_'[c] = cameras_[c]
      /\ DOMAIN assigned' = DOMAIN assigned \cup {k} /\ assigned'[k] = id0
      /\ \A c \in DOMAIN assigned \ {k} : assigned'[c] = assigned[c]
    BY <1>1
<1>5. \A c \in DOMAIN cameras_ : cameras_[c].id # id0
    BY <1>2, <1>3
<1>6. Provider!UniqueIds'
  <2>1. \A i, j \in DOMAIN cameras_' : cameras_'[i].id = cameras_'[j].id => i = j
      BY <1>2, <1>4, <1>5
  <2>2. inUse' = {cameras_'[c].id : c \in DOMAIN cameras_'}
    <3>1. \A id : id \in inUse <=> \E c \in DOMAIN cameras_ : id = cameras_'[c].id
        BY <1>2, <1>4
    <3>2. \A id : (\E c \in DOMAIN cameras_' : id = cameras_'[c].id)
                    <=> id = id0 \/ \E c \in DOMAIN cameras_ : id = cameras_'[c].id
        BY <1>4
    <3>3. \A id : id \in inUse' <=> id = id0 \/ id \in inUse
        BY <1>1
    <3>4. \A id : id \in inUse' <=> \E c \in DOMAIN cameras_' : id = cameras_'[c].id
        BY <3>1, <3>2, <3>3, Zenon
    <3> QED
        BY <3>4
  <2>3. \A c \in DOMAIN cameras_' : assigned'[c] = cameras_'[c].id
      BY <1>1, <1>2, <1>4 DEF BooksInv
  <2> QED
      BY <2>1, <2>2, <2>3 DEF Provider!UniqueIds, Provider!Ids
<1>7. changes' \in Seq(Change)
  <2>1. [id |-> id0, present |-> TRUE] \in Change
      BY <1>3 DEF Change
  <2> QED
      BY <1>1, <2>1, AppendProperties DEF BooksInv
<1>8. BooksInv'
  <2>1. IsFiniteSet(inUse')
      BY <1>1, FS_AddElement DEF BooksInv
  <2>2. DOMAIN cameras_' \subseteq DOMAIN assigned'
      BY <1>4 DEF BooksInv
  <2>3. \A c \in DOMAIN assigned' : assigned'[c] \in Nat
      BY <1>3, <1>4 DEF BooksInv
  <2> QED
      BY <1>6, <1>7, <2>1, <2>2, <2>3 DEF BooksInv
<1>9. \A id : id # id0 => (id \in inUse <=> id \in inUse')
    BY <1>1
<1>10. \A id : id # id0 => (id \in MustKnow <=> id \in MustKnow')
  <2>1. \A id : id # id0 => (id \in Provider!Ids(DOMAIN cameras_ \ Internal)
                               <=> id \in Provider!Ids(DOMAIN cameras_ \ Internal)')
      BY <1>4 DEF Provider!Ids
  <2> QED
      BY <1>1, <1>9, <2>1 DEF MustKnow
<1> QED
    BY <1>1, <1>3, <1>8, <1>9, <1>10 DEF id0

\* A camera was removed or added, and the change is on its way.
LEMMA ToldOfChange ==
    ASSUME ProviderInv, NEW c \in Change, changes' = Append(changes, c), UNCHANGED <<callback, view>>,
           c.present <=> c.id \in inUse',
           \A id : id # c.id => (id \in inUse <=> id \in inUse'),
           \A id : id # c.id => (id \in MustKnow <=> id \in MustKnow')
    PROVE  ToldInv'
<1>1. changes \in Seq(Change) /\ LastRight(changes, inUse)
    BY DEF ProviderInv, BooksInv, ToldInv
<1>2. LastRight(changes', inUse') /\ Changed(changes') = Changed(changes) \cup {c.id}
    BY <1>1, OneMoreChange
<1>3. callback' => HeardRight(changes', view', inUse', MustKnow')
  <2>1. SUFFICES ASSUME callback, NEW id, id \notin Changed(changes) \cup {c.id}
                 PROVE  (id \in view => id \in inUse') /\ (id \in MustKnow' => id \in view)
      BY <1>2 DEF HeardRight
  <2>2. (id \in view => id \in inUse) /\ (id \in MustKnow => id \in view)
      BY <2>1 DEF ProviderInv, ToldInv, HeardRight
  <2> QED
      BY <2>1, <2>2
<1> QED
    BY <1>2, <1>3 DEF ToldInv

\* What the framework has to know are cameras in use.
LEMMA MustKnowInUse == BooksInv => MustKnow \in SUBSET inUse
BY DEF BooksInv, MustKnow, Provider!UniqueIds, Provider!Ids

-----------------------------------------------------------------------------
\* The books and what is on its way are kept by every step of the provider and
\* the framework.
LEMMA ProviderKeeps == ProviderInv /\ Provider!Next => ProviderInv'
<1> SUFFICES ASSUME ProviderInv, Provider!Next PROVE ProviderInv'
    OBVIOUS
<1> USE DEF ProviderInv
<1> DEFINE Others == UNCHANGED <<cameras_, assigned, inUse, callback, listed, view>>
<1>1. ASSUME Others, changes' = changes PROVE ProviderInv'
    BY <1>1 DEF BooksInv, ToldInv, MustKnow, Provider!UniqueIds, Provider!Ids
<1>2. ASSUME Others, changes' = <<>>, callback => changes = <<>> PROVE ProviderInv'
  <2>1. BooksInv'
      BY <1>2, EmptySeq DEF BooksInv, Provider!UniqueIds, Provider!Ids
  <2>2. LastRight(changes', inUse')
      BY <1>2 DEF LastRight
  <2>3. callback' => HeardRight(changes', view', inUse', MustKnow')
      BY <1>2 DEF ToldInv, MustKnow, Provider!Ids
  <2> QED
      BY <2>1, <2>2, <2>3 DEF ToldInv
<1>3. ASSUME NEW k \in Keys, Provider!RemoveCamera(k) PROVE ProviderInv'
  <2> DEFINE c == [id |-> cameras_[k].id, present |-> FALSE]
  <2>1. c \in Change
      BY <1>3, BooksOfRemoval DEF Change
  <2>2. ~c.present /\ c.id = cameras_[k].id
      OBVIOUS
  <2> QED
      BY <1>3, <2>1, <2>2, BooksOfRemoval, ToldOfChange
<1>4. ASSUME NEW k \in Keys, Provider!AddCamera(k) PROVE ProviderInv'
  <2> DEFINE c == [id |-> Provider!Allocate(k), present |-> TRUE]
  <2>1. c \in Change
      BY <1>4, BooksOfAddition DEF Change
  <2>2. c.present /\ c.id = Provider!Allocate(k)
      OBVIOUS
  <2> QED
      BY <1>4, <2>1, <2>2, BooksOfAddition, ToldOfChange
<1>5. CASE Provider!SendChange
  <2>1. /\ callback /\ changes # <<>>
        /\ view' = Provider!Told(view, Head(changes)) /\ changes' = Tail(changes)
        /\ UNCHANGED <<cameras_, assigned, inUse, callback, listed>>
      BY <1>5 DEF Provider!SendChange, Provider!list
  <2>2. /\ Tail(changes) \in Seq(Change) /\ LastRight(Tail(changes), inUse)
        /\ HeardRight(Tail(changes), view', inUse, MustKnow)
      BY <2>1, MustKnowInUse, ChangeArrives DEF BooksInv, ToldInv
  <2>3. MustKnow' = MustKnow
      BY <2>1 DEF MustKnow, Provider!Ids
  <2>4. BooksInv'
      BY <2>1, <2>2 DEF BooksInv, Provider!UniqueIds, Provider!Ids
  <2> QED
      BY <2>1, <2>2, <2>3, <2>4 DEF ToldInv
<1>6. CASE Provider!SetCallback
  <2>1. /\ ~listed' /\ view' = Provider!Ids(DOMAIN cameras_ \ Internal)
        /\ UNCHANGED <<cameras_, assigned, inUse, changes>>
      BY <1>6 DEF Provider!SetCallback, Provider!list
  <2>2. view' = MustKnow'
      BY <2>1 DEF MustKnow, Provider!Ids
  <2>3. BooksInv'
      BY <2>1 DEF BooksInv, Provider!UniqueIds, Provider!Ids
  <2>4. MustKnow' \in SUBSET inUse'
      BY <2>3, MustKnowInUse DEF BooksInv, MustKnow, Provider!UniqueIds, Provider!Ids
  <2>5. HeardRight(changes', view', inUse', MustKnow')
      BY <2>2, <2>4 DEF HeardRight
  <2> QED
      BY <2>1, <2>3, <2>5 DEF ToldInv
<1>7. CASE Provider!GetCameraIdList
  <2>1. /\ callback /\ ~listed /\ listed' /\ view' = view \cup Provider!Ids(DOMAIN cameras_ \cap Internal)
        /\ UNCHANGED <<cameras_, assigned, inUse, changes, callback>>
      BY <1>7 DEF Provider!GetCameraIdList, Provider!list
  <2>2. BooksInv'
      BY <2>1 DEF BooksInv, Provider!UniqueIds, Provider!Ids
  <2>3. MustKnow' = inUse /\ MustKnow = Provider!Ids(DOMAIN cameras_ \ Internal)
      BY <2>1 DEF MustKnow
  <2>4. inUse = Provider!Ids(DOMAIN cameras_ \ Internal) \cup Provider!Ids(DOMAIN cameras_ \cap Internal)
      BY DEF BooksInv, Provider!UniqueIds, Provider!Ids
  <2>5. HeardRight(changes, view, inUse, MustKnow)
      BY <2>1 DEF ToldInv
  <2>6. HeardRight(changes, view', inUse, inUse)
      BY <2>1, <2>3, <2>4, <2>5 DEF HeardRight
  <2> QED
      BY <2>1, <2>2, <2>3, <2>6 DEF ToldInv
<1>8. CASE Provider!BootScan \/ Provider!MonitorScan
    BY <1>1, <1>8 DEF Provider!BootScan, Provider!MonitorScan, Provider!Discover, Provider!list, Provider!framework
<1>9. CASE Provider!BootNotify \/ Provider!MonitorNotify
    BY <1>2, <1>9 DEF Provider!BootNotify, Provider!MonitorNotify, Provider!NotifyReturns, Provider!list,
                      Provider!framework
<1>10. CASE Provider!StartWatch \/ Provider!ReadEvents \/ Provider!EndScan
    BY <1>1, <1>10 DEF Provider!StartWatch, Provider!ReadEvents, Provider!EndScan, Provider!list,
                       Provider!framework
<1>11. ASSUME NEW n, Provider!DevChanges PROVE ProviderInv'
    BY <1>1, <1>11 DEF Provider!DevChanges, Provider!list, Provider!framework
<1> HIDE DEF ProviderInv
<1> QED
    BY <1>3, <1>4, <1>5, <1>6, <1>7, <1>8, <1>9, <1>10, <1>11
       DEF Provider!Next, Provider!Provider, Provider!Environment, Provider!Rescan, Provider!Allow,
           Provider!Unplug, Provider!Plug

\* Nothing is listed, in use or told at the start.
LEMMA ProviderStart == Provider!Init => ProviderInv
<1> SUFFICES ASSUME Provider!Init PROVE ProviderInv
    OBVIOUS
<1>1. cameras_ = <<>> /\ assigned = <<>> /\ inUse = {} /\ changes = <<>> /\ callback = FALSE
    BY DEF Provider!Init
<1>2. DOMAIN cameras_ = {} /\ DOMAIN assigned = {}
    BY <1>1
<1>3. BooksInv
    BY <1>1, <1>2, EmptySeq, FS_EmptySet DEF BooksInv, Provider!UniqueIds, Provider!Ids
<1>4. ToldInv
    BY <1>1 DEF ToldInv, LastRight
<1> QED
    BY <1>3, <1>4 DEF ProviderInv

LEMMA ProviderAlways == MCSpec => []ProviderInv
<1>1. MCInit => ProviderInv
    BY ProviderStart DEF MCInit
<1>2. ProviderInv /\ [MCNext]_all => ProviderInv'
  <2> SUFFICES ASSUME ProviderInv, [MCNext]_all PROVE ProviderInv'
      OBVIOUS
  <2>1. CASE UNCHANGED provider
      BY <2>1 DEF provider, ProviderInv, BooksInv, ToldInv, MustKnow, Provider!UniqueIds, Provider!Ids
  <2>2. CASE Provider!Next
      BY <2>2, ProviderKeeps
  <2> QED
      BY <2>1, <2>2 DEF MCNext, FlashNext, CaptureNext, DiscoveryNext, PlannerNext, ProviderNext, all
<1> QED
    BY <1>1, <1>2, PTL DEF MCSpec

\* Whatever comes and goes in /dev while scans, single notifications and calls
\* of the framework interleave: no two listed cameras have the same ID, the
\* allocator's books agree with the list, and when no change is on its way the
\* framework takes exactly the listed cameras for present (Rescan, Notify,
\* setCallback, getCameraIdList, CameraIdAllocator).
THEOREM ListAgreesAlways == MCSpec => []ListAgrees
<1>1. ProviderInv => ListAgrees
  <2> SUFFICES ASSUME ProviderInv PROVE Provider!FrameworkInSync
      BY DEF ProviderInv, BooksInv, ListAgrees, Provider!ListAgrees
  <2> SUFFICES ASSUME callback, listed, changes = <<>> PROVE view = Provider!Ids(DOMAIN cameras_)
      BY DEF Provider!FrameworkInSync
  <2>1. HeardRight(<<>>, view, inUse, inUse)
      BY DEF ProviderInv, ToldInv, MustKnow
  <2>2. Changed(<<>>) = {}
      BY DEF Changed
  <2>3. view = inUse
      BY <2>1, <2>2 DEF HeardRight
  <2> QED
      BY <2>3 DEF ProviderInv, BooksInv, Provider!UniqueIds
<1> QED
    BY <1>1, ProviderAlways, PTL

\* A camera that comes back gets the ID it had before, unless another camera
\* has it (CameraIdAllocator::Allocate).
THEOREM ComesBackAlways == MCSpec => ComesBack
<1> DEFINE Kept == \A k \in (DOMAIN cameras_' \ DOMAIN cameras_) \cap DOMAIN assigned :
                      Provider!InRange(assigned[k], k) /\ cameras_'[k].id # assigned[k]
                         => \E j \in DOMAIN cameras_' : cameras_'[j].id = assigned[k]
<1>1. ProviderInv /\ [MCNext]_all => [Kept]_(Provider!vars)
  <2> SUFFICES ASSUME ProviderInv, [MCNext]_all, Provider!vars' # Provider!vars PROVE Kept
      OBVIOUS
  <2>1. CASE UNCHANGED provider
      BY <2>1 DEF provider, Provider!vars, Provider!devices, Provider!monitor, Provider!list,
                  Provider!framework
  <2>2. ASSUME NEW k \in Keys, Provider!AddCamera(k) PROVE Kept
    <3>1. /\ DOMAIN cameras_' = DOMAIN cameras_ \cup {k} /\ cameras_'[k].id = Provider!Allocate(k)
          /\ \A c \in DOMAIN cameras_ : c # k => cameras_'[c] = cameras_[c]
          /\ k \notin DOMAIN cameras_
        BY <2>2 DEF Provider!AddCamera, Provider!Added, Provider!Update
    <3> SUFFICES ASSUME k \in DOMAIN assigned, Provider!InRange(assigned[k], k),
                        Provider!Allocate(k) # assigned[k]
                 PROVE  \E j \in DOMAIN cameras_' : cameras_'[j].id = assigned[k]
        BY <3>1
    <3>2. assigned[k] \in inUse
        BY DEF Provider!Allocate, Provider!Reusable
    <3>3. PICK j \in DOMAIN cameras_ : cameras_[j].id = assigned[k]
        BY <3>2 DEF ProviderInv, BooksInv, Provider!UniqueIds, Provider!Ids
    <3> QED
        BY <3>1, <3>3
  <2>3. ASSUME DOMAIN cameras_' \subseteq DOMAIN cameras_ PROVE Kept
      BY <2>3
  <2>4. ASSUME NEW k \in Keys, Provider!RemoveCamera(k) PROVE Kept
      BY <2>3, <2>4 DEF Provider!RemoveCamera
  <2>5. CASE UNCHANGED cameras_
      BY <2>3, <2>5
  <2> HIDE DEF Kept
  <2> QED
    <3>1. CASE Provider!Next
        BY <3>1, <2>2, <2>4, <2>5
           DEF Provider!Next, Provider!Provider, Provider!Environment, Provider!Rescan, Provider!Allow,
               Provider!Unplug, Provider!Plug, Provider!DevChanges, Provider!EndScan, Provider!SendChange,
               Provider!BootScan, Provider!BootNotify, Provider!StartWatch, Provider!ReadEvents,
               Provider!MonitorScan, Provider!MonitorNotify, Provider!SetCallback,
               Provider!GetCameraIdList, Provider!Discover, Provider!list
    <3> QED
        BY <2>1, <3>1 DEF MCNext, FlashNext, CaptureNext, DiscoveryNext, PlannerNext, ProviderNext, all
<1> QED
    BY <1>1, ProviderAlways, PTL DEF MCSpec, ComesBack, Provider!ComesBack

-----------------------------------------------------------------------------
(* The scan of /dev, the pipelines of sensors and the choice of a mode.    *)

\* Finite sets are well-founded by inclusion.
LEMMA SmallestFiniteSet ==
    ASSUME NEW U, NEW T, T \subseteq FiniteSubsetsOf(U), T # {}
    PROVE  \E t \in T : \A u \in T : u \subseteq t => u = t
<1>1. IsWellFoundedOn(StrictSubsetOrdering(U), FiniteSubsetsOf(U))
  BY FS_StrictSubsetOrderingWellFounded
<1>2. PICK t \in T : \A u \in T : ~ (<<u, t>> \in StrictSubsetOrdering(U))
  BY <1>1, WFMin
<1>3. ASSUME NEW u \in T, u \subseteq t PROVE u = t
  <2>1. u \in SUBSET U /\ t \in SUBSET U
    BY DEF FiniteSubsetsOf
  <2> QED BY <1>2, <1>3, <2>1 DEF StrictSubsetOrdering
<1> QED BY <1>3

\* What takes n steps, each a function of the state before it.
Steps(f, n, St, st, step) ==
    /\ f \in [0 .. n -> St]
    /\ f[0] = st
    /\ \A i \in 1 .. n : f[i] = step[i][f[i - 1]]

HasSteps(n, St, st, step) == \E f : Steps(f, n, St, st, step)

\* The first step that could not be taken could be taken.
LEMMA StepsExist ==
    ASSUME NEW n \in Nat, NEW St, NEW st \in St, NEW step \in [1 .. n -> [St -> St]]
    PROVE  HasSteps(n, St, st, step)
<1> DEFINE Bad == {k \in 0 .. n : ~ HasSteps(k, St, st, step)}
<1>1. SUFFICES ASSUME n \in Bad PROVE FALSE
  OBVIOUS
<1>2. PICK k \in Bad : \A m \in Bad : k <= m
  <2>1. Bad \in SUBSET Nat /\ Bad # {}
    BY <1>1
  <2> HIDE DEF Bad
  <2> QED BY <2>1, LeastNumber
<1>3. k # 0
  <2>1. Steps([i \in 0 .. 0 |-> st], 0, St, st, step)
    BY DEF Steps
  <2> QED BY <2>1, <1>2 DEF HasSteps
<1>4. k \in 1 .. n /\ k - 1 \in 0 .. n /\ k - 1 \notin Bad
  BY <1>2, <1>3
<1>5. PICK f : Steps(f, k - 1, St, st, step)
  BY <1>4 DEF HasSteps
<1> DEFINE g == [i \in 0 .. k |-> IF i = k THEN step[k][f[k - 1]] ELSE f[i]]
<1>6. Steps(g, k, St, st, step)
  <2>1. f \in [0 .. k - 1 -> St] /\ f[0] = st /\ \A i \in 1 .. k - 1 : f[i] = step[i][f[i - 1]]
    BY <1>5 DEF Steps
  <2>2. step[k] \in [St -> St] /\ f[k - 1] \in St
    BY <1>4, <2>1
  <2>3. g \in [0 .. k -> St]
    BY <1>4, <2>1, <2>2
  <2>4. g[0] = st
    BY <1>4, <2>1
  <2>5. ASSUME NEW i \in 1 .. k PROVE g[i] = step[i][g[i - 1]]
    <3>1. CASE i = k
      BY <1>4, <3>1
    <3>2. CASE i # k
      <4>1. i \in 1 .. k - 1 /\ i - 1 \in 0 .. k /\ i \in 0 .. k /\ i - 1 # k
        BY <1>4, <3>2
      <4>2. g[i] = f[i] /\ g[i - 1] = f[i - 1]
        BY <4>1, <3>2
      <4> QED BY <2>1, <4>1, <4>2
    <3> QED BY <3>1, <3>2
  <2> HIDE DEF g
  <2> QED BY <2>3, <2>4, <2>5 DEF Steps
<1> QED BY <1>6, <1>2 DEF HasSteps

\* What is transitive and irreflexive has a minimal element in a finite set: the one
\* with the fewest below it.
LEMMA MinimalElement ==
    ASSUME NEW S, IsFiniteSet(S), S # {}, NEW R,
           \A x \in S : <<x, x>> \notin R,
           \A x, y, z \in S : <<x, y>> \in R /\ <<y, z>> \in R => <<x, z>> \in R
    PROVE  \E x \in S : \A y \in S : <<y, x>> \notin R
<1> DEFINE Down(x) == {y \in S : <<y, x>> \in R}
           T == {Down(x) : x \in S}
<1>1. ASSUME NEW x \in S PROVE Down(x) \in FiniteSubsetsOf(S)
  <2>1. Down(x) \subseteq S
    OBVIOUS
  <2>2. IsFiniteSet(Down(x))
    BY <2>1, FS_Subset
  <2> QED BY <2>1, <2>2 DEF FiniteSubsetsOf
<1>2. T \subseteq FiniteSubsetsOf(S) /\ T # {}
  <2> HIDE DEF Down
  <2> QED BY <1>1
<1>3. PICK t \in T : \A u \in T : u \subseteq t => u = t
  <2> HIDE DEF T
  <2> QED BY <1>2, SmallestFiniteSet
<1>4. PICK x \in S : t = Down(x)
  OBVIOUS
<1>5. ASSUME NEW y \in S, <<y, x>> \in R PROVE FALSE
  <2>1. Down(y) \in T /\ Down(y) \subseteq t
    BY <1>4, <1>5
  <2>2. y \in Down(x) /\ y \notin Down(y)
    BY <1>5
  <2> HIDE DEF Down, T
  <2> QED BY <2>1, <2>2, <1>3, <1>4
<1> QED BY <1>5

\* Min() finds the least number.
LEMMA LeastIsMin ==
    ASSUME NEW S \in SUBSET Nat, S # {}
    PROVE  /\ Planner!Min(S) \in S /\ \A n \in S : Planner!Min(S) <= n
           /\ Discovery!Min(S) \in S /\ \A n \in S : Discovery!Min(S) <= n
  BY LeastNumber DEF Planner!Min, Discovery!Min

\* What a function makes of a finite set, and what finite sets have together, is finite.
LEMMA FiniteRange ==
    ASSUME NEW S, IsFiniteSet(S), NEW f, DOMAIN f = S, f = [x \in S |-> f[x]]
    PROVE  IsFiniteSet({f[x] : x \in S})
<1> DEFINE T == {f[x] : x \in S}
<1>1. f \in Surjection(S, T)
  BY DEF Surjection
<1> HIDE DEF T
<1> QED BY <1>1, FS_Surjection DEF T

LEMMA FiniteUnion ==
    ASSUME NEW F, IsFiniteSet(F), \A s \in F : IsFiniteSet(s)
    PROVE  IsFiniteSet(UNION F)
<1> DEFINE Bad == {U \in SUBSET F : ~IsFiniteSet(UNION U)}
<1>1. SUFFICES ASSUME F \in Bad PROVE FALSE
  OBVIOUS
<1>2. Bad \subseteq FiniteSubsetsOf(F) /\ Bad # {}
  <2>1. \A U \in SUBSET F : IsFiniteSet(U)
    BY FS_Subset
  <2> QED BY <1>1, <2>1 DEF FiniteSubsetsOf
<1>3. PICK t \in Bad : \A u \in Bad : u \subseteq t => u = t
  <2> HIDE DEF Bad
  <2> QED BY <1>2, SmallestFiniteSet
<1>4. t # {}
  <2>1. UNION {} = {} /\ ~IsFiniteSet(UNION t)
    BY <1>3
  <2> QED BY <2>1, FS_EmptySet
<1>5. PICK x \in t : TRUE
  BY <1>4
<1>6. IsFiniteSet(UNION (t \ {x})) /\ IsFiniteSet(x)
  <2>1. t \in SUBSET F /\ x \in F
    BY <1>3, <1>5
  <2>2. t \ {x} \in SUBSET F /\ t \ {x} # t /\ t \ {x} \subseteq t
    BY <1>5, <2>1
  <2>3. t \ {x} \notin Bad
    <3> HIDE DEF Bad
    <3> QED BY <1>3, <2>2
  <2> QED BY <2>1, <2>2, <2>3
<1>7. UNION t = (UNION (t \ {x})) \cup x
  BY <1>5
<1>8. ~IsFiniteSet(UNION t)
  BY <1>3
<1>9. IsFiniteSet((UNION (t \ {x})) \cup x)
  BY <1>6, FS_Union
<1> QED BY <1>7, <1>8, <1>9

-----------------------------------------------------------------------------
(* The paths of a sensor.                                                  *)

\* What belongs to pipelines can be opened, and what can not be cut off is on.
Wired ==
    /\ \A e \in DOMAIN Function : node[e] = "open"
    /\ \A l \in Links : l.immutable => l.id \in enabled

\* Links that follow each other from a sensor, not through one entity twice, nor
\* through a sensor or a video node.
Chained(sensor, p) ==
    \A i \in DOMAIN p :
        /\ p[i].source[1] = IF i = 1 THEN sensor ELSE p[i - 1].sink[1]
        /\ i > 1 => Function[p[i - 1].sink[1]] # "video"
        /\ p[i].sink[1] # sensor /\ \A j \in 1 .. i - 1 : p[j].sink[1] # p[i].sink[1]
        /\ Function[p[i].sink[1]] # "sensor"
Chains(sensor, n) == {p \in Seq(Links) : Len(p) <= n /\ Chained(sensor, p)}
Paths(sensor) == {p \in Chains(sensor, MaxDepth) : p # <<>> /\ Function[p[Len(p)].sink[1]] = "video"}

\* A chain and a link that continues it.
LEMMA ChainGrows ==
    ASSUME Wired, NEW s, NEW p \in Seq(Links), NEW l \in Links
    PROVE  Chained(s, Append(p, l)) <=> Chained(s, p) /\ Discovery!Continues(s, p, l)
<1> DEFINE q == Append(p, l)
           n == Len(p)
           Hop(r, i) == /\ r[i].source[1] = IF i = 1 THEN s ELSE r[i - 1].sink[1]
                        /\ i > 1 => Function[r[i - 1].sink[1]] # "video"
                        /\ r[i].sink[1] # s /\ \A j \in 1 .. i - 1 : r[j].sink[1] # r[i].sink[1]
                        /\ Function[r[i].sink[1]] # "sensor"
<1>1. /\ n \in Nat /\ DOMAIN p = 1 .. n /\ DOMAIN q = 1 .. n + 1 /\ q[n + 1] = l
      /\ \A i \in 1 .. n : q[i] = p[i]
  OBVIOUS
<1> HIDE DEF q, n
<1>2. \A i \in 1 .. n : Hop(q, i) <=> Hop(p, i)
  <2> SUFFICES ASSUME NEW i \in 1 .. n PROVE Hop(q, i) <=> Hop(p, i)
    OBVIOUS
  <2>1. q[i] = p[i] /\ (i > 1 => q[i - 1] = p[i - 1]) /\ \A j \in 1 .. i - 1 : q[j] = p[j]
    BY <1>1
  <2>2. i > 1 \/ i = 1
    BY <1>1
  <2> QED BY <2>1, <2>2
<1>3. Hop(q, n + 1) <=> Discovery!Continues(s, p, l)
  <2>1. l.sink[1] \in DOMAIN Function /\ node[l.sink[1]] = "open" /\ (l.id \in enabled \/ ~l.immutable)
    BY GraphAssumption DEF Wired
  <2>2. p = <<>> <=> n = 0
    BY <1>1 DEF n
  <2>3. n > 0 => Discovery!SinkOf(p) = p[n].sink[1] /\ q[n] = p[n]
    BY <1>1 DEF Discovery!SinkOf, Discovery!Last, n
  <2>4. l.sink[1] \notin Discovery!Visited(p, s)
           <=> l.sink[1] # s /\ \A j \in 1 .. n : q[j].sink[1] # l.sink[1]
    BY <1>1 DEF Discovery!Visited
  <2>5. CASE n = 0
    BY <2>1, <2>2, <2>4, <2>5, <1>1 DEF Discovery!Continues, Discovery!HasDevnode
  <2>6. CASE n > 0
    BY <2>1, <2>2, <2>3, <2>4, <2>6, <1>1 DEF Discovery!Continues, Discovery!HasDevnode
  <2> QED BY <2>5, <2>6, <1>1
<1>4. Chained(s, q) <=> \A i \in 1 .. n + 1 : Hop(q, i)
  BY <1>1 DEF Chained
<1>5. Chained(s, p) <=> \A i \in 1 .. n : Hop(p, i)
  BY <1>1 DEF Chained
<1>6. (\A i \in 1 .. n + 1 : Hop(q, i)) <=> (\A i \in 1 .. n : Hop(q, i)) /\ Hop(q, n + 1)
  <2> HIDE DEF Hop
  <2> QED BY <1>1
<1> HIDE DEF Hop
<1> QED BY <1>2, <1>3, <1>4, <1>5, <1>6 DEF q

\* One step of the search.
Grown(s, ps) ==
    ps \cup {Append(x[1], x[2]) : x \in {y \in ps \X Links : Discovery!Continues(s, y[1], y[2])}}

LEMMA GrownChains ==
    ASSUME Wired, NEW s, NEW n \in Nat
    PROVE  Grown(s, Chains(s, n)) = Chains(s, n + 1)
<1>1. ASSUME NEW p \in Chains(s, n) PROVE p \in Chains(s, n + 1)
  BY <1>1 DEF Chains
<1>2. ASSUME NEW p \in Chains(s, n), NEW l \in Links, Discovery!Continues(s, p, l)
      PROVE  Append(p, l) \in Chains(s, n + 1)
  <2>1. p \in Seq(Links) /\ Len(p) <= n /\ Chained(s, p)
    BY <1>2 DEF Chains
  <2>2. Append(p, l) \in Seq(Links) /\ Len(Append(p, l)) <= n + 1
    BY <2>1
  <2> QED BY <1>2, <2>1, <2>2, ChainGrows DEF Chains
<1>3. ASSUME NEW p \in Chains(s, n + 1), p \notin Chains(s, n)
      PROVE  \E q \in Chains(s, n), l \in Links : Discovery!Continues(s, q, l) /\ p = Append(q, l)
  <2>1. p \in Seq(Links) /\ Chained(s, p) /\ Len(p) = n + 1
    BY <1>3 DEF Chains
  <2> DEFINE q == SubSeq(p, 1, n)
             l == p[n + 1]
  <2>2. q \in Seq(Links) /\ l \in Links /\ Len(q) = n
    BY <2>1
  <2>3. p = Append(q, l)
    BY <2>1, <2>2
  <2>4. Chained(s, q) /\ Discovery!Continues(s, q, l)
    BY <2>1, <2>2, <2>3, ChainGrows
  <2>5. q \in Chains(s, n)
    BY <2>2, <2>4 DEF Chains
  <2> HIDE DEF q, l
  <2> QED BY <2>2, <2>3, <2>4, <2>5
<1>4. ASSUME NEW p \in Grown(s, Chains(s, n)) PROVE p \in Chains(s, n + 1)
  <2>1. CASE p \in Chains(s, n)
    BY <2>1, <1>1
  <2>2. CASE p \notin Chains(s, n)
    <3>1. PICK x \in Chains(s, n) \X Links : Discovery!Continues(s, x[1], x[2]) /\ p = Append(x[1], x[2])
      BY <1>4, <2>2 DEF Grown
    <3> QED BY <3>1, <1>2
  <2> QED BY <2>1, <2>2
<1>5. ASSUME NEW p \in Chains(s, n + 1) PROVE p \in Grown(s, Chains(s, n))
  <2>1. CASE p \in Chains(s, n)
    BY <2>1 DEF Grown
  <2>2. CASE p \notin Chains(s, n)
    <3>1. PICK q \in Chains(s, n), l \in Links : Discovery!Continues(s, q, l) /\ p = Append(q, l)
      BY <1>3, <2>2
    <3>2. <<q, l>> \in {y \in Chains(s, n) \X Links : Discovery!Continues(s, y[1], y[2])}
      BY <3>1
    <3> QED BY <3>1, <3>2 DEF Grown
  <2> QED BY <2>1, <2>2
<1> QED BY <1>4, <1>5

LEMMA GrownFinite ==
    ASSUME NEW s, NEW ps, IsFiniteSet(ps) PROVE IsFiniteSet(Grown(s, ps))
<1> DEFINE Y == {y \in ps \X Links : Discovery!Continues(s, y[1], y[2])}
           N == {Append(x[1], x[2]) : x \in Y}
<1>1. IsFiniteSet(ps \X Links)
  BY GraphAssumption, FS_Product
<1>2. IsFiniteSet(Y)
  BY <1>1, FS_Subset
<1>3. IsFiniteSet(N)
  <2> DEFINE f == [x \in Y |-> Append(x[1], x[2])]
  <2>1. N = {f[x] : x \in Y} /\ DOMAIN f = Y /\ f = [x \in Y |-> f[x]]
    OBVIOUS
  <2> HIDE DEF f, Y, N
  <2> QED BY <1>2, <2>1, FiniteRange
<1>4. Grown(s, ps) = ps \cup N
  BY DEF Grown
<1> HIDE DEF N
<1> QED BY <1>3, <1>4, FS_Union

\* FindPaths() finds every path there is, and they are finitely many.
LEMMA FindPathsFinds ==
    ASSUME Wired, NEW s
    PROVE  Discovery!FindPaths(s) = Paths(s) /\ IsFiniteSet(Paths(s))
<1> DEFINE St == SUBSET Seq(Links)
           Body(f) == [n \in 0 .. MaxDepth |-> IF n = 0 THEN {<<>>} ELSE Grown(s, f[n - 1])]
           step == [n \in 1 .. MaxDepth |-> [ps \in St |-> Grown(s, ps)]]
           grown == CHOOSE f : f = Body(f)
<1>1. Discovery!FindPaths(s) =
         {p \in grown[MaxDepth] : p # <<>> /\ Function[Discovery!SinkOf(p)] = "video"}
  BY DEF Discovery!FindPaths, Grown
<1>2. PICK f : Steps(f, MaxDepth, St, {<<>>}, step)
  <2>1. {<<>>} \in St /\ MaxDepth \in Nat
    BY GraphAssumption
  <2>2. ASSUME NEW ps \in St PROVE Grown(s, ps) \in St
    BY <2>2 DEF Grown
  <2>3. step \in [1 .. MaxDepth -> [St -> St]]
    BY <2>2
  <2> HIDE DEF step, St
  <2> QED BY <2>1, <2>3, StepsExist DEF HasSteps
<1>3. f = Body(f)
  <2>1. /\ f \in [0 .. MaxDepth -> St] /\ f[0] = {<<>>}
        /\ \A n \in 1 .. MaxDepth : f[n] = step[n][f[n - 1]]
    BY <1>2 DEF Steps
  <2>2. ASSUME NEW n \in 1 .. MaxDepth PROVE f[n] = Grown(s, f[n - 1])
    <3>1. n - 1 \in 0 .. MaxDepth
      BY GraphAssumption
    <3>2. f[n - 1] \in St
      BY <2>1, <3>1
    <3>3. step[n][f[n - 1]] = Grown(s, f[n - 1])
      <4> HIDE DEF St
      <4> QED BY <3>2
    <3> QED BY <2>1, <3>3
  <2>3. \A n \in 0 .. MaxDepth : n = 0 \/ n \in 1 .. MaxDepth
    BY GraphAssumption
  <2> HIDE DEF St, step
  <2> QED BY <2>1, <2>2, <2>3
<1>4. grown = Body(grown)
  <2> HIDE DEF Body
  <2> QED BY <1>3
<1>5. /\ grown[0] = {<<>>}
      /\ \A n \in 1 .. MaxDepth : grown[n] = Grown(s, grown[n - 1])
  <2> HIDE DEF grown
  <2> DEFINE g(n) == IF n = 0 THEN {<<>>} ELSE Grown(s, grown[n - 1])
  <2>1. 0 \in 0 .. MaxDepth /\ \A n \in 1 .. MaxDepth : n \in 0 .. MaxDepth /\ n # 0
    BY GraphAssumption
  <2>2. \A n \in 0 .. MaxDepth : grown[n] = g(n)
    <3> HIDE DEF g
    <3>1. grown = [n \in 0 .. MaxDepth |-> g(n)]
      BY <1>4 DEF g
    <3> QED BY <3>1
  <2>3. grown[0] = {<<>>}
    <3>1. g(0) = {<<>>}
      OBVIOUS
    <3> HIDE DEF g
    <3> QED BY <2>1, <2>2, <3>1
  <2>4. ASSUME NEW n \in 1 .. MaxDepth PROVE grown[n] = Grown(s, grown[n - 1])
    <3>1. n \in 0 .. MaxDepth /\ n # 0
      BY <2>1
    <3>2. g(n) = Grown(s, grown[n - 1])
      BY <3>1
    <3> HIDE DEF g
    <3> QED BY <2>2, <3>1, <3>2
  <2> QED BY <2>3, <2>4
<1> HIDE DEF grown
<1>6. Chains(s, 0) = {<<>>}
  <2>1. ASSUME NEW p \in Seq(Links) PROVE Len(p) <= 0 <=> p = <<>>
    OBVIOUS
  <2>2. <<>> \in Seq(Links) /\ Chained(s, <<>>)
    BY DEF Chained
  <2>3. \A p : p \in Chains(s, 0) <=> p \in Seq(Links) /\ Len(p) <= 0 /\ Chained(s, p)
    BY DEF Chains
  <2>4. \A p : p \in Chains(s, 0) <=> p = <<>>
    <3> HIDE DEF Chains
    <3> QED BY <2>1, <2>2, <2>3
  <2> QED BY <2>4
<1> DEFINE Good(n) == grown[n] = Chains(s, n) /\ IsFiniteSet(grown[n])
           Bad == {n \in 0 .. MaxDepth : ~Good(n)}
<1>7. Bad = {}
  <2> SUFFICES ASSUME Bad # {} PROVE FALSE
    OBVIOUS
  <2>1. PICK n \in Bad : \A m \in Bad : n <= m
    <3>1. Bad \in SUBSET Nat
      BY GraphAssumption
    <3> HIDE DEF Bad
    <3> QED BY <3>1, LeastNumber
  <2>2. n # 0
    <3>1. IsFiniteSet({<<>>})
      BY FS_Singleton
    <3>2. Good(0)
      BY <3>1, <1>5, <1>6
    <3> QED BY <3>2, <2>1
  <2>3. n \in 1 .. MaxDepth /\ n - 1 \in 0 .. MaxDepth /\ n - 1 \in Nat /\ n - 1 \notin Bad
    BY <2>1, <2>2, GraphAssumption
  <2>4. Good(n - 1)
    <3> HIDE DEF Good
    <3> QED BY <2>3
  <2>5. grown[n] = Grown(s, grown[n - 1])
    BY <2>3, <1>5
  <2>6. Grown(s, Chains(s, n - 1)) = Chains(s, n)
    <3>1. n - 1 + 1 = n
      BY <2>3
    <3> QED BY <2>3, <3>1, GrownChains
  <2>7. IsFiniteSet(Grown(s, grown[n - 1]))
    BY <2>4, GrownFinite
  <2>8. Good(n)
    BY <2>4, <2>5, <2>6, <2>7
  <2> QED BY <2>8, <2>1
<1>8. grown[MaxDepth] = Chains(s, MaxDepth) /\ IsFiniteSet(Chains(s, MaxDepth))
  <2>1. MaxDepth \in 0 .. MaxDepth
    BY GraphAssumption
  <2>2. Good(MaxDepth)
    <3> HIDE DEF Good
    <3> QED BY <2>1, <1>7
  <2> QED BY <2>2
<1>9. \A p \in Chains(s, MaxDepth) : p # <<>> => Discovery!SinkOf(p) = p[Len(p)].sink[1]
  BY DEF Discovery!SinkOf, Discovery!Last
<1>10. Discovery!FindPaths(s) = Paths(s)
  BY <1>1, <1>8, <1>9 DEF Paths
<1>11. Paths(s) \subseteq Chains(s, MaxDepth)
  BY DEF Paths
<1> QED BY <1>8, <1>10, <1>11, FS_Subset

\* Ids are compared as words are.
LEMMA BeforeTransitive ==
    ASSUME NEW n \in Nat, NEW a \in [1 .. n -> Nat], NEW b \in [1 .. n -> Nat],
           NEW c \in [1 .. n -> Nat], Discovery!Before(a, b), Discovery!Before(b, c)
    PROVE  Discovery!Before(a, c)
<1>1. PICK i \in 1 .. n : a[i] < b[i] /\ \A k \in 1 .. i - 1 : a[k] = b[k]
  BY DEF Discovery!Before
<1>2. PICK j \in 1 .. n : b[j] < c[j] /\ \A k \in 1 .. j - 1 : b[k] = c[k]
  BY DEF Discovery!Before
<1>3. SUFFICES \E m \in 1 .. n : a[m] < c[m] /\ \A k \in 1 .. m - 1 : a[k] = c[k]
  BY DEF Discovery!Before
<1>4. \A k \in 1 .. n : a[k] \in Nat /\ b[k] \in Nat /\ c[k] \in Nat
  OBVIOUS
<1>5. CASE i <= j
  <2>1. a[i] < c[i]
    BY <1>1, <1>2, <1>4, <1>5
  <2>2. ASSUME NEW k \in 1 .. i - 1 PROVE a[k] = c[k]
    BY <1>1, <1>2, <1>5
  <2> QED BY <2>1, <2>2
<1>6. CASE j < i
  <2>1. a[j] < c[j]
    BY <1>1, <1>2, <1>4, <1>6
  <2>2. ASSUME NEW k \in 1 .. j - 1 PROVE a[k] = c[k]
    BY <1>1, <1>2, <1>6
  <2> QED BY <2>1, <2>2
<1> QED BY <1>5, <1>6

LEMMA BeforeTotal ==
    ASSUME NEW n \in Nat, NEW a \in [1 .. n -> Nat], NEW b \in [1 .. n -> Nat], a # b
    PROVE  Discovery!Before(a, b) \/ Discovery!Before(b, a)
<1> DEFINE Differ == {i \in 1 .. n : a[i] # b[i]}
<1>1. Differ \in SUBSET Nat /\ Differ # {}
  OBVIOUS
<1>2. PICK i \in Differ : \A j \in Differ : i <= j
  <2> HIDE DEF Differ
  <2> QED BY <1>1, LeastNumber
<1>3. \A j \in 1 .. i - 1 : a[j] = b[j]
  BY <1>2
<1>4. i \in 1 .. n /\ (a[i] < b[i] \/ b[i] < a[i])
  BY <1>2
<1> QED BY <1>3, <1>4 DEF Discovery!Before

-----------------------------------------------------------------------------
(* The formats of a path.                                                  *)

Video(p) == p[Len(p)].sink[1]

\* What the codes of a sensor become on a path: all of it can be opened.
CodesOf(s, p, raw) ==
    IF Discovery!Converters(p) = {}
    THEN {<<c, 0, c>> : c \in {d \in Codes[s] : (d \in Bayer) = raw}}
    ELSE IF raw THEN {}
    ELSE {<<c, o, o>> : c \in Codes[s], o \in Codes[Discovery!FirstConverter(p)] \ Bayer}
Delivered(p, raw, c, f) ==
    /\ f \in NodeFormats[Video(p)][c[3]] /\ f \in (IF raw THEN Isp ELSE Processed)
    /\ KnownFormats[c[3]] = {} \/ f \in KnownFormats[c[3]]
FormatsOn(s, p, raw) ==
    {f \in Processed \cup Isp : \E c \in CodesOf(s, p, raw) : Delivered(p, raw, c, f)}

IsSensor(s) == s \in DOMAIN Function /\ Function[s] = "sensor"

LEMMA PathFacts ==
    ASSUME NEW s, NEW p \in Paths(s)
    PROVE  /\ p \in Seq(Links) /\ Chained(s, p) /\ p # <<>> /\ Len(p) \in Nat \ {0}
           /\ DOMAIN p = 1 .. Len(p) /\ Function[Video(p)] = "video"
           /\ \A i \in DOMAIN p : p[i] \in Links /\ p[i].sink[1] \in DOMAIN Function
           /\ Video(p) \in DOMAIN Function
           /\ Discovery!SinkOf(p) = Video(p)
<1>1. p \in Seq(Links) /\ Chained(s, p) /\ p # <<>> /\ Function[Video(p)] = "video"
  BY DEF Paths, Chains, Video
<1>2. Len(p) \in Nat \ {0} /\ DOMAIN p = 1 .. Len(p)
  BY <1>1
<1>3. \A i \in DOMAIN p : p[i] \in Links
  BY <1>1
<1>4. \A i \in DOMAIN p : p[i].sink[1] \in DOMAIN Function
  BY <1>3, GraphAssumption
<1>5. Len(p) \in DOMAIN p
  BY <1>2
<1>6. Discovery!SinkOf(p) = Video(p)
  BY DEF Discovery!SinkOf, Discovery!Last, Video
<1> QED BY <1>1, <1>2, <1>3, <1>4, <1>5, <1>6 DEF Video

\* The converter of a path is one.
LEMMA ConverterOfPath ==
    ASSUME NEW s, NEW p \in Paths(s), Discovery!Converters(p) # {}
    PROVE  /\ Discovery!FirstConverter(p) \in DOMAIN Function
           /\ Function[Discovery!FirstConverter(p)] = "converter"
<1> DEFINE C == {i \in DOMAIN p : Function[p[i].sink[1]] = "converter"}
<1>1. C \in SUBSET Nat /\ C # {}
  BY PathFacts DEF Discovery!Converters
<1>2. Discovery!Min(C) \in C
  <2> HIDE DEF C
  <2> QED BY <1>1, LeastIsMin
<1>3. Discovery!FirstConverter(p) = p[Discovery!Min(C)].sink[1]
  BY DEF Discovery!FirstConverter
<1> HIDE DEF C
<1>4. Discovery!Min(C) \in DOMAIN p /\ Function[p[Discovery!Min(C)].sink[1]] = "converter"
  BY <1>2 DEF C
<1> QED BY <1>3, <1>4, PathFacts

LEMMA CodesOfPath ==
    ASSUME Wired, NEW s, IsSensor(s), NEW p \in Paths(s), NEW raw \in BOOLEAN
    PROVE  /\ Discovery!FormatCodes(s, p, raw) = CodesOf(s, p, raw)
           /\ \A c \in CodesOf(s, p, raw) :
                 /\ c \in Nat \X Nat \X Nat
                 /\ c[3] = IF Discovery!Converters(p) # {} /\ c[2] # 0 THEN c[2] ELSE c[1]
<1>1. Codes[s] \subseteq Nat \ {0}
  BY GraphAssumption DEF IsSensor
<1>2. CASE Discovery!Converters(p) = {}
  <2>1. \A c \in CodesOf(s, p, raw) : \E d \in Nat : c = <<d, 0, d>>
    BY <1>1, <1>2 DEF CodesOf
  <2> QED BY <1>2, <2>1 DEF CodesOf, Discovery!FormatCodes
<1>3. CASE Discovery!Converters(p) # {}
  <2>1. node[Discovery!FirstConverter(p)] = "open" /\ Codes[Discovery!FirstConverter(p)] \subseteq Nat \ {0}
    BY <1>3, ConverterOfPath, GraphAssumption DEF Wired
  <2>2. \A c \in CodesOf(s, p, raw) : \E d \in Nat, o \in Nat \ {0} : c = <<d, o, o>>
    BY <1>1, <1>3, <2>1 DEF CodesOf
  <2>3. Discovery!FormatCodes(s, p, raw) = CodesOf(s, p, raw)
    BY <1>3, <2>1 DEF CodesOf, Discovery!FormatCodes
  <2> QED BY <1>3, <2>2, <2>3
<1> QED BY <1>2, <1>3

\* A format is captured from one of the codes that give it.
LEMMA FormatsOfPath ==
    ASSUME Wired, NEW s, IsSensor(s), NEW p \in Paths(s), NEW raw \in BOOLEAN
    PROVE  LET formats == Discovery!EvaluateFormats(s, p, raw) IN
           /\ DOMAIN formats = FormatsOn(s, p, raw)
           /\ \A f \in DOMAIN formats :
                 f \in NodeFormats[Video(p)][Discovery!PassOn(p, formats[f])]
<1> DEFINE codes == CodesOf(s, p, raw)
           First(f) == CHOOSE c \in codes :
              /\ Delivered(p, raw, c, f)
              /\ \A d \in codes : Delivered(p, raw, d, f) =>
                    (c[2] < d[2] \/ (c[2] = d[2] /\ c[1] <= d[1]))
           formats == [f \in FormatsOn(s, p, raw) |->
                          [sensor_code |-> First(f)[1], output_code |-> First(f)[2]]]
<1>1. Discovery!EvaluateFormats(s, p, raw) = formats
  <2>1. node[Video(p)] = "open" /\ Discovery!SinkOf(p) = Video(p)
    BY PathFacts DEF Wired
  <2>2. Discovery!FormatCodes(s, p, raw) = codes
    BY CodesOfPath
  <2> QED BY <2>1, <2>2 DEF Discovery!EvaluateFormats, FormatsOn, Delivered
<1>2. ASSUME NEW f \in FormatsOn(s, p, raw)
      PROVE  First(f) \in codes /\ Delivered(p, raw, First(f), f)
  <2> DEFINE D == {c \in codes : Delivered(p, raw, c, f)}
             O == {c[2] : c \in D}
  <2>1. D # {} /\ \A c \in codes : c \in Nat \X Nat \X Nat
    BY <1>2, CodesOfPath DEF FormatsOn
  <2>2. PICK o \in O : \A x \in O : o <= x
    <3>1. O \in SUBSET Nat /\ O # {}
      BY <2>1
    <3> HIDE DEF O
    <3> QED BY <3>1, LeastNumber
  <2> DEFINE E == {c \in D : c[2] = o}
             I == {c[1] : c \in E}
  <2>3. PICK i \in I : \A x \in I : i <= x
    <3>1. I \in SUBSET Nat /\ I # {}
      BY <2>1, <2>2
    <3> HIDE DEF I
    <3> QED BY <3>1, LeastNumber
  <2>4. PICK c \in E : i = c[1]
    BY <2>3
  <2>5. ASSUME NEW d \in D PROVE c[2] < d[2] \/ (c[2] = d[2] /\ c[1] <= d[1])
    <3>1. c[2] = o /\ c \in codes /\ d \in codes /\ d[2] \in O
      BY <2>4
    <3>2. c[2] \in Nat /\ d[2] \in Nat /\ c[1] \in Nat /\ d[1] \in Nat
      BY <2>1, <3>1
    <3>3. o <= d[2]
      BY <2>2, <3>1
    <3>4. CASE d[2] = o
      <4>1. d[1] \in I
        BY <3>4
      <4> HIDE DEF I, codes
      <4> QED BY <2>3, <2>4, <3>1, <3>4, <4>1
    <3> HIDE DEF codes, I, O
    <3> QED BY <3>1, <3>2, <3>3, <3>4
  <2>6. c \in codes /\ Delivered(p, raw, c, f)
    BY <2>4
  <2>7. \A d \in codes : Delivered(p, raw, d, f) =>
                    (c[2] < d[2] \/ (c[2] = d[2] /\ c[1] <= d[1]))
    <3> HIDE DEF codes
    <3> QED BY <2>5
  <2> HIDE DEF codes
  <2> QED BY <2>6, <2>7
<1>3. ASSUME NEW f \in FormatsOn(s, p, raw)
      PROVE  f \in NodeFormats[Video(p)][Discovery!PassOn(p, formats[f])]
  <2>1. First(f) \in codes /\ f \in NodeFormats[Video(p)][First(f)[3]]
    BY <1>2 DEF Delivered
  <2>2. formats[f].sensor_code = First(f)[1] /\ formats[f].output_code = First(f)[2]
    <3> HIDE DEF First
    <3> QED OBVIOUS
  <2> HIDE DEF First, formats
  <2>3. Discovery!PassOn(p, formats[f]) = First(f)[3]
    BY <2>1, <2>2, CodesOfPath DEF Discovery!PassOn
  <2> QED BY <2>1, <2>3
<1> HIDE DEF First
<1>4. DOMAIN formats = FormatsOn(s, p, raw)
  OBVIOUS
<1> HIDE DEF formats
<1> QED BY <1>1, <1>3, <1>4

-----------------------------------------------------------------------------
(* The pipeline of a sensor.                                               *)

\* The modules' Cardinality() is the one of the lemmas.
LEMMA SameCardinality ==
    \A S : Discovery!Cardinality(S) = Cardinality(S) /\ Planner!Cardinality(S) = Cardinality(S)
  BY DEF Discovery!Cardinality, Planner!Cardinality, Cardinality

Usable(s, raw) ==
    {b \in {[path |-> p, formats |-> Discovery!EvaluateFormats(s, p, raw)] : p \in Paths(s)} :
        DOMAIN b.formats # {}}

LEMMA UsableFacts ==
    ASSUME Wired, NEW s, IsSensor(s), NEW raw \in BOOLEAN
    PROVE  /\ IsFiniteSet(Usable(s, raw))
           /\ Usable(s, raw) # {} <=> \E p \in Paths(s) : FormatsOn(s, p, raw) # {}
           /\ \A b \in Usable(s, raw) :
                 /\ b.path \in Paths(s)
                 /\ b = [path |-> b.path, formats |-> Discovery!EvaluateFormats(s, b.path, raw)]
                 /\ DOMAIN b.formats = FormatsOn(s, b.path, raw)
                 /\ DOMAIN b.formats # {}
                 /\ Cardinality(DOMAIN b.formats) \in Nat
                 /\ Len(b.path) \in Nat /\ Discovery!EnabledLinks(b.path) \in Nat
                 /\ Discovery!Ids(b.path) \in [1 .. Len(b.path) -> Nat]
<1> DEFINE of(p) == [path |-> p, formats |-> Discovery!EvaluateFormats(s, p, raw)]
           f == [p \in Paths(s) |-> of(p)]
<1>1. IsFiniteSet({f[p] : p \in Paths(s)})
  <2>1. DOMAIN f = Paths(s) /\ f = [p \in Paths(s) |-> f[p]]
    OBVIOUS
  <2> HIDE DEF f
  <2> QED BY <2>1, FindPathsFinds, FiniteRange
<1>2. {f[p] : p \in Paths(s)} = {of(p) : p \in Paths(s)}
  OBVIOUS
<1>3. IsFiniteSet(Usable(s, raw))
  <2>1. Usable(s, raw) \subseteq {of(p) : p \in Paths(s)}
    BY DEF Usable
  <2> HIDE DEF of
  <2> QED BY <1>1, <1>2, <2>1, FS_Subset
<1>4. ASSUME NEW b \in Usable(s, raw)
      PROVE  /\ b.path \in Paths(s) /\ b = of(b.path)
             /\ DOMAIN b.formats = FormatsOn(s, b.path, raw) /\ DOMAIN b.formats # {}
  <2>1. PICK p \in Paths(s) : b = of(p)
    BY DEF Usable
  <2>2. b.path = p /\ b.formats = Discovery!EvaluateFormats(s, p, raw)
    BY <2>1
  <2>3. DOMAIN b.formats # {}
    BY DEF Usable
  <2> QED BY <2>1, <2>2, <2>3, FormatsOfPath
<1>5. ASSUME NEW p \in Paths(s), FormatsOn(s, p, raw) # {} PROVE of(p) \in Usable(s, raw)
  <2>1. DOMAIN of(p).formats # {}
    BY <1>5, FormatsOfPath
  <2> QED BY <2>1 DEF Usable
<1>6. ASSUME NEW b \in Usable(s, raw) PROVE Cardinality(DOMAIN b.formats) \in Nat
  <2>1. DOMAIN b.formats \subseteq Processed \cup Isp
    BY <1>4 DEF FormatsOn
  <2> QED BY <2>1, GraphAssumption, FS_Subset, FS_CardinalityType
<1>7. ASSUME NEW p \in Paths(s)
      PROVE  /\ Len(p) \in Nat /\ Discovery!EnabledLinks(p) \in Nat
             /\ Discovery!Ids(p) \in [1 .. Len(p) -> Nat]
  <2>1. Len(p) \in Nat /\ DOMAIN p = 1 .. Len(p) /\ \A i \in DOMAIN p : p[i].id \in Nat
    BY PathFacts, GraphAssumption
  <2>2. IsFiniteSet(1 .. Len(p))
    BY <2>1, FS_Interval
  <2>3. IsFiniteSet({i \in DOMAIN p : p[i].id \in enabled})
    BY <2>1, <2>2, FS_Subset
  <2>4. Discovery!EnabledLinks(p) \in Nat
    BY <2>3, FS_CardinalityType, SameCardinality DEF Discovery!EnabledLinks
  <2>5. Discovery!Ids(p) \in [1 .. Len(p) -> Nat]
    BY <2>1 DEF Discovery!Ids
  <2> QED BY <2>1, <2>4, <2>5
<1>8. Usable(s, raw) # {} <=> \E p \in Paths(s) : FormatsOn(s, p, raw) # {}
  <2> HIDE DEF of
  <2> QED BY <1>4, <1>5
<1> QED BY <1>3, <1>4, <1>6, <1>7, <1>8

LEMMA BetterFacts ==
    ASSUME Wired, NEW s, IsSensor(s), NEW raw \in BOOLEAN
    PROVE  /\ \A a \in Usable(s, raw) : ~Discovery!Better(a, a)
           /\ \A a, b, c \in Usable(s, raw) :
                 Discovery!Better(a, b) /\ Discovery!Better(b, c) => Discovery!Better(a, c)
           /\ \A a, b \in Usable(s, raw) :
                 a # b => Discovery!Better(a, b) \/ Discovery!Better(b, a)
<1> DEFINE U == Usable(s, raw)
           fs(a) == Cardinality(DOMAIN a.formats)
           ls(a) == Len(a.path)
           es(a) == Discovery!EnabledLinks(a.path)
           id(a) == Discovery!Ids(a.path)
<1>1. \A a \in U : fs(a) \in Nat /\ ls(a) \in Nat /\ es(a) \in Nat /\ id(a) \in [1 .. ls(a) -> Nat]
  BY UsableFacts
<1>2. \A a, b \in U : Discovery!Better(a, b) <=>
         \/ fs(a) > fs(b)
         \/ fs(a) = fs(b) /\ ls(a) < ls(b)
         \/ fs(a) = fs(b) /\ ls(a) = ls(b) /\ es(a) > es(b)
         \/ fs(a) = fs(b) /\ ls(a) = ls(b) /\ es(a) = es(b) /\ Discovery!Before(id(a), id(b))
  BY SameCardinality DEF Discovery!Better
<1>3. ASSUME NEW a \in U, NEW b \in U, a # b, ls(a) = ls(b) PROVE id(a) # id(b)
  <2> SUFFICES ASSUME id(a) = id(b) PROVE FALSE
    OBVIOUS
  <2>1. a.path \in Paths(s) /\ b.path \in Paths(s)
    BY UsableFacts
  <2>2. a.path # b.path
    <3>1. a = [path |-> a.path, formats |-> Discovery!EvaluateFormats(s, a.path, raw)]
      BY UsableFacts
    <3>2. b = [path |-> b.path, formats |-> Discovery!EvaluateFormats(s, b.path, raw)]
      BY UsableFacts
    <3> QED BY <1>3, <3>1, <3>2
  <2>3. DOMAIN a.path = 1 .. ls(a) /\ DOMAIN b.path = 1 .. ls(a)
    BY <2>1, <1>3, PathFacts
  <2>4. ASSUME NEW i \in 1 .. ls(a) PROVE a.path[i] = b.path[i]
    <3>1. a.path[i].id = b.path[i].id
      <4>1. id(a)[i] = a.path[i].id /\ id(b)[i] = b.path[i].id
        BY <2>3 DEF Discovery!Ids
      <4> QED BY <4>1
    <3>2. a.path[i] \in Links /\ b.path[i] \in Links
      BY <2>1, <2>3, PathFacts
    <3> QED BY <3>1, <3>2, GraphAssumption
  <2>5. a.path \in Seq(Links) /\ b.path \in Seq(Links)
    BY <2>1, PathFacts
  <2> QED BY <2>2, <2>3, <2>4, <2>5
<1>4. \A a \in U : ~Discovery!Before(id(a), id(a))
  <2> SUFFICES ASSUME NEW a \in U, Discovery!Before(id(a), id(a)) PROVE FALSE
    OBVIOUS
  <2>1. PICK i \in DOMAIN id(a) : id(a)[i] < id(a)[i]
    BY DEF Discovery!Before
  <2>2. id(a)[i] \in Nat
    BY <1>1, <2>1
  <2> QED BY <2>1, <2>2
<1>5. \A a, b, c \in U : ls(a) = ls(b) /\ ls(b) = ls(c) /\ Discovery!Before(id(a), id(b))
                         /\ Discovery!Before(id(b), id(c)) => Discovery!Before(id(a), id(c))
  <2> HIDE DEF U, fs, ls, es, id
  <2> QED BY <1>1, BeforeTransitive
<1>6. \A a, b \in U : a # b /\ ls(a) = ls(b)
                         => Discovery!Before(id(a), id(b)) \/ Discovery!Before(id(b), id(a))
  <2> HIDE DEF U, fs, ls, es, id
  <2> QED BY <1>1, <1>3, BeforeTotal
<1> HIDE DEF U, fs, ls, es, id
<1>7. \A a \in U : ~Discovery!Better(a, a)
  BY <1>1, <1>2, <1>4
<1>8. ASSUME NEW a \in U, NEW b \in U, NEW c \in U, Discovery!Better(a, b), Discovery!Better(b, c)
      PROVE  Discovery!Better(a, c)
  <2>1. /\ fs(a) \in Nat /\ ls(a) \in Nat /\ es(a) \in Nat
        /\ fs(b) \in Nat /\ ls(b) \in Nat /\ es(b) \in Nat
        /\ fs(c) \in Nat /\ ls(c) \in Nat /\ es(c) \in Nat
    BY <1>1
  <2>2. \/ fs(a) > fs(b)
        \/ fs(a) = fs(b) /\ ls(a) < ls(b)
        \/ fs(a) = fs(b) /\ ls(a) = ls(b) /\ es(a) > es(b)
        \/ fs(a) = fs(b) /\ ls(a) = ls(b) /\ es(a) = es(b) /\ Discovery!Before(id(a), id(b))
    BY <1>2, <1>8
  <2>3. \/ fs(b) > fs(c)
        \/ fs(b) = fs(c) /\ ls(b) < ls(c)
        \/ fs(b) = fs(c) /\ ls(b) = ls(c) /\ es(b) > es(c)
        \/ fs(b) = fs(c) /\ ls(b) = ls(c) /\ es(b) = es(c) /\ Discovery!Before(id(b), id(c))
    BY <1>2, <1>8
  <2>4. \/ fs(a) > fs(c)
        \/ fs(a) = fs(c) /\ ls(a) < ls(c)
        \/ fs(a) = fs(c) /\ ls(a) = ls(c) /\ es(a) > es(c)
        \/ fs(a) = fs(c) /\ ls(a) = ls(c) /\ es(a) = es(c) /\ Discovery!Before(id(a), id(c))
    BY <2>1, <2>2, <2>3, <1>5
  <2> QED BY <1>2, <2>4
<1>9. ASSUME NEW a \in U, NEW b \in U, a # b
      PROVE  Discovery!Better(a, b) \/ Discovery!Better(b, a)
  <2>1. /\ fs(a) \in Nat /\ ls(a) \in Nat /\ es(a) \in Nat
        /\ fs(b) \in Nat /\ ls(b) \in Nat /\ es(b) \in Nat
    BY <1>1
  <2> QED BY <1>2, <1>6, <1>9, <2>1
<1> QED BY <1>7, <1>8, <1>9 DEF U

\* pick() finds a path if there is one that can be used.
LEMMA PickFinds ==
    ASSUME Wired, NEW s, IsSensor(s), NEW raw \in BOOLEAN
    PROVE  /\ Discovery!Pick(s, raw) \subseteq Usable(s, raw)
           /\ Usable(s, raw) # {} => Discovery!Pick(s, raw) # {}
<1>1. Discovery!Pick(s, raw) =
         {b \in Usable(s, raw) : \A c \in Usable(s, raw) \ {b} : Discovery!Better(b, c)}
  BY FindPathsFinds DEF Discovery!Pick, Usable
<1> DEFINE R == {x \in Usable(s, raw) \X Usable(s, raw) : Discovery!Better(x[1], x[2])}
<1>2. \A x, y \in Usable(s, raw) : <<x, y>> \in R <=> Discovery!Better(x, y)
  OBVIOUS
<1> HIDE DEF R
<1>3. ASSUME Usable(s, raw) # {} PROVE Discovery!Pick(s, raw) # {}
  <2>1. /\ IsFiniteSet(Usable(s, raw))
        /\ \A x \in Usable(s, raw) : <<x, x>> \notin R
        /\ \A x, y, z \in Usable(s, raw) : <<x, y>> \in R /\ <<y, z>> \in R => <<x, z>> \in R
    BY <1>2, BetterFacts, UsableFacts
  <2>2. PICK b \in Usable(s, raw) : \A c \in Usable(s, raw) : <<c, b>> \notin R
    BY <1>3, <2>1, MinimalElement
  <2>3. \A c \in Usable(s, raw) \ {b} : Discovery!Better(b, c)
    BY <1>2, <2>2, BetterFacts
  <2> QED BY <1>1, <2>3
<1> QED BY <1>1, <1>3

\* The sensors that have a pipeline, whatever links are enabled.
HasPipeline(s) ==
    \/ \E p \in Paths(s) : FormatsOn(s, p, FALSE) # {}
    \/ /\ Codes[s] \subseteq Bayer /\ SoftwareIsp
       /\ \E p \in Paths(s) : FormatsOn(s, p, TRUE) # {}
Served == {s \in DOMAIN Function :
             Function[s] = "sensor" /\ Facts[s].enabled # "no" /\ HasPipeline(s)}

\* A path of the sensor, and formats its video node captures.
Serves(s, pipeline) ==
    /\ DOMAIN pipeline = {"path", "formats"}
    /\ pipeline.path \in Paths(s)
    /\ \A f \in DOMAIN pipeline.formats :
          /\ f \in Processed \cup Isp
          /\ f \in NodeFormats[Video(pipeline.path)]
                              [Discovery!PassOn(pipeline.path, pipeline.formats[f])]

LEMMA PipelineOfSensor ==
    ASSUME Wired, NEW s, IsSensor(s)
    PROVE  /\ Discovery!SensorPipeline(s) # {} <=> HasPipeline(s)
           /\ \A b \in Discovery!SensorPipeline(s) : Serves(s, b)
<1> DEFINE P(raw) == Discovery!Pick(s, raw)
<1>1. node[s] = "open" /\ s \in DOMAIN Function
  BY DEF Wired, IsSensor
<1>2. Discovery!SensorPipeline(s) =
         IF P(FALSE) # {} THEN P(FALSE)
         ELSE IF Discovery!RawOnly(s) /\ SoftwareIsp THEN P(TRUE) ELSE {}
  BY <1>1 DEF Discovery!SensorPipeline
<1>3. \A raw \in BOOLEAN : P(raw) # {} <=> \E p \in Paths(s) : FormatsOn(s, p, raw) # {}
  BY PickFinds, UsableFacts
<1>4. Discovery!RawOnly(s) <=> Paths(s) # {} /\ Codes[s] \subseteq Bayer
  BY FindPathsFinds DEF Discovery!RawOnly
<1>5. ASSUME NEW raw \in BOOLEAN, NEW b \in P(raw) PROVE Serves(s, b)
  <2>1. b \in Usable(s, raw)
    BY <1>5, PickFinds
  <2>2. /\ b.path \in Paths(s)
        /\ b = [path |-> b.path, formats |-> Discovery!EvaluateFormats(s, b.path, raw)]
        /\ DOMAIN b.formats = FormatsOn(s, b.path, raw)
    BY <2>1, UsableFacts
  <2>3. b.formats = Discovery!EvaluateFormats(s, b.path, raw) /\ DOMAIN b = {"path", "formats"}
    BY <2>2
  <2>4. \A f \in DOMAIN b.formats : f \in Processed \cup Isp
    BY <2>2 DEF FormatsOn
  <2>5. \A f \in DOMAIN b.formats : f \in NodeFormats[Video(b.path)][Discovery!PassOn(b.path, b.formats[f])]
    BY <2>2, <2>3, FormatsOfPath
  <2> QED BY <2>2, <2>3, <2>4, <2>5 DEF Serves
<1> HIDE DEF P
<1>6. Discovery!SensorPipeline(s) # {} <=> HasPipeline(s)
  BY <1>2, <1>3, <1>4 DEF HasPipeline
<1>7. \A b \in Discovery!SensorPipeline(s) : b \in P(FALSE) \/ b \in P(TRUE)
  BY <1>2
<1> QED BY <1>5, <1>6, <1>7

-----------------------------------------------------------------------------
(* What a scan finds.                                                      *)

Fields == {"key", "path", "internal", "facing", "facing_known", "rotation", "pipeline", "leds"}

\* A sensor with a pipeline, or a plain capture node with its own key.
IsMedia(c) == c.pipeline # <<>> /\ c.key \in Served /\ Serves(c.key, c.pipeline)
IsPlain(c) ==
    /\ c.pipeline = <<>> /\ c.path \in DOMAIN Plain /\ c.key = Plain[c.path].key
    /\ Discovery!IsCaptureNode(c.path) /\ c.internal = Discovery!IsInternal(c.key, FALSE)
IsCamera(c) == DOMAIN c = Fields /\ (IsMedia(c) \/ IsPlain(c))

PlainKeys == {Plain[n].key : n \in DOMAIN Plain}
KeysOf(F) == {c.key : c \in F}

\* A media device whose sensors are known can be opened, and they are all known.
CamerasInv ==
    /\ \A k \in DOMAIN cameras : cameras[k].key = k /\ IsCamera(cameras[k])
    /\ (\E k \in DOMAIN cameras : cameras[k].pipeline # <<>>) =>
          node[MediaNode] = "open" /\ Served \subseteq DOMAIN cameras

LEMMA KeysApart ==
    /\ Served \cap PlainKeys = {} /\ Served \subseteq DOMAIN Function
    /\ Served \cup PlainKeys \subseteq DOMAIN Facts /\ Served \cup PlainKeys \subseteq Nat
    /\ \A c : IsMedia(c) => c.key \in Served /\ c.pipeline # <<>>
    /\ \A c : IsPlain(c) => c.key \in PlainKeys /\ c.pipeline = <<>>
<1>1. Served \subseteq DOMAIN Function /\ \A s \in Served : Function[s] = "sensor"
  BY DEF Served
<1>2. PlainKeys \cap DOMAIN Function = {} /\ PlainKeys \subseteq DOMAIN Facts
  BY LightsAssumption DEF PlainKeys
<1>3. \A e \in DOMAIN Function : Function[e] = "sensor" => e \in DOMAIN Facts
  BY LightsAssumption
<1>4. PlainKeys \subseteq Nat /\ DOMAIN Function \subseteq Nat
  BY GraphAssumption DEF PlainKeys
<1>5. \A c : IsMedia(c) => c.key \in Served /\ c.pipeline # <<>>
  BY DEF IsMedia
<1>6. \A c : IsPlain(c) => c.key \in PlainKeys /\ c.pipeline = <<>>
  BY DEF IsPlain, PlainKeys
<1> QED BY <1>1, <1>2, <1>3, <1>4, <1>5, <1>6

LEMMA KnownFacts ==
    ASSUME CamerasInv
    PROVE  /\ \A c : c \in Discovery!Known <=> c.key \in DOMAIN cameras /\ c = cameras[c.key]
           /\ \A c \in Discovery!Known : IsCamera(c)
           /\ \A k \in DOMAIN cameras : cameras[k] \in Discovery!Known
           /\ \A c \in Discovery!KnownMedia : IsMedia(c)
           /\ Discovery!KnownMedia # {} =>
                 node[MediaNode] = "open" /\ KeysOf(Discovery!KnownMedia) = Served
           /\ \A k \in DOMAIN cameras \cap Served : cameras[k] \in Discovery!KnownMedia
<1>1. \A c : c \in Discovery!Known <=> \E k \in DOMAIN cameras : c = cameras[k]
  BY DEF Discovery!Known, Discovery!Range
<1>2. \A k \in DOMAIN cameras : cameras[k].key = k /\ IsCamera(cameras[k])
  BY DEF CamerasInv
<1>3. \A c : c \in Discovery!Known <=> c.key \in DOMAIN cameras /\ c = cameras[c.key]
  BY <1>1, <1>2
<1>4. \A c \in Discovery!Known : IsCamera(c)
  BY <1>1, <1>2
<1>5. \A k \in DOMAIN cameras : cameras[k] \in Discovery!Known
  BY <1>1
<1>6. \A c \in Discovery!KnownMedia : c \in Discovery!Known /\ c.pipeline # <<>> /\ IsMedia(c)
  BY <1>4, KeysApart DEF Discovery!KnownMedia, IsCamera
<1>7. \A k \in DOMAIN cameras \cap Served : cameras[k] \in Discovery!KnownMedia
  BY <1>2, <1>5, KeysApart DEF Discovery!KnownMedia, IsCamera
<1>8. ASSUME Discovery!KnownMedia # {}
      PROVE  node[MediaNode] = "open" /\ KeysOf(Discovery!KnownMedia) = Served
  <2>1. \E k \in DOMAIN cameras : cameras[k].pipeline # <<>>
    BY <1>3, <1>6, <1>8
  <2>2. node[MediaNode] = "open" /\ Served \subseteq DOMAIN cameras
    BY <2>1 DEF CamerasInv
  <2>3. Served \subseteq KeysOf(Discovery!KnownMedia)
    BY <1>2, <1>7, <2>2 DEF KeysOf
  <2>4. KeysOf(Discovery!KnownMedia) \subseteq Served
    BY <1>6 DEF KeysOf, IsMedia
  <2> QED BY <2>2, <2>3, <2>4
<1> QED BY <1>3, <1>4, <1>5, <1>6, <1>7, <1>8

\* The media device gives every sensor that has a pipeline.
LEMMA ProbeFacts ==
    ASSUME Wired
    PROVE  /\ \A c \in Discovery!ProbeMediaDevice : DOMAIN c = Fields /\ IsMedia(c)
           /\ KeysOf(Discovery!ProbeMediaDevice) = Served
<1> DEFINE Of(s, b) == Discovery!Candidate(s, Discovery!SinkOf(b.path), TRUE, b)
           Sensors == {e \in DOMAIN Function : Function[e] = "sensor" /\ Facts[e].enabled # "no"}
<1>1. \A s, b : DOMAIN Of(s, b) = Fields /\ Of(s, b).key = s /\ Of(s, b).pipeline = b
  BY DEF Discovery!Candidate, Fields
<1>2. \A c : c \in Discovery!ProbeMediaDevice <=>
                \E s \in Sensors : \E b \in Discovery!SensorPipeline(s) : c = Of(s, b)
  <2>1. Discovery!ProbeMediaDevice =
          {Of(p[1], p[2]) : p \in UNION {{s} \X Discovery!SensorPipeline(s) : s \in Sensors}}
    BY DEF Discovery!ProbeMediaDevice, Discovery!Entities
  <2> HIDE DEF Of, Sensors
  <2> DEFINE Pairs == UNION {{s} \X Discovery!SensorPipeline(s) : s \in Sensors}
  <2>2. \A p : p \in Pairs <=> \E s \in Sensors : \E b \in Discovery!SensorPipeline(s) : p = <<s, b>>
    OBVIOUS
  <2>3. \A c : c \in Discovery!ProbeMediaDevice <=> \E p \in Pairs : c = Of(p[1], p[2])
    BY <2>1
  <2> HIDE DEF Pairs
  <2>4. ASSUME NEW c, NEW p \in Pairs, c = Of(p[1], p[2])
        PROVE  \E s \in Sensors : \E b \in Discovery!SensorPipeline(s) : c = Of(s, b)
    <3>1. PICK s \in Sensors : \E b \in Discovery!SensorPipeline(s) : p = <<s, b>>
      BY <2>2
    <3>2. PICK b \in Discovery!SensorPipeline(s) : p = <<s, b>>
      BY <3>1
    <3>3. p[1] = s /\ p[2] = b
      BY <3>2
    <3> QED BY <2>4, <3>1, <3>2, <3>3
  <2>5. ASSUME NEW c, NEW s \in Sensors, NEW b \in Discovery!SensorPipeline(s), c = Of(s, b)
        PROVE  \E p \in Pairs : c = Of(p[1], p[2])
    <3>1. <<s, b>> \in Pairs /\ <<s, b>>[1] = s /\ <<s, b>>[2] = b
      BY <2>2
    <3> QED BY <2>5, <3>1
  <2> QED BY <2>3, <2>4, <2>5
<1>3. \A s \in Sensors : IsSensor(s)
  BY DEF IsSensor
<1>4. \A s : s \in Served <=> s \in Sensors /\ HasPipeline(s)
  BY DEF Served
<1> HIDE DEF Of, Sensors
<1>5. ASSUME NEW s \in Sensors, NEW b \in Discovery!SensorPipeline(s)
      PROVE  IsMedia(Of(s, b)) /\ s \in Served
  <2>1. Serves(s, b) /\ s \in Served
    BY <1>3, <1>4, <1>5, PipelineOfSensor
  <2>2. b # <<>>
    <3>1. "path" \in DOMAIN b
      BY <2>1 DEF Serves
    <3> QED BY <3>1
  <2> QED BY <1>1, <2>1, <2>2 DEF IsMedia
<1>6. ASSUME NEW s \in Served PROVE \E c \in Discovery!ProbeMediaDevice : c.key = s
  <2>1. PICK b : b \in Discovery!SensorPipeline(s)
    BY <1>3, <1>4, PipelineOfSensor
  <2> QED BY <1>1, <1>2, <1>4, <2>1
<1> QED BY <1>1, <1>2, <1>5, <1>6 DEF KeysOf

LEMMA MediaFacts ==
    ASSUME Wired, CamerasInv
    PROVE  /\ \A c \in Discovery!MediaCameras : DOMAIN c = Fields /\ IsMedia(c)
           /\ Discovery!MediaCameras # {} =>
                 node[MediaNode] = "open" /\ KeysOf(Discovery!MediaCameras) = Served
           /\ node[MediaNode] = "open" => KeysOf(Discovery!MediaCameras) = Served
           /\ Discovery!KnownMedia # {} => Discovery!MediaCameras = Discovery!KnownMedia
<1>1. \A c \in Discovery!KnownMedia : DOMAIN c = Fields /\ IsMedia(c)
  BY KnownFacts DEF IsCamera, Discovery!KnownMedia
<1>2. CASE Discovery!KnownMedia # {}
  <2>1. node[MediaNode] = "open" /\ KeysOf(Discovery!KnownMedia) = Served
    BY <1>2, KnownFacts
  <2>2. Discovery!MediaCameras = Discovery!KnownMedia
    BY <1>2, <2>1 DEF Discovery!MediaCameras
  <2> QED BY <1>1, <2>1, <2>2
<1>3. CASE Discovery!KnownMedia = {} /\ node[MediaNode] = "open"
  <2>1. Discovery!MediaCameras = Discovery!ProbeMediaDevice
    BY <1>3 DEF Discovery!MediaCameras
  <2> QED BY <1>3, <2>1, ProbeFacts
<1>4. CASE Discovery!KnownMedia = {} /\ node[MediaNode] # "open"
  <2>1. Discovery!MediaCameras = {}
    BY <1>4 DEF Discovery!MediaCameras
  <2> QED BY <1>4, <2>1
<1> QED BY <1>2, <1>3, <1>4

\* Of the plain nodes of a camera the first is used.
LEMMA PlainFacts ==
    ASSUME CamerasInv, node \in [Discovery!Nodes -> {"absent", "created", "open"}]
    PROVE  /\ \A c \in Discovery!PlainCameras :
                 /\ DOMAIN c = Fields /\ IsPlain(c) /\ node[c.path] # "absent"
                 /\ \A n \in DOMAIN Plain :
                       node[n] = "open" /\ Discovery!IsCaptureNode(n) /\ Plain[n].key = c.key
                          => c.path <= n
           /\ \A n \in DOMAIN Plain : node[n] = "open" /\ Discovery!IsCaptureNode(n) =>
                 \E c \in Discovery!PlainCameras : c.key = Plain[n].key
<1> DEFINE probed == UNION {Discovery!PlainCamera(n) : n \in DOMAIN Plain}
<1>1. Discovery!PlainCameras = {c \in probed : \A d \in probed : d.key = c.key => c.path <= d.path}
  BY DEF Discovery!PlainCameras
<1>2. ASSUME NEW n \in DOMAIN Plain, NEW c \in Discovery!PlainCamera(n)
      PROVE  DOMAIN c = Fields /\ IsPlain(c) /\ node[c.path] # "absent" /\ c.path = n
  <2>1. node[n] # "absent"
    BY <1>2 DEF Discovery!PlainCamera
  <2>2. CASE c \in Discovery!KnownAt(n)
    <3>1. c.path = n /\ c.pipeline = <<>> /\ IsCamera(c)
      BY <2>2, KnownFacts DEF Discovery!KnownAt
    <3> QED BY <2>1, <3>1, KeysApart DEF IsCamera
  <2>3. CASE c \notin Discovery!KnownAt(n)
    <3>1. Discovery!IsCaptureNode(n) /\ c = Discovery!Candidate(Plain[n].key, n, FALSE, <<>>)
      BY <1>2, <2>1, <2>3 DEF Discovery!PlainCamera
    <3>2. /\ DOMAIN c = Fields /\ c.path = n /\ c.key = Plain[n].key /\ c.pipeline = <<>>
          /\ c.internal = Discovery!IsInternal(Plain[n].key, FALSE)
      BY <3>1 DEF Discovery!Candidate, Fields
    <3> QED BY <2>1, <3>1, <3>2 DEF IsPlain
  <2> QED BY <2>2, <2>3
<1>3. ASSUME NEW n \in DOMAIN Plain, node[n] = "open", Discovery!IsCaptureNode(n)
      PROVE  \E c \in Discovery!PlainCamera(n) : c.path = n /\ c.key = Plain[n].key
  <2>1. PICK c : c \in Discovery!PlainCamera(n)
    BY <1>3 DEF Discovery!PlainCamera
  <2>2. IsPlain(c) /\ c.path = n
    BY <1>2, <2>1
  <2>3. c.key = Plain[n].key
    BY <2>2 DEF IsPlain
  <2> QED BY <2>1, <2>2, <2>3
<1>4. \A c : c \in probed <=> \E n \in DOMAIN Plain : c \in Discovery!PlainCamera(n)
  OBVIOUS
<1> HIDE DEF probed
<1>5. ASSUME NEW c \in Discovery!PlainCameras
      PROVE  /\ DOMAIN c = Fields /\ IsPlain(c) /\ node[c.path] # "absent"
             /\ \A n \in DOMAIN Plain :
                   node[n] = "open" /\ Discovery!IsCaptureNode(n) /\ Plain[n].key = c.key
                      => c.path <= n
  <2>1. c \in probed /\ \A d \in probed : d.key = c.key => c.path <= d.path
    BY <1>1
  <2>2. DOMAIN c = Fields /\ IsPlain(c) /\ node[c.path] # "absent"
    BY <1>2, <1>4, <2>1
  <2>3. ASSUME NEW n \in DOMAIN Plain, node[n] = "open", Discovery!IsCaptureNode(n), Plain[n].key = c.key
        PROVE  c.path <= n
    <3>1. PICK d \in Discovery!PlainCamera(n) : d.path = n /\ d.key = Plain[n].key
      BY <1>3, <2>3
    <3> QED BY <1>4, <2>1, <2>3, <3>1
  <2> QED BY <2>2, <2>3
<1>6. ASSUME NEW n \in DOMAIN Plain, node[n] = "open", Discovery!IsCaptureNode(n)
      PROVE  \E c \in Discovery!PlainCameras : c.key = Plain[n].key
  <2> DEFINE Same == {c \in probed : c.key = Plain[n].key}
             Ps == {c.path : c \in Same}
  <2>1. Same # {}
    BY <1>3, <1>4, <1>6
  <2>2. \A c \in Same : c.path \in Nat
    BY <1>2, <1>4, GraphAssumption
  <2>3. PICK m \in Ps : \A x \in Ps : m <= x
    <3>1. Ps \in SUBSET Nat /\ Ps # {}
      BY <2>1, <2>2
    <3> HIDE DEF Ps
    <3> QED BY <3>1, LeastNumber
  <2>4. PICK c \in Same : m = c.path
    BY <2>3
  <2>5. \A d \in probed : d.key = c.key => c.path <= d.path
    BY <2>3, <2>4
  <2> QED BY <1>1, <2>4, <2>5
<1> QED BY <1>5, <1>6

\* Only the facing and the LEDs of what was probed are changed.
SameCamera(c, d) ==
    /\ DOMAIN d = Fields /\ d.key = c.key /\ d.path = c.path /\ d.pipeline = c.pipeline
    /\ d.internal = c.internal
SameCameras(F, G) ==
    /\ \A d \in G : \E c \in F : SameCamera(c, d)
    /\ \A c \in F : \E d \in G : SameCamera(c, d)

LEMMA SameIsCamera ==
    \A c, d : SameCamera(c, d) /\ IsCamera(c) => IsCamera(d)
  BY DEF SameCamera, IsCamera, IsMedia, IsPlain

LEMMA FacingKeeps ==
    ASSUME NEW F, \A c \in F : DOMAIN c = Fields
    PROVE  SameCameras(F, Discovery!ApplyFacingByResolution(F))
<1> DEFINE G == Discovery!ApplyFacingByResolution(F)
           unknown == {c \in F : c.internal /\ ~c.facing_known}
           Smaller(a, b) == \/ Facts[a.key].area < Facts[b.key].area
                            \/ Facts[a.key].area = Facts[b.key].area /\ a.key <= b.key
           Turned(c) == [c EXCEPT !.facing = IF \A d \in unknown : Smaller(c, d) THEN "front" ELSE "back"]
<1>1. ASSUME NEW c \in F PROVE SameCamera(c, c) /\ SameCamera(c, Turned(c))
  <2>1. DOMAIN c = Fields
    OBVIOUS
  <2>2. SameCamera(c, c)
    BY <2>1 DEF SameCamera
  <2> DEFINE x == IF \A d \in unknown : Smaller(c, d) THEN "front" ELSE "back"
  <2>3. Turned(c) = [c EXCEPT !.facing = x]
    OBVIOUS
  <2> HIDE DEF x, Turned
  <2>4. SameCamera(c, Turned(c))
    BY <2>1, <2>3 DEF SameCamera, Fields
  <2> QED BY <2>2, <2>4
<1>2. G = F \/ G = (F \ unknown) \cup {Turned(c) : c \in unknown}
  BY DEF Discovery!ApplyFacingByResolution
<1>3. unknown \subseteq F
  OBVIOUS
<1> HIDE DEF G, unknown, Turned
<1>4. CASE G = F
  BY <1>1, <1>4 DEF SameCameras, G
<1>5. CASE G = (F \ unknown) \cup {Turned(c) : c \in unknown}
  <2>1. ASSUME NEW d \in G PROVE \E c \in F : SameCamera(c, d)
    BY <1>1, <1>3, <1>5
  <2>2. ASSUME NEW c \in F PROVE \E d \in G : SameCamera(c, d)
    BY <1>1, <1>3, <1>5
  <2> QED BY <2>1, <2>2 DEF SameCameras, G
<1> QED BY <1>2, <1>4, <1>5

\* The lights a camera has of its own.
Own(k) ==
    IF Facts[k].flash_led # {} THEN Facts[k].flash_led
    ELSE IF k \in DOMAIN Function THEN LinkedFlash[k] ELSE {}

LEMMA OwnFlashIsOwn ==
    ASSUME NEW c, IsMedia(c) \/ IsPlain(c) PROVE Discovery!OwnFlash(c) = Own(c.key)
<1>1. CASE IsMedia(c)
  <2>1. c.pipeline # <<>> /\ c.key \in DOMAIN Function
    BY <1>1, KeysApart
  <2> QED BY <2>1 DEF Discovery!OwnFlash, Own
<1>2. CASE IsPlain(c)
  <2>1. c.pipeline = <<>> /\ c.key \notin DOMAIN Function
    BY <1>2, KeysApart, LightsAssumption DEF PlainKeys
  <2> QED BY <2>1 DEF Discovery!OwnFlash, Own
<1> QED BY <1>1, <1>2

\* One camera at most gets the LED class, and then no other has lights.
LedsGiven(G, first) ==
    /\ \A d \in G :
          \/ d.leds = Own(d.key)
          \/ /\ d.leds = LedClass /\ d.key = first
             /\ \A e \in G : e.key # first => e.leds = {}
    /\ first \in PlainKeys => LedClass = {}

LEMMA LedsKeep ==
    ASSUME NEW F, \A c \in F : IsCamera(c)
    PROVE  LET G == Discovery!AssignFlashLeds(F) IN
           SameCameras(F, G) /\ \E first : LedsGiven(G, first)
<1> DEFINE G == Discovery!AssignFlashLeds(F)
           backs == {c.key : c \in {d \in F : d.internal /\ d.facing = "back"}}
           configured == \E c \in F : Discovery!OwnFlash(c) # {}
           first == Discovery!Min(backs)
           chosen(c) == ~configured /\ backs # {} /\ c.key = first
           leds(c) == IF chosen(c) THEN LedClass ELSE Discovery!OwnFlash(c)
           Lit(c) == [c EXCEPT !.leds = leds(c)]
<1>1. G = {Lit(c) : c \in F}
  BY DEF Discovery!AssignFlashLeds
<1>2. ASSUME NEW c \in F
      PROVE  /\ SameCamera(c, Lit(c)) /\ Lit(c).leds = leds(c)
             /\ Discovery!OwnFlash(c) = Own(c.key)
  <2>1. DOMAIN c = Fields
    BY DEF IsCamera
  <2> HIDE DEF leds
  <2>2. SameCamera(c, Lit(c)) /\ Lit(c).leds = leds(c)
    BY <2>1 DEF SameCamera, Fields
  <2>3. Discovery!OwnFlash(c) = Own(c.key)
    BY OwnFlashIsOwn DEF IsCamera
  <2> QED BY <2>2, <2>3
<1>3. backs \in SUBSET Nat /\ \A c \in F : c.key \in Served \cup PlainKeys
  <2>1. \A c \in F : c.key \in Served \cup PlainKeys
    BY KeysApart DEF IsCamera
  <2> QED BY <2>1, KeysApart
<1>4. ASSUME backs # {}, first \in PlainKeys PROVE LedClass = {}
  <2>1. first \in backs
    <3> HIDE DEF backs
    <3> QED BY <1>3, <1>4, LeastIsMin
  <2>2. PICK c \in F : c.internal /\ c.key = first
    BY <2>1
  <2>3. IsPlain(c)
    BY <1>4, <2>2, KeysApart DEF IsCamera
  <2>4. c.internal = Discovery!IsInternal(c.key, FALSE) /\ c.key \in PlainKeys
    BY <2>3 DEF IsPlain, PlainKeys
  <2>5. \A k \in PlainKeys : Discovery!IsInternal(k, FALSE) => LedClass = {}
    BY LightsAssumption DEF PlainKeys
  <2> QED BY <2>2, <2>4, <2>5
<1> HIDE DEF G, Lit, backs, first
<1>5. SameCameras(F, G)
  BY <1>1, <1>2 DEF SameCameras
<1>6. CASE ~configured /\ backs # {}
  <2>1. ASSUME NEW d \in G
        PROVE  IF d.key = first THEN d.leds = LedClass ELSE d.leds = {} /\ d.leds = Own(d.key)
    <3>1. PICK c \in F : d = Lit(c)
      BY <1>1
    <3>2. d.key = c.key /\ d.leds = leds(c) /\ Discovery!OwnFlash(c) = Own(c.key)
      BY <1>2, <3>1 DEF SameCamera
    <3>3. Discovery!OwnFlash(c) = {}
      BY <1>6
    <3> QED BY <1>6, <3>2, <3>3
  <2>2. LedsGiven(G, first)
    BY <1>4, <1>6, <2>1 DEF LedsGiven
  <2> QED BY <1>5, <2>2 DEF G
<1>7. CASE configured \/ backs = {}
  <2>1. ASSUME NEW d \in G PROVE d.leds = Own(d.key)
    <3>1. PICK c \in F : d = Lit(c)
      BY <1>1
    <3>2. d.key = c.key /\ d.leds = leds(c) /\ Discovery!OwnFlash(c) = Own(c.key)
      BY <1>2, <3>1 DEF SameCamera
    <3> QED BY <1>7, <3>2
  <2>2. \E x : x \notin PlainKeys
    <3>1. -1 \notin PlainKeys
      BY KeysApart
    <3> QED BY <3>1
  <2>3. PICK x : x \notin PlainKeys
    BY <2>2
  <2>4. LedsGiven(G, x)
    BY <2>1, <2>3 DEF LedsGiven
  <2> QED BY <1>5, <2>4 DEF G
<1> QED BY <1>6, <1>7

Found == Discovery!MediaCameras \cup Discovery!PlainCameras

LEMMA FoundFacts ==
    ASSUME Wired, CamerasInv, node \in [Discovery!Nodes -> {"absent", "created", "open"}]
    PROVE  /\ \A c \in Found : IsCamera(c)
           /\ SameCameras(Found, Discovery!DiscoverCameras)
           /\ \A d \in Discovery!DiscoverCameras : IsCamera(d)
           /\ KeysOf(Discovery!DiscoverCameras) = KeysOf(Found)
           /\ \E first : LedsGiven(Discovery!DiscoverCameras, first)
<1> DEFINE T == Discovery!ApplyFacingByResolution(Found)
           D == Discovery!DiscoverCameras
<1>1. \A c \in Found : IsCamera(c)
  BY MediaFacts, PlainFacts DEF Found, IsCamera
<1>2. SameCameras(Found, T)
  BY <1>1, FacingKeeps DEF IsCamera
<1>3. \A c \in T : IsCamera(c)
  BY <1>1, <1>2, SameIsCamera DEF SameCameras
<1>4. D = Discovery!AssignFlashLeds(T)
  BY DEF Discovery!DiscoverCameras, Found
<1>5. SameCameras(T, D) /\ \E first : LedsGiven(D, first)
  BY <1>3, <1>4, LedsKeep
<1> HIDE DEF T, D
<1>6. \A c, d, e : SameCamera(c, d) /\ SameCamera(d, e) => SameCamera(c, e)
  BY DEF SameCamera
<1>7. SameCameras(Found, D)
  <2> HIDE DEF SameCamera
  <2>1. ASSUME NEW e \in D PROVE \E c \in Found : SameCamera(c, e)
    <3>1. PICK d \in T : SameCamera(d, e)
      BY <1>5 DEF SameCameras
    <3>2. PICK c \in Found : SameCamera(c, d)
      BY <1>2 DEF SameCameras
    <3> QED BY <1>6, <3>1, <3>2
  <2>2. ASSUME NEW c \in Found PROVE \E e \in D : SameCamera(c, e)
    <3>1. PICK d \in T : SameCamera(c, d)
      BY <1>2 DEF SameCameras
    <3>2. PICK e \in D : SameCamera(d, e)
      BY <1>5 DEF SameCameras
    <3> QED BY <1>6, <3>1, <3>2
  <2> QED BY <2>1, <2>2 DEF SameCameras
<1>8. \A d \in D : IsCamera(d)
  BY <1>1, <1>7, SameIsCamera DEF SameCameras
<1>9. KeysOf(D) = KeysOf(Found)
  <2>1. \A d \in D : \E c \in Found : c.key = d.key
    BY <1>7 DEF SameCameras, SameCamera
  <2>2. \A c \in Found : \E d \in D : d.key = c.key
    BY <1>7 DEF SameCameras, SameCamera
  <2> QED BY <2>1, <2>2 DEF KeysOf
<1> QED BY <1>1, <1>5, <1>7, <1>8, <1>9 DEF D

\* A camera has its own lights, the LED class if no other sensor has lights, or none.
LedsInv ==
    \A k \in DOMAIN cameras :
        \/ cameras[k].leds = Own(k) \/ cameras[k].leds = {}
        \/ /\ cameras[k].leds = LedClass /\ k \in Served
           /\ \A j \in DOMAIN cameras \cap Served : j # k => cameras[j].leds = {}

\* The states of a scan and of a session.
DiscoveryInv ==
    /\ node \in [Discovery!Nodes -> {"absent", "created", "open"}]
    /\ Wired
    /\ CamerasInv
    /\ LedsInv
    /\ setup.ok => setup.camera \in DOMAIN cameras /\ cameras[setup.camera].pipeline # <<>>
    /\ FindsAll
    /\ StreamReaches

-----------------------------------------------------------------------------
(* A scan.                                                                 *)

\* Cameras whose node did not change stay, the others are what was found.
LEMMA ScanResult ==
    ASSUME DiscoveryInv, Discovery!Scan
    PROVE  /\ DOMAIN cameras' = KeysOf(Found)
           /\ \A k \in DOMAIN cameras' :
                 \/ /\ k \in DOMAIN cameras /\ cameras'[k] = cameras[k]
                    /\ \E c \in Found : c.key = k /\ c.path = cameras[k].path
                 \/ cameras'[k] \in Discovery!DiscoverCameras /\ cameras'[k].key = k
           /\ \A c \in Found : c.key \in DOMAIN cameras /\ c.path = cameras[c.key].path =>
                 cameras'[c.key] = cameras[c.key]
<1> DEFINE D == Discovery!DiscoverCameras
           kept == Discovery!Kept(D)
           all_ == kept \cup {d \in D : \A c \in kept : c.key # d.key}
<1>1. cameras' = [k \in {c.key : c \in all_} |-> CHOOSE c \in all_ : c.key = k]
  BY DEF Discovery!Scan
<1>2. /\ CamerasInv /\ Wired /\ node \in [Discovery!Nodes -> {"absent", "created", "open"}]
      /\ SameCameras(Found, D) /\ KeysOf(D) = KeysOf(Found)
  BY FoundFacts DEF DiscoveryInv
<1>3. \A c : c \in kept <=>
               /\ c.key \in DOMAIN cameras /\ c = cameras[c.key]
               /\ \E d \in D : d.key = c.key /\ d.path = c.path
  BY <1>2, KnownFacts DEF Discovery!Kept
<1> HIDE DEF D, kept
<1>4. {c.key : c \in all_} = KeysOf(Found)
  <2>1. \A c \in all_ : \E d \in D : d.key = c.key
    BY <1>3
  <2>2. \A d \in D : \E c \in all_ : c.key = d.key
    OBVIOUS
  <2>3. {c.key : c \in all_} = KeysOf(D)
    <3> HIDE DEF all_
    <3> QED BY <2>1, <2>2 DEF KeysOf
  <2> QED BY <1>2, <2>3
<1>5. ASSUME NEW k \in DOMAIN cameras' PROVE cameras'[k] \in all_ /\ cameras'[k].key = k
  <2> HIDE DEF all_
  <2>1. k \in {c.key : c \in all_} /\ cameras'[k] = CHOOSE c \in all_ : c.key = k
    BY <1>1, <1>5
  <2>2. \E c \in all_ : c.key = k
    BY <2>1
  <2> QED BY <2>1, <2>2
<1>6. DOMAIN cameras' = KeysOf(Found)
  <2> HIDE DEF all_
  <2> QED BY <1>1, <1>4
<1>7. ASSUME NEW k \in DOMAIN cameras'
      PROVE  \/ /\ k \in DOMAIN cameras /\ cameras'[k] = cameras[k]
                /\ \E c \in Found : c.key = k /\ c.path = cameras[k].path
             \/ cameras'[k] \in D /\ cameras'[k].key = k
  <2>1. CASE cameras'[k] \in kept
    <3>1. k \in DOMAIN cameras /\ cameras'[k] = cameras[k]
      BY <1>3, <1>5, <2>1
    <3>2. PICK d \in D : d.key = k /\ d.path = cameras[k].path
      BY <1>3, <1>5, <2>1, <3>1
    <3>3. PICK c \in Found : SameCamera(c, d)
      BY <1>2 DEF SameCameras
    <3> QED BY <3>1, <3>2, <3>3 DEF SameCamera
  <2>2. CASE cameras'[k] \notin kept
    BY <1>5, <2>2
  <2> QED BY <2>1, <2>2
<1>8. ASSUME NEW c \in Found, c.key \in DOMAIN cameras, c.path = cameras[c.key].path
      PROVE  cameras'[c.key] = cameras[c.key]
  <2> DEFINE k == c.key
  <2>1. PICK d \in D : SameCamera(c, d)
    BY <1>2 DEF SameCameras
  <2>2. cameras[k].key = k
    BY <1>2, <1>8 DEF CamerasInv
  <2>3. cameras[k] \in kept
    BY <1>3, <1>8, <2>1, <2>2 DEF SameCamera
  <2>4. k \in DOMAIN cameras'
    BY <1>6 DEF KeysOf
  <2>5. cameras'[k] \in all_ /\ cameras'[k].key = k
    BY <1>5, <2>4
  <2>6. cameras'[k] \in kept
    BY <2>2, <2>3, <2>5
  <2> QED BY <1>3, <2>5, <2>6
<1> QED BY <1>6, <1>7, <1>8 DEF D

LEMMA ScanCameras ==
    ASSUME DiscoveryInv, Discovery!Scan
    PROVE  /\ CamerasInv'
           /\ \A k \in DOMAIN cameras \cap Served : Discovery!KnownMedia # {} =>
                 k \in DOMAIN cameras' /\ cameras'[k] = cameras[k]
<1>1. /\ CamerasInv /\ Wired /\ node \in [Discovery!Nodes -> {"absent", "created", "open"}]
      /\ node' = node
  BY DEF DiscoveryInv, Discovery!Scan
<1>2. \A d \in Discovery!DiscoverCameras : IsCamera(d)
  BY <1>1, FoundFacts
<1>3. \A k \in DOMAIN cameras' : cameras'[k].key = k /\ IsCamera(cameras'[k])
  <2> SUFFICES ASSUME NEW k \in DOMAIN cameras' PROVE cameras'[k].key = k /\ IsCamera(cameras'[k])
    OBVIOUS
  <2>1. \/ k \in DOMAIN cameras /\ cameras'[k] = cameras[k]
        \/ cameras'[k] \in Discovery!DiscoverCameras /\ cameras'[k].key = k
    BY ScanResult
  <2>2. \A j \in DOMAIN cameras : cameras[j].key = j /\ IsCamera(cameras[j])
    BY <1>1 DEF CamerasInv
  <2> QED BY <1>2, <2>1, <2>2
<1>4. ASSUME NEW k \in DOMAIN cameras', cameras'[k].pipeline # <<>>
      PROVE  node[MediaNode] = "open" /\ Served \subseteq DOMAIN cameras'
  <2>1. k \in Served
    BY <1>3, <1>4, KeysApart DEF IsCamera
  <2>2. PICK c \in Found : c.key = k
    BY <1>4, ScanResult DEF KeysOf
  <2>3. c \in Discovery!MediaCameras
    <3>1. c \in Discovery!PlainCameras => c.key \in PlainKeys
      BY <1>1, PlainFacts, KeysApart
    <3> QED BY <2>1, <2>2, <3>1, KeysApart DEF Found
  <2>4. node[MediaNode] = "open" /\ KeysOf(Discovery!MediaCameras) = Served
    BY <1>1, <2>3, MediaFacts
  <2>5. KeysOf(Discovery!MediaCameras) \subseteq KeysOf(Found)
    BY DEF KeysOf, Found
  <2> QED BY <2>4, <2>5, ScanResult
<1>5. CamerasInv'
  BY <1>1, <1>3, <1>4 DEF CamerasInv
<1>6. ASSUME NEW k \in DOMAIN cameras \cap Served, Discovery!KnownMedia # {}
      PROVE  k \in DOMAIN cameras' /\ cameras'[k] = cameras[k]
  <2>1. cameras[k] \in Found /\ cameras[k].key = k
    BY <1>1, <1>6, KnownFacts, MediaFacts DEF Found, CamerasInv
  <2> QED BY <1>6, <2>1, ScanResult DEF KeysOf
<1> QED BY <1>5, <1>6

LEMMA ScanLeds ==
    ASSUME DiscoveryInv, Discovery!Scan PROVE LedsInv'
<1>1. /\ CamerasInv /\ Wired /\ node \in [Discovery!Nodes -> {"absent", "created", "open"}]
      /\ LedsInv
  BY DEF DiscoveryInv
<1>2. PICK first : LedsGiven(Discovery!DiscoverCameras, first)
  BY <1>1, FoundFacts
<1>3. \A k \in DOMAIN cameras : IsCamera(cameras[k]) /\ cameras[k].key = k
  BY <1>1 DEF CamerasInv
<1>4. \A k \in DOMAIN cameras' : IsCamera(cameras'[k]) /\ cameras'[k].key = k
  BY ScanCameras DEF CamerasInv
<1>5. \A k \in DOMAIN cameras' : k \in Served \/ k \in PlainKeys
  BY <1>4, KeysApart DEF IsCamera
<1>6. SUFFICES ASSUME NEW k \in DOMAIN cameras'
      PROVE  \/ cameras'[k].leds = Own(k) \/ cameras'[k].leds = {}
             \/ /\ cameras'[k].leds = LedClass /\ k \in Served
                /\ \A j \in DOMAIN cameras' \cap Served : j # k => cameras'[j].leds = {}
  BY DEF LedsInv
<1>7. CASE k \in PlainKeys
  <2>1. k \notin Served
    BY <1>7, KeysApart
  <2>2. CASE k \in DOMAIN cameras /\ cameras'[k] = cameras[k]
    BY <1>1, <2>1, <2>2 DEF LedsInv
  <2>3. CASE cameras'[k] \in Discovery!DiscoverCameras /\ cameras'[k].key = k
    BY <1>2, <1>7, <2>3 DEF LedsGiven
  <2> QED BY <2>2, <2>3, ScanResult
<1>8. CASE k \in Served /\ Discovery!KnownMedia # {}
  <2>1. Served \subseteq DOMAIN cameras
    BY <1>1, <1>8, KnownFacts DEF CamerasInv, KeysOf, Discovery!KnownMedia
  <2>2. \A j \in Served : j \in DOMAIN cameras' /\ cameras'[j] = cameras[j]
    BY <1>8, <2>1, ScanCameras
  <2> QED BY <1>1, <1>8, <2>1, <2>2 DEF LedsInv
<1>9. CASE k \in Served /\ Discovery!KnownMedia = {}
  <2>1. \A j \in DOMAIN cameras' \cap Served :
           cameras'[j] \in Discovery!DiscoverCameras /\ cameras'[j].key = j
    BY <1>1, <1>9, KnownFacts, ScanResult
  <2>2. CASE cameras'[k].leds = Own(k)
    BY <2>2
  <2>3. CASE cameras'[k].leds # Own(k)
    <3>1. /\ cameras'[k].leds = LedClass /\ k = first
          /\ \A e \in Discovery!DiscoverCameras : e.key # first => e.leds = {}
      BY <1>2, <1>9, <2>1, <2>3 DEF LedsGiven
    <3> QED BY <1>9, <2>1, <3>1
  <2> QED BY <2>2, <2>3
<1> QED BY <1>5, <1>7, <1>8, <1>9

\* What the media device gives does not depend on the links that are enabled.
Probed == KeysOf(Discovery!ProbeMediaDevice) = Served
LEMMA ProbeKeys == Wired => Probed
  BY ProbeFacts DEF Probed

\* A scan finds everything that can be opened.
LEMMA ScanFinds ==
    ASSUME DiscoveryInv, Discovery!Scan PROVE FindsAll'
<1>1. /\ CamerasInv /\ Wired /\ node \in [Discovery!Nodes -> {"absent", "created", "open"}]
      /\ node' = node /\ enabled' = enabled /\ Wired'
  BY DEF DiscoveryInv, Discovery!Scan, Wired
<1>2. SUFFICES ASSUME \A n \in Discovery!Nodes : node[n] # "created"
      PROVE  /\ DOMAIN cameras' = Discovery!WouldFind'
             /\ \A k \in DOMAIN cameras' : cameras'[k].pipeline = <<>> =>
                   cameras'[k].path = Discovery!Min({n \in DOMAIN Plain :
                      Plain[n].key = k /\ node[n] = "open" /\ Discovery!IsCaptureNode(n)})
  BY <1>1 DEF FindsAll, Discovery!FindsAll
<1>3. \A n \in {MediaNode} \cup DOMAIN Plain : node[n] \in {"absent", "open"}
  BY <1>1, <1>2 DEF Discovery!Nodes
<1> DEFINE Ready == {Plain[n].key : n \in {m \in DOMAIN Plain : node[m] = "open" /\ Discovery!IsCaptureNode(m)}}
<1>4. Discovery!WouldFind' = (IF node[MediaNode] = "open" THEN Served ELSE {}) \cup Ready
  <2>1. KeysOf(Discovery!ProbeMediaDevice)' = Served
    <3>1. Wired' => Probed'
      BY ProbeKeys, PTL
    <3> QED BY <1>1, <3>1 DEF Probed
  <2> QED BY <1>1, <2>1 DEF Discovery!WouldFind, KeysOf
<1>5. KeysOf(Discovery!MediaCameras) = IF node[MediaNode] = "open" THEN Served ELSE {}
  <2>1. CASE node[MediaNode] = "open"
    BY <1>1, <2>1, MediaFacts
  <2>2. CASE node[MediaNode] # "open"
    <3>1. Discovery!MediaCameras = {}
      BY <1>1, <2>2, MediaFacts
    <3> QED BY <2>2, <3>1 DEF KeysOf
  <2> QED BY <2>1, <2>2
<1>6. \A c \in Discovery!PlainCameras :
         /\ IsPlain(c) /\ node[c.path] = "open"
         /\ \A n \in DOMAIN Plain :
               node[n] = "open" /\ Discovery!IsCaptureNode(n) /\ Plain[n].key = c.key => c.path <= n
  BY <1>1, <1>3, PlainFacts DEF IsPlain
<1>7. KeysOf(Discovery!PlainCameras) = Ready
  <2>1. \A c \in Discovery!PlainCameras : c.key \in Ready
    BY <1>6 DEF IsPlain
  <2>2. \A k \in Ready : \E c \in Discovery!PlainCameras : c.key = k
    BY <1>1, PlainFacts
  <2> HIDE DEF Ready
  <2> QED BY <2>1, <2>2 DEF KeysOf
<1>8. DOMAIN cameras' = Discovery!WouldFind'
  <2>1. KeysOf(Found) = KeysOf(Discovery!MediaCameras) \cup KeysOf(Discovery!PlainCameras)
    BY DEF KeysOf, Found
  <2> HIDE DEF Ready
  <2> QED BY <1>4, <1>5, <1>7, <2>1, ScanResult
<1>9. ASSUME NEW k \in DOMAIN cameras', cameras'[k].pipeline = <<>>
      PROVE  cameras'[k].path = Discovery!Min({n \in DOMAIN Plain :
                Plain[n].key = k /\ node[n] = "open" /\ Discovery!IsCaptureNode(n)})
  <2> DEFINE N == {n \in DOMAIN Plain :
                     Plain[n].key = k /\ node[n] = "open" /\ Discovery!IsCaptureNode(n)}
  <2>1. PICK c \in Found : c.key = k /\ c.path = cameras'[k].path
    <3>1. CASE cameras'[k] \in Discovery!DiscoverCameras /\ cameras'[k].key = k
      <4>1. PICK c \in Found : SameCamera(c, cameras'[k])
        BY <1>1, <3>1, FoundFacts DEF SameCameras
      <4> QED BY <3>1, <4>1 DEF SameCamera
    <3> QED BY <3>1, ScanResult
  <2>2. k \in PlainKeys
    BY <1>9, ScanCameras, KeysApart DEF CamerasInv, IsCamera
  <2>3. c \in Discovery!PlainCameras
    BY <1>1, <2>1, <2>2, MediaFacts, KeysApart DEF Found
  <2>4. c.path \in N /\ \A n \in N : c.path <= n
    BY <1>6, <2>1, <2>3 DEF IsPlain
  <2>5. N \in SUBSET Nat /\ N # {}
    BY <2>4, GraphAssumption
  <2>6. Discovery!Min(N) \in N /\ \A n \in N : Discovery!Min(N) <= n
    <3> HIDE DEF N
    <3> QED BY <2>5, LeastIsMin
  <2> HIDE DEF N
  <2>7. c.path = Discovery!Min(N)
    <3> DEFINE m == Discovery!Min(N)
    <3>1. c.path \in Nat /\ m \in Nat /\ c.path <= m /\ m <= c.path
      BY <2>4, <2>5, <2>6
    <3> HIDE DEF m
    <3>2. c.path = m
      BY <3>1
    <3> QED BY <3>2 DEF m
  <2> QED BY <2>1, <2>7 DEF N
<1> QED BY <1>8, <1>9

LEMMA ScanKeeps == DiscoveryInv /\ Discovery!Scan => DiscoveryInv'
<1> SUFFICES ASSUME DiscoveryInv, Discovery!Scan PROVE DiscoveryInv'
  OBVIOUS
<1>1. UNCHANGED <<node, enabled, setup>>
  BY DEF Discovery!Scan
<1>2. (node \in [Discovery!Nodes -> {"absent", "created", "open"}])' /\ Wired'
  BY <1>1 DEF DiscoveryInv, Discovery!Nodes, Discovery!Entities, Wired
<1>3. ASSUME setup.ok
      PROVE  setup.camera \in DOMAIN cameras' /\ cameras'[setup.camera] = cameras[setup.camera]
             /\ cameras[setup.camera].pipeline # <<>>
  <2>1. setup.camera \in DOMAIN cameras /\ cameras[setup.camera].pipeline # <<>> /\ CamerasInv
    BY <1>3 DEF DiscoveryInv
  <2>2. setup.camera \in Served
    BY <2>1, KeysApart DEF CamerasInv, IsCamera
  <2>3. Discovery!KnownMedia # {}
    BY <2>1, <2>2, KnownFacts
  <2> QED BY <2>1, <2>2, <2>3, ScanCameras
<1>4. StreamReaches'
  <2>1. StreamReaches
    BY DEF DiscoveryInv
  <2> QED BY <1>1, <1>3, <2>1 DEF StreamReaches, Discovery!StreamReaches
<1> QED BY <1>1, <1>2, <1>3, <1>4, ScanCameras, ScanLeds, ScanFinds DEF DiscoveryInv

-----------------------------------------------------------------------------
(* A session sets its pipeline up.                                         *)

LEMMA PipelineConfigured ==
    ASSUME DiscoveryInv, NEW k \in DOMAIN cameras, Discovery!Configure(k)
    PROVE  DiscoveryInv'
<1> DEFINE p == cameras[k].pipeline.path
<1>1. UNCHANGED <<node, unplugs, due, cameras>> /\ cameras[k].pipeline # <<>>
  BY DEF Discovery!Configure
<1>2. PICK format \in DOMAIN cameras[k].pipeline.formats, hops \in 0 .. Len(p), ok \in BOOLEAN :
         \E upto \in {0} \cup Discovery!SwitchedOff(p, DOMAIN p \cap {hops + 1}) :
            /\ ok => hops = Len(p)
            /\ enabled' = Discovery!EnableLinks(p, hops, upto)
            /\ setup' = [camera |-> k, ok |-> ok,
                         code |-> Discovery!PassOn(p, cameras[k].pipeline.formats[format])]
  BY DEF Discovery!Configure
<1>3. PICK upto \in {0} \cup Discovery!SwitchedOff(p, DOMAIN p \cap {hops + 1}) :
            /\ ok => hops = Len(p)
            /\ enabled' = Discovery!EnableLinks(p, hops, upto)
            /\ setup' = [camera |-> k, ok |-> ok,
                         code |-> Discovery!PassOn(p, cameras[k].pipeline.formats[format])]
  BY <1>2
<1>4. /\ k \in Served /\ Serves(k, cameras[k].pipeline) /\ Wired /\ CamerasInv
      /\ cameras[k].key = k
  BY <1>1, KeysApart DEF DiscoveryInv, CamerasInv, IsCamera, IsMedia
<1>5. p \in Paths(k)
  BY <1>4 DEF Serves
<1>6. /\ Chained(k, p) /\ p # <<>> /\ Len(p) \in Nat \ {0} /\ DOMAIN p = 1 .. Len(p)
      /\ \A i \in DOMAIN p : p[i] \in Links
      /\ Discovery!SinkOf(p) = Video(p)
  BY <1>5, PathFacts
<1> DEFINE off == Discovery!SwitchedOff(p, 1 .. hops)
                  \cup {id \in Discovery!SwitchedOff(p, DOMAIN p \cap {hops + 1}) : id <= upto}
           on == Discovery!SwitchedOn(p, 1 .. hops)
<1>7. enabled' = (enabled \ off) \cup on
  BY <1>3 DEF Discovery!EnableLinks
<1>8. \A l, m \in Links : l.id = m.id => l = m
  BY GraphAssumption
<1>9. ASSUME NEW l \in Links
      PROVE  /\ \A id : id \in Discovery!HopOps(l).off <=>
                   \E o \in Links : /\ o.id = id /\ o # l /\ o.sink = l.sink
                                    /\ id \in enabled /\ ~o.immutable
             /\ Discovery!HopOps(l).on \subseteq {l.id}
             /\ l.id \in enabled \/ l.immutable \/ l.id \in Discovery!HopOps(l).on
  BY DEF Discovery!HopOps, Discovery!LinkOf, Discovery!LinksIn
<1> HIDE DEF p
<1>10. ASSUME NEW id, id \in off
       PROVE  \E i \in DOMAIN p : \E o \in Links : /\ o.id = id /\ o # p[i] /\ o.sink = p[i].sink
                                                  /\ ~o.immutable
  <2>1. \E i \in DOMAIN p : id \in Discovery!HopOps(p[i]).off
    <3>1. \/ id \in Discovery!SwitchedOff(p, 1 .. hops)
          \/ id \in Discovery!SwitchedOff(p, DOMAIN p \cap {hops + 1})
      BY <1>10
    <3>2. 1 .. hops \subseteq DOMAIN p
      BY <1>6
    <3>3. DOMAIN p \cap {hops + 1} \subseteq DOMAIN p
      OBVIOUS
    <3>4. \A S : id \in Discovery!SwitchedOff(p, S) =>
                   \E i \in S : id \in Discovery!HopOps(p[i]).off
      BY DEF Discovery!SwitchedOff
    <3> QED BY <3>1, <3>2, <3>3, <3>4
  <2> QED BY <1>6, <1>9, <2>1
<1>11. ASSUME NEW id \in on PROVE \E i \in DOMAIN p : id = p[i].id
  <2>1. \E i \in DOMAIN p : id \in Discovery!HopOps(p[i]).on
    <3>1. \E i \in 1 .. hops : id \in Discovery!HopOps(p[i]).on
      BY <1>11 DEF Discovery!SwitchedOn
    <3> QED BY <1>6, <3>1
  <2> QED BY <1>6, <1>9, <2>1
<1>12. ASSUME hops = Len(p), NEW i \in DOMAIN p
       PROVE  Discovery!HopOps(p[i]).off \subseteq off /\ Discovery!HopOps(p[i]).on \subseteq on
  <2>1. i \in 1 .. hops
    BY <1>6, <1>12
  <2>2. Discovery!HopOps(p[i]).off \subseteq Discovery!SwitchedOff(p, 1 .. hops)
    BY <2>1 DEF Discovery!SwitchedOff
  <2>3. Discovery!HopOps(p[i]).on \subseteq Discovery!SwitchedOn(p, 1 .. hops)
    BY <2>1 DEF Discovery!SwitchedOn
  <2> QED BY <2>2, <2>3
<1> HIDE DEF off, on
<1>13. Wired'
  <2>1. ASSUME NEW l \in Links, l.immutable PROVE l.id \in enabled'
    <3>1. l.id \in enabled
      BY <1>4, <2>1 DEF Wired
    <3>2. l.id \notin off
      BY <1>8, <1>10, <2>1
    <3> QED BY <1>7, <3>1, <3>2
  <2> QED BY <1>1, <1>4, <2>1 DEF Wired
<1>14. \A i, j \in DOMAIN p : p[i].sink[1] = p[j].sink[1] => i = j
  <2> SUFFICES ASSUME NEW i \in DOMAIN p, NEW j \in DOMAIN p, p[i].sink[1] = p[j].sink[1], i # j
               PROVE  FALSE
    OBVIOUS
  <2>1. i \in Nat /\ j \in Nat /\ i \in 1 .. Len(p) /\ j \in 1 .. Len(p)
    BY <1>6
  <2>2. j \in 1 .. i - 1 \/ i \in 1 .. j - 1
    BY <2>1
  <2> QED BY <1>6, <2>2 DEF Chained
<1>15. ASSUME hops = Len(p), NEW i \in DOMAIN p
       PROVE  {l.id : l \in {m \in Discovery!LinksIn(p[i].sink) : m.id \in enabled' /\ ~m.immutable}}
                = IF p[i].immutable THEN {} ELSE {p[i].id}
  <2>1. p[i] \in Links
    BY <1>6
  <2>2. ASSUME NEW m \in Links, m.sink = p[i].sink, m.id \in enabled', ~m.immutable PROVE m = p[i]
    <3>1. CASE m.id \in on
      <4>1. PICK j \in DOMAIN p : m.id = p[j].id
        BY <1>11, <3>1
      <4>2. m = p[j]
        BY <1>6, <1>8, <4>1
      <4> QED BY <1>14, <2>2, <4>2
    <3>2. CASE m.id \notin on
      <4>1. m.id \in enabled /\ m.id \notin Discovery!HopOps(p[i]).off
        BY <1>7, <1>12, <1>15, <2>2, <3>2
      <4> QED BY <1>9, <2>1, <2>2, <4>1
    <3> QED BY <3>1, <3>2
  <2>3. ASSUME ~p[i].immutable PROVE p[i].id \in enabled'
    <3>1. CASE p[i].id \in enabled
      <4>1. p[i].id \notin off
        <5> SUFFICES ASSUME p[i].id \in off PROVE FALSE
          OBVIOUS
        <5>1. PICK j \in DOMAIN p : \E o \in Links : o.id = p[i].id /\ o # p[j] /\ o.sink = p[j].sink
          BY <1>10
        <5>2. p[i] # p[j] /\ p[i].sink = p[j].sink
          BY <1>8, <2>1, <5>1
        <5> QED BY <1>14, <5>2
      <4> QED BY <1>7, <3>1, <4>1
    <3>2. CASE p[i].id \notin enabled
      <4>1. p[i].id \in on
        BY <1>9, <1>12, <1>15, <2>1, <2>3, <3>2
      <4> QED BY <1>7, <4>1
    <3> QED BY <3>1, <3>2
  <2>4. \A m : m \in Discovery!LinksIn(p[i].sink) <=> m \in Links /\ m.sink = p[i].sink
    BY DEF Discovery!LinksIn
  <2>5. CASE p[i].immutable
    BY <2>2, <2>4, <2>5
  <2>6. CASE ~p[i].immutable
    BY <2>1, <2>2, <2>3, <2>4, <2>6
  <2> QED BY <2>5, <2>6
<1>16. StreamReaches'
  <2> SUFFICES ASSUME setup'.ok PROVE StreamReaches'
    BY DEF StreamReaches, Discovery!StreamReaches
  <2>1. hops = Len(p) /\ setup'.camera = k
        /\ setup'.code = Discovery!PassOn(p, cameras[k].pipeline.formats[format])
    BY <1>3
  <2>2. p[1].source[1] = k
    BY <1>6 DEF Chained
  <2>3. /\ format \in Processed \cup Isp
        /\ format \in NodeFormats[Video(p)][Discovery!PassOn(p, cameras[k].pipeline.formats[format])]
    BY <1>2, <1>4 DEF Serves, p
  <2>4. NodeFormats[Discovery!SinkOf(p)][setup'.code] \cap (Processed \cup Isp) # {}
    BY <1>6, <2>1, <2>3
  <2>5. \A i \in DOMAIN p :
          {l.id : l \in {m \in Discovery!LinksIn(p[i].sink) : m.id \in enabled' /\ ~m.immutable}}
             = IF p[i].immutable THEN {} ELSE {p[i].id}
    BY <1>15, <2>1
  <2>6. cameras'[setup'.camera].pipeline.path = p
    BY <1>1, <2>1 DEF p
  <2> QED BY <2>1, <2>2, <2>4, <2>5, <2>6 DEF StreamReaches, Discovery!StreamReaches
<1>17. /\ setup'.ok => setup'.camera \in DOMAIN cameras' /\ cameras'[setup'.camera].pipeline # <<>>
  BY <1>1, <1>3
<1>18. CamerasInv' /\ LedsInv' /\ (node \in [Discovery!Nodes -> {"absent", "created", "open"}])'
  BY <1>1 DEF DiscoveryInv, CamerasInv, LedsInv, Discovery!Nodes, Discovery!Entities
<1>19. FindsAll'
  <2>1. FindsAll
    BY DEF DiscoveryInv
  <2>2. Discovery!WouldFind' = Discovery!WouldFind
    <3>1. KeysOf(Discovery!ProbeMediaDevice)' = Served
      <4>1. Wired' => Probed'
        BY ProbeKeys, PTL
      <4> QED BY <1>13, <4>1 DEF Probed
    <3>2. KeysOf(Discovery!ProbeMediaDevice) = Served
      BY <1>4, ProbeFacts
    <3> QED BY <1>1, <3>1, <3>2 DEF Discovery!WouldFind, KeysOf
  <2> QED BY <1>1, <2>1, <2>2 DEF FindsAll, Discovery!FindsAll
<1> QED BY <1>13, <1>16, <1>17, <1>18, <1>19 DEF DiscoveryInv

\* The nodes of pipelines stay, a media device is not unplugged.
LEMMA NodeChanges ==
    ASSUME DiscoveryInv,
           \/ \E n \in Discovery!Nodes : Discovery!Appear(n)
           \/ \E n \in DOMAIN Plain : Discovery!Unplug(n)
    PROVE  DiscoveryInv'
<1>1. PICK n \in Discovery!Nodes, w \in {"absent", "created", "open"} :
         /\ node' = [node EXCEPT ![n] = w] /\ due' = TRUE
         /\ node[n] # "open" \/ n \in DOMAIN Plain
         /\ UNCHANGED <<cameras, enabled, setup>>
  <2>1. CASE \E n \in Discovery!Nodes : Discovery!Appear(n)
    BY <2>1 DEF Discovery!Appear
  <2>2. CASE \E n \in DOMAIN Plain : Discovery!Unplug(n)
    BY <2>2 DEF Discovery!Unplug, Discovery!Nodes
  <2> QED BY <2>1, <2>2
<1>2. node \in [Discovery!Nodes -> {"absent", "created", "open"}] /\ Wired
  BY DEF DiscoveryInv
<1>3. (node \in [Discovery!Nodes -> {"absent", "created", "open"}])'
  BY <1>1, <1>2 DEF Discovery!Nodes, Discovery!Entities
<1>4. \A e \in DOMAIN Function \cup {MediaNode} : node[e] = "open" => node'[e] = "open"
  BY <1>1, <1>2, GraphAssumption DEF Discovery!Nodes, Discovery!Entities
<1>5. Wired'
  BY <1>1, <1>2, <1>4 DEF Wired
<1>6. CamerasInv' /\ LedsInv'
  BY <1>1, <1>4 DEF DiscoveryInv, CamerasInv, LedsInv
<1>7. FindsAll' /\ StreamReaches'
  BY <1>1 DEF DiscoveryInv, FindsAll, Discovery!FindsAll, StreamReaches, Discovery!StreamReaches
<1> QED BY <1>1, <1>3, <1>5, <1>6, <1>7 DEF DiscoveryInv

LEMMA DiscoveryKeeps == DiscoveryInv /\ Discovery!Next => DiscoveryInv'
<1> SUFFICES ASSUME DiscoveryInv, Discovery!Next PROVE DiscoveryInv'
  OBVIOUS
<1>1. CASE Discovery!Scan
  BY <1>1, ScanKeeps
<1>2. CASE Discovery!Retry
  <2>1. UNCHANGED <<node, cameras, enabled, setup>> /\ due' = TRUE
    BY <1>2 DEF Discovery!Retry
  <2>2. FindsAll' /\ StreamReaches'
    BY <2>1 DEF DiscoveryInv, FindsAll, Discovery!FindsAll, StreamReaches, Discovery!StreamReaches
  <2>3. Wired' /\ CamerasInv' /\ LedsInv'
    BY <2>1 DEF DiscoveryInv, Wired, CamerasInv, LedsInv
  <2> QED BY <2>1, <2>2, <2>3 DEF DiscoveryInv, Discovery!Nodes, Discovery!Entities
<1>3. CASE \/ \E n \in Discovery!Nodes : Discovery!Appear(n)
           \/ \E n \in DOMAIN Plain : Discovery!Unplug(n)
  BY <1>3, NodeChanges
<1>4. CASE \E k \in DOMAIN cameras : Discovery!Configure(k)
  BY <1>4, PipelineConfigured
<1> QED BY <1>1, <1>2, <1>3, <1>4 DEF Discovery!Next

LEMMA DiscoveryStart == Discovery!Init => DiscoveryInv
<1> SUFFICES ASSUME Discovery!Init PROVE DiscoveryInv
  OBVIOUS
<1>1. /\ node \in [Discovery!Nodes -> {"absent", "created", "open"}]
      /\ \A n \in Discovery!Nodes \ Late : node[n] = "open"
      /\ due = TRUE /\ cameras = <<>> /\ setup.ok = FALSE
      /\ \A l \in Links : l.immutable => l.id \in enabled
  BY DEF Discovery!Init, Discovery!NoSession
<1>2. Wired
  BY <1>1, GraphAssumption DEF Wired, Discovery!Nodes, Discovery!Entities
<1>3. DOMAIN cameras = {}
  BY <1>1
<1>4. CamerasInv /\ LedsInv
  BY <1>3 DEF CamerasInv, LedsInv
<1>5. FindsAll /\ StreamReaches
  BY <1>1 DEF FindsAll, Discovery!FindsAll, StreamReaches, Discovery!StreamReaches
<1> QED BY <1>1, <1>2, <1>4, <1>5 DEF DiscoveryInv

LEMMA DiscoveryAlways == MCSpec => []DiscoveryInv
<1>1. MCInit => DiscoveryInv
  BY DiscoveryStart DEF MCInit
<1>2. DiscoveryInv /\ [MCNext]_all => DiscoveryInv'
  <2> SUFFICES ASSUME DiscoveryInv, [MCNext]_all PROVE DiscoveryInv'
    OBVIOUS
  <2>1. CASE UNCHANGED discovery
    <3>1. UNCHANGED <<node, unplugs, due, cameras, enabled, setup>>
      BY <2>1 DEF discovery
    <3>2. Discovery!WouldFind' = Discovery!WouldFind
      <4>1. Wired' /\ Wired
        BY <3>1 DEF Wired, DiscoveryInv
      <4>2. Wired' => Probed'
        BY ProbeKeys, PTL
      <4>3. KeysOf(Discovery!ProbeMediaDevice)' = KeysOf(Discovery!ProbeMediaDevice)
        BY <4>1, <4>2, ProbeKeys DEF Probed
      <4> QED BY <3>1, <4>3 DEF Discovery!WouldFind, KeysOf
    <3>3. FindsAll'
      BY <3>1, <3>2 DEF DiscoveryInv, FindsAll, Discovery!FindsAll
    <3>4. StreamReaches'
      <4>1. StreamReaches
        BY DEF DiscoveryInv
      <4> QED BY <3>1, <4>1 DEF StreamReaches, Discovery!StreamReaches
    <3>5. Wired' /\ CamerasInv' /\ LedsInv'
      BY <3>1 DEF DiscoveryInv, Wired, CamerasInv, LedsInv
    <3> QED BY <3>1, <3>3, <3>4, <3>5 DEF DiscoveryInv, Discovery!Nodes, Discovery!Entities
  <2>2. CASE Discovery!Next
    BY <2>2, DiscoveryKeeps
  <2> QED
    BY <2>1, <2>2 DEF MCNext, FlashNext, CaptureNext, DiscoveryNext, PlannerNext, ProviderNext, all
<1> QED BY <1>1, <1>2, PTL DEF MCSpec

LEMMA LightsApart == DiscoveryInv => LightsUnshared
<1> SUFFICES ASSUME DiscoveryInv, NEW j \in DOMAIN cameras, NEW k \in DOMAIN cameras, j # k
             PROVE  {Light[l] : l \in cameras[j].leds} \cap {Light[l] : l \in cameras[k].leds} = {}
  BY DEF LightsUnshared, Discovery!LightsUnshared
<1> DEFINE Lights(leds) == {Light[l] : l \in leds}
<1>1. /\ \A i \in {j, k} : i \in Served \/ i \in PlainKeys
      /\ j \in DOMAIN Facts /\ k \in DOMAIN Facts
  BY KeysApart DEF DiscoveryInv, CamerasInv, IsCamera
<1>2. Lights(Own(j)) \cap Lights(Own(k)) = {}
  <2>1. LET own == [i \in DOMAIN Facts |->
                   IF Facts[i].flash_led # {} THEN Facts[i].flash_led
                   ELSE IF i \in DOMAIN Function THEN LinkedFlash[i] ELSE {}]
        IN Lights(own[j]) \cap Lights(own[k]) = {}
    BY <1>1, LightsAssumption
  <2> QED BY <1>1, <2>1 DEF Own
<1>3. ASSUME NEW i \in {j, k}, i \in PlainKeys PROVE Lights(Own(i)) \cap Lights(LedClass) = {}
  <2>1. LET own == [h \in DOMAIN Facts |->
                   IF Facts[h].flash_led # {} THEN Facts[h].flash_led
                   ELSE IF h \in DOMAIN Function THEN LinkedFlash[h] ELSE {}]
        IN Lights(own[i]) \cap Lights(LedClass) = {}
    BY <1>3, LightsAssumption DEF PlainKeys
  <2> QED BY <1>1, <1>3, <2>1 DEF Own
<1>4. /\ \/ cameras[j].leds = Own(j) \/ cameras[j].leds = {}
         \/ /\ cameras[j].leds = LedClass /\ j \in Served
            /\ k \in Served => cameras[k].leds = {}
      /\ \/ cameras[k].leds = Own(k) \/ cameras[k].leds = {}
         \/ /\ cameras[k].leds = LedClass /\ k \in Served
            /\ j \in Served => cameras[j].leds = {}
  BY DEF DiscoveryInv, LedsInv
<1>5. Lights({}) = {}
  OBVIOUS
<1> HIDE DEF Lights
<1>6. Lights(cameras[j].leds) \cap Lights(cameras[k].leds) = {}
  BY <1>1, <1>2, <1>3, <1>4, <1>5
<1> QED BY <1>6 DEF Lights

-----------------------------------------------------------------------------
(* The modes of a camera and what is captured with them.                   *)

ModeRecords == [size : Nat \X Nat, duration : Nat, isp : BOOLEAN, compressed : BOOLEAN]
PlannerInv ==
    /\ modes_ \subseteq ModeRecords /\ IsFiniteSet(modes_) /\ modes_ # {}
    /\ PlannedAsOffered

\* A finite set of numbers has a greatest, which Max() finds.
LEMMA GreatestIsMax ==
    ASSUME NEW S \in SUBSET Nat, IsFiniteSet(S), S # {}
    PROVE  Planner!Max(S) \in S /\ \A n \in S : Planner!Max(S) >= n
<1> DEFINE R == {x \in S \X S : x[1] > x[2]}
<1>1. \A x, y \in S : <<x, y>> \in R <=> x > y
  OBVIOUS
<1> HIDE DEF R
<1>2. PICK x \in S : \A y \in S : <<y, x>> \notin R
  <2>1. \A x \in S : <<x, x>> \notin R
    BY <1>1
  <2>2. \A x, y, z \in S : <<x, y>> \in R /\ <<y, z>> \in R => <<x, z>> \in R
    BY <1>1
  <2> QED BY <2>1, <2>2, MinimalElement
<1>3. ASSUME NEW y \in S PROVE x >= y
  <2>1. <<y, x>> \notin R /\ x \in Nat /\ y \in Nat
    BY <1>2
  <2>2. ~(y > x)
    BY <1>1, <2>1
  <2> QED BY <2>1, <2>2
<1> QED BY <1>3 DEF Planner!Max

\* Every driver gives modes of some size and duration, finitely many.
LEMMA DurationsOfFormat ==
    ASSUME NEW f \in AllFormats
    PROVE  Planner!Min(Planner!EnumerateIntervals(f)) \in Nat
<1> DEFINE durations == (f.durations \cup
            UNION {{r.min} \cup (EnumDurations \cap r.min..r.max) : r \in f.range}) \ {0}
<1>1. /\ f.durations \subseteq Nat /\ f.current \subseteq Nat /\ EnumDurations \subseteq Nat
      /\ DefaultDuration \in Nat /\ \A r \in f.range : r.min \in Nat
  BY PlannerAssumption
<1>2. durations \in SUBSET Nat
  BY <1>1
<1>3. Planner!EnumerateIntervals(f) =
        IF durations # {} THEN durations ELSE IF f.current \ {0} # {} THEN f.current ELSE {DefaultDuration}
  BY DEF Planner!EnumerateIntervals
<1> HIDE DEF durations
<1>4. Planner!EnumerateIntervals(f) \in SUBSET Nat /\ Planner!EnumerateIntervals(f) # {}
  BY <1>1, <1>2, <1>3
<1> QED BY <1>4, LeastIsMin

LEMMA SizesOfFormat ==
    ASSUME NEW f \in AllFormats
    PROVE  Planner!EnumerateSizes(f) \subseteq Nat \X Nat /\ IsFiniteSet(Planner!EnumerateSizes(f))
<1> DEFINE of(r) == {s \in EnumSizes : \A i \in 1..2 : Planner!InStepRange(s[i], r.min[i], r.max[i], r.step)}
                       \cup {r.max}
           g == [r \in f.steps |-> of(r)]
           U == {g[r] : r \in f.steps}
<1>1. /\ IsFiniteSet(f.sizes) /\ f.sizes \subseteq Nat \X Nat
      /\ IsFiniteSet(f.largest) /\ f.largest \subseteq Nat \X Nat
      /\ IsFiniteSet(f.steps) /\ \A r \in f.steps : r.max \in Nat \X Nat
      /\ IsFiniteSet(EnumSizes) /\ EnumSizes \subseteq Nat \X Nat
  BY PlannerAssumption
<1>2. ASSUME NEW r \in f.steps PROVE IsFiniteSet(of(r)) /\ of(r) \subseteq Nat \X Nat
  <2> DEFINE A == {s \in EnumSizes : \A i \in 1..2 : Planner!InStepRange(s[i], r.min[i], r.max[i], r.step)}
  <2>1. A \subseteq EnumSizes
    OBVIOUS
  <2> HIDE DEF A
  <2>2. IsFiniteSet(A) /\ IsFiniteSet({r.max})
    BY <1>1, <2>1, FS_Subset, FS_Singleton
  <2>3. IsFiniteSet(A \cup {r.max})
    BY <2>2, FS_Union
  <2>4. A \cup {r.max} \subseteq Nat \X Nat
    BY <1>1, <2>1
  <2> QED BY <2>3, <2>4 DEF A
<1>3. IsFiniteSet(U)
  <2>1. DOMAIN g = f.steps /\ g = [r \in f.steps |-> g[r]]
    OBVIOUS
  <2> HIDE DEF g
  <2> QED BY <1>1, <2>1, FiniteRange
<1>4. U = {of(r) : r \in f.steps}
  OBVIOUS
<1>5. Planner!EnumerateSizes(f) =
        IF f.sizes \cup UNION {of(r) : r \in f.steps} # {}
        THEN f.sizes \cup UNION {of(r) : r \in f.steps} ELSE f.largest
  BY DEF Planner!EnumerateSizes
<1> HIDE DEF of, U
<1>6. IsFiniteSet(UNION U) /\ UNION U \subseteq Nat \X Nat
  <2>1. \A s \in U : IsFiniteSet(s) /\ s \subseteq Nat \X Nat
    BY <1>2, <1>4
  <2> QED BY <1>3, <2>1, FiniteUnion
<1>7. IsFiniteSet(f.sizes \cup UNION U) /\ f.sizes \cup UNION U \subseteq Nat \X Nat
  BY <1>1, <1>6, FS_Union
<1> QED BY <1>1, <1>4, <1>5, <1>7

LEMMA ModesOfFormats ==
    ASSUME NEW formats \in SUBSET AllFormats
    PROVE  Planner!ModesOf(formats) \subseteq ModeRecords /\ IsFiniteSet(Planner!ModesOf(formats))
<1> DEFINE mode(f, s) == [size |-> s, duration |-> Planner!Min(Planner!EnumerateIntervals(f)), isp |-> f.isp,
                          compressed |-> f.compressed]
           sizes(f) == {t \in Planner!EnumerateSizes(f) : t[1] > 0 /\ t[2] > 0}
           of(f) == {mode(f, s) : s \in sizes(f)}
           g == [f \in formats |-> of(f)]
           U == {g[f] : f \in formats}
<1>1. ASSUME NEW f \in formats PROVE IsFiniteSet(of(f)) /\ of(f) \subseteq ModeRecords
  <2>1. Planner!EnumerateSizes(f) \subseteq Nat \X Nat /\ IsFiniteSet(Planner!EnumerateSizes(f))
    BY SizesOfFormat
  <2>2. sizes(f) \subseteq Nat \X Nat /\ IsFiniteSet(sizes(f))
    BY <2>1, FS_Subset
  <2> DEFINE h == [s \in sizes(f) |-> mode(f, s)]
  <2>3. IsFiniteSet({h[s] : s \in sizes(f)})
    <3>1. DOMAIN h = sizes(f) /\ h = [s \in sizes(f) |-> h[s]]
      OBVIOUS
    <3> HIDE DEF h, sizes, mode
    <3> QED BY <2>2, <3>1, FiniteRange
  <2>4. {h[s] : s \in sizes(f)} = of(f)
    <3> HIDE DEF sizes, mode
    <3> QED OBVIOUS
  <2>5. /\ Planner!Min(Planner!EnumerateIntervals(f)) \in Nat
        /\ f.isp \in BOOLEAN /\ f.compressed \in BOOLEAN
    BY DurationsOfFormat, PlannerAssumption
  <2>6. of(f) \subseteq ModeRecords
    <3> HIDE DEF sizes
    <3> QED BY <2>2, <2>5 DEF ModeRecords
  <2> QED BY <2>3, <2>4, <2>6
<1>2. IsFiniteSet(formats)
  BY PlannerAssumption, FS_Subset
<1>3. IsFiniteSet(U)
  <2>1. DOMAIN g = formats /\ g = [f \in formats |-> g[f]]
    OBVIOUS
  <2> HIDE DEF g
  <2> QED BY <1>2, <2>1, FiniteRange
<1>4. U = {of(f) : f \in formats}
  <2> HIDE DEF of
  <2> QED OBVIOUS
<1>5. Planner!ModesOf(formats) = UNION {of(f) : f \in formats}
  BY DEF Planner!ModesOf
<1> HIDE DEF of, U
<1>6. \A s \in U : IsFiniteSet(s) /\ s \subseteq ModeRecords
  BY <1>1, <1>4
<1>7. IsFiniteSet(UNION U)
  BY <1>3, <1>6, FiniteUnion
<1> QED BY <1>4, <1>5, <1>6, <1>7

LEMMA ModeFacts ==
    ASSUME modes_ \subseteq ModeRecords, IsFiniteSet(modes_), modes_ # {}
    PROVE  /\ Planner!MaxSize \in {m.size : m \in modes_}
           /\ \A o \in Planner!OutputSizes :
                 /\ o.size \in Nat \X Nat
                 /\ \E n \in modes_ : Planner!Contains(n.size, o.size) /\ n.duration = o.duration
           /\ IsFiniteSet({o.size : o \in Planner!OutputSizes})
<1> DEFINE Sizes == {m.size : m \in modes_}
           f == [m \in modes_ |-> m.size]
           Fitting == {t \in StandardSizes : Planner!Contains(Planner!MaxSize, t)}
           Offered == Sizes \cup Fitting
           R == {x \in Sizes \X Sizes : Planner!Area(x[1]) > Planner!Area(x[2])}
<1>1. \A m \in modes_ : m.size \in Nat \X Nat /\ m.duration \in Nat
  BY DEF ModeRecords
<1>2. IsFiniteSet(Sizes) /\ Sizes # {} /\ Sizes \subseteq Nat \X Nat
  <2>1. IsFiniteSet({f[m] : m \in modes_})
    <3>1. DOMAIN f = modes_ /\ f = [m \in modes_ |-> f[m]]
      OBVIOUS
    <3> HIDE DEF f
    <3> QED BY <3>1, FiniteRange
  <2>2. {f[m] : m \in modes_} = Sizes
    OBVIOUS
  <2> QED BY <1>1, <2>1, <2>2
<1>3. \A s \in Nat \X Nat : Planner!Area(s) \in Nat
  <2> SUFFICES ASSUME NEW a \in Nat, NEW b \in Nat PROVE a * b \in Nat
    BY DEF Planner!Area
  <2> QED OBVIOUS
<1>4. \A x, y \in Sizes : <<x, y>> \in R <=> Planner!Area(x) > Planner!Area(y)
  <2> HIDE DEF Sizes
  <2> QED OBVIOUS
<1> HIDE DEF R
<1>5. PICK s \in Sizes : \A t \in Sizes : <<t, s>> \notin R
  <2> HIDE DEF Sizes
  <2>1. \A t \in Sizes : Planner!Area(t) \in Nat
    BY <1>2, <1>3
  <2>2. \A x \in Sizes : <<x, x>> \notin R
    BY <1>4, <2>1
  <2>3. \A x, y, z \in Sizes : <<x, y>> \in R /\ <<y, z>> \in R => <<x, z>> \in R
    BY <1>4, <2>1
  <2> QED BY <1>2, <2>2, <2>3, MinimalElement
<1>6. \A m \in modes_ : Planner!Area(m.size) <= Planner!Area(s)
  <2> SUFFICES ASSUME NEW m \in modes_ PROVE Planner!Area(m.size) <= Planner!Area(s)
    OBVIOUS
  <2>1. m.size \in Sizes
    OBVIOUS
  <2> HIDE DEF Sizes
  <2>2. ~(Planner!Area(m.size) > Planner!Area(s))
    BY <1>4, <1>5, <2>1
  <2>3. Planner!Area(m.size) \in Nat /\ Planner!Area(s) \in Nat
    BY <1>2, <1>3, <2>1
  <2> QED BY <2>2, <2>3
<1>7. Planner!MaxSize \in Sizes
  BY <1>5, <1>6 DEF Planner!MaxSize
<1>8. Planner!OutputSizes =
        {[size |-> t, duration |-> Planner!Min({m.duration : m \in {n \in modes_ : Planner!Contains(n.size, t)}})]
           : t \in Offered}
  BY DEF Planner!OutputSizes
<1>9. ASSUME NEW t \in Offered
      PROVE  t \in Nat \X Nat /\ \E n \in modes_ : Planner!Contains(n.size, t)
  <2>1. CASE t \in Sizes
    <3>1. PICK n \in modes_ : n.size = t
      BY <2>1
    <3>2. Planner!Contains(t, t)
      BY <1>1, <3>1 DEF Planner!Contains
    <3> QED BY <1>1, <3>1, <3>2
  <2>2. CASE t \in Fitting
    <3>1. t \in Nat \X Nat /\ Planner!Contains(Planner!MaxSize, t)
      BY <2>2, PlannerAssumption
    <3> QED BY <1>7, <3>1
  <2> QED BY <2>1, <2>2
<1> HIDE DEF Offered
<1>10. ASSUME NEW o \in Planner!OutputSizes
       PROVE  /\ o.size \in Offered
              /\ \E n \in modes_ : Planner!Contains(n.size, o.size) /\ n.duration = o.duration
  <2>1. PICK t \in Offered :
          o = [size |-> t, duration |-> Planner!Min({m.duration : m \in {n \in modes_ : Planner!Contains(n.size, t)}})]
    BY <1>8
  <2> DEFINE D == {m.duration : m \in {n \in modes_ : Planner!Contains(n.size, t)}}
  <2>2. D \in SUBSET Nat /\ D # {}
    BY <1>1, <1>9
  <2>3. Planner!Min(D) \in D
    <3> HIDE DEF D
    <3> QED BY <2>2, LeastIsMin
  <2>4. o.size = t /\ o.duration = Planner!Min(D)
    BY <2>1
  <2>5. PICK n \in modes_ : Planner!Contains(n.size, t) /\ Planner!Min(D) = n.duration
    <3> DEFINE least == Planner!Min(D)
    <3>1. least \in D
      BY <2>3
    <3> HIDE DEF least
    <3>2. \E n \in modes_ : Planner!Contains(n.size, t) /\ least = n.duration
      BY <3>1
    <3> QED BY <3>2 DEF least
  <2> HIDE DEF D
  <2> QED BY <2>4, <2>5
<1>11. IsFiniteSet({o.size : o \in Planner!OutputSizes})
  <2>1. IsFiniteSet(Fitting)
    <3>1. Fitting \subseteq StandardSizes
      OBVIOUS
    <3> HIDE DEF Fitting
    <3> QED BY <3>1, PlannerAssumption, FS_Subset
  <2>2. IsFiniteSet(Offered)
    <3> HIDE DEF Sizes, Fitting
    <3> QED BY <1>2, <2>1, FS_Union DEF Offered
  <2>3. {o.size : o \in Planner!OutputSizes} \subseteq Offered
    BY <1>10
  <2> QED BY <2>2, <2>3, FS_Subset
<1> QED BY <1>7, <1>9, <1>10, <1>11

\* The scores of modes are compared as words are, too.
LEMMA ScoreFacts ==
    ASSUME modes_ \subseteq ModeRecords
    PROVE  /\ \A m \in modes_ : Planner!Score(m) \in [1 .. 4 -> Nat]
           /\ \A m, n \in modes_ : Planner!Less(Planner!Score(m), Planner!Score(n))
                                     <=> Discovery!Before(Planner!Score(m), Planner!Score(n))
<1>1. ASSUME NEW m \in modes_ PROVE Planner!Score(m) \in [1 .. 4 -> Nat]
  <2>1. m.duration \in Nat /\ m.size \in Nat \X Nat /\ Preferred \in Nat
    BY PlannerAssumption DEF ModeRecords
  <2>2. Planner!Larger(m.duration, Preferred) \in Nat
    BY <2>1 DEF Planner!Larger
  <2>3. Planner!Area(m.size) \in Nat
    <3>1. \A a, b \in Nat : a * b \in Nat
      OBVIOUS
    <3> QED BY <2>1, <3>1 DEF Planner!Area
  <2>4. Planner!Number(m.isp) \in Nat /\ Planner!Number(m.compressed) \in Nat
    BY DEF Planner!Number
  <2> QED BY <2>2, <2>3, <2>4 DEF Planner!Score
<1>2. ASSUME NEW a \in [1 .. 4 -> Nat], NEW b \in [1 .. 4 -> Nat]
      PROVE  Planner!Less(a, b) <=> Discovery!Before(a, b)
  BY DEF Planner!Less, Discovery!Before
<1> QED BY <1>1, <1>2

\* What is planned contains the outputs, and a single one it captures as fast as
\* any mode that contains it.
LEMMA PlanFacts ==
    ASSUME modes_ \subseteq ModeRecords, IsFiniteSet(modes_),
           NEW sizes \in SUBSET (Nat \X Nat), IsFiniteSet(sizes), sizes # {}
    PROVE  /\ \A m \in Planner!Plan(sizes) : m \in modes_ /\ \A s \in sizes : Planner!Contains(m.size, s)
           /\ \A s : sizes = {s} /\ (\E n \in modes_ : Planner!Contains(n.size, s)) => Planner!Plan(sizes) # {}
           /\ \A s, m, n : /\ sizes = {s} /\ m \in Planner!Plan(sizes)
                           /\ n \in modes_ /\ Planner!Contains(n.size, s)
                           => Planner!Larger(m.duration, Preferred) <= Planner!Larger(n.duration, Preferred)
<1> DEFINE widths == {s[1] : s \in sizes}
           heights == {s[2] : s \in sizes}
           needed == <<Planner!Max(widths), Planner!Max(heights)>>
           fit == {m \in modes_ : Planner!Contains(m.size, needed)}
<1>1. Planner!Plan(sizes) = {m \in fit : \A n \in fit : ~Planner!Less(Planner!Score(n), Planner!Score(m))}
  BY DEF Planner!Plan
<1>2. \A m \in modes_ : m.size \in Nat \X Nat /\ m.duration \in Nat
  BY DEF ModeRecords
<1>3. ASSUME NEW i \in {1, 2}
      PROVE  /\ {s[i] : s \in sizes} \in SUBSET Nat /\ {s[i] : s \in sizes} # {}
             /\ Planner!Max({s[i] : s \in sizes}) \in {s[i] : s \in sizes}
             /\ \A n \in {s[i] : s \in sizes} : Planner!Max({s[i] : s \in sizes}) >= n
  <2> DEFINE S == {s[i] : s \in sizes}
             f == [s \in sizes |-> s[i]]
  <2>1. IsFiniteSet({f[s] : s \in sizes})
    <3>1. DOMAIN f = sizes /\ f = [s \in sizes |-> f[s]]
      OBVIOUS
    <3> HIDE DEF f
    <3> QED BY <3>1, FiniteRange
  <2>2. {f[s] : s \in sizes} = S
    OBVIOUS
  <2>3. S \in SUBSET Nat /\ S # {}
    OBVIOUS
  <2> HIDE DEF S, f
  <2>4. Planner!Max(S) \in S /\ \A n \in S : Planner!Max(S) >= n
    BY <2>1, <2>2, <2>3, GreatestIsMax
  <2> QED BY <2>3, <2>4 DEF S
<1>4. /\ needed[1] \in widths /\ \A w \in widths : needed[1] >= w
      /\ needed[2] \in heights /\ \A h \in heights : needed[2] >= h
      /\ widths \subseteq Nat /\ heights \subseteq Nat
  BY <1>3
<1> HIDE DEF needed
<1>5. ASSUME NEW m \in fit, NEW s \in sizes PROVE Planner!Contains(m.size, s)
  <2>1. s[1] \in widths /\ s[2] \in heights
    OBVIOUS
  <2> HIDE DEF widths, heights
  <2>2. needed[1] >= s[1] /\ needed[2] >= s[2] /\ needed[1] \in Nat /\ needed[2] \in Nat
        /\ s[1] \in Nat /\ s[2] \in Nat
    BY <1>4, <2>1
  <2>3. m.size[1] >= needed[1] /\ m.size[2] >= needed[2] /\ m.size[1] \in Nat /\ m.size[2] \in Nat
    BY <1>2 DEF Planner!Contains
  <2> QED BY <2>2, <2>3 DEF Planner!Contains
<1>6. ASSUME NEW s, sizes = {s}, NEW n \in modes_, Planner!Contains(n.size, s) PROVE n \in fit
  <2>1. needed[1] = s[1] /\ needed[2] = s[2]
    BY <1>4, <1>6
  <2> QED BY <1>6, <2>1 DEF Planner!Contains
<1>7. fit \subseteq modes_ /\ IsFiniteSet(fit)
  BY FS_Subset
<1> HIDE DEF fit
<1> DEFINE R == {x \in fit \X fit : Planner!Less(Planner!Score(x[1]), Planner!Score(x[2]))}
<1>8. \A x, y \in fit : <<x, y>> \in R <=> Planner!Less(Planner!Score(x), Planner!Score(y))
  OBVIOUS
<1> HIDE DEF R
<1>9. \A m \in fit : Planner!Score(m) \in [1 .. 4 -> Nat]
  BY <1>7, ScoreFacts
<1>10. \A x, y \in fit : <<x, y>> \in R <=> Discovery!Before(Planner!Score(x), Planner!Score(y))
  BY <1>7, <1>8, ScoreFacts
<1>11. ASSUME fit # {} PROVE Planner!Plan(sizes) # {}
  <2>1. \A x \in fit : <<x, x>> \notin R
    <3> SUFFICES ASSUME NEW x \in fit, <<x, x>> \in R PROVE FALSE
      OBVIOUS
    <3>1. PICK i \in DOMAIN Planner!Score(x) : Planner!Score(x)[i] < Planner!Score(x)[i]
      BY <1>10 DEF Discovery!Before
    <3>2. Planner!Score(x)[i] \in Nat
      BY <1>9, <3>1
    <3> QED BY <3>1, <3>2
  <2>2. \A x, y, z \in fit : <<x, y>> \in R /\ <<y, z>> \in R => <<x, z>> \in R
    BY <1>9, <1>10, BeforeTransitive
  <2>3. PICK m \in fit : \A n \in fit : <<n, m>> \notin R
    BY <1>7, <1>11, <2>1, <2>2, MinimalElement
  <2> QED BY <1>1, <1>8, <2>3
<1>12. ASSUME NEW s, sizes = {s}, NEW m \in Planner!Plan(sizes), NEW n \in modes_, Planner!Contains(n.size, s)
       PROVE  Planner!Larger(m.duration, Preferred) <= Planner!Larger(n.duration, Preferred)
  <2>1. m \in fit /\ n \in fit
    BY <1>1, <1>6, <1>12
  <2>2. ~Discovery!Before(Planner!Score(n), Planner!Score(m))
    BY <1>1, <1>8, <1>10, <2>1
  <2>3. ~(Planner!Score(n)[1] < Planner!Score(m)[1])
    BY <1>9, <2>1, <2>2 DEF Discovery!Before
  <2>4. /\ Planner!Score(n)[1] = Planner!Larger(n.duration, Preferred)
        /\ Planner!Score(m)[1] = Planner!Larger(m.duration, Preferred)
    BY DEF Planner!Score
  <2>5. Planner!Score(n)[1] \in Nat /\ Planner!Score(m)[1] \in Nat
    BY <1>9, <2>1
  <2> QED BY <2>3, <2>4, <2>5
<1>13. \A m \in Planner!Plan(sizes) : m \in modes_ /\ m \in fit
  BY <1>1, <1>7
<1> QED BY <1>5, <1>6, <1>11, <1>12, <1>13

LEMMA PlannerKeeps == PlannerInv /\ Planner!Configure => PlannerInv'
<1> SUFFICES ASSUME PlannerInv, Planner!Configure PROVE PlannerInv'
  OBVIOUS
<1>1. modes_ \subseteq ModeRecords /\ IsFiniteSet(modes_) /\ modes_ # {} /\ modes_' = modes_
  BY DEF PlannerInv, Planner!Configure
<1>2. PICK sizes \in SUBSET {o.size : o \in Planner!OutputSizes} :
         /\ Planner!Cardinality(sizes) \in 1 .. 2 /\ outputs' = sizes /\ planned' = Planner!Plan(sizes)
  BY DEF Planner!Configure
<1>3. /\ sizes \in SUBSET (Nat \X Nat) /\ IsFiniteSet(sizes) /\ sizes # {}
  <2>1. IsFiniteSet(sizes)
    BY <1>1, <1>2, ModeFacts, FS_Subset
  <2>2. sizes # {}
    BY <1>2, SameCardinality, FS_EmptySet
  <2> QED BY <1>1, <1>2, <2>1, <2>2, ModeFacts
<1>4. \A m \in planned' : \A s \in outputs' : Planner!Contains(m.size, s)
  BY <1>1, <1>2, <1>3, PlanFacts
<1>5. ASSUME Planner!Cardinality(outputs') = 1
      PROVE  /\ planned' # {}
             /\ \A m \in planned' : \A o \in Planner!OutputSizes : o.size \in outputs' =>
                  Planner!Larger(m.duration, Preferred) <= Planner!Larger(o.duration, Preferred)
  <2>1. PICK s : sizes = {s}
    BY <1>2, <1>3, <1>5, SameCardinality, FS_Singleton
  <2>2. PICK o \in Planner!OutputSizes : o.size = s
    BY <1>2, <2>1
  <2>3. planned' # {}
    BY <1>1, <1>2, <1>3, <2>1, <2>2, ModeFacts, PlanFacts
  <2>4. ASSUME NEW m \in planned', NEW x \in Planner!OutputSizes, x.size \in outputs'
        PROVE  Planner!Larger(m.duration, Preferred) <= Planner!Larger(x.duration, Preferred)
    <3>1. x.size = s
      BY <1>2, <2>1, <2>4
    <3>2. PICK n \in modes_ : Planner!Contains(n.size, s) /\ n.duration = x.duration
      BY <1>1, <3>1, ModeFacts
    <3> QED BY <1>1, <1>2, <1>3, <2>1, <3>2, PlanFacts
  <2> QED BY <2>3, <2>4
<1>6. Planner!OutputSizes' = Planner!OutputSizes
  BY <1>1 DEF Planner!OutputSizes, Planner!MaxSize
<1>7. PlannedAsOffered'
  BY <1>4, <1>5, <1>6 DEF PlannedAsOffered, Planner!PlannedAsOffered
<1> QED BY <1>1, <1>7 DEF PlannerInv

LEMMA PlannerStart == Planner!Init => PlannerInv
<1> SUFFICES ASSUME Planner!Init PROVE PlannerInv
  OBVIOUS
<1>1. /\ \E formats \in SUBSET AllFormats : modes_ = Planner!ModesOf(formats)
      /\ modes_ # {} /\ outputs = {} /\ planned = {}
  BY DEF Planner!Init
<1>2. modes_ \subseteq ModeRecords /\ IsFiniteSet(modes_)
  BY <1>1, ModesOfFormats
<1>3. Planner!Cardinality(outputs) # 1
  BY <1>1, SameCardinality, FS_EmptySet
<1>4. PlannedAsOffered
  BY <1>1, <1>3 DEF PlannedAsOffered, Planner!PlannedAsOffered
<1> QED BY <1>1, <1>2, <1>4 DEF PlannerInv

LEMMA PlannerAlways == MCSpec => []PlannerInv
<1>1. MCInit => PlannerInv
  BY PlannerStart DEF MCInit
<1>2. PlannerInv /\ [MCNext]_all => PlannerInv'
  <2> SUFFICES ASSUME PlannerInv, [MCNext]_all PROVE PlannerInv'
    OBVIOUS
  <2>1. CASE UNCHANGED planner
    <3>1. UNCHANGED <<modes_, outputs, planned>>
      BY <2>1 DEF planner
    <3>2. Planner!OutputSizes' = Planner!OutputSizes
      BY <3>1 DEF Planner!OutputSizes, Planner!MaxSize
    <3>3. PlannedAsOffered
      BY DEF PlannerInv
    <3>4. PlannedAsOffered'
      BY <3>1, <3>2, <3>3 DEF PlannedAsOffered, Planner!PlannedAsOffered
    <3> QED BY <3>1, <3>4 DEF PlannerInv
  <2>2. CASE Planner!Configure
    BY <2>2, PlannerKeeps
  <2> QED
    BY <2>1, <2>2 DEF MCNext, FlashNext, CaptureNext, DiscoveryNext, PlannerNext, ProviderNext, all
<1> QED BY <1>1, <1>2, PTL DEF MCSpec

\* Whatever nodes come and go, get their permissions late and are scanned
\* meanwhile, and whatever sessions set up or fail to: a scan that was not
\* overtaken publishes every camera that can be opened; a configured pipeline
\* brings the stream of its sensor and of no other to a node that captures it; no
\* light is given to two cameras; and a size that is offered is captured by a
\* mode that is no slower than was announced (DiscoverCameras, Rescan,
\* AssignFlashLeds, FindPaths, PipelineController::EnableLinks, Plan).
THEOREM CamerasSoundAlways == MCSpec => []CamerasSound
<1>1. DiscoveryInv => FindsAll /\ StreamReaches
  BY DEF DiscoveryInv
<1>2. PlannerInv => PlannedAsOffered
  BY DEF PlannerInv
<1>3. DiscoveryInv /\ PlannerInv => CamerasSound
  BY <1>1, <1>2, LightsApart DEF CamerasSound
<1> QED BY <1>3, DiscoveryAlways, PlannerAlways, PTL
=============================================================================
