----------------------------- MODULE CameraFlash -----------------------------
(***************************************************************************)
(* The flash of a camera (camera flash/Flash.cpp): a torch while the camera*)
(* is closed, the session's flash while it is open.  CameraDevice.cpp opens*)
(* sessions, forwards torch calls and disconnects; a session lights it and *)
(* releases it when it is closed or destroyed.                             *)
(*                                                                         *)
(* Every critical section of Flash::lock_ is one action.  disconnected_ is *)
(* read outside of it.  Brightness is reduced to which use lights the LEDs.*)
(***************************************************************************)
EXTENDS Naturals, FiniteSets

CONSTANTS
    Callers,      \* binder threads that make torch calls
    Sessions      \* sessions that may be opened, in this order

ASSUME FlashAssumption == Sessions \subseteq Nat \ {0}

NoSession == 0

VARIABLES
    disconnected,   \* CameraDevice::disconnected_
    detached,       \* Disconnect() is through
    acquired, torchOn, listener,   \* Flash: acquired_, torch_on_, listener_ set
    led,            \* what lights the LEDs: "off", "torch" or "flash"
    torch,          \* torch calls in progress: "idle", "on", "off" or "level"
    session,        \* state of every session
    current,        \* the session session_ refers to
    opening,        \* open(): "idle", "checked" or "acquired"
    told,           \* the torch status the framework heard last
    overlapped      \* history: an open() met the destructor of a session

flash == <<acquired, torchOn, listener, led>>
device == <<disconnected, detached>>
vars == <<device, flash, torch, session, current, opening, told, overlapped>>

Init ==
    /\ disconnected = FALSE /\ detached = FALSE
    /\ acquired = FALSE /\ torchOn = FALSE /\ listener = TRUE /\ led = "off"
    /\ torch = [c \in Callers |-> "idle"]
    /\ session = [s \in Sessions |-> "none"]
    /\ current = NoSession /\ opening = "idle"
    /\ told = "off"
    /\ overlapped = FALSE

NotifyLocked(status) == told' = IF listener THEN status ELSE told

-----------------------------------------------------------------------------
(* Flash. *)

SetTorch(on) ==
    \/ /\ acquired
       /\ UNCHANGED <<flash, told>>
    \/ /\ ~acquired
       /\ torchOn' = on
       /\ led' = IF on THEN "torch" ELSE "off"
       /\ NotifyLocked(IF on THEN "on" ELSE "off")
       /\ UNCHANGED <<acquired, listener>>

\* Mutant: the first level is not reported either.
LevelIsNewsNever == FALSE

\* Only reported when the torch was off.
LevelIsNews == ~torchOn

SetTorchLevel ==
    \/ /\ acquired
       /\ UNCHANGED <<flash, told>>
    \/ /\ ~acquired
       /\ torchOn' = TRUE /\ led' = "torch"
       /\ IF LevelIsNews THEN NotifyLocked("on") ELSE UNCHANGED told
       /\ UNCHANGED <<acquired, listener>>

\* Mutant: a session takes the flash over as it is.
AcquireLit ==
    \/ acquired /\ UNCHANGED <<flash, told>>
    \/ /\ ~acquired
       /\ acquired' = TRUE /\ torchOn' = FALSE /\ NotifyLocked("unavailable")
       /\ UNCHANGED <<led, listener>>

Acquire ==
    \/ acquired /\ UNCHANGED <<flash, told>>
    \/ /\ ~acquired
       /\ acquired' = TRUE /\ torchOn' = FALSE /\ led' = "off"
       /\ NotifyLocked("unavailable")
       /\ UNCHANGED listener

Release ==
    \/ ~acquired /\ UNCHANGED <<flash, told>>
    \/ /\ acquired
       /\ acquired' = FALSE /\ led' = "off"
       /\ NotifyLocked("off")
       /\ UNCHANGED <<torchOn, listener>>

SetLit(lit) ==
    /\ led' = IF acquired THEN (IF lit THEN "flash" ELSE "off") ELSE led
    /\ UNCHANGED <<acquired, torchOn, listener, told>>

Detach ==
    /\ listener' = FALSE /\ acquired' = FALSE /\ torchOn' = FALSE /\ led' = "off"
    /\ UNCHANGED told

-----------------------------------------------------------------------------
(* CameraDevice. *)

\* setTorchMode() or turnOnTorchWithStrengthLevel() found the camera connected.
TorchCall(c, what) ==
    /\ torch[c] = "idle" /\ ~disconnected
    /\ torch' = [torch EXCEPT ![c] = what]
    /\ UNCHANGED <<device, flash, session, current, opening, told, overlapped>>

TorchApplies(c) ==
    /\ torch[c] # "idle"
    /\ IF torch[c] = "level" THEN SetTorchLevel ELSE SetTorch(torch[c] = "on")
    /\ torch' = [torch EXCEPT ![c] = "idle"]
    /\ UNCHANGED <<device, session, current, opening, overlapped>>

OpenCall ==
    /\ opening = "idle" /\ ~disconnected
    /\ opening' = "checked"
    /\ UNCHANGED <<device, flash, torch, session, current, told, overlapped>>

\* Mutant: the previous session only has to be closing.
InUseOpen == current # NoSession /\ session[current] = "open"

\* session_.lock() is not null and the session not closed.
InUse == current # NoSession /\ session[current] \in {"open", "closing"}

OpenRefused ==
    /\ opening = "checked" /\ InUse
    /\ opening' = "idle"
    /\ UNCHANGED <<device, flash, torch, session, current, told, overlapped>>

OpenAcquires ==
    /\ opening = "checked" /\ ~InUse
    /\ opening' = "acquired"
    /\ overlapped' = (overlapped \/ \E s \in Sessions : session[s] = "dropped")
    /\ Acquire
    /\ UNCHANGED <<device, torch, session, current>>

\* CameraDeviceSession::Create() opens the devices.
OpenSucceeds(s) ==
    /\ opening = "acquired" /\ session[s] = "none"
    /\ \A r \in Sessions : r < s => session[r] # "none"
    /\ session' = [session EXCEPT ![s] = "open"]
    /\ current' = s /\ opening' = "idle"
    /\ UNCHANGED <<device, flash, torch, told, overlapped>>

OpenFails ==
    /\ opening = "acquired"
    /\ opening' = "idle"
    /\ Release
    /\ UNCHANGED <<device, torch, session, current, overlapped>>

\* Disconnect(), from Rescan().
Disconnect ==
    /\ ~disconnected
    /\ disconnected' = TRUE
    /\ UNCHANGED <<detached, flash, torch, session, current, opening, told, overlapped>>

DisconnectDetaches ==
    /\ disconnected /\ ~detached
    /\ detached' = TRUE
    /\ Detach
    /\ UNCHANGED <<disconnected, torch, session, current, opening, overlapped>>

-----------------------------------------------------------------------------
(* CameraDeviceSession. *)

\* The worker, which runs until close() joined it.
SessionLights(s, lit) ==
    /\ session[s] \in {"open", "closing", "dropped"}
    /\ SetLit(lit)
    /\ UNCHANGED <<device, torch, session, current, opening, overlapped>>

CloseCall(s) ==
    /\ session[s] = "open"
    /\ session' = [session EXCEPT ![s] = "closing"]
    /\ UNCHANGED <<device, flash, torch, current, opening, told, overlapped>>

\* The last reference is gone: session_ expires and the destructor closes.
Drop(s) ==
    /\ session[s] = "open"
    /\ session' = [session EXCEPT ![s] = "dropped"]
    /\ current' = IF current = s THEN NoSession ELSE current
    /\ UNCHANGED <<device, flash, torch, opening, told, overlapped>>

\* close() after the worker was joined.
CloseReleases(s) ==
    /\ session[s] \in {"closing", "dropped"}
    /\ session' = [session EXCEPT ![s] = "closed"]
    /\ Release
    /\ UNCHANGED <<device, torch, current, opening, overlapped>>

-----------------------------------------------------------------------------
Next ==
    \/ \E c \in Callers : TorchApplies(c) \/ \E what \in {"on", "off", "level"} : TorchCall(c, what)
    \/ OpenCall \/ OpenRefused \/ OpenAcquires \/ OpenFails
    \/ Disconnect \/ DisconnectDetaches
    \/ \E s \in Sessions :
          \/ OpenSucceeds(s) \/ CloseCall(s) \/ Drop(s) \/ CloseReleases(s)
          \/ \E lit \in BOOLEAN : SessionLights(s, lit)

Spec == Init /\ [][Next]_vars

-----------------------------------------------------------------------------
(* Properties. *)

TypeOK ==
    /\ disconnected \in BOOLEAN /\ detached \in BOOLEAN
    /\ acquired \in BOOLEAN /\ torchOn \in BOOLEAN /\ listener \in BOOLEAN
    /\ led \in {"off", "torch", "flash"} /\ told \in {"on", "off", "unavailable"}
    /\ torch \in [Callers -> {"idle", "on", "off", "level"}]
    /\ session \in [Sessions -> {"none", "open", "closing", "dropped", "closed"}]
    /\ current \in Sessions \cup {NoSession}
    /\ opening \in {"idle", "checked", "acquired"}
    /\ overlapped \in BOOLEAN

\* The LEDs are never lit by one side while the other one owns them: as torch
\* only while the torch is on and no session has the flash, as flash only while
\* a session has it.
LitByOwner ==
    /\ led = "torch" => torchOn /\ ~acquired
    /\ led = "flash" => acquired
    /\ torchOn => led = "torch"

\* The framework's idea of the torch is never stale: what it heard last is what
\* the flash is, however torch calls and sessions met.
TorchTold ==
    ~detached => told = IF acquired THEN "unavailable" ELSE IF torchOn THEN "on" ELSE "off"

\* "The torch goes off and is unavailable while the camera is open": a session
\* keeps the flash until it is closed or the camera is gone, although the
\* close() of its predecessor and a failed open() release it too.  (Not kept when open() meets the destructor of a
\* session whose client died: session_ has expired, and the destructor's
\* Release() comes after the Acquire() of the new session.)
SessionHasFlash ==
    ~overlapped => \A s \in Sessions : session[s] = "open" /\ ~disconnected => acquired

(* Stated by the documentation and not kept by the code; see README.md. *)

\* "The camera went away: turns the LEDs off and stops reporting."
DarkWhenGone == detached => led = "off"
=============================================================================
