--------------------------- MODULE CameraProvider ---------------------------
(***************************************************************************)
(* Discovery and hotplug of cameras (camera provider/CameraProvider.cpp,   *)
(* DeviceMonitor.cpp, Discovery.cpp and CameraIdAllocator.cpp): what is in *)
(* /dev, what the provider lists and what the framework was told.          *)
(*                                                                         *)
(* A camera is known by its key, the sysfs path of its device, a number in *)
(* the order in which Rescan() adds cameras.  Discovery reads /dev at one  *)
(* moment.  Time is left out: a scan that is due runs now or later.        *)
(* Media nodes and capture nodes are not told apart.                       *)
(***************************************************************************)
EXTENDS Integers, Sequences, SequencesExt, FiniteSets, FiniteSetsExt

CONSTANTS
    Keys,             \* numbered in the order of std::sort() in Rescan()
    Nodes,            \* node numbers
    Internal,         \* the keys of internal cameras
    Unusable,         \* keys CameraDescription::Create() refuses
    ExternalOffset,   \* external_offset_
    MaxRetries,       \* kMaxRetries
    MaxChanges,       \* bound: changes of /dev
    EarlyPlug,        \* /dev also changes between the first scan and the watch
    FastSwap          \* a node number is used again before its removal was noticed

ASSUME ProviderAssumption ==
    /\ Keys \subseteq Nat \ {0} /\ Nodes \subseteq Nat /\ IsFiniteSet(Keys) /\ IsFiniteSet(Nodes)
    /\ Internal \subseteq Keys /\ Unusable \subseteq Keys
    /\ ExternalOffset \in Nat /\ MaxRetries \in Nat /\ MaxChanges \in Nat
    /\ EarlyPlug \in BOOLEAN /\ FastSwap \in BOOLEAN

NoKey == 0

VARIABLES
    dev,        \* the key behind every node, or NoKey
    allowed,    \* nodes whose permissions ueventd applied
    nchanges,   \* changes of /dev so far
    thread,     \* of Rescan(), the main and later the monitor's: see TypeOK
    found,      \* what DiscoverCameras() found for Rescan(): key -> node
    event,      \* the inotify watch has events to read
    pending,    \* Run(): a scan is due
    retries,    \* Run(): retries since the last event
    retry,      \* what Rescan() returns
    cameras,    \* cameras_: key -> [id, node]
    assigned,   \* CameraIdAllocator::assigned_
    inUse,      \* CameraIdAllocator::in_use_
    changes,    \* changes of a Rescan() that are not sent yet
    callback,   \* a framework callback is set
    listed,     \* the framework read getCameraIdList()
    view        \* IDs the framework takes for present

devices == <<dev, allowed, nchanges>>
monitor == <<pending, retries>>
list == <<cameras, assigned, inUse>>
framework == <<callback, listed, view>>
vars == <<devices, thread, found, event, monitor, retry, list, changes, framework>>

Init ==
    /\ dev \in [Nodes -> Keys \cup {NoKey}]
    /\ allowed \in SUBSET {n \in Nodes : dev[n] # NoKey}
    /\ nchanges = 0
    /\ thread = "boot" /\ found = <<>> /\ event = FALSE /\ pending = FALSE /\ retries = 0 /\ retry = FALSE
    /\ cameras = <<>> /\ assigned = <<>> /\ inUse = {} /\ changes = <<>>
    /\ callback = FALSE /\ listed = FALSE /\ view = {}

-----------------------------------------------------------------------------
(* /dev.  A camera may have several nodes.                                 *)

Watched == thread \in {"idle", "scan", "notify", "send"}

DevChanges ==
    /\ nchanges < MaxChanges /\ (Watched \/ EarlyPlug)
    /\ nchanges' = nchanges + 1
    /\ event' = (event \/ Watched)
    /\ UNCHANGED <<thread, found, monitor, retry, list, changes, framework>>

Plug(n, k) ==
    /\ dev[n] = NoKey
    /\ FastSwap \/ n \notin {cameras[c].node : c \in DOMAIN cameras} \cup {found[c] : c \in DOMAIN found}
    /\ dev' = [dev EXCEPT ![n] = k]
    /\ UNCHANGED allowed
    /\ DevChanges

Allow(n) ==
    /\ dev[n] # NoKey /\ n \notin allowed
    /\ allowed' = allowed \cup {n}
    /\ UNCHANGED dev
    /\ DevChanges

Unplug(n) ==
    /\ dev[n] # NoKey
    /\ dev' = [dev EXCEPT ![n] = NoKey] /\ allowed' = allowed \ {n}
    /\ DevChanges

-----------------------------------------------------------------------------
(* DiscoverCameras().                                                      *)

KnownAt(n) == {k \in DOMAIN cameras : cameras[k].node = n}

\* The camera a node stands for: the known one while its device number is the
\* same, otherwise what probing finds if it can be opened.
Claim(n) ==
    IF dev[n] = NoKey THEN NoKey
    ELSE IF KnownAt(n) # {} THEN CHOOSE k \in KnownAt(n) : TRUE
    ELSE IF n \in allowed THEN dev[n] ELSE NoKey

\* Of the nodes of a camera the lowest numbered one is used.
DiscoverCameras ==
    [k \in {Claim(n) : n \in Nodes} \ {NoKey} |-> Min({n \in Nodes : Claim(n) = k})]

\* A node can not be opened yet.
WantsRetry == \E n \in Nodes \ allowed : dev[n] # NoKey /\ KnownAt(n) = {}

-----------------------------------------------------------------------------
(* CameraIdAllocator.                                                      *)

InRange(id, k) == IF k \in Internal THEN id < ExternalOffset ELSE id >= ExternalOffset

\* The smallest ID that is free.
FreeId(k) ==
    LET first == IF k \in Internal THEN 0 ELSE ExternalOffset
    IN  Min((first .. first + Cardinality(inUse)) \ inUse)

\* Mutant: the ID a camera had before is not looked up.
ReusableNever(k) == FALSE

Reusable(k) == k \in DOMAIN assigned /\ InRange(assigned[k], k) /\ assigned[k] \notin inUse

Allocate(k) == IF Reusable(k) THEN assigned[k] ELSE FreeId(k)

-----------------------------------------------------------------------------
(* Rescan().  The loops under lock_ go step by step; the changes are sent  *)
(* one by one under callback_lock_.                                        *)

Update(f, k, v) == [x \in DOMAIN f \cup {k} |-> IF x = k THEN v ELSE f[x]]

Scanning == thread \in {"boot_scan", "scan"}
Notifying == thread \in {"notify", "send"}

Discover ==
    /\ found' = DiscoverCameras
    /\ retry' = WantsRetry
    /\ UNCHANGED <<list, changes>>

\* Mutant: a camera is looked for by its key alone.
RemovedGone == {k \in DOMAIN cameras : k \notin DOMAIN found}

\* Cameras that are gone, or whose node changed.
Removed == {k \in DOMAIN cameras : k \notin DOMAIN found \/ found[k] # cameras[k].node}

\* One round of the first loop.
RemoveCamera(k) ==
    /\ Scanning
    /\ k \in Removed
    /\ changes' = Append(changes, [id |-> cameras[k].id, present |-> FALSE])
    /\ inUse' = inUse \ {assigned[k]}
    /\ cameras' = [c \in DOMAIN cameras \ {k} |-> cameras[c]]
    /\ UNCHANGED <<devices, thread, found, event, monitor, retry, assigned, framework>>

Added == DOMAIN found \ (DOMAIN cameras \cup Unusable)

\* One round of the second, in a stable order.
AddCamera(k) ==
    /\ Scanning
    /\ Removed = {}
    /\ k \in Added /\ \A j \in Added : k <= j
    /\ LET id == Allocate(k)
       IN  /\ assigned' = Update(assigned, k, id)
           /\ inUse' = inUse \cup {id}
           /\ changes' = Append(changes, [id |-> id, present |-> TRUE])
           /\ cameras' = Update(cameras, k, [id |-> id, node |-> found[k]])
    /\ UNCHANGED <<devices, thread, found, event, monitor, retry, framework>>

\* lock_ is released.
EndScan ==
    /\ Scanning
    /\ Removed = {} /\ Added = {}
    /\ thread' = IF thread = "scan" THEN "notify" ELSE "boot_notify"
    /\ found' = <<>>
    /\ UNCHANGED <<devices, event, monitor, retry, list, changes, framework>>

\* Mutant: the framework does not hear of cameras that left.
ToldPresent(known, change) == IF change.present THEN known \cup {change.id} ELSE known

Told(known, change) == IF change.present THEN known \cup {change.id} ELSE known \ {change.id}

\* One round of the loop of Notify(), which took callback_lock_.  There is no
\* callback yet when Start() scans.
SendChange ==
    /\ Notifying
    /\ callback /\ changes # <<>>
    /\ view' = Told(view, Head(changes))
    /\ changes' = Tail(changes)
    /\ thread' = "send"
    /\ UNCHANGED <<devices, found, event, monitor, retry, list, callback, listed>>

\* Notify() returns: there is no callback, or everything is sent.
NotifyReturns ==
    /\ callback => changes = <<>>
    /\ changes' = <<>>
    /\ UNCHANGED <<found, framework>>

-----------------------------------------------------------------------------
(* Start() on the main thread, Run() on the monitor's.                     *)

BootScan ==
    /\ thread = "boot" /\ thread' = "boot_scan"
    /\ Discover
    /\ UNCHANGED <<devices, event, monitor, framework>>

BootNotify ==
    /\ thread = "boot_notify" /\ thread' = "unwatched"
    /\ NotifyReturns
    /\ UNCHANGED <<devices, event, monitor, retry, list>>

\* DeviceMonitor::Start(); what happened in /dev before is not reported.
StartWatch ==
    /\ thread = "unwatched" /\ thread' = "idle"
    /\ UNCHANGED <<devices, found, event, monitor, retry, list, changes, framework>>

\* Run() reads events: a scan once they settled.
ReadEvents ==
    /\ thread = "idle" /\ event
    /\ event' = FALSE /\ pending' = TRUE /\ retries' = 0
    /\ UNCHANGED <<devices, thread, found, retry, list, changes, framework>>

MonitorScan ==
    /\ thread = "idle" /\ pending
    /\ thread' = "scan" /\ pending' = FALSE
    /\ Discover
    /\ UNCHANGED <<devices, event, retries, framework>>

MayRetry == retry /\ retries < MaxRetries

\* The rest of Rescan(), and whether to try again.
MonitorNotify ==
    /\ Notifying /\ thread' = "idle"
    /\ NotifyReturns
    /\ IF MayRetry
       THEN pending' = TRUE /\ retries' = retries + 1
       ELSE UNCHANGED monitor
    /\ UNCHANGED <<devices, event, retry, list>>

-----------------------------------------------------------------------------
(* The framework, also after it was restarted.  The provider is registered *)
(* once Start() returned.                                                  *)

Ids(ks) == {cameras[k].id : k \in ks}

\* setCallback() takes callback_lock_ and lock_ and tells of the external
\* cameras; cameraserver starts with an empty list.
SetCallback ==
    /\ Watched /\ thread \notin {"scan", "send"}
    /\ callback' = TRUE /\ listed' = FALSE
    /\ view' = Ids(DOMAIN cameras \ Internal)
    /\ UNCHANGED <<devices, thread, found, event, monitor, retry, list, changes>>

\* Under lock_, also between two changes that are sent.
GetCameraIdList ==
    /\ callback /\ ~listed /\ ~Scanning
    /\ listed' = TRUE /\ view' = view \cup Ids(DOMAIN cameras \cap Internal)
    /\ UNCHANGED <<devices, thread, found, event, monitor, retry, list, changes, callback>>

-----------------------------------------------------------------------------
Rescan == (\E k \in Keys : RemoveCamera(k) \/ AddCamera(k)) \/ EndScan \/ SendChange

Provider ==
    \/ BootScan \/ BootNotify \/ StartWatch \/ ReadEvents \/ MonitorScan \/ MonitorNotify
    \/ Rescan

Environment ==
    \/ \E n \in Nodes : Allow(n) \/ Unplug(n) \/ \E k \in Keys : Plug(n, k)
    \/ SetCallback \/ GetCameraIdList

Next == Provider \/ Environment

\* The main and the monitor thread run, and deadlines pass.
Spec == Init /\ [][Next]_vars /\ WF_vars(Provider)

-----------------------------------------------------------------------------
(* Properties. *)

TypeOK ==
    /\ dev \in [Nodes -> Keys \cup {NoKey}] /\ allowed \subseteq Nodes
    /\ nchanges \in 0 .. MaxChanges
    /\ thread \in {"boot", "boot_scan", "boot_notify", "unwatched", "idle", "scan", "notify", "send"}
    /\ found # <<>> => Scanning
    /\ {event, pending, retry, callback, listed} \subseteq BOOLEAN
    /\ retries \in 0 .. MaxRetries
    /\ DOMAIN cameras \subseteq DOMAIN assigned /\ DOMAIN assigned \subseteq Keys \ Unusable
    /\ \A k \in DOMAIN cameras : cameras[k] \in [id : Nat, node : Nodes]
    /\ \A i \in 1 .. Len(changes) : changes[i] \in [id : Nat, present : BOOLEAN]

\* No two listed cameras ever have the same ID, and the allocator's books agree
\* with the list.
UniqueIds ==
    /\ \A j, k \in DOMAIN cameras : cameras[j].id = cameras[k].id => j = k
    /\ inUse = Ids(DOMAIN cameras)
    /\ \A k \in DOMAIN cameras : assigned[k] = cameras[k].id

\* Whenever no changes are on their way, the framework takes exactly the listed
\* cameras for present, however setCallback(), getCameraIdList() and scans met.
FrameworkInSync == (callback /\ listed /\ changes = <<>>) => view = Ids(DOMAIN cameras)

\* The list, the allocator of IDs and the framework tell the same.
ListAgrees == UniqueIds /\ FrameworkInSync

\* "A camera that comes back gets the ID it had before, as long as nothing else
\* took it meanwhile."
ComesBack ==
    [][\A k \in (DOMAIN cameras' \ DOMAIN cameras) \cap DOMAIN assigned :
          InRange(assigned[k], k) /\ cameras'[k].id # assigned[k]
             => \E j \in DOMAIN cameras' : cameras'[j].id = assigned[k]]_vars

OpenNodes(k) == {n \in allowed : dev[n] = k}

\* Exactly the cameras in /dev are listed, each by its lowest node.
Settled ==
    /\ DOMAIN cameras = {k \in Keys \ Unusable : OpenNodes(k) # {}}
    /\ \A k \in DOMAIN cameras : cameras[k].node = Min(OpenNodes(k))

\* Once /dev stops changing the list becomes right, and stays so.
Converges == <>[]Settled

-----------------------------------------------------------------------------
(* Stated by the documentation and not kept by the code; see README.md.    *)

\* "/dev is watched with inotify, so cameras can come and go at any time": when
\* nothing is left to be read, scanned or sent, the list is right.
QuietIsSettled == (thread = "idle" /\ ~event /\ ~pending) => Settled

\* "Identity that stays the same across boots and replugs into the same port: the
\* sysfs path of the parent device": a listed camera is the one behind its node.
KeyMatchesDevice ==
    (thread = "idle" /\ ~event /\ ~pending) => \A k \in DOMAIN cameras : dev[cameras[k].node] = k

\* "A camera whose capture node changed is removed and added again; it keeps its
\* ID", which the same scan freed.
ReplugKeepsId ==
    [][\A k \in DOMAIN assigned \cap (DOMAIN cameras' \ DOMAIN cameras) :
          [id |-> assigned[k], present |-> FALSE] \in ToSet(changes)
             => cameras'[k].id = assigned[k]]_vars
=============================================================================
