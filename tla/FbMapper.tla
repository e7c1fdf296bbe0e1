------------------------------ MODULE FbMapper ------------------------------
(***************************************************************************)
(* The mapper of the framebuffer graphics stack (Mapper.cpp): processes    *)
(* import one shared buffer under handles, lock and unlock it from several *)
(* threads, free it while others wait for a fence, and read and write its  *)
(* shared metadata under a mutex of the process and an advisory lock of    *)
(* the file.                                                               *)
(*                                                                         *)
(* A handle is the address of a clone; an address that was freed may come  *)
(* back where AddressReuse says so.  The metadata is two fields that are   *)
(* written one after the other.  A file lock belongs to an open file       *)
(* description, and every process has a duplicate of the same one.         *)
(***************************************************************************)
EXTENDS Naturals, FiniteSets

CONSTANTS
    None,
    Processes,
    Threads,            \* the threads of each process
    Handles,            \* addresses
    MaxImports,         \* bound on imports
    MaxLocks,           \* bound on nested locks
    AddressReuse,
    Values              \* of the metadata

VARIABLES
    buffers,    \* buffers_ of each process: handle -> import, or None
    imports,    \* how many imports there were
    mapped,     \* imports whose pixels are mapped
    lockCount,  \* lock_count of each import
    held,       \* <<process, handle, import>> -> pointers the process has from lock()
    used,       \* <<process, handle>> that existed
    threads,    \* what each thread does: [pc, handle, import, value]
    mutex,      \* the thread that holds metadata_mutex_, for each process
    flocks,     \* the kind of file lock of the open file description
    metadata    \* the two fields in the file

vars == <<buffers, imports, mapped, lockCount, held, used, threads, mutex, flocks, metadata>>
book == <<buffers, imports, mapped, lockCount, held, used>>
shared == <<mutex, flocks, metadata>>

Imports == 1 .. MaxImports
All == Processes \X Threads
Idle == [pc |-> "idle", handle |-> None, import |-> None, value |-> None]
ProcessOf(t) == t[1]

Init ==
    /\ buffers = [p \in Processes |-> [h \in Handles |-> None]]
    /\ imports = 0
    /\ mapped = {}
    /\ lockCount = [i \in Imports |-> 0]
    /\ held = [x \in Processes \X Handles \X Imports |-> 0]
    /\ used = {}
    /\ threads = [t \in All |-> Idle]
    /\ mutex = [p \in Processes |-> None]
    /\ flocks = "none"
    /\ \E v \in Values : metadata = <<v, v>>

Goes(t, pc) == threads' = [threads EXCEPT ![t].pc = pc]
Returns(t) == threads' = [threads EXCEPT ![t] = Idle]

(* Find: a shared_ptr to what the handle stands for. *)
Find(t, h, pc, value) ==
    /\ threads[t].pc = "idle"
    /\ buffers[ProcessOf(t)][h] # None
    /\ threads' = [threads EXCEPT ![t] =
            [pc |-> pc, handle |-> h, import |-> buffers[ProcessOf(t)][h], value |-> value]]
    /\ UNCHANGED <<book, shared>>

-----------------------------------------------------------------------------
(* importBuffer *)
ImportBuffer(t, h) ==
    /\ threads[t].pc = "idle"
    /\ buffers[ProcessOf(t)][h] = None
    /\ AddressReuse \/ <<ProcessOf(t), h>> \notin used
    /\ imports < MaxImports
    /\ imports' = imports + 1
    /\ buffers' = [buffers EXCEPT ![ProcessOf(t)][h] = imports + 1]
    /\ used' = used \cup {<<ProcessOf(t), h>>}
    /\ UNCHANGED <<mapped, lockCount, held, threads, shared>>

(* freeBuffer: locked buffers are freed too; the pointers of the client    *)
(* are gone, calls in progress keep the import alive.                      *)
FreeBuffer(t, h) ==
    LET p == ProcessOf(t) IN
    /\ threads[t].pc = "idle"
    /\ buffers[p][h] # None
    /\ buffers' = [buffers EXCEPT ![p][h] = None]
    /\ held' = [x \in DOMAIN held |-> IF x[1] = p /\ x[2] = h THEN 0 ELSE held[x]]
    /\ UNCHANGED <<imports, mapped, lockCount, used, threads, shared>>

(* lock: Find, a wait for the acquire fence outside mutex_, and the rest.  *)
LockStart(t, h) == Find(t, h, "fence", None)

IgnoreFree(t) == TRUE

(* buffers_.count(buffer) *)
StillImported(t) == buffers[ProcessOf(t)][threads[t].handle] # None

LockFinish(t) ==
    LET p == ProcessOf(t)
        h == threads[t].handle
        i == threads[t].import
    IN  /\ threads[t].pc = "fence"
        /\ IF ~StillImported(t) THEN UNCHANGED <<mapped, lockCount, held>>
           ELSE /\ lockCount[i] < MaxLocks
                /\ mapped' = mapped \cup {i}
                /\ lockCount' = [lockCount EXCEPT ![i] = @ + 1]
                /\ held' = [held EXCEPT ![<<p, h, i>>] = @ + 1]
        /\ Returns(t)
        /\ UNCHANGED <<buffers, imports, used, shared>>

(* The fence times out, or the pixels cannot be mapped. *)
LockFails(t) ==
    /\ threads[t].pc = "fence"
    /\ Returns(t)
    /\ UNCHANGED <<book, shared>>

(* unlock by a process that has a pointer *)
Unlock(t, h) ==
    LET p == ProcessOf(t)
        i == buffers[p][h]
    IN  /\ threads[t].pc = "idle"
        /\ i # None /\ held[<<p, h, i>>] > 0 /\ lockCount[i] # 0
        /\ lockCount' = [lockCount EXCEPT ![i] = @ - 1]
        /\ held' = [held EXCEPT ![<<p, h, i>>] = @ - 1]
        /\ UNCHANGED <<buffers, imports, mapped, used, threads, shared>>

(* flushLockedBuffer and rereadLockedBuffer accept a handle. *)
Flushable(p, h) ==
    LET i == buffers[p][h] IN i # None /\ lockCount[i] # 0 /\ i \in mapped

-----------------------------------------------------------------------------
(* getStandardMetadata and setStandardMetadata *)

GetStart(t, h) == Find(t, h, "get", None)
SetStart(t, h, v) == Find(t, h, "set", v)

MutexFree(t) == mutex[ProcessOf(t)] = None

(* metadata_mutex_, then flock(): one lock of the description is converted *)
(* into another at once, whoever has it.                                   *)
LockMetadata(t) ==
    /\ threads[t].pc \in {"get", "set"}
    /\ MutexFree(t)
    /\ mutex' = [mutex EXCEPT ![ProcessOf(t)] = t]
    /\ flocks' = IF threads[t].pc = "get" THEN "shared" ELSE "exclusive"
    /\ Goes(t, IF threads[t].pc = "get" THEN "get_first" ELSE "set_first")
    /\ UNCHANGED <<book, metadata>>

SetFirst(t) ==
    /\ threads[t].pc = "set_first"
    /\ metadata' = [metadata EXCEPT ![1] = threads[t].value]
    /\ Goes(t, "set_second")
    /\ UNCHANGED <<book, mutex, flocks>>

SetSecond(t) ==
    /\ threads[t].pc = "set_second"
    /\ metadata' = [metadata EXCEPT ![2] = threads[t].value]
    /\ Goes(t, "unlock")
    /\ UNCHANGED <<book, mutex, flocks>>

GetFirst(t) ==
    /\ threads[t].pc = "get_first"
    /\ threads' = [threads EXCEPT ![t].pc = "get_second", ![t].value = metadata[1]]
    /\ UNCHANGED <<book, shared>>

(* The caller gets both fields. *)
GetSecond(t) ==
    /\ threads[t].pc = "get_second"
    /\ threads' = [threads EXCEPT ![t].pc = "got", ![t].value = <<@, metadata[2]>>]
    /\ UNCHANGED <<book, shared>>

UnlockMetadata(t) ==
    /\ threads[t].pc \in {"unlock", "got"}
    /\ mutex' = [mutex EXCEPT ![ProcessOf(t)] = None]
    /\ flocks' = "none"
    /\ Returns(t)
    /\ UNCHANGED <<book, metadata>>

Next ==
    \E t \in All :
        \/ \E h \in Handles :
              \/ ImportBuffer(t, h)
              \/ FreeBuffer(t, h)
              \/ LockStart(t, h)
              \/ Unlock(t, h)
              \/ GetStart(t, h)
              \/ \E v \in Values : SetStart(t, h, v)
        \/ LockFinish(t)
        \/ LockFails(t)
        \/ LockMetadata(t)
        \/ SetFirst(t)
        \/ SetSecond(t)
        \/ GetFirst(t)
        \/ GetSecond(t)
        \/ UnlockMetadata(t)

Spec == Init /\ [][Next]_vars

-----------------------------------------------------------------------------
(* A pointer that lock() returned stays good until the buffer is freed:    *)
(* its import is the one the handle stands for, its pixels are mapped, it  *)
(* can be flushed, and unlock() will succeed as often as lock() did.       *)
LockedIsMapped ==
    \A p \in Processes, h \in Handles, i \in Imports :
        held[<<p, h, i>>] > 0 =>
            /\ buffers[p][h] = i
            /\ i \in mapped
            /\ Flushable(p, h)
            /\ lockCount[i] = held[<<p, h, i>>]

(* Nobody reads metadata of which one half is from another value. *)
MetadataWhole ==
    \A t \in All : threads[t].pc = "got" => threads[t].value[1] = threads[t].value[2]

=============================================================================
