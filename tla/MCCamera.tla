------------------------------ MODULE MCCamera ------------------------------
(***************************************************************************)
(* The camera HAL below its sessions for TLC: the flash of a camera        *)
(* (CameraFlash), the frames of a session (CaptureStream), the scan of     *)
(* /dev and the set-up of pipelines (CameraDiscovery), the choice of a     *)
(* capture mode (StreamPlanner), and the list of cameras and their IDs     *)
(* (CameraProvider).  They share no state below, so a behaviour is one of  *)
(* `part` and leaves the variables of the others alone.                    *)
(***************************************************************************)
EXTENDS CameraFlash, TLC

CONSTANTS
    caller1, caller2, mode1, mode2, None,
    Modes, Settings, Precapture, PreflashTimeout, Settle, BufferCount, MaxSkippedFrames,
    MaxStaleFrames, MaxTime, MaxConfigures, Has3aLock, FirstBufferFails,    \* of CaptureStream
    MediaNode, Function, Links, Codes, Bayer, NodeFormats, KnownFormats, Processed, Isp, SoftwareIsp,
    MaxDepth, Plain, Facts, Properties, LinkedFlash, LedClass, Light, Late,
    MaxUnplugs,                                                             \* of CameraDiscovery
    AllFormats, EnumSizes, EnumDurations, DefaultDuration, StandardSizes,
    Preferred,                                                              \* of StreamPlanner
    Keys, DevNodes, Internal, Unusable, ExternalOffset, MaxRetries, MaxChanges, EarlyPlug,
    FastSwap                                                                \* of CameraProvider

\* A session has buffers, requests say what they ask for, and None is no mode,
\* time or frame.
ASSUME CaptureAssumption ==
    /\ BufferCount \in Nat \ {0} /\ Settle \in Nat /\ MaxStaleFrames \in Nat
    /\ \A s \in Settings :
        /\ DOMAIN s = {"ae_mode", "flash_mode", "trigger", "still", "ae_lock", "interval"}
        /\ s.still \in BOOLEAN /\ s.interval \in Nat
    /\ None \notin Modes \cup Nat
    /\ None \notin [index : 1..BufferCount, exposed : Nat, mode : Modes \cup {None}, corrupt : BOOLEAN]

ASSUME IdsAssumption == ExternalOffset \in Nat

VARIABLES
    part,           \* "flash", "capture", "discovery", "planner" or "provider"
    now, configures, stamps, dev, exposure, lock_3a, streaming, buffers, mode_, format_, interval_,
    ae_locked, auto_exposure_mode, fc, lamp, op, lost,
    node, unplugs, due, cameras, enabled, setup,
    modes_, outputs, planned,
    devfs, allowed, nchanges, thread, found, event, pending, retries, retry, cameras_, assigned,
    inUse, changes, callback, listed, view

MCCallers == {caller1, caller2}
MCModes == {mode1, mode2}
MCSymmetry == Permutations(MCCallers) \cup Permutations(MCModes)

\* Requests: at another interval with AE locked, with a single flash, with a
\* precapture sequence, and its still picture.
Request == [ae_mode |-> "on", flash_mode |-> "off", trigger |-> "idle", still |-> FALSE,
            ae_lock |-> FALSE, interval |-> 30]
MCSettings ==
    {[Request EXCEPT !.interval = 15, !.ae_lock = TRUE], [Request EXCEPT !.flash_mode = "single"],
     [Request EXCEPT !.ae_mode = "auto_flash", !.trigger = "start"],
     [Request EXCEPT !.ae_mode = "auto_flash", !.still = TRUE]}
\* Requests with and without an AE lock, see UnlockedAsAsked.
MCLocks == {Request, [Request EXCEPT !.ae_lock = TRUE]}

(* Two sensors that share a stage; from there to one video node raw and to *)
(* another through a converter, which the second sensor reaches directly   *)
(* too.  Only the second sensor has a flash, the LED class has the same.   *)
(* Nodes 8 and 9 are one external camera, 7 has its metadata, and 10 is    *)
(* part of a pipeline.                                                     *)
MCFunction == 1 :> "sensor" @@ 2 :> "sensor" @@ 3 :> "stage" @@ 4 :> "converter" @@ 5 :> "video"
            @@ 6 :> "video"
Link(id, source, sink, immutable) ==
    [id |-> id, source |-> source, sink |-> sink, immutable |-> immutable]
MCLinks ==
    {Link(1, <<1, 0>>, <<3, 0>>, FALSE), Link(2, <<2, 0>>, <<3, 0>>, FALSE),
     Link(3, <<3, 1>>, <<5, 0>>, FALSE), Link(4, <<3, 2>>, <<4, 0>>, FALSE),
     Link(5, <<4, 1>>, <<6, 0>>, TRUE), Link(6, <<2, 0>>, <<4, 0>>, FALSE)}
\* Media bus codes: 1 and 2 are YUV, 3 is Bayer.
MCCodes == 1 :> {3} @@ 2 :> {1, 3} @@ 4 :> {1, 2}
MCNodeFormats ==
    5 :> (0 :> {} @@ 1 :> {"YUYV"} @@ 2 :> {"UYVY"} @@ 3 :> {"RAW10"})
    @@ 6 :> (1 :> {"YUYV", "UYVY"} @@ 2 :> {"UYVY"} @@ 3 :> {"RAW10"})
MCKnownFormats == 1 :> {"YUYV"} @@ 2 :> {} @@ 3 :> {"RAW10", "RAW8"}
Unsaid == [internal |-> "", orientation |-> "", removable |-> "", facing |-> "", hwdb |-> "",
           rotation |-> 0, enabled |-> "", area |-> 3, flash_led |-> {}]
MCFacts ==
    1 :> [Unsaid EXCEPT !.rotation = 90] @@ 2 :> [Unsaid EXCEPT !.area = 2]
    @@ 7 :> [Unsaid EXCEPT !.removable = "yes"] @@ 8 :> [Unsaid EXCEPT !.removable = "yes"]
Node(key) == [key |-> key, caps |-> {"capture", "streaming"}, infrared |-> FALSE, formats |-> {"YUYV"}]
MCPlain ==
    7 :> [Node(7) EXCEPT !.caps = {"meta", "streaming"}] @@ 8 :> Node(7) @@ 9 :> Node(7)
    @@ 10 :> [Node(8) EXCEPT !.caps = @ \cup {"io_mc"}]
MCProperties == [include_ir |-> FALSE, default_internal |-> FALSE, facing_by_resolution |-> TRUE]

(* A format of a few sizes, ranges of sizes and of intervals, one that     *)
(* follows its input signal, raw and compressed ones.                      *)
Discrete(sizes, durations, isp, compressed) ==
    [sizes |-> sizes, steps |-> {}, largest |-> {}, durations |-> durations, range |-> {},
     current |-> {}, isp |-> isp, compressed |-> compressed]
MCAllFormats ==
    {Discrete({<<3, 2>>}, {2, 4}, FALSE, FALSE), Discrete({<<4, 2>>, <<6, 4>>}, {3}, FALSE, TRUE),
     [Discrete({}, {0}, FALSE, FALSE) EXCEPT
        !.steps = {[min |-> <<2, 2>>, max |-> <<6, 4>>, step |-> 2]}, !.range = {[min |-> 5, max |-> 9]}],
     Discrete({<<8, 5>>, <<0, 5>>}, {8}, TRUE, FALSE),
     [Discrete({}, {}, FALSE, FALSE) EXCEPT !.largest = {<<3, 4>>}, !.current = {4}],
     Discrete({<<3, 2>>}, {}, TRUE, FALSE)}

MCLinkedFlash == 1 :> {} @@ 2 :> {"subdev"}
MCLight == [l \in {"subdev", "led0"} |-> "flash"]
MCStandardSizes == {<<5, 3>>, <<2, 2>>, <<6, 3>>, <<1, 1>>}
MCEnumSizes == {<<4, 4>>, <<5, 2>>, <<2, 2>>}

Capture == INSTANCE CaptureStream WITH led <- lamp
Discovery == INSTANCE CameraDiscovery WITH session <- setup
Planner == INSTANCE StreamPlanner
Provider == INSTANCE CameraProvider WITH dev <- devfs, cameras <- cameras_, Nodes <- DevNodes

\* Nodes and links are numbered; what belongs to pipelines is there from the start.
ASSUME GraphAssumption ==
    /\ DOMAIN Function \subseteq Nat /\ DOMAIN Plain \subseteq Nat
    /\ MediaNode \notin DOMAIN Function \cup DOMAIN Plain
    /\ \A n \in DOMAIN Plain : Plain[n].key \in Nat
    /\ DOMAIN Function \cap (DOMAIN Plain \cup Late) = {}
    /\ IsFiniteSet(Links) /\ \A l, m \in Links : l.id = m.id => l = m
    /\ \A l \in Links : l.id \in Nat /\ l.sink[1] \in DOMAIN Function /\ l.immutable \in BOOLEAN
    /\ \A e \in DOMAIN Codes : Codes[e] \subseteq Nat \ {0}
    /\ \A e \in DOMAIN Function : Function[e] \in {"sensor", "converter"} => e \in DOMAIN Codes
    /\ MaxDepth \in Nat /\ IsFiniteSet(Processed \cup Isp)

\* Sensors and plain nodes are different cameras.  No two have the same lights as
\* their own, and plain ones are external (or there is no LED class device).
ASSUME LightsAssumption ==
    LET own == [k \in DOMAIN Facts |->
                   IF Facts[k].flash_led # {} THEN Facts[k].flash_led
                   ELSE IF k \in DOMAIN Function THEN LinkedFlash[k] ELSE {}]
        Lights(leds) == {Light[l] : l \in leds}
        keys == {Plain[n].key : n \in DOMAIN Plain}
    IN /\ keys \cap DOMAIN Function = {} /\ keys \subseteq DOMAIN Facts
       /\ \A e \in DOMAIN Function : Function[e] = "sensor" => e \in DOMAIN Facts
       /\ \A j, k \in DOMAIN Facts : j # k => Lights(own[j]) \cap Lights(own[k]) = {}
       /\ \A k \in keys :
             /\ Lights(own[k]) \cap Lights(LedClass) = {}
             /\ Discovery!IsInternal(k, FALSE) => LedClass = {}

\* What drivers say of their formats are numbers.
ASSUME PlannerAssumption ==
    /\ IsFiniteSet(AllFormats) /\ IsFiniteSet(EnumSizes) /\ EnumSizes \subseteq Nat \X Nat
    /\ \A f \in AllFormats :
          /\ IsFiniteSet(f.sizes) /\ f.sizes \subseteq Nat \X Nat
          /\ IsFiniteSet(f.largest) /\ f.largest \subseteq Nat \X Nat
          /\ IsFiniteSet(f.steps) /\ \A r \in f.steps : r.max \in Nat \X Nat
          /\ f.durations \subseteq Nat /\ f.current \subseteq Nat
          /\ \A r \in f.range : r.min \in Nat
          /\ f.isp \in BOOLEAN /\ f.compressed \in BOOLEAN
    /\ EnumDurations \subseteq Nat /\ DefaultDuration \in Nat
    /\ IsFiniteSet(StandardSizes) /\ StandardSizes \subseteq Nat \X Nat /\ Preferred \in Nat

capture == <<now, configures, stamps, dev, exposure, lock_3a, streaming, buffers, mode_, format_,
             interval_, ae_locked, auto_exposure_mode, fc, lamp, op, lost>>
discovery == <<node, unplugs, due, cameras, enabled, setup>>
planner == <<modes_, outputs, planned>>
provider == <<devfs, allowed, nchanges, thread, found, event, pending, retries, retry, cameras_,
              assigned, inUse, changes, callback, listed, view>>
all == <<part, vars, capture, discovery, planner, provider>>

-----------------------------------------------------------------------------
MCInit ==
    /\ part \in {"flash", "capture", "discovery", "planner", "provider"}
    /\ part # "capture" => stamps = FALSE
    /\ part # "discovery" =>
          /\ node = [n \in Discovery!Nodes |-> "open"]
          /\ enabled = {l.id : l \in Links}
    /\ part # "planner" => modes_ = Planner!ModesOf(AllFormats)
    /\ part # "provider" => devfs = [n \in DevNodes |-> Provider!NoKey]
    /\ Init /\ Capture!Init /\ Discovery!Init /\ Planner!Init /\ Provider!Init

FlashNext == part = "flash" /\ Next /\ UNCHANGED <<part, capture, discovery, planner, provider>>
CaptureNext ==
    part = "capture" /\ Capture!Next /\ UNCHANGED <<part, vars, discovery, planner, provider>>
DiscoveryNext ==
    part = "discovery" /\ Discovery!Next /\ UNCHANGED <<part, vars, capture, planner, provider>>
PlannerNext ==
    part = "planner" /\ Planner!Configure /\ UNCHANGED <<part, vars, capture, discovery, provider>>
ProviderNext ==
    part = "provider" /\ Provider!Next /\ UNCHANGED <<part, vars, capture, discovery, planner>>

MCNext == FlashNext \/ CaptureNext \/ DiscoveryNext \/ PlannerNext \/ ProviderNext
MCSpec == MCInit /\ [][MCNext]_all

-----------------------------------------------------------------------------
\* A streaming device never loses a buffer, and a stopped one keeps none.
BuffersAccounted == Capture!BuffersAccounted

\* A request is answered with a frame of its own capture mode and interval.
FrameAsConfigured == Capture!FrameAsConfigured

\* A picture taken with the flash was exposed while it was lit.
ExposedWithFlash == Capture!ExposedWithFlash

\* Without AE lock the exposure is automatic, also after streams were configured.
UnlockedAsAsked == Capture!UnlockedAsAsked

\* The frames of a session: buffers, configuration and light (CaptureStream).
FramesSound == BuffersAccounted /\ FrameAsConfigured /\ ExposedWithFlash

\* The list of cameras is what a fresh scan finds.
FindsAll == Discovery!FindsAll

\* A configured pipeline carries the stream of its sensor.
StreamReaches == Discovery!StreamReaches

\* No two cameras are given the same light.
LightsUnshared == Discovery!LightsUnshared

\* Every size that is offered can be captured at the rate it was offered with.
PlannedAsOffered == Planner!PlannedAsOffered

\* Cameras are found, reach their sensors, share no light and keep the rates
\* they offer (CameraDiscovery, StreamPlanner).
CamerasSound == FindsAll /\ StreamReaches /\ LightsUnshared /\ PlannedAsOffered

\* The list of cameras, the allocator of IDs and the framework tell the same
\* (CameraProvider).
ListAgrees == Provider!ListAgrees

\* A camera that comes back gets the ID it had before, unless that is taken
\* (CameraProvider).
ComesBack == Provider!ComesBack
=============================================================================
