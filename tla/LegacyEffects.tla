--------------------------- MODULE LegacyEffects ---------------------------
(***************************************************************************)
(* Effects of legacy libraries (audio effect/legacy): the instances the    *)
(* factory knows, the context of an open effect with the legacy instance   *)
(* it owns, the configuration with its fallback to 16-bit samples, and a   *)
(* burst through the library.                                              *)
(*                                                                         *)
(* EffectImpl and EffectContext, which call this code under mImplMutex,    *)
(* are not in the repository: what they refuse is free.  A common          *)
(* parameter is [ins, outs, frames]: channels, and frames of a burst.      *)
(***************************************************************************)
EXTENDS Naturals

CONSTANTS
    Instances,      \* effects the clients create
    Commons,        \* the common parameters they set
    RejectsLater,   \* may a library refuse a configuration once it has one?
    OpenFailsLate,  \* may EffectImpl fail an open() after createContext()?
    SharedBuffer,   \* may a burst be in place with different channel counts?
    None

VARIABLES
    instances_,     \* of the factory
    effects,        \* the instances, see NewEffect
    burst           \* the burst just processed: [by, frames, produced, written], or None

vars == <<instances_, effects, burst>>

\* life: "none", "live" or "gone"; asked: what the client was last told to have
\* configured, or None while the effect is not open; context, legacy: or None.
NewEffect == [life |-> "none", asked |-> None, context |-> None, legacy |-> None]

\* What a library makes of SET_CONFIG: it takes float, only 16 bits, or nothing.
Answers == {"float", "int16", "rejected"}

TypeOK ==
    /\ instances_ \subseteq Instances
    /\ \A i \in Instances :
        /\ effects[i].life \in {"none", "live", "gone"}
        /\ effects[i].asked \in Commons \union {None}

Init == instances_ = {} /\ effects = [i \in Instances |-> NewEffect] /\ burst = None

Live(i) == effects[i].life = "live"
IsOpen(i) == Live(i) /\ effects[i].asked # None

-----------------------------------------------------------------------------
CreateEffect(i) ==
    /\ effects[i].life = "none"
    /\ instances_' = {j \in instances_ : Live(j)} \union {i}
    /\ effects' = [effects EXCEPT ![i].life = "live"]
    /\ burst' = None

\* Float first, then 16 bits; a configuration that is rejected changes nothing.
ApplyConfig(e, common, answer) ==
    IF answer = "rejected" THEN e
    ELSE [e EXCEPT
            !.legacy = [config |-> common, format |-> answer],
            !.context = [@ EXCEPT !.int16_mode = (answer = "int16"),
                                  !.in16 = common.frames * common.ins,
                                  !.out16 = common.frames * common.outs,
                                  !.out_scratch = common.frames * common.outs]]

\* The context of an effect whose legacy instance was created and initialised.
NewContext(common) ==
    [common |-> common, int16_mode |-> FALSE, in16 |-> 0, out16 |-> 0, out_scratch |-> 0]

CreateContext(e, common, answer) ==
    IF e.context # None THEN e
    ELSE LET made == [life |-> e.life, asked |-> e.asked, context |-> NewContext(common),
                      legacy |-> [config |-> None, format |-> None]]
         IN IF answer = "rejected" THEN e ELSE ApplyConfig(made, common, answer)

\* EffectImpl may go on to fail after the context was made, which it then keeps.
\* A library that cannot create or initialise an instance "rejected" it.
Open(i) ==
    /\ Live(i) /\ ~IsOpen(i)
    /\ \E common \in Commons, answer \in Answers, late \in {FALSE, OpenFailsLate} :
        LET e == CreateContext(effects[i], common, answer)
        IN effects' = [effects EXCEPT ![i] =
                [e EXCEPT !.asked = IF e.context # None /\ ~late THEN common ELSE None]]
    /\ burst' = None /\ UNCHANGED instances_

\* The base class takes the parameters before the library is asked.
SetCommon(i) ==
    /\ IsOpen(i)
    /\ \E common \in Commons, answer \in Answers :
        /\ answer = "rejected" => RejectsLater
        /\ LET e == ApplyConfig([effects[i] EXCEPT !.context.common = common], common, answer)
           IN effects' = [effects EXCEPT ![i] =
                [e EXCEPT !.asked = IF answer = "rejected" THEN @ ELSE common]]
    /\ burst' = None /\ UNCHANGED instances_

\* How much of the output holds what the effect or, when it has nothing to add,
\* its input says.
Written(status, in_place, in_samples, out_samples) ==
    IF status = "ENODATA" /\ in_place /\ in_samples < out_samples THEN in_samples ELSE out_samples

\* EffectImpl hands over what it read from its queue, at most a burst.
Process(i) ==
    /\ IsOpen(i)
    /\ LET e == effects[i]
           common == e.context.common
       IN \E samples \in 1..common.frames * common.ins, status \in {"ok", "ENODATA", "error"},
             in_place \in BOOLEAN :
            LET frames == samples \div common.ins
                out_samples == frames * common.outs
            IN /\ in_place => common.ins = common.outs \/ SharedBuffer
               /\ burst' = IF out_samples > e.context.out_scratch \/ status = "error" THEN None
                           ELSE [by |-> i, frames |-> frames, produced |-> out_samples,
                                 written |-> Written(status, in_place, frames * common.ins,
                                                     out_samples)]
    /\ UNCHANGED <<instances_, effects>>

Released(e) == [e EXCEPT !.asked = None, !.context = None, !.legacy = None]

Close(i) ==
    /\ IsOpen(i)
    /\ effects' = [effects EXCEPT ![i] = Released(@)]
    /\ burst' = None /\ UNCHANGED instances_

\* The instance is forgotten before the base class, which may refuse, closes it.
DestroyEffect(i) ==
    /\ i \in instances_ /\ Live(i)
    /\ instances_' = instances_ \ {i}
    /\ \/ UNCHANGED effects
       \/ IsOpen(i) /\ effects' = [effects EXCEPT ![i] = Released(@)]
    /\ burst' = None

\* The client drops its last reference: the destructor cleans up.
Drop(i) ==
    /\ Live(i)
    /\ effects' = [effects EXCEPT ![i] = [Released(@) EXCEPT !.life = "gone"]]
    /\ burst' = None /\ UNCHANGED instances_

Next ==
    \E i \in Instances :
        \/ CreateEffect(i) \/ Open(i) \/ SetCommon(i) \/ Process(i)
        \/ Close(i) \/ DestroyEffect(i) \/ Drop(i)

Spec == Init /\ [][Next]_vars

-----------------------------------------------------------------------------
\* An open effect has one legacy instance, configured as the client asked and in
\* the format its context converts to (LegacyEffectContext::ApplyConfig).
ConfiguredAsAsked ==
    \A i \in Instances : IsOpen(i) =>
        LET e == effects[i]
        IN /\ e.context # None /\ e.legacy # None
           /\ e.legacy.config = e.asked /\ e.context.common = e.asked
           /\ e.context.int16_mode <=> e.legacy.format = "int16"

\* A legacy instance lives exactly as long as the effect is open, also when the
\* library refused it, a client closed it or died (~LegacyEffect).
NoLegacyLeft == \A i \in Instances : effects[i].legacy # None <=> IsOpen(i)

\* A burst that succeeds fills the output it announces, and neither the library
\* nor the conversion goes beyond the buffers (LegacyEffectContext::Process).
BurstFits ==
    burst # None =>
        LET e == effects[burst.by]
        IN /\ burst.written = burst.produced
           /\ burst.frames * e.legacy.config.outs <= e.context.out_scratch
           /\ e.context.int16_mode => burst.frames * e.legacy.config.ins <= e.context.in16

\* Every open effect is one the factory still knows.  A refused destroyEffect()
\* forgets it before (LegacyFactory.cpp:215).
OpenIsListed == \A i \in Instances : IsOpen(i) => i \in instances_
=============================================================================
