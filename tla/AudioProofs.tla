----------------------------- MODULE AudioProofs -----------------------------
(***************************************************************************)
(* Theorems about the audio HALs: the reference counts and the hand-over   *)
(* of the endpoints of a stream, the bursts of a PCM device, the effects   *)
(* of legacy libraries, and the ports the discovery of the cards offers.   *)
(***************************************************************************)
EXTENDS MCAudio, FiniteSetTheorems, SequenceTheorems, WellFoundedInduction, TLAPS

(***************************************************************************)
(* Who holds which UCM device                                              *)
(***************************************************************************)

\* snd_use_case_set() does not fail and no device conflicts with another.
Undisturbed == SetFails = FALSE /\ \A u \in UcmDevices : Conflicting[u] = {}

Switching(s) == call[s] # None /\ call[s].step = "switch"

\* Element j of a list, counted from its end.
FromEnd(list, j) == list[Len(list) - j]

\* The references a stream holds while the routing is switched: the endpoints of
\* the new list it came to and those of the old list it has not come to.
HoldsNew(s, j) ==
    /\ Switching(s) /\ j < Len(call[s].endpoints)
    /\ Len(call[s].todo) <= Len(connected_endpoints[s]) + j
HoldsOld(s, j) ==
    j < Len(connected_endpoints[s]) /\ (Switching(s) => j < Len(call[s].todo))

Holds(s, list, j, u) ==
    \/ list = "new" /\ HoldsNew(s, j) /\ UcmDevice[FromEnd(call[s].endpoints, j)] = u
    \/ list = "old" /\ HoldsOld(s, j) /\ UcmDevice[FromEnd(connected_endpoints[s], j)] = u

References == Streams \X {"new", "old"} \X Nat
HeldOn(u) == {r \in References : Holds(r[1], r[2], r[3], u)}

\* The reference counts are right, and what is referred to is on.
Counted ==
    /\ \A u \in UcmDevices : IsFiniteSet(HeldOn(u)) /\ refcounts[u] = Cardinality(HeldOn(u))
    /\ enabled = {u \in UcmDevices : HeldOn(u) # {}}

\* `todo` is the end of what a call with these two lists has to do.
EndOf(todo, new, old) ==
    /\ Len(todo) <= Len(new) + Len(old)
    /\ \A i \in 1..Len(todo) : todo[i] = Switch(new, old)[Len(new) + Len(old) - Len(todo) + i]

Remaining(s) == EndOf(call[s].todo, call[s].endpoints, connected_endpoints[s])

Pcs == {"idle", "apply", "copy", "ready", "transfer", "shutdown", "gone"}

StreamTypes ==
    /\ refcounts \in [UcmDevices -> Nat]
    /\ connected_endpoints \in [Streams -> Seq(Endpoints)]
    /\ active_endpoints \in [Streams -> Seq(Endpoints)]
    /\ endpoints_updated \in [Streams -> BOOLEAN] /\ connected \in [Streams -> BOOLEAN]
    /\ call \in [Streams -> Calls \cup {None}]
    /\ pcms \in [Streams -> SUBSET Endpoints]
    /\ worker \in [Streams -> [pc : Pcs, command : {"start", "transfer", None}]]
    /\ life \in [Streams -> {"open", "closed", "destroyed"}]

\* lock_ keeps a call and shutdown() apart, and nothing is connected after the end.
LockKept(s) ==
    /\ Switching(s) => worker[s].pc # "shutdown" /\ Remaining(s)
    /\ life[s] = "open" <=> worker[s].pc \notin {"shutdown", "gone"}
    /\ life[s] = "destroyed" => call[s] = None
    /\ life[s] = "destroyed" /\ worker[s].pc = "gone" => connected_endpoints[s] = << >>

RoutingInv == StreamTypes /\ (\A s \in Streams : LockKept(s)) /\ Counted

-----------------------------------------------------------------------------
\* What the worker of an open stream has to know of its endpoints.
HandedOver(s) ==
    LET noCall == call[s] = None
        step == call[s].step
        seen == ~endpoints_updated[s] /\ worker[s].pc # "copy"
    IN  /\ pcms[s] \subseteq ToSet(active_endpoints[s])
        /\ noCall \/ step = "switch" => (connected[s] <=> connected_endpoints[s] # << >>)
        /\ ~noCall /\ step # "switch" => connected_endpoints[s] = call[s].endpoints
        /\ seen /\ (noCall \/ step # "publish") => active_endpoints[s] = connected_endpoints[s]
        /\ seen /\ ~noCall /\ step = "publish" /\ connected[s] =>
                active_endpoints[s] # << >> \/ call[s].endpoints = << >>

HandOver == \A s \in Streams : life[s] = "open" => HandedOver(s)

-----------------------------------------------------------------------------
\* A set of numbers has a least one.
LEMMA LeastNumber ==
    ASSUME NEW S \in SUBSET Nat, S # {}
    PROVE  \E m \in S : \A k \in S : m <= k
  <1> DEFINE T == {0..m : m \in S}
             R == StrictSubsetOrdering(Nat)
             F == FiniteSubsetsOf(Nat)
  <1>1. T \subseteq F /\ T # {}
    <2>1. \A m \in S : 0..m \in SUBSET Nat /\ IsFiniteSet(0..m)
      BY FS_Interval
    <2> QED
      BY <2>1, Zenon DEF FiniteSubsetsOf
  <1>2. IsWellFoundedOn(R, F)
    BY FS_StrictSubsetOrderingWellFounded
  <1>3. PICK x \in T : \A y \in T : ~(<<y, x>> \in R)
    <2> HIDE DEF T, R, F
    <2> QED  BY <1>1, <1>2, WFMin
  <1>4. PICK m \in S : x = 0..m
    OBVIOUS
  <1>5. ASSUME NEW k \in S, k < m PROVE FALSE
    <2>1. 0..k \in T /\ 0..k \in SUBSET Nat /\ 0..m \in SUBSET Nat
      OBVIOUS
    <2>2. 0..k \subseteq 0..m /\ 0..k # 0..m
      <3>1. m \in 0..m /\ m \notin 0..k
        BY <1>5
      <3> QED  BY <1>5, <3>1
    <2>3. <<0..k, 0..m>> \in R
      BY <2>1, <2>2, Zenon DEF StrictSubsetOrdering
    <2> QED
      BY <1>3, <1>4, <2>1, <2>3
  <1> QED  BY <1>5

\* A function on 1..n is a sequence of length n.
LEMMA SequenceOf ==
    ASSUME NEW S, NEW n \in Nat, NEW f \in [1..n -> S]
    PROVE  f \in Seq(S) /\ Len(f) = n
  OBVIOUS

\* Uses() has a use for every endpoint of the list.
LEMMA UsesOf ==
    ASSUME NEW kind \in {"acquire", "release"}, NEW list \in Seq(Endpoints)
    PROVE  /\ Uses(kind, list) \in Seq([op : {"acquire", "release"}, endpoint : Endpoints])
           /\ Len(Uses(kind, list)) = Len(list)
           /\ \A i \in 1..Len(list) : Uses(kind, list)[i] = [op |-> kind, endpoint |-> list[i]]
  <1> DEFINE S == [op : {"acquire", "release"}, endpoint : Endpoints]
             n == Len(list)
  <1>1. n \in Nat /\ DOMAIN list = 1..n /\ \A i \in 1..n : list[i] \in Endpoints
    BY LenProperties
  <1>2. /\ Uses(kind, list) \in [1..n -> S]
        /\ \A i \in 1..n : Uses(kind, list)[i] = [op |-> kind, endpoint |-> list[i]]
    <2> HIDE DEF n
    <2> QED  BY <1>1 DEF Uses
  <1> HIDE DEF n, S
  <1>3. Uses(kind, list) \in Seq(S) /\ Len(Uses(kind, list)) = n
    BY <1>1, <1>2, SequenceOf
  <1> QED
    BY <1>2, <1>3 DEF n, S

\* What setConnectedDevices() asks of the routing controller, use by use.
LEMMA SwitchUses ==
    ASSUME NEW new \in Seq(Endpoints), NEW old \in Seq(Endpoints)
    PROVE  /\ Switch(new, old) \in Seq([op : {"acquire", "release"}, endpoint : Endpoints])
           /\ Len(Switch(new, old)) = Len(new) + Len(old)
           /\ \A i \in 1..Len(new) :
                Switch(new, old)[i] = [op |-> "acquire", endpoint |-> new[i]]
           /\ \A i \in 1..Len(old) :
                Switch(new, old)[Len(new) + i] = [op |-> "release", endpoint |-> old[i]]
  <1> DEFINE S == [op : {"acquire", "release"}, endpoint : Endpoints]
             a == Uses("acquire", new)
             b == Uses("release", old)
  <1>1. /\ a \in Seq(S) /\ Len(a) = Len(new)
        /\ \A i \in 1..Len(new) : a[i] = [op |-> "acquire", endpoint |-> new[i]]
    BY UsesOf
  <1>2. /\ b \in Seq(S) /\ Len(b) = Len(old)
        /\ \A i \in 1..Len(old) : b[i] = [op |-> "release", endpoint |-> old[i]]
    BY UsesOf
  <1>3. Switch(new, old) = a \o b
    BY DEF Switch
  <1>4. Len(new) \in Nat /\ Len(old) \in Nat
    BY LenProperties
  <1> HIDE DEF a, b, S
  <1>5. /\ a \o b \in Seq(S) /\ Len(a \o b) = Len(a) + Len(b)
        /\ \A i \in 1..Len(a) + Len(b) :
                (a \o b)[i] = IF i <= Len(a) THEN a[i] ELSE b[i - Len(a)]
    <2>1. a \in Seq(S) /\ b \in Seq(S)
      BY <1>1, <1>2
    <2> QED
      BY <2>1, ConcatProperties
  <1>6. \A i \in 1..Len(new) : (a \o b)[i] = a[i]
    BY <1>1, <1>2, <1>4, <1>5
  <1>7. ASSUME NEW i \in 1..Len(old) PROVE (a \o b)[Len(new) + i] = b[i]
    BY <1>1, <1>2, <1>4, <1>5
  <1> QED
    BY <1>1, <1>2, <1>3, <1>5, <1>6, <1>7 DEF S

\* A device of the framework resolves to an endpoint of the inventory.
LEMMA ResolvedType ==
    ASSUME NEW d \in Devices, NEW jacks, Resolved(d, jacks) # None
    PROVE  Resolved(d, jacks) \in Endpoints
  <1>1. Endpoint[d] \in Endpoints \cup {None} /\ UsbEndpoint[d] \in Endpoints \cup {None}
    BY RoutingAssumption
  <1>2. ASSUME NEW e \in Endpoints PROVE SelectHdmiEndpoint(e, jacks) \in Endpoints
    <2> DEFINE heads(said) == {i \in DOMAIN HdmiHeads : jacks[i] = said}
    <2>1. HdmiHeads \in Seq(Endpoints)
      BY RoutingAssumption
    <2>2. ASSUME NEW said, heads(said) # {} PROVE HdmiHeads[Min(heads(said))] \in Endpoints
      <3>1. heads(said) \in SUBSET Nat /\ \A i \in heads(said) : HdmiHeads[i] \in Endpoints
        BY <2>1
      <3> HIDE DEF heads
      <3> QED  BY <2>2, <3>1, LeastNumber DEF Min
    <2> QED
      BY <1>2, <2>2 DEF SelectHdmiEndpoint
  <1> QED
    BY <1>1, <1>2 DEF Resolved

-----------------------------------------------------------------------------
\* What a step leaves to a stream stays with it.
LEMMA SameHolds ==
    ASSUME NEW t, call'[t] = call[t], connected_endpoints'[t] = connected_endpoints[t]
    PROVE  \A list, j, u : Holds(t, list, j, u)' <=> Holds(t, list, j, u)
  BY DEF Holds, HoldsNew, HoldsOld, Switching, FromEnd

\* One more reference of a stream.
Gains(s, list, j, e) ==
    \A r \in References, u \in UcmDevices :
        Holds(r[1], r[2], r[3], u)' <=>
            \/ Holds(r[1], r[2], r[3], u)
            \/ r[1] = s /\ r[2] = list /\ r[3] = j /\ UcmDevice[e] = u

\* The first reference switches a device on, and any other is counted.
LEMMA AcquireCounts ==
    ASSUME Undisturbed, StreamTypes, Counted, NEW s \in Streams, NEW list \in {"new", "old"},
           NEW j \in Nat, NEW e \in Endpoints, Acquire(e), Gains(s, list, j, e),
           \A u : ~Holds(s, list, j, u)
    PROVE  Counted' /\ refcounts' \in [UcmDevices -> Nat]
  <1> DEFINE r == <<s, list, j>>
             v == UcmDevice[e]
  <1>1. r \in References /\ r[1] = s /\ r[2] = list /\ r[3] = j
    BY DEF References
  <1>2. \A u \in UcmDevices : r \notin HeldOn(u)
    BY <1>1 DEF HeldOn
  <1>3. \A u \in UcmDevices : u # v => HeldOn(u)' = HeldOn(u)
    BY DEF HeldOn, Gains
  <1>4. v \in UcmDevices => HeldOn(v)' = HeldOn(v) \cup {r}
    <2> SUFFICES ASSUME v \in UcmDevices PROVE HeldOn(v)' = HeldOn(v) \cup {r}
      OBVIOUS
    <2>1. \A q \in References : q \in HeldOn(v)' <=> q \in HeldOn(v) \/ q = r
      <3> SUFFICES ASSUME NEW q \in References
                   PROVE  q \in HeldOn(v)' <=> q \in HeldOn(v) \/ q = r
        OBVIOUS
      <3>1. q = r <=> q[1] = s /\ q[2] = list /\ q[3] = j
        BY DEF References
      <3> QED
        BY <3>1 DEF HeldOn, Gains
    <2>2. HeldOn(v) \subseteq References /\ HeldOn(v)' \subseteq References
      BY DEF HeldOn, References
    <2> HIDE DEF r, v
    <2> QED
      BY <1>1, <2>1, <2>2
  <1> HIDE DEF r
  <1>5. CASE v = None
    <2>1. UNCHANGED routing
      BY <1>5 DEF Acquire
    <2> QED
      BY <1>3, <1>5, <2>1, RoutingAssumption DEF Counted, StreamTypes, routing
  <1>6. CASE v # None
    <2>1. v \in UcmDevices
      BY <1>6, RoutingAssumption
    <2>2. refcounts' = [refcounts EXCEPT ![v] = @ + 1]
      BY <1>6 DEF Acquire
    <2>3. /\ IsFiniteSet(HeldOn(v)) /\ refcounts[v] = Cardinality(HeldOn(v))
          /\ refcounts[v] \in Nat
      BY <2>1 DEF Counted, StreamTypes
    <2>4. /\ IsFiniteSet(HeldOn(v)') /\ refcounts'[v] = Cardinality(HeldOn(v)')
          /\ HeldOn(v)' # {}
      <3>1. IsFiniteSet(HeldOn(v) \cup {r}) /\ Cardinality(HeldOn(v) \cup {r}) = Cardinality(HeldOn(v)) + 1
        BY <1>2, <2>1, <2>3, FS_AddElement
      <3> QED
        BY <1>4, <2>1, <2>2, <2>3, <3>1 DEF StreamTypes
    <2>5. refcounts[v] = 0 <=> HeldOn(v) = {}
      BY <2>3, FS_EmptySet
    <2>6. enabled' = enabled \cup {v}
      <3>1. CASE refcounts[v] = 0
        <4>1. enabled' \in EnableDevice(v, enabled)
          BY <1>6, <3>1 DEF Acquire
        <4> QED
          BY <2>1, <4>1 DEF EnableDevice, Undisturbed
      <3>2. CASE refcounts[v] # 0
        <4>1. UNCHANGED enabled
          BY <1>6, <3>2 DEF Acquire
        <4> QED
          BY <2>1, <2>5, <3>2, <4>1 DEF Counted
      <3> QED
        BY <3>1, <3>2
    <2> HIDE DEF v
    <2>7. \A u \in UcmDevices :
            IsFiniteSet(HeldOn(u)') /\ refcounts'[u] = Cardinality(HeldOn(u)')
      BY <1>3, <2>1, <2>2, <2>4 DEF Counted, StreamTypes
    <2>8. enabled' = {u \in UcmDevices : HeldOn(u)' # {}}
      BY <1>3, <2>1, <2>4, <2>6 DEF Counted
    <2> QED
      BY <2>1, <2>2, <2>3, <2>7, <2>8 DEF Counted, StreamTypes
  <1> QED
    BY <1>5, <1>6

\* A reference less.
Loses(s, list, j) ==
    \A r \in References, u \in UcmDevices :
        Holds(r[1], r[2], r[3], u)' <=>
            Holds(r[1], r[2], r[3], u) /\ ~(r[1] = s /\ r[2] = list /\ r[3] = j)

\* The last reference switches a device off, any other is counted.
LEMMA ReleaseCounts ==
    ASSUME Undisturbed, StreamTypes, Counted, NEW s \in Streams, NEW list \in {"new", "old"},
           NEW j \in Nat, NEW e \in Endpoints, Release(e), Loses(s, list, j),
           \A u \in UcmDevices : Holds(s, list, j, u) <=> UcmDevice[e] = u
    PROVE  Counted' /\ refcounts' \in [UcmDevices -> Nat]
  <1> DEFINE r == <<s, list, j>>
             v == UcmDevice[e]
  <1>1. r \in References /\ r[1] = s /\ r[2] = list /\ r[3] = j
    BY DEF References
  <1>2. \A u \in UcmDevices : r \in HeldOn(u) <=> u = v
    BY <1>1 DEF HeldOn
  <1>3. \A u \in UcmDevices : HeldOn(u)' = HeldOn(u) \ {r}
    <2> SUFFICES ASSUME NEW u \in UcmDevices PROVE HeldOn(u)' = HeldOn(u) \ {r}
      OBVIOUS
    <2>1. \A q \in References : q \in HeldOn(u)' <=> q \in HeldOn(u) /\ q # r
      <3> SUFFICES ASSUME NEW q \in References
                   PROVE  q \in HeldOn(u)' <=> q \in HeldOn(u) /\ q # r
        OBVIOUS
      <3>1. q = r <=> q[1] = s /\ q[2] = list /\ q[3] = j
        BY DEF References
      <3> QED
        BY <3>1 DEF HeldOn, Loses
    <2>2. HeldOn(u) \subseteq References /\ HeldOn(u)' \subseteq References
      BY DEF HeldOn, References
    <2> HIDE DEF r
    <2> QED
      BY <2>1, <2>2
  <1> HIDE DEF r
  <1>4. \A u \in UcmDevices : u # v => HeldOn(u)' = HeldOn(u)
    BY <1>2, <1>3
  <1>5. CASE v = None
    <2>1. UNCHANGED routing
      BY <1>5 DEF Release
    <2> QED
      BY <1>4, <1>5, <2>1, RoutingAssumption DEF Counted, StreamTypes, routing
  <1>6. CASE v # None
    <2>1. v \in UcmDevices
      BY <1>6, RoutingAssumption
    <2>2. /\ IsFiniteSet(HeldOn(v)) /\ refcounts[v] = Cardinality(HeldOn(v))
          /\ refcounts[v] \in Nat /\ r \in HeldOn(v) /\ HeldOn(v)' = HeldOn(v) \ {r}
      BY <1>2, <1>3, <2>1 DEF Counted, StreamTypes
    <2>3. refcounts[v] # 0
      BY <2>2, FS_EmptySet
    <2>4. refcounts' = [refcounts EXCEPT ![v] = @ - 1]
      BY <1>6, <2>3 DEF Release
    <2>5. /\ IsFiniteSet(HeldOn(v)') /\ Cardinality(HeldOn(v)') = refcounts[v] - 1
          /\ refcounts'[v] = Cardinality(HeldOn(v)') /\ refcounts'[v] \in Nat
      <3>1. IsFiniteSet(HeldOn(v) \ {r}) /\ Cardinality(HeldOn(v) \ {r}) = Cardinality(HeldOn(v)) - 1
        BY <2>2, FS_RemoveElement
      <3> QED
        BY <2>1, <2>2, <2>3, <2>4, <3>1 DEF StreamTypes
    <2>6. refcounts[v] = 1 <=> HeldOn(v)' = {}
      BY <2>2, <2>5, FS_EmptySet
    <2>7. enabled' = IF HeldOn(v)' = {} THEN enabled \ {v} ELSE enabled
      <3>1. CASE refcounts[v] = 1
        <4>1. enabled' \in DisableDevice(v, enabled)
          BY <1>6, <2>3, <3>1 DEF Release
        <4> QED
          BY <2>6, <3>1, <4>1 DEF DisableDevice, Undisturbed
      <3>2. CASE refcounts[v] # 1
        BY <1>6, <2>3, <2>6, <3>2 DEF Release
      <3> QED
        BY <3>1, <3>2
    <2> HIDE DEF v
    <2>8. \A u \in UcmDevices :
            IsFiniteSet(HeldOn(u)') /\ refcounts'[u] = Cardinality(HeldOn(u)')
      BY <1>4, <2>1, <2>4, <2>5 DEF Counted, StreamTypes
    <2>9. enabled' = {u \in UcmDevices : HeldOn(u)' # {}}
      BY <1>4, <2>1, <2>2, <2>7 DEF Counted
    <2> QED
      BY <2>1, <2>4, <2>5, <2>8, <2>9 DEF Counted, StreamTypes
  <1> QED
    BY <1>5, <1>6

\* The references of the new list become those of the list.
LEMMA RenameCounts ==
    ASSUME StreamTypes, Counted, NEW s \in Streams, UNCHANGED routing,
           \A j \in Nat, u \in UcmDevices :
                /\ ~Holds(s, "old", j, u) /\ ~Holds(s, "new", j, u)'
                /\ Holds(s, "old", j, u)' <=> Holds(s, "new", j, u),
           \A t \in Streams \ {s} : \A list, j, u : Holds(t, list, j, u)' <=> Holds(t, list, j, u)
    PROVE  Counted'
  <1> SUFFICES ASSUME NEW u \in UcmDevices
               PROVE  /\ IsFiniteSet(HeldOn(u)') /\ Cardinality(HeldOn(u)') = Cardinality(HeldOn(u))
                      /\ HeldOn(u)' = {} <=> HeldOn(u) = {}
    BY DEF Counted, routing
  <1> DEFINE old(r) == IF r[1] = s THEN <<s, "old", r[3]>> ELSE r
             f == [r \in HeldOn(u) |-> old(r)]
  <1>1. \A r \in HeldOn(u) : r \in References /\ (r[1] = s => r[2] = "new") /\ Holds(r[1], r[2], r[3], u)
    BY DEF HeldOn, References
  <1>2. \A r \in HeldOn(u) : old(r) \in HeldOn(u)'
    <2> SUFFICES ASSUME NEW r \in HeldOn(u) PROVE old(r) \in HeldOn(u)'
      OBVIOUS
    <2>1. CASE r[1] = s
      <3>1. r[3] \in Nat /\ Holds(s, "new", r[3], u)
        BY <1>1, <2>1 DEF References
      <3>2. <<s, "old", r[3]>> \in References /\ Holds(s, "old", r[3], u)'
        BY <3>1 DEF References
      <3> QED
        BY <2>1, <3>2 DEF HeldOn
    <2>2. CASE r[1] # s
      <3>1. r[1] \in Streams \ {s} /\ r \in References
        BY <1>1, <2>2 DEF References
      <3> QED
        BY <1>1, <2>2, <3>1 DEF HeldOn
    <2> QED
      BY <2>1, <2>2
  <1>3. \A q, r \in HeldOn(u) : old(q) = old(r) => q = r
    BY <1>1 DEF References
  <1>4. \A q \in HeldOn(u)' : \E r \in HeldOn(u) : old(r) = q
    <2> SUFFICES ASSUME NEW q \in HeldOn(u)' PROVE \E r \in HeldOn(u) : old(r) = q
      OBVIOUS
    <2>1. q \in References /\ Holds(q[1], q[2], q[3], u)'
      BY DEF HeldOn, References
    <2>2. CASE q[1] = s
      <3>1. q[3] \in Nat /\ q[2] \in {"new", "old"} /\ q = <<q[1], q[2], q[3]>>
        BY <2>1 DEF References
      <3>2. q[2] = "old" /\ Holds(s, "new", q[3], u)
        BY <2>1, <2>2, <3>1
      <3>3. <<s, "new", q[3]>> \in HeldOn(u)
        BY <3>1, <3>2 DEF HeldOn, References
      <3>4. old(<<s, "new", q[3]>>) = q
        BY <2>2, <3>1, <3>2
      <3> QED
        BY <3>3, <3>4
    <2>3. CASE q[1] # s
      <3>1. q[1] \in Streams \ {s}
        BY <2>1, <2>3 DEF References
      <3>2. q \in HeldOn(u) /\ old(q) = q
        BY <2>1, <2>3, <3>1 DEF HeldOn
      <3> QED
        BY <3>2
    <2> QED
      BY <2>2, <2>3
  <1> HIDE DEF old
  <1>5. f \in Bijection(HeldOn(u), HeldOn(u)')
    BY <1>2, <1>3, <1>4 DEF Bijection, Injection, Surjection, IsInjective
  <1>6. IsFiniteSet(HeldOn(u)) /\ ExistsBijection(HeldOn(u), HeldOn(u)')
    BY <1>5 DEF ExistsBijection, Counted
  <1>7. IsFiniteSet(HeldOn(u)') /\ Cardinality(HeldOn(u)') = Cardinality(HeldOn(u))
    BY <1>6, FS_Bijection
  <1> QED
    BY <1>6, <1>7, FS_EmptySet

\* A step of s leaves another stream alone.
Unmoved(t) ==
    /\ call'[t] = call[t] /\ connected_endpoints'[t] = connected_endpoints[t]
    /\ worker'[t] = worker[t] /\ life'[t] = life[t]

LEMMA UnmovedKept ==
    ASSUME NEW t, Unmoved(t), LockKept(t)
    PROVE  LockKept(t)'
  BY DEF Unmoved, LockKept, Switching, Remaining

\* A step of s that neither acquires nor releases.
LEMMA NothingCounts ==
    ASSUME RoutingInv, StreamTypes', NEW s \in Streams, UNCHANGED routing, LockKept(s)',
           \A t \in Streams \ {s} : Unmoved(t),
           \A list, u : \A j \in Nat : Holds(s, list, j, u)' <=> Holds(s, list, j, u)
    PROVE  RoutingInv'
  <1>1. \A t \in Streams : LockKept(t)'
    BY UnmovedKept DEF RoutingInv
  <1>2. \A t \in Streams : \A list, u : \A j \in Nat :
            Holds(t, list, j, u)' <=> Holds(t, list, j, u)
    BY SameHolds DEF Unmoved
  <1>3. \A u : HeldOn(u)' = HeldOn(u)
    <2> SUFFICES ASSUME NEW u PROVE HeldOn(u)' = HeldOn(u)
      OBVIOUS
    <2>1. \A r \in References : Holds(r[1], r[2], r[3], u)' <=> Holds(r[1], r[2], r[3], u)
      BY <1>2 DEF References
    <2> QED
      BY <2>1 DEF HeldOn
  <1>4. Counted'
    BY <1>3 DEF RoutingInv, Counted, routing
  <1> QED
    BY <1>1, <1>4 DEF RoutingInv

\* A call that passed the checks has everything to do and holds what it held.
LEMMA CallStarts ==
    ASSUME RoutingInv, NEW s \in Streams, NEW devices \in DeviceLists,
           SetConnectedDevices(s, devices)
    PROVE  RoutingInv'
  <1> DEFINE old == connected_endpoints[s]
             resolved(jacks) == [i \in DOMAIN devices |-> Resolved(devices[i], jacks)]
             begun(new) == [step |-> "switch", endpoints |-> new, todo |-> Switch(new, old)]
  <1>1. /\ life[s] # "destroyed" /\ call[s] = None /\ worker[s].pc # "shutdown"
        /\ UNCHANGED <<inputs, routing, connected_endpoints, endpoints_updated, connected, threads, life>>
    BY DEF SetConnectedDevices, Locked
  <1>2. PICK jacks \in [DOMAIN HdmiHeads -> {"plugged", "unplugged", "unknown"}] :
            /\ ResolveEndpoints(s, devices, jacks)
            /\ call' = [call EXCEPT ![s] = begun(resolved(jacks))]
    BY Zenon DEF SetConnectedDevices
  <1> DEFINE new == resolved(jacks)
  <1>3. old \in Seq(Endpoints) /\ new \in Seq(Endpoints)
    <2>1. devices \in Seq(Devices)
      BY RoutingAssumption
    <2>2. Len(devices) \in Nat /\ DOMAIN devices = 1..Len(devices)
          /\ \A i \in 1..Len(devices) : devices[i] \in Devices
      BY <2>1, LenProperties
    <2>3. \A i \in 1..Len(devices) : Resolved(devices[i], jacks) \in Endpoints
      BY <1>2, <2>2, ResolvedType DEF ResolveEndpoints
    <2>4. new \in [1..Len(devices) -> Endpoints]
      BY <2>2, <2>3
    <2> HIDE DEF new
    <2> QED
      BY <2>2, <2>4, SequenceOf DEF RoutingInv, StreamTypes
  <1> HIDE DEF new, old, resolved
  <1>4. /\ Switch(new, old) \in Seq([op : {"acquire", "release"}, endpoint : Endpoints])
        /\ Len(Switch(new, old)) = Len(new) + Len(old)
    BY <1>3, SwitchUses
  <1>5. begun(new) \in Calls /\ begun(new) # None
    BY <1>3, <1>4, RoutingAssumption DEF Calls
  <1>6. call' = [call EXCEPT ![s] = begun(new)]
    BY <1>2 DEF new
  <1>7. StreamTypes'
    <2> HIDE DEF begun
    <2> QED  BY <1>1, <1>5, <1>6 DEF RoutingInv, StreamTypes, threads, routing
  <1>8. /\ call'[s] # None /\ call'[s].step = "switch" /\ call'[s].endpoints = new
        /\ call'[s].todo = Switch(new, old) /\ connected_endpoints'[s] = old
    BY <1>1, <1>5, <1>6 DEF RoutingInv, StreamTypes, old
  <1>9. Remaining(s)'
    <2>1. /\ Len(new) \in Nat /\ Len(old) \in Nat
          /\ \A i \in Nat : Len(new) + Len(old) - (Len(new) + Len(old)) + i = i
      BY <1>3, LenProperties
    <2>2. EndOf(Switch(new, old), new, old)
      BY <1>4, <2>1 DEF EndOf
    <2> HIDE DEF begun
    <2> QED
      BY <1>8, <2>2 DEF Remaining
  <1>10. LockKept(s)'
    BY <1>1, <1>8, <1>9 DEF LockKept, RoutingInv, threads
  <1>11. \A t \in Streams \ {s} : Unmoved(t)
    BY <1>1, <1>6 DEF Unmoved, RoutingInv, StreamTypes, threads
  <1>12. \A list, u : \A j \in Nat : Holds(s, list, j, u)' <=> Holds(s, list, j, u)
    <2> SUFFICES ASSUME NEW j \in Nat
                 PROVE  ~HoldsNew(s, j) /\ ~HoldsNew(s, j)' /\ (HoldsOld(s, j)' <=> HoldsOld(s, j))
      BY <1>8 DEF Holds, FromEnd, old
    <2>1. Len(new) \in Nat /\ Len(old) \in Nat
      BY <1>3, LenProperties
    <2>2. ~HoldsNew(s, j) /\ (HoldsOld(s, j) <=> j < Len(old))
      BY <1>1 DEF HoldsNew, HoldsOld, Switching, old
    <2>3. HoldsNew(s, j)' <=> j < Len(new) /\ Len(new) + Len(old) <= Len(old) + j
      BY <1>4, <1>8 DEF HoldsNew, Switching
    <2>4. HoldsOld(s, j)' <=> j < Len(old) /\ j < Len(new) + Len(old)
      BY <1>4, <1>8 DEF HoldsOld, Switching
    <2> QED
      BY <2>1, <2>2, <2>3, <2>4
  <1> QED
    BY <1>1, <1>7, <1>10, <1>11, <1>12, NothingCounts

\* The first use of what is left of a call, and what is left after it.
LEMMA FirstUse ==
    ASSUME NEW new \in Seq(Endpoints), NEW old \in Seq(Endpoints),
           NEW todo \in Seq([op : {"acquire", "release"}, endpoint : Endpoints]),
           todo # << >>, EndOf(todo, new, old)
    PROVE  /\ Len(new) \in Nat /\ Len(old) \in Nat /\ Len(todo) \in 1..Len(new) + Len(old)
           /\ Head(todo).op = "acquire" =>
                /\ Len(todo) > Len(old)
                /\ Head(todo).endpoint = FromEnd(new, Len(todo) - Len(old) - 1)
           /\ Head(todo).op # "acquire" =>
                Len(todo) <= Len(old) /\ Head(todo).endpoint = FromEnd(old, Len(todo) - 1)
           /\ Head(todo).endpoint \in Endpoints
           /\ Tail(todo) \in Seq([op : {"acquire", "release"}, endpoint : Endpoints])
           /\ Len(Tail(todo)) = Len(todo) - 1 /\ EndOf(Tail(todo), new, old)
  <1> DEFINE S == [op : {"acquire", "release"}, endpoint : Endpoints]
             m == Len(new)
             n == Len(old)
             k == Len(todo)
             whole == Switch(new, old)
  <1>1. m \in Nat /\ n \in Nat /\ k \in Nat /\ k # 0
    BY LenProperties, EmptySeq
  <1>2. /\ \A i \in 1..m : whole[i] = [op |-> "acquire", endpoint |-> new[i]]
        /\ \A i \in 1..n : whole[m + i] = [op |-> "release", endpoint |-> old[i]]
    BY SwitchUses
  <1>3. k <= m + n /\ \A i \in 1..k : todo[i] = whole[m + n - k + i]
    BY DEF EndOf
  <1>4. /\ Head(todo) = todo[1] /\ Head(todo) \in S /\ Tail(todo) \in Seq(S)
        /\ Len(Tail(todo)) = k - 1 /\ \A i \in 1..k - 1 : Tail(todo)[i] = todo[i + 1]
    <2>1. Head(todo) \in S /\ Tail(todo) \in Seq(S)
      BY HeadTailProperties
    <2> QED
      BY <2>1
  <1> HIDE DEF whole, m, n, k, S
  <1>5. todo[1] = whole[m + n - k + 1] /\ k \in 1..m + n
    BY <1>1, <1>3
  <1>6. ASSUME k > n
        PROVE  Head(todo).op = "acquire" /\ Head(todo).endpoint = FromEnd(new, k - n - 1)
    <2>1. m + n - k + 1 \in 1..m /\ m + n - k + 1 = m - (k - n - 1)
      BY <1>1, <1>5, <1>6
    <2>2. todo[1] = [op |-> "acquire", endpoint |-> new[m - (k - n - 1)]]
      BY <1>2, <1>5, <2>1
    <2> QED
      BY <1>4, <1>6, <2>2 DEF FromEnd, m, n, k
  <1>7. ASSUME k <= n
        PROVE  Head(todo).op = "release" /\ Head(todo).endpoint = FromEnd(old, k - 1)
    <2>1. n - (k - 1) \in 1..n /\ m + n - k + 1 = m + (n - (k - 1))
      BY <1>1, <1>5, <1>7
    <2>2. todo[1] = [op |-> "release", endpoint |-> old[n - (k - 1)]]
      BY <1>2, <1>5, <2>1
    <2> QED
      BY <1>1, <1>4, <1>7, <2>2 DEF FromEnd, n, k
  <1>8. EndOf(Tail(todo), new, old)
    <2>1. ASSUME NEW i \in 1..k - 1 PROVE Tail(todo)[i] = whole[m + n - (k - 1) + i]
      <3>1. i + 1 \in 1..k /\ m + n - (k - 1) + i = m + n - k + (i + 1)
        BY <1>1
      <3> QED
        BY <1>3, <1>4, <3>1
    <2>2. k - 1 <= m + n
      BY <1>1, <1>3
    <2> QED
      BY <1>4, <2>1, <2>2 DEF EndOf, m, n, k, whole
  <1>9. Head(todo).endpoint \in Endpoints
    BY <1>4 DEF S
  <1>10. k > n \/ k <= n
    BY <1>1
  <1> QED
    BY <1>1, <1>4, <1>5, <1>6, <1>7, <1>8, <1>9, <1>10 DEF m, n, k, S

\* Each use of a call is counted, and at its end the new list is the list.
LEMMA CallProceeds ==
    ASSUME Undisturbed, RoutingInv, NEW s \in Streams, SwitchNext(s)
    PROVE  RoutingInv'
  <1> DEFINE new == call[s].endpoints
             old == connected_endpoints[s]
             k == Len(call[s].todo)
             use == Head(call[s].todo)
  <1>1. /\ Switching(s) /\ UNCHANGED <<inputs, endpoints_updated, connected, calls, threads, life>>
        /\ call[s] \in Calls /\ new \in Seq(Endpoints) /\ old \in Seq(Endpoints)
    BY DEF SwitchNext, Switching, RoutingInv, StreamTypes, Calls
  <1>2. CASE call[s].todo # << >>
    <2>1. /\ call' = [call EXCEPT ![s].todo = Tail(@)] /\ UNCHANGED connected_endpoints
          /\ IF use.op = "acquire" THEN Acquire(use.endpoint) ELSE Release(use.endpoint)
      BY <1>2 DEF SwitchNext
    <2>2. /\ Len(new) \in Nat /\ Len(old) \in Nat /\ k \in 1..Len(new) + Len(old)
          /\ use.op = "acquire" => k > Len(old) /\ use.endpoint = FromEnd(new, k - Len(old) - 1)
          /\ use.op # "acquire" => k <= Len(old) /\ use.endpoint = FromEnd(old, k - 1)
          /\ use.endpoint \in Endpoints
          /\ call' \in [Streams -> Calls \cup {None}] /\ Switching(s)'
          /\ call'[s].endpoints = new /\ Len(call'[s].todo) = k - 1
          /\ Remaining(s)'
      <3> DEFINE todo == call[s].todo
                 S == [op : {"acquire", "release"}, endpoint : Endpoints]
                 next == [call[s] EXCEPT !.todo = Tail(todo)]
      <3>1. todo \in Seq(S) /\ EndOf(todo, new, old) /\ call[s].step = "switch"
        BY <1>1 DEF Calls, Switching, RoutingInv, LockKept, Remaining
      <3>2. /\ Len(new) \in Nat /\ Len(old) \in Nat /\ k \in 1..Len(new) + Len(old)
            /\ use.op = "acquire" => k > Len(old) /\ use.endpoint = FromEnd(new, k - Len(old) - 1)
            /\ use.op # "acquire" => k <= Len(old) /\ use.endpoint = FromEnd(old, k - 1)
            /\ use.endpoint \in Endpoints
            /\ Tail(todo) \in Seq(S) /\ Len(Tail(todo)) = k - 1 /\ EndOf(Tail(todo), new, old)
        <4> HIDE DEF new, old
        <4> QED  BY <1>1, <1>2, <3>1, FirstUse
      <3>3. /\ next \in Calls /\ next.step = "switch" /\ next.endpoints = new
            /\ next.todo = Tail(todo)
        BY <1>1, <3>1, <3>2 DEF Calls
      <3> HIDE DEF next
      <3>4. call' = [call EXCEPT ![s] = next]
        BY <2>1 DEF next
      <3>5. /\ call' \in [Streams -> Calls \cup {None}] /\ call'[s] = next
        BY <3>3, <3>4 DEF RoutingInv, StreamTypes
      <3>6. Switching(s)'
        BY <3>3, <3>5, RoutingAssumption DEF Switching
      <3>7. Remaining(s)'
        BY <2>1, <3>2, <3>3, <3>5 DEF Remaining
      <3> QED
        BY <3>2, <3>3, <3>5, <3>6, <3>7
    <2>3. \A t \in Streams \ {s} : Unmoved(t)
      BY <1>1, <2>1 DEF Unmoved, RoutingInv, StreamTypes, threads
    <2>4. \A t \in Streams : LockKept(t)'
      <3>1. LockKept(s)'
        BY <1>1, <2>1, <2>2 DEF LockKept, RoutingInv, Switching, threads
      <3> QED
        BY <2>3, <3>1, UnmovedKept DEF RoutingInv
    <2>5. \A t \in Streams \ {s} : \A list, j, u : Holds(t, list, j, u)' <=> Holds(t, list, j, u)
      BY <2>3, SameHolds DEF Unmoved
    <2>6. \A j, u : /\ Holds(s, "new", j, u) <=> /\ j < Len(new) /\ k <= Len(old) + j
                                                 /\ UcmDevice[FromEnd(new, j)] = u
                    /\ Holds(s, "old", j, u) <=> /\ j < Len(old) /\ j < k
                                                 /\ UcmDevice[FromEnd(old, j)] = u
      BY <1>1 DEF Holds, HoldsNew, HoldsOld
    <2>7. \A j, u : /\ Holds(s, "new", j, u)' <=> /\ j < Len(new) /\ k - 1 <= Len(old) + j
                                                  /\ UcmDevice[FromEnd(new, j)] = u
                    /\ Holds(s, "old", j, u)' <=> /\ j < Len(old) /\ j < k - 1
                                                  /\ UcmDevice[FromEnd(old, j)] = u
      BY <2>1, <2>2 DEF Holds, HoldsNew, HoldsOld, FromEnd
    <2> HIDE DEF new, old, k, use
    <2>8. Counted' /\ refcounts' \in [UcmDevices -> Nat]
      <3>1. CASE use.op = "acquire"
        <4> DEFINE i == k - Len(old) - 1
        <4>1. i \in Nat /\ i < Len(new) /\ use.endpoint = FromEnd(new, i)
          BY <2>2, <3>1
        <4>2. \A u : ~Holds(s, "new", i, u)
          BY <2>2, <2>6, <4>1
        <4>3. \A j \in Nat : \A u : Holds(s, "new", j, u)' <=>
                Holds(s, "new", j, u) \/ (j = i /\ UcmDevice[use.endpoint] = u)
          <5> SUFFICES ASSUME NEW j \in Nat, NEW u
                       PROVE  Holds(s, "new", j, u)' <=>
                                Holds(s, "new", j, u) \/ (j = i /\ UcmDevice[use.endpoint] = u)
            OBVIOUS
          <5>1. k - 1 <= Len(old) + j <=> k <= Len(old) + j \/ j = i
            BY <2>2
          <5> QED
            BY <2>6, <2>7, <4>1, <5>1
        <4>4. \A j \in Nat : \A u : Holds(s, "old", j, u)' <=> Holds(s, "old", j, u)
          <5> SUFFICES ASSUME NEW j \in Nat
                       PROVE  j < Len(old) /\ j < k - 1 <=> j < Len(old) /\ j < k
            BY <2>6, <2>7
          <5> QED
            BY <2>2, <3>1
        <4>5. Gains(s, "new", i, use.endpoint)
          BY <2>5, <4>3, <4>4 DEF Gains, References
        <4> QED
          BY <2>1, <2>2, <3>1, <4>1, <4>2, <4>5, AcquireCounts DEF RoutingInv
      <3>2. CASE use.op # "acquire"
        <4> DEFINE i == k - 1
        <4>1. i \in Nat /\ i < Len(old) /\ use.endpoint = FromEnd(old, i)
          BY <2>2, <3>2
        <4>2. \A u \in UcmDevices : Holds(s, "old", i, u) <=> UcmDevice[use.endpoint] = u
          BY <2>2, <2>6, <4>1
        <4>3. \A j \in Nat : \A u : Holds(s, "old", j, u)' <=> Holds(s, "old", j, u) /\ j # i
          <5> SUFFICES ASSUME NEW j \in Nat PROVE j < k - 1 <=> j < k /\ j # i
            BY <2>6, <2>7
          <5> QED
            BY <2>2
        <4>4. \A j \in Nat : \A u : Holds(s, "new", j, u)' <=> Holds(s, "new", j, u)
          <5> SUFFICES ASSUME NEW j \in Nat
                       PROVE  k - 1 <= Len(old) + j /\ k <= Len(old) + j
            BY <2>6, <2>7
          <5> QED
            BY <2>2, <3>2
        <4>5. Loses(s, "old", i)
          BY <2>5, <4>3, <4>4 DEF Loses, References
        <4> QED
          BY <2>1, <2>2, <3>2, <4>1, <4>2, <4>5, ReleaseCounts DEF RoutingInv
      <3> QED
        BY <3>1, <3>2
    <2> QED
      BY <1>1, <2>1, <2>2, <2>4, <2>8 DEF RoutingInv, StreamTypes, threads
  <1>3. CASE call[s].todo = << >>
    <2>1. /\ call' = [call EXCEPT ![s].step = "publish"] /\ UNCHANGED routing
          /\ connected_endpoints' = [connected_endpoints EXCEPT ![s] = new]
      BY <1>3 DEF SwitchNext
    <2>2. [call[s] EXCEPT !.step = "publish"] \in Calls
      BY <1>1 DEF Calls
    <2>3. /\ call'[s] = [call[s] EXCEPT !.step = "publish"] /\ connected_endpoints'[s] = new
          /\ StreamTypes'
      BY <1>1, <2>1, <2>2 DEF RoutingInv, StreamTypes, threads, routing
    <2>4. \A t \in Streams \ {s} : Unmoved(t)
      BY <1>1, <2>1 DEF Unmoved, RoutingInv, StreamTypes, threads
    <2>5. ~Switching(s)' /\ call'[s] # None
      BY <1>1, <2>2, <2>3, RoutingAssumption DEF Switching, Calls
    <2>6. \A t \in Streams : LockKept(t)'
      <3>1. LockKept(s)'
        BY <1>1, <2>3, <2>5 DEF LockKept, RoutingInv, Switching, threads
      <3> QED
        BY <2>4, <3>1, UnmovedKept DEF RoutingInv
    <2>7. \A t \in Streams \ {s} : \A list, j, u : Holds(t, list, j, u)' <=> Holds(t, list, j, u)
      BY <2>4, SameHolds DEF Unmoved
    <2>8. ASSUME NEW j \in Nat, NEW u \in UcmDevices
          PROVE  /\ ~Holds(s, "old", j, u) /\ ~Holds(s, "new", j, u)'
                 /\ Holds(s, "old", j, u)' <=> Holds(s, "new", j, u)
      <3>1. Len(call[s].todo) = 0 /\ Len(old) \in Nat
        BY <1>1, <1>3, LenProperties
      <3>2. ~Holds(s, "old", j, u)
        BY <1>1, <3>1 DEF Holds, HoldsOld
      <3>3. ~Holds(s, "new", j, u)'
        BY <2>5 DEF Holds, HoldsNew
      <3>4. Holds(s, "old", j, u)' <=> j < Len(new) /\ UcmDevice[FromEnd(new, j)] = u
        BY <2>3, <2>5 DEF Holds, HoldsOld, FromEnd
      <3>5. Holds(s, "new", j, u) <=> j < Len(new) /\ UcmDevice[FromEnd(new, j)] = u
        <4>1. 0 <= Len(old) + j
          BY <3>1
        <4> QED
          BY <1>1, <3>1, <4>1 DEF Holds, HoldsNew
      <3> QED
        BY <3>2, <3>3, <3>4, <3>5
    <2>9. Counted'
      BY <2>1, <2>7, <2>8, RenameCounts DEF RoutingInv
    <2> QED
      BY <2>3, <2>6, <2>9 DEF RoutingInv
  <1> QED
    BY <1>2, <1>3

Ended == {"shutdown", "gone"}

\* A step of the worker of an open stream is nothing to the routing.
LEMMA WorkerMoves ==
    ASSUME RoutingInv, StreamTypes', NEW s \in Streams,
           UNCHANGED <<routing, call, connected_endpoints, life>>,
           worker[s].pc \notin Ended, worker'[s].pc \notin Ended,
           \A t \in Streams \ {s} : worker'[t] = worker[t]
    PROVE  RoutingInv'
  <1>1. \A t \in Streams \ {s} : Unmoved(t)
    BY DEF Unmoved
  <1>2. LockKept(s)'
    BY DEF RoutingInv, LockKept, Ended, Switching, Remaining
  <1>3. \A list, u : \A j \in Nat : Holds(s, list, j, u)' <=> Holds(s, list, j, u)
    BY SameHolds
  <1> QED
    BY <1>1, <1>2, <1>3, NothingCounts DEF routing

\* A binder thread that publishes the list is no longer switching.
LEMMA CallPublishes ==
    ASSUME RoutingInv, NEW s \in Streams, Publish(s)
    PROVE  RoutingInv'
  <1>1. /\ call[s] # None /\ call[s].step \in {"publish", "flip"} /\ call[s] \in Calls
        /\ Flags(s, call[s].step)
        /\ call' = [call EXCEPT ![s] = IF @.step = "publish" THEN [@ EXCEPT !.step = "flip"] ELSE None]
        /\ UNCHANGED <<inputs, routing, connected_endpoints, calls, threads, life>>
    BY DEF Publish, RoutingInv, StreamTypes
  <1>2. [call[s] EXCEPT !.step = "flip"] \in Calls
    BY <1>1 DEF Calls
  <1>3. call'[s] \in Calls \cup {None} /\ ~Switching(s)' /\ ~Switching(s)
    <2>1. call'[s] = IF call[s].step = "publish" THEN [call[s] EXCEPT !.step = "flip"] ELSE None
      BY <1>1 DEF RoutingInv, StreamTypes
    <2> QED
      BY <1>1, <1>2, <2>1 DEF Switching, Calls
  <1>4. StreamTypes'
    <2>1. endpoints_updated' \in [Streams -> BOOLEAN] /\ connected' \in [Streams -> BOOLEAN]
      BY <1>1 DEF Flags, RoutingInv, StreamTypes
    <2>2. call' \in [Streams -> Calls \cup {None}]
      BY <1>1, <1>2 DEF RoutingInv, StreamTypes
    <2> QED
      BY <1>1, <2>1, <2>2 DEF RoutingInv, StreamTypes, threads, routing
  <1>5. \A t \in Streams \ {s} : Unmoved(t)
    BY <1>1 DEF Unmoved, RoutingInv, StreamTypes, threads
  <1>6. LockKept(s)'
    BY <1>1, <1>3 DEF RoutingInv, LockKept, threads
  <1>7. \A list, u : \A j \in Nat : Holds(s, list, j, u)' <=> Holds(s, list, j, u)
    BY <1>1, <1>3 DEF Holds, HoldsNew, HoldsOld, FromEnd
  <1> QED
    BY <1>1, <1>4, <1>5, <1>6, <1>7, NothingCounts

\* shutdown() and the destructor start from a stream that is not being switched.
LEMMA StreamEnds ==
    ASSUME RoutingInv, NEW s \in Streams, Shutdown(s) \/ Destroy(s)
    PROVE  RoutingInv'
  <1>1. /\ UNCHANGED <<routing, connected_endpoints, endpoints_updated, connected, call>>
        /\ worker' = [worker EXCEPT ![s].pc = "shutdown"] /\ ~Switching(s)
    BY DEF Shutdown, Destroy, Goto, binder, Locked, Switching
  <1>2. /\ \/ life' = [life EXCEPT ![s] = "closed"]
           \/ life' = [life EXCEPT ![s] = "destroyed"] /\ call[s] = None
        /\ active_endpoints' \in [Streams -> Seq(Endpoints)]
        /\ pcms' \in [Streams -> SUBSET Endpoints]
    <2>1. << >> \in Seq(Endpoints)
      OBVIOUS
    <2>2. CASE Shutdown(s)
      BY <2>1, <2>2 DEF Shutdown, RoutingInv, StreamTypes
    <2>3. CASE Destroy(s)
      BY <2>3 DEF Destroy, RoutingInv, StreamTypes
    <2> QED
      BY <2>2, <2>3
  <1>3. StreamTypes'
    <2>1. worker' \in [Streams -> [pc : Pcs, command : {"start", "transfer", None}]]
      BY <1>1 DEF RoutingInv, StreamTypes, Pcs
    <2>2. life' \in [Streams -> {"open", "closed", "destroyed"}]
      BY <1>2 DEF RoutingInv, StreamTypes
    <2> QED
      BY <1>1, <1>2, <2>1, <2>2 DEF RoutingInv, StreamTypes, routing
  <1>4. \A t \in Streams \ {s} : Unmoved(t)
    BY <1>1, <1>2 DEF Unmoved, RoutingInv, StreamTypes
  <1>5. worker'[s].pc = "shutdown" /\ life'[s] # "open" /\ (life'[s] = "destroyed" => call[s] = None)
    BY <1>1, <1>2 DEF RoutingInv, StreamTypes
  <1>6. LockKept(s)'
    BY <1>1, <1>5 DEF LockKept, Switching
  <1>7. \A list, u : \A j \in Nat : Holds(s, list, j, u)' <=> Holds(s, list, j, u)
    BY <1>1, SameHolds
  <1> QED
    BY <1>1, <1>3, <1>4, <1>6, <1>7, NothingCounts

\* Each endpoint that is given up is counted; the thread ends when none is left.
LEMMA RoutingReleased ==
    ASSUME Undisturbed, RoutingInv, NEW s \in Streams, ReleaseRouting(s)
    PROVE  RoutingInv'
  <1> DEFINE old == connected_endpoints[s]
             n == Len(old)
  <1>1. /\ worker[s].pc = "shutdown" /\ life[s] # "open" /\ ~Switching(s) /\ old \in Seq(Endpoints)
        /\ UNCHANGED <<endpoints_updated, connected, call, active_endpoints, pcms, life>>
    BY DEF ReleaseRouting, RoutingInv, LockKept, StreamTypes
  <1>2. n \in Nat
    BY <1>1, LenProperties
  <1>3. CASE old # << >>
    <2>1. /\ Release(Head(old)) /\ UNCHANGED worker
          /\ connected_endpoints' = [connected_endpoints EXCEPT ![s] = Tail(old)]
      BY <1>3 DEF ReleaseRouting
    <2>2. /\ Head(old) \in Endpoints /\ Head(old) = old[1] /\ Tail(old) \in Seq(Endpoints)
          /\ Len(Tail(old)) = n - 1 /\ \A i \in 1..n - 1 : Tail(old)[i] = old[i + 1]
          /\ n # 0
      <3> HIDE DEF old
      <3>1. /\ Head(old) \in Endpoints /\ Head(old) = old[1] /\ Tail(old) \in Seq(Endpoints)
            /\ Len(Tail(old)) = n - 1 /\ n # 0
        BY <1>1, <1>3, HeadTailProperties, EmptySeq
      <3> QED
        BY <1>1, <1>3, <3>1
    <2>3. connected_endpoints' \in [Streams -> Seq(Endpoints)] /\ connected_endpoints'[s] = Tail(old)
      BY <2>1, <2>2 DEF RoutingInv, StreamTypes
    <2>4. \A t \in Streams \ {s} : Unmoved(t)
      BY <1>1, <2>1 DEF Unmoved, RoutingInv, StreamTypes
    <2>5. \A t \in Streams : LockKept(t)'
      <3>1. LockKept(s)'
        BY <1>1, <2>1 DEF RoutingInv, LockKept, Switching
      <3> QED
        BY <2>4, <3>1, UnmovedKept DEF RoutingInv
    <2>6. \A t \in Streams \ {s} : \A list, j, u : Holds(t, list, j, u)' <=> Holds(t, list, j, u)
      BY <2>4, SameHolds DEF Unmoved
    <2>7. \A j, u : /\ ~Holds(s, "new", j, u) /\ ~Holds(s, "new", j, u)'
                    /\ Holds(s, "old", j, u) <=> j < n /\ UcmDevice[FromEnd(old, j)] = u
                    /\ Holds(s, "old", j, u)' <=> j < n - 1 /\ UcmDevice[FromEnd(Tail(old), j)] = u
      <3>1. ~Switching(s)'
        BY <1>1 DEF Switching
      <3> QED
        BY <1>1, <2>2, <2>3, <3>1 DEF Holds, HoldsNew, HoldsOld, FromEnd
    <2> HIDE DEF old
    <2>8. \A j \in Nat : j < n - 1 => FromEnd(Tail(old), j) = FromEnd(old, j)
      <3> SUFFICES ASSUME NEW j \in Nat, j < n - 1
                   PROVE  Tail(old)[n - 1 - j] = old[n - j]
        BY <2>2 DEF FromEnd
      <3>1. n - 1 - j \in 1..n - 1 /\ (n - 1 - j) + 1 = n - j
        BY <1>2
      <3> QED
        BY <2>2, <3>1
    <2>9. \A j \in Nat : \A u : Holds(s, "old", j, u)' <=> Holds(s, "old", j, u) /\ j # n - 1
      <3> SUFFICES ASSUME NEW j \in Nat PROVE j < n - 1 <=> j < n /\ j # n - 1
        BY <2>7, <2>8
      <3> QED
        BY <1>2
    <2>10. Loses(s, "old", n - 1)
      BY <2>6, <2>7, <2>9 DEF Loses, References
    <2>11. /\ n - 1 \in Nat
           /\ \A u \in UcmDevices : Holds(s, "old", n - 1, u) <=> UcmDevice[Head(old)] = u
      <3>1. n - 1 \in Nat /\ n - 1 < n /\ n - (n - 1) = 1
        BY <1>2, <2>2
      <3>2. FromEnd(old, n - 1) = Head(old)
        BY <2>2, <3>1 DEF FromEnd
      <3> QED
        BY <2>7, <3>1, <3>2
    <2>12. Counted' /\ refcounts' \in [UcmDevices -> Nat]
      BY <2>1, <2>2, <2>10, <2>11, ReleaseCounts DEF RoutingInv
    <2> QED
      BY <1>1, <2>1, <2>3, <2>5, <2>12 DEF RoutingInv, StreamTypes
  <1>4. CASE old = << >>
    <2>1. worker' = [worker EXCEPT ![s].pc = "gone"] /\ UNCHANGED <<routing, connected_endpoints>>
      BY <1>4 DEF ReleaseRouting, Goto
    <2>2. StreamTypes' /\ worker'[s].pc = "gone"
      BY <1>1, <2>1 DEF RoutingInv, StreamTypes, routing, Pcs
    <2>3. LockKept(s)'
      BY <1>1, <1>4, <2>1, <2>2 DEF RoutingInv, LockKept, Switching
    <2>4. \A t \in Streams \ {s} : Unmoved(t)
      BY <1>1, <2>1 DEF Unmoved, RoutingInv, StreamTypes
    <2>5. \A list, u : \A j \in Nat : Holds(s, list, j, u)' <=> Holds(s, list, j, u)
      BY <1>1, <2>1, SameHolds
    <2> QED
      BY <2>1, <2>2, <2>3, <2>4, <2>5, NothingCounts
  <1> QED
    BY <1>3, <1>4

\* The steps of the worker keep the types of what they change.
LEMMA WorkerTypes ==
    ASSUME StreamTypes, NEW s \in Streams,
           \/ \E command \in {"start", "transfer"} : Begin(s, command)
           \/ ExchangeUpdated(s) \/ CopyEndpoints(s) \/ EnsureDevicesReady(s) \/ Transfer(s)
           \/ Standby(s)
    PROVE  /\ StreamTypes' /\ UNCHANGED <<routing, call, connected_endpoints, life, connected>>
           /\ worker'[s].pc \notin Ended /\ \A t \in Streams \ {s} : worker'[t] = worker[t]
           /\ life[s] = "open" \/ worker[s].pc \notin Ended
  <1> DEFINE W == [pc : Pcs, command : {"start", "transfer", None}]
  <1>1. \A pc \in Pcs : \A next : next = [worker EXCEPT ![s].pc = pc] =>
            /\ next \in [Streams -> W] /\ next[s].pc = pc
            /\ \A t \in Streams \ {s} : next[t] = worker[t]
    BY DEF StreamTypes
  <1>2. {} \in SUBSET Endpoints
    OBVIOUS
  <1>3. ASSUME NEW command \in {"start", "transfer"}, Begin(s, command)
        PROVE  /\ StreamTypes' /\ UNCHANGED <<routing, call, connected_endpoints, life, connected>>
               /\ worker'[s].pc \notin Ended /\ \A t \in Streams \ {s} : worker'[t] = worker[t]
               /\ life[s] = "open"
    BY <1>3 DEF Begin, StreamTypes, routing, binder, Pcs, Ended
  <1>4. CASE ExchangeUpdated(s)
    <2>1. PICK pc \in {"copy", "ready"} : worker' = [worker EXCEPT ![s].pc = pc]
      BY <1>4 DEF ExchangeUpdated, Goto
    <2> QED
      BY <1>1, <1>4, <2>1 DEF ExchangeUpdated, StreamTypes, routing, Pcs, Ended
  <1>5. CASE CopyEndpoints(s)
    BY <1>1, <1>2, <1>5 DEF CopyEndpoints, StreamTypes, routing, binder, Pcs, Ended, Goto
  <1>6. CASE EnsureDevicesReady(s)
    <2>1. PICK pc \in {"transfer", "idle"} : worker' = [worker EXCEPT ![s].pc = pc]
      BY <1>6 DEF EnsureDevicesReady, Proceed, Goto
    <2>2. pcms' \in [Streams -> SUBSET Endpoints]
      <3>1. CASE UNCHANGED pcms
        BY <3>1 DEF StreamTypes
      <3>2. CASE ~UNCHANGED pcms
        <4>1. PICK opened \in (IF pcms[s] = {} THEN OpenPcms(s) ELSE {pcms[s]}) :
                pcms' = [pcms EXCEPT ![s] = opened]
          BY <1>6, <3>2, Zenon DEF EnsureDevicesReady
        <4>2. active_endpoints[s] \in Seq(Endpoints)
          BY DEF StreamTypes
        <4>3. ToSet(active_endpoints[s]) \subseteq Endpoints
          BY <4>2, LenProperties DEF ToSet
        <4>4. opened \subseteq Endpoints
          BY <4>1, <4>3 DEF OpenPcms, StreamTypes
        <4> QED
          BY <4>1, <4>4 DEF StreamTypes
      <3> QED
        BY <3>1, <3>2
    <2>3. UNCHANGED <<routing, connected_endpoints, endpoints_updated, connected, call, active_endpoints, life>>
          /\ worker[s].pc = "ready"
      BY <1>6 DEF EnsureDevicesReady, binder
    <2> QED
      BY <1>1, <2>1, <2>2, <2>3 DEF StreamTypes, routing, Pcs, Ended
  <1>7. CASE Transfer(s)
    BY <1>1, <1>7 DEF Transfer, StreamTypes, routing, binder, Pcs, Ended, Goto
  <1>8. CASE Standby(s)
    BY <1>2, <1>8 DEF Standby, StreamTypes, routing, binder, Pcs, Ended
  <1> QED
    BY <1>3, <1>4, <1>5, <1>6, <1>7, <1>8

LEMMA RoutingInit == ASSUME Init PROVE RoutingInv
  <1>1. << >> \in Seq(Endpoints) /\ Len(<< >>) = 0
    OBVIOUS
  <1>2. StreamTypes
    BY <1>1 DEF Init, StreamTypes, Pcs
  <1>3. \A s \in Streams : LockKept(s)
    BY <1>2 DEF Init, LockKept, Switching
  <1>4. \A u \in UcmDevices : HeldOn(u) = {}
    <2>1. \A s \in Streams : \A list, u : \A j \in Nat : ~Holds(s, list, j, u)
      BY <1>1 DEF Init, Holds, HoldsNew, HoldsOld, Switching
    <2> QED
      BY <2>1 DEF HeldOn, References
  <1>5. Counted
    BY <1>4, FS_EmptySet DEF Init, Counted
  <1> QED
    BY <1>2, <1>3, <1>5 DEF RoutingInv

LEMMA RoutingNext ==
    ASSUME Undisturbed, RoutingInv, [Next]_vars
    PROVE  RoutingInv'
  <1>1. CASE UNCHANGED vars
    <2>1. StreamTypes'
      BY <1>1 DEF vars, RoutingInv, StreamTypes
    <2>2. \A s \in Streams : Unmoved(s)
      BY <1>1 DEF vars, Unmoved
    <2>3. \A s \in Streams : LockKept(s)'
      BY <2>2, UnmovedKept DEF RoutingInv
    <2>4. \A u : HeldOn(u)' = HeldOn(u)
      BY <1>1 DEF vars, HeldOn, Holds, HoldsNew, HoldsOld, Switching, FromEnd
    <2>5. Counted'
      BY <1>1, <2>4 DEF RoutingInv, Counted, vars
    <2> QED
      BY <2>1, <2>3, <2>5 DEF RoutingInv
  <1>2. ASSUME NEW s \in Streams, NEW devices \in DeviceLists, SetConnectedDevices(s, devices)
        PROVE  RoutingInv'
    BY <1>2, CallStarts
  <1>3. ASSUME NEW s \in Streams,
               \/ \E command \in {"start", "transfer"} : Begin(s, command)
               \/ ExchangeUpdated(s) \/ CopyEndpoints(s) \/ EnsureDevicesReady(s) \/ Transfer(s)
               \/ Standby(s)
        PROVE  RoutingInv'
    <2>1. /\ StreamTypes' /\ UNCHANGED <<routing, call, connected_endpoints, life, connected>>
          /\ worker'[s].pc \notin Ended /\ \A t \in Streams \ {s} : worker'[t] = worker[t]
          /\ life[s] = "open" \/ worker[s].pc \notin Ended
      BY <1>3, WorkerTypes DEF RoutingInv
    <2>2. worker[s].pc \notin Ended
      BY <2>1 DEF RoutingInv, LockKept, Ended
    <2> QED
      BY <2>1, <2>2, WorkerMoves
  <1>4. ASSUME NEW s \in Streams, SwitchNext(s)  PROVE RoutingInv'
    BY <1>4, CallProceeds
  <1>5. ASSUME NEW s \in Streams, Publish(s)  PROVE RoutingInv'
    BY <1>5, CallPublishes
  <1>6. ASSUME NEW s \in Streams, Shutdown(s) \/ Destroy(s)  PROVE RoutingInv'
    BY <1>6, StreamEnds
  <1>7. ASSUME NEW s \in Streams, ReleaseRouting(s)  PROVE RoutingInv'
    BY <1>7, RoutingReleased
  <1> QED
    BY <1>1, <1>2, <1>3, <1>4, <1>5, <1>6, <1>7 DEF Next, Step

-----------------------------------------------------------------------------
(***************************************************************************)
(* What the worker of a stream finds                                       *)
(***************************************************************************)

\* Nothing a stream is handed over with changes.
Alone(t) ==
    /\ Unmoved(t) /\ connected'[t] = connected[t] /\ endpoints_updated'[t] = endpoints_updated[t]
    /\ pcms'[t] = pcms[t] /\ active_endpoints'[t] = active_endpoints[t]

StepOf(s) ==
    \/ \E devices \in DeviceLists : SetConnectedDevices(s, devices)
    \/ \E command \in {"start", "transfer"} : Begin(s, command)
    \/ Step(s) \/ Standby(s) \/ Shutdown(s) \/ Destroy(s)

\* A step of one stream leaves the others alone.
LEMMA OthersAlone ==
    ASSUME StreamTypes, NEW s \in Streams, StepOf(s), NEW t \in Streams, t # s
    PROVE  Alone(t)
  <1>1. CASE \E devices \in DeviceLists : SetConnectedDevices(s, devices)
    <2>1. /\ \E new : call' = [call EXCEPT ![s] = new]
          /\ UNCHANGED <<connected_endpoints, endpoints_updated, connected, threads, life>>
      BY <1>1, Zenon DEF SetConnectedDevices
    <2> QED
      BY <2>1 DEF Alone, Unmoved, StreamTypes, threads
  <1>2. CASE \E command \in {"start", "transfer"} : Begin(s, command)
    BY <1>2 DEF Begin, Alone, Unmoved, StreamTypes, binder
  <1>3. CASE SwitchNext(s)
    BY <1>3 DEF SwitchNext, Alone, Unmoved, StreamTypes, threads
  <1>4. CASE Publish(s)
    BY <1>4 DEF Publish, Flags, Alone, Unmoved, StreamTypes, threads
  <1>5. CASE ExchangeUpdated(s)
    BY <1>5 DEF ExchangeUpdated, Goto, Alone, Unmoved, StreamTypes
  <1>6. CASE CopyEndpoints(s)
    BY <1>6 DEF CopyEndpoints, Goto, Alone, Unmoved, StreamTypes, binder
  <1>7. CASE EnsureDevicesReady(s)
    <2>1. UNCHANGED pcms \/ \E opened : pcms' = [pcms EXCEPT ![s] = opened]
      BY <1>7, Zenon DEF EnsureDevicesReady
    <2>2. \E pc : worker' = [worker EXCEPT ![s].pc = pc]
      BY <1>7, Zenon DEF EnsureDevicesReady, Proceed, Goto
    <2>3. UNCHANGED <<binder, active_endpoints, life>>
      BY <1>7 DEF EnsureDevicesReady
    <2> QED
      BY <2>1, <2>2, <2>3 DEF Alone, Unmoved, StreamTypes, binder
  <1>8. CASE Transfer(s)
    BY <1>8 DEF Transfer, Goto, Alone, Unmoved, StreamTypes, binder
  <1>9. CASE ReleaseRouting(s)
    BY <1>9 DEF ReleaseRouting, Goto, Alone, Unmoved, StreamTypes
  <1>10. CASE Standby(s)
    BY <1>10 DEF Standby, Alone, Unmoved, StreamTypes, binder
  <1>11. CASE Shutdown(s) \/ Destroy(s)
    BY <1>11 DEF Shutdown, Destroy, Goto, Alone, Unmoved, StreamTypes, binder
  <1> QED
    BY <1>1, <1>2, <1>3, <1>4, <1>5, <1>6, <1>7, <1>8, <1>9, <1>10, <1>11 DEF StepOf, Step

LEMMA AloneKept ==
    ASSUME NEW t, Alone(t), life[t] = "open" => HandedOver(t)
    PROVE  life'[t] = "open" => HandedOver(t)'
  BY DEF Alone, Unmoved, HandedOver

\* The steps of setConnectedDevices() hand the list over.
LEMMA CallHandsOver ==
    ASSUME RoutingInv, NEW s \in Streams, HandedOver(s),
           \/ \E devices \in DeviceLists : SetConnectedDevices(s, devices)
           \/ SwitchNext(s) \/ Publish(s)
    PROVE  HandedOver(s)'
  <1>1. CASE \E devices \in DeviceLists : SetConnectedDevices(s, devices)
    <2>1. /\ \E new, todo :
                call' = [call EXCEPT ![s] = [step |-> "switch", endpoints |-> new, todo |-> todo]]
          /\ call[s] = None
          /\ UNCHANGED <<connected_endpoints, endpoints_updated, connected, threads, life>>
      BY <1>1, Zenon DEF SetConnectedDevices
    <2>2. call'[s].step = "switch" /\ UNCHANGED <<pcms, active_endpoints, worker>>
      BY <2>1 DEF RoutingInv, StreamTypes, threads
    <2> QED
      BY <2>1, <2>2 DEF HandedOver
  <1>2. CASE SwitchNext(s)
    <2>1. /\ call[s] # None /\ call[s].step = "switch" /\ call[s] \in Calls
          /\ UNCHANGED <<endpoints_updated, connected, pcms, active_endpoints, worker>>
      BY <1>2 DEF SwitchNext, threads, RoutingInv, StreamTypes
    <2>2. CASE call[s].todo # << >>
      <3>1. /\ call' = [call EXCEPT ![s].todo = Tail(@)] /\ UNCHANGED connected_endpoints
        BY <1>2, <2>2 DEF SwitchNext
      <3>2. call'[s].step = "switch"
        BY <2>1, <3>1 DEF RoutingInv, StreamTypes, Calls
      <3> QED
        BY <2>1, <3>1, <3>2 DEF HandedOver
    <2>3. CASE call[s].todo = << >>
      <3>1. /\ call' = [call EXCEPT ![s].step = "publish"]
            /\ connected_endpoints' = [connected_endpoints EXCEPT ![s] = call[s].endpoints]
        BY <1>2, <2>3 DEF SwitchNext
      <3>2. [call[s] EXCEPT !.step = "publish"] \in Calls
        BY <2>1 DEF Calls
      <3>3. /\ call'[s] = [call[s] EXCEPT !.step = "publish"]
            /\ connected_endpoints'[s] = call[s].endpoints
        BY <3>1 DEF RoutingInv, StreamTypes
      <3>4. /\ call'[s] # None /\ call'[s].step = "publish" /\ call'[s].endpoints = call[s].endpoints
            /\ connected_endpoints'[s] = call[s].endpoints
        BY <2>1, <3>2, <3>3, RoutingAssumption DEF Calls
      <3> QED
        BY <2>1, <3>4 DEF HandedOver
    <2> QED
      BY <2>2, <2>3
  <1>3. CASE Publish(s)
    <2>1. /\ call[s] # None /\ call[s].step \in {"publish", "flip"} /\ call[s] \in Calls
          /\ Flags(s, call[s].step)
          /\ call' = [call EXCEPT ![s] = IF @.step = "publish" THEN [@ EXCEPT !.step = "flip"] ELSE None]
          /\ UNCHANGED <<connected_endpoints, pcms, active_endpoints, worker>>
      BY <1>3 DEF Publish, RoutingInv, StreamTypes, threads
    <2>2. CASE call[s].step = "publish"
      <3>1. [call[s] EXCEPT !.step = "flip"] \in Calls
        BY <2>1 DEF Calls
      <3>2. call'[s] = [call[s] EXCEPT !.step = "flip"] /\ endpoints_updated'[s]
        BY <2>1, <2>2 DEF Flags, RoutingInv, StreamTypes
      <3>3. /\ call'[s] # None /\ call'[s].step = "flip" /\ call'[s].endpoints = call[s].endpoints
        BY <2>1, <3>1, <3>2, RoutingAssumption DEF Calls
      <3> QED
        BY <2>1, <2>2, <3>2, <3>3 DEF HandedOver
    <2>3. CASE call[s].step = "flip"
      <3>1. /\ call'[s] = None /\ connected'[s] = (call[s].endpoints # << >>)
            /\ UNCHANGED endpoints_updated
        BY <2>1, <2>3 DEF Flags, RoutingInv, StreamTypes
      <3> QED
        BY <2>1, <2>3, <3>1 DEF HandedOver
    <2> QED
      BY <2>1, <2>2, <2>3
  <1> QED
    BY <1>1, <1>2, <1>3

\* The worker takes it over.
LEMMA WorkerTakesOver ==
    ASSUME RoutingInv, NEW s \in Streams, HandedOver(s),
           \/ \E command \in {"start", "transfer"} : Begin(s, command)
           \/ ExchangeUpdated(s) \/ CopyEndpoints(s) \/ EnsureDevicesReady(s) \/ Transfer(s)
           \/ Standby(s)
    PROVE  HandedOver(s)'
  <1>1. ASSUME NEW pc \in Pcs \ {"copy"}, worker[s].pc # "copy",
               worker' = [worker EXCEPT ![s].pc = pc],
               UNCHANGED <<connected_endpoints, endpoints_updated, connected, call, active_endpoints>>,
               pcms'[s] \subseteq ToSet(active_endpoints[s])
        PROVE  HandedOver(s)'
    <2>1. worker'[s].pc = pc
      BY <1>1 DEF RoutingInv, StreamTypes
    <2> QED
      BY <1>1, <2>1 DEF HandedOver
  <1>2. ASSUME NEW command \in {"start", "transfer"}, Begin(s, command)
        PROVE  HandedOver(s)'
    <2>1. /\ worker[s].pc = "idle" /\ worker'[s].pc = "apply"
          /\ UNCHANGED <<connected_endpoints, endpoints_updated, connected, call, active_endpoints, pcms>>
      BY <1>2 DEF Begin, binder, RoutingInv, StreamTypes
    <2> QED
      BY <2>1 DEF HandedOver
  <1>3. CASE ExchangeUpdated(s)
    <2>1. /\ worker'[s].pc = (IF endpoints_updated[s] THEN "copy" ELSE "ready")
          /\ worker[s].pc = "apply" /\ ~endpoints_updated'[s]
          /\ UNCHANGED <<connected_endpoints, connected, call, active_endpoints, pcms>>
      BY <1>3 DEF ExchangeUpdated, Goto, RoutingInv, StreamTypes
    <2> QED
      BY <2>1 DEF HandedOver
  <1>4. CASE CopyEndpoints(s)
    <2>1. /\ worker'[s].pc = "ready" /\ active_endpoints'[s] = connected_endpoints[s]
          /\ pcms'[s] = {} /\ ~Switching(s)
          /\ UNCHANGED <<connected_endpoints, endpoints_updated, connected, call>>
      BY <1>4 DEF CopyEndpoints, Goto, binder, Locked, Switching, RoutingInv, StreamTypes
    <2> QED
      BY <2>1 DEF HandedOver, Switching
  <1>5. CASE EnsureDevicesReady(s)
    <2>1. /\ worker[s].pc = "ready"
          /\ UNCHANGED <<connected_endpoints, endpoints_updated, connected, call, active_endpoints>>
      BY <1>5 DEF EnsureDevicesReady, binder
    <2>2. \E pc \in Pcs \ {"copy"} : worker' = [worker EXCEPT ![s].pc = pc]
      BY <1>5 DEF EnsureDevicesReady, Proceed, Goto, Pcs
    <2>3. pcms'[s] \subseteq ToSet(active_endpoints[s])
      <3>1. CASE UNCHANGED pcms
        BY <3>1 DEF HandedOver
      <3>2. CASE ~UNCHANGED pcms
        <4>1. PICK opened \in (IF pcms[s] = {} THEN OpenPcms(s) ELSE {pcms[s]}) :
                pcms' = [pcms EXCEPT ![s] = opened]
          BY <1>5, <3>2, Zenon DEF EnsureDevicesReady
        <4>2. opened \subseteq ToSet(active_endpoints[s])
          BY <4>1 DEF OpenPcms, HandedOver
        <4> QED
          BY <4>1, <4>2 DEF RoutingInv, StreamTypes
      <3> QED
        BY <3>1, <3>2
    <2> QED
      BY <1>1, <2>1, <2>2, <2>3
  <1>6. CASE Transfer(s)
    BY <1>1, <1>6 DEF Transfer, Goto, binder, Pcs, HandedOver
  <1>7. CASE Standby(s)
    <2>1. /\ pcms'[s] = {}
          /\ UNCHANGED <<connected_endpoints, endpoints_updated, connected, call, active_endpoints, worker>>
      BY <1>7 DEF Standby, binder, RoutingInv, StreamTypes
    <2> QED
      BY <2>1 DEF HandedOver
  <1> QED
    BY <1>2, <1>3, <1>4, <1>5, <1>6, <1>7

LEMMA HandOverInit == ASSUME Init PROVE HandOver
  BY DEF Init, HandOver, HandedOver

LEMMA HandOverNext ==
    ASSUME RoutingInv, HandOver, [Next]_vars
    PROVE  HandOver'
  <1>1. CASE UNCHANGED vars
    BY <1>1 DEF vars, HandOver, HandedOver
  <1>2. ASSUME NEW s \in Streams, StepOf(s)
        PROVE  HandOver'
    <2>1. \A t \in Streams \ {s} : life'[t] = "open" => HandedOver(t)'
      BY <1>2, OthersAlone, AloneKept DEF HandOver, RoutingInv
    <2>2. life'[s] = "open" => HandedOver(s)'
      <3> SUFFICES ASSUME life'[s] = "open" PROVE HandedOver(s)'
        OBVIOUS
      <3>1. ~Shutdown(s) /\ ~Destroy(s)
        BY DEF Shutdown, Destroy, RoutingInv, StreamTypes
      <3>2. CASE ReleaseRouting(s)
        BY <3>2 DEF ReleaseRouting, RoutingInv, LockKept
      <3>3. ASSUME \/ \E devices \in DeviceLists : SetConnectedDevices(s, devices)
                   \/ SwitchNext(s) \/ Publish(s)
            PROVE  HandedOver(s)'
        <4>1. life[s] = "open"
          BY <3>3 DEF SetConnectedDevices, SwitchNext, Publish
        <4> QED
          BY <3>3, <4>1, CallHandsOver DEF HandOver
      <3>4. ASSUME \/ \E command \in {"start", "transfer"} : Begin(s, command)
                   \/ ExchangeUpdated(s) \/ CopyEndpoints(s) \/ EnsureDevicesReady(s) \/ Transfer(s)
                   \/ Standby(s)
            PROVE  HandedOver(s)'
        <4>1. life[s] = "open"
          BY <3>4, WorkerTypes DEF RoutingInv
        <4> QED
          BY <3>4, <4>1, WorkerTakesOver DEF HandOver
      <3> QED
        BY <1>2, <3>1, <3>2, <3>3, <3>4 DEF StepOf, Step
    <2> QED
      BY <2>1, <2>2 DEF HandOver
  <1> QED
    BY <1>1, <1>2 DEF Next, StepOf

-----------------------------------------------------------------------------
(***************************************************************************)
(* The effects of legacy libraries                                         *)
(***************************************************************************)

Contexts == [common : Commons, int16_mode : BOOLEAN, in16 : Nat, out16 : Nat, out_scratch : Nat]
Legacies == [config : Commons, format : {"float", "int16"}]
EffectType ==
    [life : {"none", "live", "gone"}, asked : Commons \union {None},
     context : Contexts \union {None}, legacy : Legacies \union {None}]

\* What is known of an effect: it has all or nothing, and buffers for a burst.
EffectSound(e) ==
    \/ e.asked = None /\ e.context = None /\ e.legacy = None
    \/ /\ e.life = "live" /\ e.asked # None /\ e.context # None /\ e.legacy # None
       /\ e.legacy.config = e.asked /\ e.context.common = e.asked
       /\ e.context.int16_mode <=> e.legacy.format = "int16"
       /\ e.context.in16 = e.asked.frames * e.asked.ins
       /\ e.context.out_scratch = e.asked.frames * e.asked.outs

EffectsInv == effects \in [Instances -> EffectType] /\ \A i \in Instances : EffectSound(effects[i])

\* What the theorem assumes of the constants.
Quiet ==
    /\ Commons \subseteq [ins : Nat \ {0}, outs : Nat \ {0}, frames : Nat]
    /\ None \notin Commons \union Contexts \union Legacies
    /\ RejectsLater = FALSE /\ OpenFailsLate = FALSE /\ SharedBuffer = FALSE

\* Whole frames are no more than the samples they are made of.
LEMMA WholeFrames ==
    ASSUME NEW n \in Nat, NEW m \in Nat \ {0}
    PROVE  n \div m \in Nat /\ (n \div m) * m <= n
  BY SMT

\* The sizes of a configuration are numbers.
LEMMA Sizes ==
    ASSUME Quiet, NEW c \in Commons
    PROVE  c.frames \in Nat /\ c.ins \in Nat \ {0} /\ c.outs \in Nat \ {0}
           /\ c.frames * c.ins \in Nat /\ c.frames * c.outs \in Nat
  <1>1. c.frames \in Nat /\ c.ins \in Nat \ {0} /\ c.outs \in Nat \ {0}
    BY DEF Quiet
  <1>2. \A m, n \in Nat : m * n \in Nat  BY SMT
  <1> QED  BY <1>1, <1>2

\* The context and the legacy instance that an accepted configuration leaves.
LEMMA ConfigSound ==
    ASSUME Quiet, NEW common \in Commons, NEW answer \in {"float", "int16"},
           NEW alive, NEW asked, NEW context \in Contexts, NEW legacy, context.common = common,
           NEW f, f = Effect!ApplyConfig([life |-> alive, asked |-> asked, context |-> context,
                                   legacy |-> legacy], common, answer)
    PROVE  /\ f = [life |-> alive, asked |-> asked, context |-> f.context,
                   legacy |-> [config |-> common, format |-> answer]]
           /\ f.context \in Contexts /\ f.context.common = common
           /\ f.context.int16_mode = (answer = "int16")
           /\ f.context.in16 = common.frames * common.ins
           /\ f.context.out_scratch = common.frames * common.outs
  <1> DEFINE a == common.frames * common.ins
             b == common.frames * common.outs
             m == answer = "int16"
             c == [context EXCEPT !.int16_mode = m, !.in16 = a, !.out16 = b, !.out_scratch = b]
             e == [life |-> alive, asked |-> asked, context |-> context, legacy |-> legacy]
  <1>1. a \in Nat /\ b \in Nat /\ m \in BOOLEAN  BY Sizes
  <1>2. f = [e EXCEPT !.legacy = [config |-> common, format |-> answer], !.context = c]
    BY DEF Effect!ApplyConfig
  <1>3. f = [life |-> alive, asked |-> asked, context |-> c,
             legacy |-> [config |-> common, format |-> answer]]
    <2> HIDE DEF c
    <2> QED  BY <1>2, Zenon
  <1>4. c \in Contexts /\ c.common = common /\ c.int16_mode = m /\ c.in16 = a /\ c.out_scratch = b
    <2> HIDE DEF a, b, m
    <2> QED  BY <1>1, Zenon DEF Contexts, c
  <1>5. f.context = c
    <2> HIDE DEF c
    <2> QED  BY <1>3
  <1> QED
    <2> HIDE DEF c
    <2> QED  BY <1>3, <1>4, <1>5, Zenon

\* Where a step leaves the other effects alone, the changed one decides.
LEMMA OneChanges ==
    ASSUME EffectsInv, NEW i \in Instances, NEW e, effects' = [effects EXCEPT ![i] = e],
           e \in EffectType, EffectSound(e)
    PROVE  EffectsInv'
  BY DEF EffectsInv

\* An effect that was released is sound.
LEMMA ReleasedSound ==
    ASSUME NEW e \in EffectType
    PROVE  Effect!Released(e) \in EffectType /\ EffectSound(Effect!Released(e))
           /\ [Effect!Released(e) EXCEPT !.life = "gone"] \in EffectType
           /\ EffectSound([Effect!Released(e) EXCEPT !.life = "gone"])
  BY DEF Effect!Released, EffectType, EffectSound

\* No instance, context or configuration is mistaken for none.
LEMMA Something ==
    ASSUME Quiet
    PROVE  /\ \A c \in Contexts : c # None
           /\ \A l \in Legacies : l # None
           /\ \A m \in Commons : m # None
  BY DEF Quiet

\* An effect with the context and the instance of a configuration is sound.
LEMMA ConfiguredSound ==
    ASSUME Quiet, NEW common \in Commons, NEW answer \in {"float", "int16"},
           NEW context \in Contexts, context.common = common,
           context.int16_mode = (answer = "int16"),
           context.in16 = common.frames * common.ins,
           context.out_scratch = common.frames * common.outs,
           NEW e, e = [life |-> "live", asked |-> common, context |-> context,
                       legacy |-> [config |-> common, format |-> answer]]
    PROVE  e \in EffectType /\ EffectSound(e)
  <1> DEFINE l == [config |-> common, format |-> answer]
  <1>1. l \in Legacies /\ l.config = common /\ l.format = answer  BY DEF Legacies
  <1>2. context # None /\ l # None /\ common # None  BY <1>1, Something
  <1>3. e.life = "live" /\ e.asked = common /\ e.context = context /\ e.legacy = l
    BY Zenon
  <1>4. e \in EffectType  BY <1>1, Zenon DEF EffectType
  <1>5. e.context.int16_mode <=> e.legacy.format = "int16"  BY <1>1, <1>3
  <1> QED
    <2> HIDE DEF l
    <2> QED  BY <1>1, <1>2, <1>3, <1>4, <1>5, Zenon DEF EffectSound

\* What EffectsInv says of one effect, and of an open one.
LEMMA OpenEffect ==
    ASSUME Quiet, EffectsInv, NEW i \in Instances
    PROVE  /\ effects[i] \in EffectType /\ EffectSound(effects[i])
           /\ ~Effect!IsOpen(i) => /\ effects[i].asked = None /\ effects[i].context = None
                            /\ effects[i].legacy = None
           /\ Effect!IsOpen(i) => /\ effects[i].context \in Contexts /\ effects[i].asked \in Commons
                           /\ effects[i].life = "live"
  BY Zenon DEF EffectsInv, EffectSound, Effect!IsOpen, Effect!Live, EffectType

\* An open() leaves a sound effect, also one that the library refused.
LEMMA OpenSound ==
    ASSUME Quiet, EffectsInv, NEW i \in Instances, Effect!Open(i)
    PROVE  EffectsInv'
  <1> DEFINE old == effects[i]
             new(common, answer) == Effect!CreateContext(old, common, answer)
  <1>1. /\ old \in EffectType /\ old.life = "live"
        /\ old.context = None /\ old.asked = None /\ old.legacy = None
    BY OpenEffect DEF Effect!Open, Effect!Live
  <1>2. PICK common \in Commons, answer \in Effect!Answers :
            effects' = [effects EXCEPT ![i] =
                [new(common, answer) EXCEPT
                    !.asked = IF new(common, answer).context # None THEN common ELSE None]]
    BY DEF Effect!Open, Quiet
  <1> DEFINE n == new(common, answer)
             e == [n EXCEPT !.asked = IF n.context # None THEN common ELSE None]
  <1>3. effects' = [effects EXCEPT ![i] = e]  BY <1>2
  <1>4. CASE answer = "rejected"
    <2>1. n = old  BY <1>1, <1>4 DEF Effect!CreateContext
    <2>2. e = [old EXCEPT !.asked = None]  BY <1>1, <2>1
    <2>3. e \in EffectType /\ EffectSound(e)  BY <1>1, <2>2 DEF EffectType, EffectSound
    <2> QED
      <3> HIDE DEF e
      <3> QED  BY <1>3, <2>3, OneChanges
  <1>5. CASE answer # "rejected"
    <2> DEFINE c == Effect!NewContext(common)
               l == [config |-> None, format |-> None]
               made == [life |-> "live", asked |-> None, context |-> c, legacy |-> l]
    <2>1. answer \in {"float", "int16"}  BY <1>5 DEF Effect!Answers
    <2>2. c \in Contexts /\ c.common = common  BY DEF Effect!NewContext, Contexts
    <2>3. n = Effect!ApplyConfig(made, common, answer)
      <3> HIDE DEF old
      <3> QED  BY <1>1, <1>5 DEF Effect!CreateContext
    <2>4. /\ n = [life |-> "live", asked |-> None, context |-> n.context,
                  legacy |-> [config |-> common, format |-> answer]]
          /\ n.context \in Contexts /\ n.context.common = common
          /\ n.context.int16_mode = (answer = "int16")
          /\ n.context.in16 = common.frames * common.ins
          /\ n.context.out_scratch = common.frames * common.outs
      <3> HIDE DEF n, c, l
      <3> QED  BY <2>1, <2>2, <2>3, ConfigSound
    <2>5. e = [life |-> "live", asked |-> common, context |-> n.context,
               legacy |-> [config |-> common, format |-> answer]]
      <3>1. n.context # None  BY <2>4, Something
      <3> HIDE DEF n
      <3> QED  BY <2>4, <3>1
    <2>6. e \in EffectType /\ EffectSound(e)
      <3> HIDE DEF e, n
      <3> QED  BY <2>1, <2>4, <2>5, ConfiguredSound
    <2> QED
      <3> HIDE DEF e
      <3> QED  BY <1>3, <2>6, OneChanges
  <1> QED  BY <1>4, <1>5

\* New parameters that the library takes leave a sound effect.
LEMMA SetCommonSound ==
    ASSUME Quiet, EffectsInv, NEW i \in Instances, Effect!SetCommon(i)
    PROVE  EffectsInv'
  <1> DEFINE old == effects[i]
             based(common) == [old EXCEPT !.context.common = common]
  <1>1. old \in EffectType /\ old.context \in Contexts /\ old.life = "live"
    BY OpenEffect DEF Effect!SetCommon
  <1>2. PICK common \in Commons, answer \in Effect!Answers :
            /\ answer # "rejected"
            /\ effects' = [effects EXCEPT ![i] =
                    [Effect!ApplyConfig(based(common), common, answer) EXCEPT !.asked = common]]
    BY DEF Effect!SetCommon, Quiet
  <1> DEFINE c == [old.context EXCEPT !.common = common]
             n == Effect!ApplyConfig(based(common), common, answer)
             e == [n EXCEPT !.asked = common]
  <1>3. effects' = [effects EXCEPT ![i] = e]  BY <1>2
  <1>4. answer \in {"float", "int16"}  BY <1>2 DEF Effect!Answers
  <1>5. c \in Contexts /\ c.common = common  BY <1>1 DEF Contexts
  <1>6. based(common) = [life |-> "live", asked |-> old.asked, context |-> c, legacy |-> old.legacy]
    <2>1. based(common) = [old EXCEPT !.context = c]  BY <1>1 DEF EffectType
    <2> HIDE DEF c, based
    <2> QED  BY <1>1, <2>1 DEF EffectType
  <1>7. /\ n = [life |-> "live", asked |-> old.asked, context |-> n.context,
                legacy |-> [config |-> common, format |-> answer]]
        /\ n.context \in Contexts /\ n.context.common = common
        /\ n.context.int16_mode = (answer = "int16")
        /\ n.context.in16 = common.frames * common.ins
        /\ n.context.out_scratch = common.frames * common.outs
    <2>1. n = Effect!ApplyConfig([life |-> "live", asked |-> old.asked, context |-> c,
                           legacy |-> old.legacy], common, answer)
      <3> HIDE DEF c, based
      <3> QED  BY <1>6
    <2> HIDE DEF n, c
    <2> QED  BY <1>4, <1>5, <2>1, ConfigSound
  <1>8. e = [life |-> "live", asked |-> common, context |-> n.context,
             legacy |-> [config |-> common, format |-> answer]]
    <2> HIDE DEF n
    <2> QED  BY <1>7
  <1>9. e \in EffectType /\ EffectSound(e)
    <2> HIDE DEF e, n
    <2> QED  BY <1>4, <1>7, <1>8, ConfiguredSound
  <1> QED
    <2> HIDE DEF e
    <2> QED  BY <1>3, <1>9, OneChanges

\* A burst stays within the buffers of its effect and fills its output.
LEMMA ProcessFits ==
    ASSUME Quiet, EffectsInv, NEW i \in Instances, Effect!Process(i)
    PROVE  Effect!BurstFits'
  <1> DEFINE e == effects[i]
             common == e.context.common
  <1>1. /\ e.context \in Contexts /\ common \in Commons /\ e.legacy.config = common
        /\ e.context.in16 = common.frames * common.ins
    BY OpenEffect, Zenon DEF Effect!Process, EffectSound, Effect!IsOpen
  <1>2. PICK samples \in 1..common.frames * common.ins, status \in {"ok", "ENODATA", "error"},
             in_place \in BOOLEAN :
            /\ in_place => common.ins = common.outs
            /\ LET frames == samples \div common.ins
                   out == frames * common.outs
               IN burst' = IF out > e.context.out_scratch \/ status = "error" THEN None
                           ELSE [by |-> i, frames |-> frames, produced |-> out,
                                 written |-> Effect!Written(status, in_place, frames * common.ins, out)]
    BY DEF Effect!Process, Quiet
  <1>3. UNCHANGED effects  BY DEF Effect!Process
  <1> DEFINE frames == samples \div common.ins
             out == frames * common.outs
             in == frames * common.ins
             size == common.frames * common.ins
  <1>4. /\ frames \in Nat /\ in \in Nat /\ out \in Nat /\ size \in Nat
        /\ in <= samples /\ samples <= size
    <2>1. common.ins \in Nat \ {0} /\ common.outs \in Nat \ {0} /\ size \in Nat  BY <1>1, Sizes
    <2>2. samples \in Nat /\ samples <= size
      <3> HIDE DEF size
      <3> QED  BY <2>1 DEF size
    <2>3. frames \in Nat /\ in <= samples
      <3> HIDE DEF size, common
      <3> QED  BY <2>1, <2>2, WholeFrames
    <2>4. \A m, n \in Nat : m * n \in Nat  BY SMT
    <2> HIDE DEF frames, common, size
    <2> QED  BY <2>1, <2>2, <2>3, <2>4
  <1>5. CASE burst' = None
    BY <1>5 DEF Effect!BurstFits
  <1>6. CASE burst' # None
    <2>1. /\ burst' = [by |-> i, frames |-> frames, produced |-> out,
                       written |-> Effect!Written(status, in_place, in, out)]
          /\ ~(out > e.context.out_scratch)
      BY <1>2, <1>6
    <2>2. Effect!Written(status, in_place, in, out) = out
      <3>1. in_place => in = out  BY <1>2
      <3> HIDE DEF in, out
      <3> QED  BY <1>4, <3>1 DEF Effect!Written
    <2>3. out <= e.context.out_scratch
      <3>1. e.context.out_scratch \in Nat  BY <1>1 DEF Contexts
      <3> HIDE DEF e, out
      <3> QED  BY <1>4, <2>1, <3>1
    <2>4. in <= e.context.in16
      <3> HIDE DEF in, frames
      <3>1. in <= size
        <4> HIDE DEF size
        <4> QED  BY <1>4
      <3> QED  BY <1>1, <3>1
    <2>5. /\ burst'.by = i /\ burst'.frames = frames
          /\ burst'.produced = out /\ burst'.written = out
      <3> HIDE DEF frames, out, in
      <3> QED  BY <2>1, <2>2
    <2>6. frames * e.legacy.config.outs <= e.context.out_scratch
          /\ frames * e.legacy.config.ins <= e.context.in16
      <3> HIDE DEF frames
      <3> QED  BY <1>1, <2>3, <2>4
    <2> QED
      <3> HIDE DEF frames, out, in
      <3> QED  BY <1>3, <2>5, <2>6, Zenon DEF Effect!BurstFits
  <1> QED  BY <1>5, <1>6

LEMMA EffectsInit == ASSUME Effect!Init PROVE EffectsInv /\ Effect!BurstFits
  BY DEF Effect!Init, EffectsInv, Effect!BurstFits, Effect!NewEffect, EffectType, EffectSound

LEMMA EffectsNext ==
    ASSUME Quiet, EffectsInv, Effect!BurstFits, [Effect!Next]_effect
    PROVE  EffectsInv' /\ Effect!BurstFits'
  <1> DEFINE Inv == EffectsInv /\ Effect!BurstFits
  <1>1. ASSUME NEW i \in Instances, Effect!CreateEffect(i) PROVE Inv'
    <2> DEFINE e == [effects[i] EXCEPT !.life = "live"]
    <2>1. effects[i] \in EffectType /\ EffectSound(effects[i]) /\ effects[i].life = "none"
      BY <1>1, OpenEffect DEF Effect!CreateEffect
    <2>2. e \in EffectType /\ EffectSound(e)  BY <2>1 DEF EffectType, EffectSound
    <2>3. effects' = [effects EXCEPT ![i] = e] /\ burst' = None  BY <1>1 DEF Effect!CreateEffect
    <2> HIDE DEF e
    <2> QED  BY <2>2, <2>3, OneChanges DEF Effect!BurstFits
  <1>2. ASSUME NEW i \in Instances, Effect!Open(i) PROVE Inv'
    BY <1>2, OpenSound DEF Effect!Open, Effect!BurstFits
  <1>3. ASSUME NEW i \in Instances, Effect!SetCommon(i) PROVE Inv'
    BY <1>3, SetCommonSound DEF Effect!SetCommon, Effect!BurstFits
  <1>4. ASSUME NEW i \in Instances, Effect!Process(i) PROVE Inv'
    <2>1. Effect!BurstFits'  BY <1>4, ProcessFits
    <2> QED  BY <1>4, <2>1 DEF Effect!Process, EffectsInv
  <1>5. ASSUME NEW i \in Instances, Effect!Close(i) PROVE Inv'
    <2>1. effects' = [effects EXCEPT ![i] = Effect!Released(effects[i])] /\ burst' = None
      BY <1>5 DEF Effect!Close
    <2> QED  BY <2>1, OpenEffect, ReleasedSound, OneChanges DEF Effect!BurstFits
  <1>6. ASSUME NEW i \in Instances, Effect!DestroyEffect(i) PROVE Inv'
    <2>1. burst' = None  BY <1>6 DEF Effect!DestroyEffect
    <2>2. CASE UNCHANGED effects  BY <2>1, <2>2 DEF EffectsInv, Effect!BurstFits
    <2>3. CASE effects' = [effects EXCEPT ![i] = Effect!Released(effects[i])]
      BY <2>1, <2>3, OpenEffect, ReleasedSound, OneChanges DEF Effect!BurstFits
    <2> QED  BY <1>6, <2>2, <2>3 DEF Effect!DestroyEffect
  <1>7. ASSUME NEW i \in Instances, Effect!Drop(i) PROVE Inv'
    <2> DEFINE e == [Effect!Released(effects[i]) EXCEPT !.life = "gone"]
    <2>1. effects' = [effects EXCEPT ![i] = e] /\ burst' = None  BY <1>7 DEF Effect!Drop
    <2>2. e \in EffectType /\ EffectSound(e)  BY OpenEffect, ReleasedSound
    <2> HIDE DEF e
    <2> QED  BY <2>1, <2>2, OneChanges DEF Effect!BurstFits
  <1>8. CASE UNCHANGED effect
    BY <1>8 DEF effect, EffectsInv, Effect!BurstFits
  <1> QED  BY <1>1, <1>2, <1>3, <1>4, <1>5, <1>6, <1>7, <1>8 DEF Effect!Next

LEMMA EffectsSoundOf ==
    ASSUME Quiet, EffectsInv, Effect!BurstFits
    PROVE  EffectsSound
  <1> SUFFICES ASSUME NEW i \in Instances
               PROVE  /\ Effect!IsOpen(i) =>
                          /\ effects[i].context # None /\ effects[i].legacy # None
                          /\ effects[i].legacy.config = effects[i].asked
                          /\ effects[i].context.common = effects[i].asked
                          /\ effects[i].context.int16_mode <=> effects[i].legacy.format = "int16"
                      /\ effects[i].legacy # None <=> Effect!IsOpen(i)
    BY DEF EffectsSound, Effect!ConfiguredAsAsked, Effect!NoLegacyLeft
  <1> QED  BY OpenEffect, Zenon DEF EffectSound, Effect!IsOpen, Effect!Live

-----------------------------------------------------------------------------
(***************************************************************************)
(* The bursts of a PCM device                                              *)
(***************************************************************************)

Errors == {"EPIPE", "ESTRPIPE", "ENODEV", "EINTR"}
Transfers ==
    [pc : {"idle", "io", "recover", "resume", "prepare"}, remaining : Nat, data : Nat,
     attempts : Nat, resumes : Nat, err : Errors \cup {None}]

\* What was moved of a burst, in order, and what is left of it.
BurstInv ==
    /\ op \in Transfers
    /\ op.pc # "idle" =>
        /\ op.data + op.remaining = Burst /\ taken = [i \in 1..op.data |-> i] /\ result = None
    /\ WholeBurst

LEMMA BurstInit == ASSUME Device!Init, None # "ok" PROVE BurstInv
  BY DEF Device!Init, Device!Idle, BurstInv, Transfers, WholeBurst, Device!WholeBurst

\* The frames moved so far and the next ones are the next ones.
LEMMA FramesInOrder ==
    ASSUME NEW m \in Nat, NEW n \in Nat
    PROVE  [i \in 1..m |-> i] \o [i \in 1..n |-> m + i] = [i \in 1..m + n |-> i]
  <1> DEFINE a == [i \in 1..m |-> i]
             b == [i \in 1..n |-> m + i]
             c == [i \in 1..m + n |-> i]
  <1>1. a \in Seq(Nat) /\ Len(a) = m /\ b \in Seq(Nat) /\ Len(b) = n
        /\ c \in Seq(Nat) /\ Len(c) = m + n
    BY SequenceOf
  <1>2. /\ \A i \in 1..m : a[i] = i
        /\ \A i \in 1..n : b[i] = m + i
        /\ \A i \in 1..m + n : c[i] = i
    OBVIOUS
  <1> HIDE DEF a, b, c
  <1>3. /\ a \o b \in Seq(Nat) /\ Len(a \o b) = m + n
        /\ \A i \in 1..m + n : (a \o b)[i] = IF i <= m THEN a[i] ELSE b[i - m]
    BY <1>1, ConcatProperties
  <1>4. \A i \in 1..m + n : (a \o b)[i] = c[i]
    <2> SUFFICES ASSUME NEW i \in 1..m + n PROVE (a \o b)[i] = c[i]
      OBVIOUS
    <2>1. CASE i <= m
      BY <1>2, <1>3, <2>1
    <2>2. CASE ~(i <= m)
      <3>1. i - m \in 1..n /\ m + (i - m) = i
        BY <2>2
      <3> QED
        BY <1>2, <1>3, <2>2, <3>1
    <2> QED
      BY <2>1, <2>2
  <1>5. a \o b = c
    BY <1>1, <1>3, <1>4, SeqEqual
  <1> QED
    BY <1>5 DEF a, b, c

LEMMA BurstNext ==
    ASSUME BurstInv, None # "ok", [Device!Next]_pcm
    PROVE  BurstInv'
  <1>1. ASSUME UNCHANGED <<op, taken, result>>
        PROVE  BurstInv'
    BY <1>1 DEF BurstInv, WholeBurst, Device!WholeBurst
  <1>2. ASSUME NEW r \in {"ok", "error"}, Device!Finish(r), UNCHANGED taken,
               r = "ok" => taken = [i \in 1..Burst |-> i]
        PROVE  BurstInv'
    BY <1>2 DEF Device!Finish, Device!Idle, BurstInv, Transfers, WholeBurst, Device!WholeBurst
  <1>3. ASSUME NEW next \in Transfers, op' = next, next.data = op.data, next.remaining = op.remaining,
               UNCHANGED <<taken, result>>, op.pc # "idle"
        PROVE  BurstInv'
    BY <1>3 DEF BurstInv, WholeBurst, Device!WholeBurst
  <1>4. CASE Device!Begin
    <2>1. /\ op' = [pc |-> "io", remaining |-> Burst, data |-> 0, attempts |-> 0, resumes |-> 0,
                    err |-> None]
          /\ taken' = << >> /\ result' = None
      BY <1>4 DEF Device!Begin, Device!Idle
    <2>2. << >> = [i \in 1..0 |-> i]
      OBVIOUS
    <2> QED
      BY <2>1, <2>2, BurstAssumption DEF BurstInv, Transfers, WholeBurst, Device!WholeBurst
  <1>5. CASE Device!Transferred
    <2>1. PICK n \in 1..op.remaining :
            taken' = taken \o Device!Frames(n) /\ op' = Device!ProgressOf(n)
      BY <1>5 DEF Device!Transferred
    <2>2. op \in Transfers /\ op.pc = "io" /\ UNCHANGED result
      BY <1>5 DEF Device!Transferred, BurstInv
    <2>3. /\ op.data \in Nat /\ n \in Nat /\ op.remaining \in Nat /\ op.remaining - n \in Nat
          /\ (op.data + n) + (op.remaining - n) = op.data + op.remaining
      BY <2>1, <2>2 DEF Transfers
    <2>4. op' \in Transfers /\ op'.data = op.data + n /\ op'.remaining = op.remaining - n
          /\ op'.pc = "io"
      <3> DEFINE left == op.remaining - n
                 done == op.data + n
      <3>1. left \in Nat /\ done \in Nat
        BY <2>3
      <3>2. op' = [op EXCEPT !.remaining = left, !.data = done, !.attempts = 0]
        BY <2>1 DEF Device!ProgressOf
      <3> HIDE DEF left, done
      <3>3. op' \in Transfers /\ op'.data = done /\ op'.remaining = left /\ op'.pc = "io"
        BY <2>2, <3>1, <3>2 DEF Transfers
      <3> QED
        BY <3>3 DEF left, done
    <2>5. taken' = [i \in 1..op.data + n |-> i]
      <3>1. taken' = [i \in 1..op.data |-> i] \o [i \in 1..n |-> op.data + i]
        BY <2>1, <2>2 DEF BurstInv, Device!Frames
      <3> QED
        BY <2>3, <3>1, FramesInOrder
    <2> QED
      BY <2>2, <2>3, <2>4, <2>5 DEF BurstInv, WholeBurst, Device!WholeBurst
  <1>6. CASE Device!Failed
    <2>1. PICK e \in Device!Errors :
            IF op.attempts + 1 > MaxRecoverAttempts THEN Device!Finish("error")
            ELSE /\ op' = [op EXCEPT !.attempts = @ + 1, !.pc = "recover", !.err = e, !.resumes = 0]
                 /\ UNCHANGED result
      BY <1>6 DEF Device!Failed
    <2>2. e \in Errors
      BY DEF Errors, Device!Errors
    <2>3. [op EXCEPT !.attempts = @ + 1, !.pc = "recover", !.err = e, !.resumes = 0] \in Transfers
      <3> DEFINE more == op.attempts + 1
      <3>1. more \in Nat
        BY DEF BurstInv, Transfers
      <3> HIDE DEF more
      <3>2. [op EXCEPT !.attempts = more, !.pc = "recover", !.err = e, !.resumes = 0] \in Transfers
        BY <2>2, <3>1 DEF BurstInv, Transfers
      <3>3. [op EXCEPT !.attempts = @ + 1, !.pc = "recover", !.err = e, !.resumes = 0]
                = [op EXCEPT !.attempts = more, !.pc = "recover", !.err = e, !.resumes = 0]
        BY DEF more
      <3> QED
        BY <3>2, <3>3
    <2> QED
      BY <1>2, <1>3, <1>6, <2>1, <2>3 DEF Device!Failed, BurstInv, Transfers
  <1>7. CASE Device!Recover
    <2>1. \/ Device!Finish("error")
          \/ \E pc \in {"resume", "prepare"} : op' = [op EXCEPT !.pc = pc] /\ UNCHANGED result
      BY <1>7 DEF Device!Recover
    <2> QED
      BY <1>2, <1>3, <1>7, <2>1 DEF Device!Recover, BurstInv, Transfers
  <1>8. CASE Device!Resume
    <2>1. \/ \E pc \in {"io", "prepare"} : op' = [op EXCEPT !.pc = pc]
          \/ op' = [op EXCEPT !.resumes = @ + 1]
      BY <1>8 DEF Device!Resume
    <2> QED
      BY <1>3, <1>8, <2>1 DEF Device!Resume, BurstInv, Transfers
  <1>9. CASE Device!Prepare
    <2>1. Device!Finish("error") \/ (op' = [op EXCEPT !.pc = "io"] /\ UNCHANGED result)
      BY <1>9 DEF Device!Prepare
    <2> QED
      BY <1>2, <1>3, <1>9, <2>1 DEF Device!Prepare, BurstInv, Transfers
  <1>10. CASE Device!Complete
    <2>1. /\ op.pc = "io" /\ op.remaining = 0 /\ Device!Finish("ok") /\ UNCHANGED taken
      BY <1>10 DEF Device!Complete
    <2>2. op.data = Burst
      BY <2>1, BurstAssumption DEF BurstInv, Transfers
    <2> QED
      BY <1>2, <2>1, <2>2 DEF BurstInv
  <1>11. CASE \/ Device!Open \/ Device!StartCapture \/ Device!Hardware \/ Device!Suspend
              \/ Device!Unplug \/ Device!Drain \/ Device!Flush \/ Device!ReadStarts \/ UNCHANGED pcm
    BY <1>1, <1>11 DEF Device!Open, Device!StartCapture, Device!Hardware, Device!Suspend,
        Device!Unplug, Device!Drain, Device!Flush, Device!Emptied, Device!ReadStarts, pcm
  <1> QED
    BY <1>4, <1>5, <1>6, <1>7, <1>8, <1>9, <1>10, <1>11 DEF Device!Next, Device!Call, Device!Step

-----------------------------------------------------------------------------
(***************************************************************************)
(* The theorems                                                            *)
(***************************************************************************)

AudioInv == RoutingInv /\ HandOver /\ BurstInv /\ EffectsInv /\ Effect!BurstFits

\* What is assumed of the environment: no device of the card conflicts with
\* another or fails to switch, libraries are Quiet, None is not a result.
Usual == Undisturbed /\ Quiet /\ None # "ok"

LEMMA AudioInvariant == ASSUME Usual PROVE MCSpec => []AudioInv
  <1>1. MCInit => AudioInv
    BY RoutingInit, HandOverInit, BurstInit, EffectsInit DEF MCInit, AudioInv, Usual
  <1>2. AudioInv /\ [MCNext]_all => AudioInv'
    <2> SUFFICES ASSUME AudioInv, [MCNext]_all PROVE AudioInv'
      OBVIOUS
    <2>1. [Next]_vars /\ [Device!Next]_pcm /\ [Effect!Next]_effect
      BY DEF MCNext, StreamNext, PcmNext, InventoryNext, EffectNext, all
    <2> QED
      BY <2>1, RoutingNext, HandOverNext, BurstNext, EffectsNext DEF AudioInv, Usual
  <1> QED
    BY <1>1, <1>2, PTL DEF MCSpec

\* What is counted is held by a stream, so a connected stream is routed.
LEMMA RoutingHeld == ASSUME RoutingInv PROVE RoutingHolds
  <1>1. ASSUME NEW s \in Streams, call[s] = None, NEW e \in ToSet(connected_endpoints[s]),
               UcmDevice[e] # None
        PROVE  UcmDevice[e] \in enabled
    <2> DEFINE list == connected_endpoints[s]
               n == Len(list)
    <2>1. list \in Seq(Endpoints) /\ n \in Nat
      BY LenProperties DEF RoutingInv, StreamTypes
    <2>2. PICK i \in 1..n : e = list[i]
      BY <1>1, <2>1, LenProperties DEF ToSet
    <2>3. n - i \in Nat /\ n - i < n /\ n - (n - i) = i
      BY <2>1
    <2>4. UcmDevice[e] \in UcmDevices
      BY <1>1, <2>1, <2>2, RoutingAssumption
    <2>5. Holds(s, "old", n - i, UcmDevice[e])
      BY <1>1, <2>2, <2>3 DEF Holds, HoldsOld, Switching, FromEnd
    <2>6. <<s, "old", n - i>> \in HeldOn(UcmDevice[e])
      BY <2>3, <2>5 DEF HeldOn, References
    <2> QED
      BY <2>4, <2>6 DEF RoutingInv, Counted
  <1>2. ASSUME \A s \in Streams : call[s] = None /\ worker[s].pc = "gone" /\ life[s] = "destroyed"
        PROVE  enabled = {} /\ \A u \in UcmDevices : refcounts[u] = 0
    <2>1. \A s \in Streams : connected_endpoints[s] = << >> /\ ~Switching(s)
      BY <1>2 DEF RoutingInv, LockKept, Switching
    <2>2. \A s \in Streams : \A list, u : \A j \in Nat : ~Holds(s, list, j, u)
      BY <2>1 DEF Holds, HoldsNew, HoldsOld
    <2>3. \A u : HeldOn(u) = {}
      BY <2>2 DEF HeldOn, References
    <2> QED
      BY <2>3, FS_EmptySet DEF RoutingInv, Counted
  <1> QED
    BY <1>1, <1>2 DEF RoutingHolds

LEMMA HandOverServes ==
    ASSUME RoutingInv, HandOver
    PROVE  OnConnectedDevices /\ TransfersWithDevices
  <1>1. OnConnectedDevices
    BY DEF RoutingInv, LockKept, HandOver, HandedOver, OnConnectedDevices
  <1>2. ASSUME NEW s \in Streams, connected[s], life[s] = "open"
        PROVE  \/ active_endpoints[s] # << >> \/ endpoints_updated[s] \/ worker[s].pc = "copy"
               \/ call[s] # None /\ call[s].endpoints = << >>
    <2>1. call[s] = None \/ call[s].step \in {"switch", "publish", "flip"}
      BY DEF RoutingInv, StreamTypes, Calls
    <2> QED
      BY <1>2, <2>1 DEF HandOver, HandedOver
  <1> QED
    BY <1>1, <1>2 DEF TransfersWithDevices

\* A connected stream is routed to its devices, its worker transfers with them,
\* a transfer that succeeds has moved the burst, and the effects are configured
\* as asked: for any streams, endpoints, bursts and effects.
THEOREM StreamsSoundAlways == ASSUME Usual PROVE MCSpec => []StreamsSound
  <1>1. AudioInv => StreamsSound
    <2> SUFFICES ASSUME AudioInv PROVE StreamsSound
      OBVIOUS
    <2> QED
      BY RoutingHeld, HandOverServes, EffectsSoundOf DEF AudioInv, BurstInv, StreamsSound, Usual
  <1> QED
    BY <1>1, AudioInvariant, PTL

\* A device of both lists is referred to, whatever is left to do of a call of k
\* more uses.
LEMMA SharedHeld ==
    ASSUME NEW m \in Nat, NEW n \in Nat, NEW k \in Nat, NEW i \in 1..m, NEW j \in 1..n
    PROVE  \/ m - i < m /\ k <= n + (m - i)
           \/ n - j < n /\ n - j < k
  OBVIOUS

\* While a stream is switched, the devices of both lists are on.
SharedIsOn ==
    \A s \in Streams : Switching(s) =>
        \A e \in ToSet(call[s].endpoints) \cap ToSet(connected_endpoints[s]) :
            UcmDevice[e] \in enabled \cup {None}

LEMMA SharedOn == ASSUME RoutingInv PROVE SharedIsOn
  <1> SUFFICES ASSUME NEW s \in Streams, Switching(s),
                      NEW e \in ToSet(call[s].endpoints) \cap ToSet(connected_endpoints[s]),
                      UcmDevice[e] # None
               PROVE  UcmDevice[e] \in enabled
    BY DEF SharedIsOn
  <1> DEFINE new == call[s].endpoints
             old == connected_endpoints[s]
             m == Len(new)
             n == Len(old)
             k == Len(call[s].todo)
             u == UcmDevice[e]
  <1>1. /\ new \in Seq(Endpoints) /\ old \in Seq(Endpoints)
        /\ call[s].todo \in Seq([op : {"acquire", "release"}, endpoint : Endpoints])
    BY DEF RoutingInv, StreamTypes, Switching, Calls
  <1>2. m \in Nat /\ n \in Nat /\ k \in Nat
    BY <1>1, LenProperties
  <1>3. PICK i \in 1..m : e = new[i]
    BY <1>1, LenProperties DEF ToSet
  <1>4. PICK j \in 1..n : e = old[j]
    BY <1>1, LenProperties DEF ToSet
  <1>5. u \in UcmDevices
    BY <1>1, <1>3, RoutingAssumption
  <1>6. \/ m - i < m /\ k <= n + (m - i)
        \/ n - j < n /\ n - j < k
    <2> HIDE DEF m, n, k
    <2> QED  BY <1>2, <1>3, <1>4, SharedHeld
  <1>7. /\ m - i \in Nat /\ n - j \in Nat
        /\ FromEnd(new, m - i) = e /\ FromEnd(old, n - j) = e
    <2>1. m - i \in Nat /\ n - j \in Nat /\ m - (m - i) = i /\ n - (n - j) = j
      <3> HIDE DEF m, n
      <3> QED  BY <1>2
    <2> QED
      BY <1>3, <1>4, <2>1 DEF FromEnd
  <1>8. Holds(s, "new", m - i, u) \/ Holds(s, "old", n - j, u)
    BY <1>6, <1>7 DEF Holds, HoldsNew, HoldsOld
  <1>9. <<s, "new", m - i>> \in HeldOn(u) \/ <<s, "old", n - j>> \in HeldOn(u)
    BY <1>7, <1>8 DEF HeldOn, References
  <1> QED
    BY <1>5, <1>9 DEF RoutingInv, Counted

\* The step that ends the switch, and none but it, takes a stream out of it.
LEMMA SwitchKept ==
    ASSUME RoutingInv, NEW s \in Streams, Switching(s), [Next]_vars
    PROVE  \/ /\ Switching(s)' /\ call'[s].endpoints = call[s].endpoints
              /\ connected_endpoints'[s] = connected_endpoints[s]
           \/ UNCHANGED enabled
  <1>1. CASE UNCHANGED vars
    BY <1>1 DEF vars
  <1>2. ASSUME NEW t \in Streams, StepOf(t), t # s
        PROVE  /\ Switching(s)' /\ call'[s].endpoints = call[s].endpoints
               /\ connected_endpoints'[s] = connected_endpoints[s]
    BY <1>2, OthersAlone DEF RoutingInv, Alone, Unmoved, Switching
  <1>3. ASSUME StepOf(s)
        PROVE  \/ /\ Switching(s)' /\ call'[s].endpoints = call[s].endpoints
                  /\ connected_endpoints'[s] = connected_endpoints[s]
               \/ UNCHANGED enabled
    <2>1. CASE SwitchNext(s)
      <3>1. CASE call[s].todo = << >>
        BY <2>1, <3>1 DEF SwitchNext, routing
      <3>2. CASE call[s].todo # << >>
        <4>1. /\ call[s] \in Calls /\ call[s].step = "switch" /\ UNCHANGED connected_endpoints
              /\ call' = [call EXCEPT ![s].todo = Tail(@)]
          BY <2>1, <3>2 DEF SwitchNext, RoutingInv, StreamTypes
        <4>2. Tail(call[s].todo) \in Seq([op : {"acquire", "release"}, endpoint : Endpoints])
          <5>1. call[s].todo \in Seq([op : {"acquire", "release"}, endpoint : Endpoints])
            BY <4>1 DEF Calls
          <5> QED
            BY <3>2, <5>1, HeadTailProperties
        <4> DEFINE next == [call[s] EXCEPT !.todo = Tail(call[s].todo)]
        <4>3. next \in Calls /\ next.step = "switch" /\ next.endpoints = call[s].endpoints
          BY <4>1, <4>2 DEF Calls
        <4>4. call'[s] = next
          BY <4>1 DEF RoutingInv, StreamTypes
        <4> HIDE DEF next
        <4> QED
          BY <4>1, <4>3, <4>4, RoutingAssumption DEF Switching
      <3> QED
        BY <3>1, <3>2
    <2>2. CASE \/ \E command \in {"start", "transfer"} : Begin(s, command)
               \/ ExchangeUpdated(s) \/ CopyEndpoints(s) \/ EnsureDevicesReady(s) \/ Transfer(s)
               \/ Standby(s)
      BY <2>2, WorkerTypes DEF RoutingInv, routing
    <2>3. CASE \/ \E devices \in DeviceLists : SetConnectedDevices(s, devices)
               \/ Publish(s) \/ Shutdown(s) \/ Destroy(s)
      BY <2>3 DEF SetConnectedDevices, Publish, Shutdown, Destroy, routing
    <2>4. CASE ReleaseRouting(s)
      BY <2>4 DEF ReleaseRouting, RoutingInv, LockKept
    <2> QED
      BY <1>3, <2>1, <2>2, <2>3, <2>4 DEF StepOf, Step
  <1> QED
    BY <1>1, <1>2, <1>3 DEF Next, StepOf

\* "a device shared by the old and the new set never gets toggled"
\* (setConnectedDevices()): not by any step of any stream.
THEOREM SharedStaysOnAlways == ASSUME Usual PROVE MCSpec => SharedStaysOn
  <1>1. ASSUME RoutingInv, SharedIsOn', [Next]_vars, NEW s \in Streams, Switching(s),
               NEW e \in ToSet(call[s].endpoints) \cap ToSet(connected_endpoints[s]),
               UcmDevice[e] \in enabled
        PROVE  UcmDevice[e] \in enabled'
    <2>1. CASE UNCHANGED enabled
      BY <1>1, <2>1
    <2>2. CASE /\ Switching(s)' /\ call'[s].endpoints = call[s].endpoints
               /\ connected_endpoints'[s] = connected_endpoints[s]
      <3>1. UcmDevice[e] # None
        BY <1>1, RoutingAssumption DEF RoutingInv, Counted
      <3> QED
        BY <1>1, <2>2, <3>1 DEF SharedIsOn
    <2> QED
      BY <1>1, <2>1, <2>2, SwitchKept
  <1>2. RoutingInv /\ SharedIsOn' /\ [MCNext]_all =>
            [\A s \in Streams : (call[s] # None /\ call[s].step = "switch") =>
                \A e \in ToSet(call[s].endpoints) \cap ToSet(connected_endpoints[s]) :
                    (UcmDevice[e] \in enabled) => UcmDevice[e] \in enabled']_vars
    <2> SUFFICES ASSUME RoutingInv, SharedIsOn', [MCNext]_all,
                        NEW s \in Streams, call[s] # None, call[s].step = "switch",
                        NEW e \in ToSet(call[s].endpoints) \cap ToSet(connected_endpoints[s]),
                        UcmDevice[e] \in enabled
                 PROVE  UcmDevice[e] \in enabled'
      OBVIOUS
    <2>1. [Next]_vars
      BY DEF MCNext, StreamNext, PcmNext, InventoryNext, EffectNext, all
    <2> QED
      BY <1>1, <2>1 DEF Switching
  <1>3. AudioInv => RoutingInv /\ SharedIsOn
    BY SharedOn DEF AudioInv
  <1> QED
    BY <1>2, <1>3, AudioInvariant, PTL DEF MCSpec, SharedStaysOn

(***************************************************************************)
(* What the discovery knows                                                *)
(***************************************************************************)

\* The input roles, and the roles of a path that has none of its own.
InputRoles == {"HeadsetMic", "Mic", "BusIn"}
BusRoles == {"BusOut", "BusIn"}

\* Roles agree with directions, and HDMI heads stay heads without their role.
EndpointSound(e) ==
  /\ e.is_input <=> e.role \in InputRoles
  /\ e.role = "Hdmi" => e.is_hdmi_head
  /\ e.is_hdmi_head => e.role = "Hdmi" \/ e.extra_hdmi
  /\ e.extra_hdmi => e.role = "BusOut" /\ e.is_hdmi_head

\* What is left of the capabilities after every restriction.
CapsSound(c) == c.formats # {} /\ c.rates # {} /\ c.min_channels = 1 /\ c.max_channels > 0

\* A path that names a UCM device is one of that device, in the verb of its card.
PathSound(e) ==
  e.ucm_device # None =>
    \E k \in DOMAIN cards_ :
      /\ cards_[k].index = e.card /\ cards_[k].verbs # <<>>
      /\ \E n \in DOMAIN Inventory!UcmDevicesOf(cards_[k]) :
           LET d == Inventory!UcmDevicesOf(cards_[k])[n]
           IN d.name = e.ucm_device /\ e.pcm = Inventory!PcmOf(d, ~e.is_input)

\* Every endpoint is a path that can be used.
EndpointsInv ==
  /\ endpoints_ \in Seq(Inventory!Endpoints)
  /\ \A i \in DOMAIN endpoints_ :
       EndpointSound(endpoints_[i]) /\ CapsSound(endpoints_[i].caps) /\ PathSound(endpoints_[i])

\* Cards differ by index, and each list holds cards of the list it was made of.
IndexedApart(cards) == \A i, j \in DOMAIN cards : cards[i].index = cards[j].index => i = j
AmongFirst(list, from, n) == \A i \in DOMAIN list : \E j \in DOMAIN from : j < n /\ list[i] = from[j]

\* The lists of SelectCards().
CardsInv ==
  /\ system \in Systems /\ at \in Nat \ {0} /\ pos \in Nat
  /\ answered \in Seq(Inventory!Cards) /\ IndexedApart(answered)
  /\ AmongFirst(answered, system, IF stage = "cards" THEN at ELSE Len(system) + 1)
  /\ cards_ \in Seq(Inventory!Cards) /\ IndexedApart(cards_)
  /\ AmongFirst(cards_, system, Len(system) + 1)
  /\ stage = "cards" => cards_ = <<>>
  /\ stage = "select" => AmongFirst(cards_, answered, at)
  /\ stage \in {"cards", "select"} => ucm_managers_ = {} /\ endpoints_ = <<>>

\* Roles are not assigned yet; and the paths of card k up to UCM device n are found.
Early == stage \in {"cards", "select", "candidates", "filter", "sort"}
Done(k, n) == stage = "candidates" => k < at \/ (k = at /\ n < pos)

\* The external paths of a profile, as far as they are collected, have a template.
TemplatesInv ==
  /\ \A k \in DOMAIN cards_ : cards_[k].index \in ucm_managers_ =>
       /\ cards_[k].verbs # <<>>
       /\ stage = "candidates" => k < at \/ (k = at /\ pos > 0)
       /\ \A n \in DOMAIN Inventory!UcmDevicesOf(cards_[k]), playback \in BOOLEAN :
            LET d == Inventory!UcmDevicesOf(cards_[k])[n]
                role == Inventory!ClassifyUcmDevice(d.words, playback)
            IN Done(k, n) /\ Inventory!HasPath(cards_[k], d, playback)
                 /\ role \in Inventory!ExternalRoles =>
                 \E i \in DOMAIN endpoints_ : endpoints_[i].role = role

\* What AssignRoles() establishes: roles but those of bus ports are given once, the
\* speaker is no HDMI head and near, a headset microphone makes a microphone, and
\* without a speaker there is nothing to make one of.
RolesApart(es) ==
  \A i, j \in DOMAIN es : es[i].role \notin BusRoles /\ es[i].role = es[j].role => i = j
SpeakersNear(es) ==
  \A i \in DOMAIN es : es[i].role = "Speaker" =>
    /\ ~es[i].is_hdmi_head
    /\ Inventory!OnPrimary(es[i]) \/ \A j \in DOMAIN es : Inventory!OnPrimary(es[j]) => Inventory!IsQuiet(es[j])
HeadsetServed(es) == Inventory!Has(es, "HeadsetMic") => Inventory!Has(es, "Mic")
QuietWithoutSpeaker(es) ==
  ~Inventory!Has(es, "Speaker") => \A i \in DOMAIN es : Inventory!IsQuiet(es[i])
\* The placeholder of AddNullEndpointsIfNeeded() stands in only for nothing.
NullSpeaker(es) ==
  \A i, j \in DOMAIN es : es[i].role = "Speaker" /\ es[i].is_null => es[j].is_null \/ Inventory!IsQuiet(es[j])

\* The roles at each stage.
RolesInv ==
  IF Early
  THEN \A i \in DOMAIN endpoints_ :
         ~endpoints_[i].extra_hdmi /\ ~endpoints_[i].is_null /\ endpoints_[i].pcm # None
  ELSE /\ RolesApart(endpoints_) /\ SpeakersNear(endpoints_) /\ HeadsetServed(endpoints_)
       /\ IF stage = "null"
          THEN QuietWithoutSpeaker(endpoints_) /\ \A i \in DOMAIN endpoints_ : ~endpoints_[i].is_null
          ELSE Inventory!Has(endpoints_, "Speaker") /\ NullSpeaker(endpoints_)

\* Devices follow roles, and what is offered is served.
PortsInv ==
  /\ stage \in {"build", "ready"} =>
       \A i \in DOMAIN endpoints_ : endpoints_[i].device = Inventory!DeviceOf(endpoints_[i])
  /\ stage # "ready" => external = None
  /\ stage = "ready" =>
       /\ config.connected = {i \in DOMAIN endpoints_ : ~Inventory!IsAttached(endpoints_[i])}
                               \cup Inventory!UsbOutputs \cup Inventory!UsbInputs
       /\ OfferedIsServed

InventoryInv ==
  /\ stage \in Inventory!Stages
  /\ EndpointsInv /\ CardsInv /\ TemplatesInv /\ RolesInv /\ PortsInv

-----------------------------------------------------------------------------
\* Two lists one after the other.
LEMMA Joined ==
    ASSUME NEW S, NEW a \in Seq(S), NEW b \in Seq(S)
    PROVE  /\ a \o b \in Seq(S)
           /\ \A i \in DOMAIN a : i \in DOMAIN (a \o b) /\ (a \o b)[i] = a[i]
           /\ \A j \in DOMAIN b : Len(a) + j \in DOMAIN (a \o b) /\ (a \o b)[Len(a) + j] = b[j]
           /\ \A i \in DOMAIN (a \o b) :
                i \in DOMAIN a \/ \E j \in DOMAIN b : i = Len(a) + j
  <1> DEFINE c == a \o b
             m == Len(a)
             n == Len(b)
  <1>1. c \in Seq(S) /\ Len(c) = m + n
        /\ \A i \in 1..m + n : c[i] = IF i <= m THEN a[i] ELSE b[i - m]
    BY ConcatProperties
  <1>2. m \in Nat /\ n \in Nat /\ DOMAIN a = 1..m /\ DOMAIN b = 1..n
    BY LenProperties
  <1>3. DOMAIN c = 1..m + n
    BY <1>1, LenProperties
  <1> HIDE DEF c, m, n
  <1>4. \A i \in DOMAIN a : i \in DOMAIN c /\ c[i] = a[i]
    BY <1>1, <1>2, <1>3
  <1>5. \A j \in DOMAIN b : m + j \in DOMAIN c /\ c[m + j] = b[j]
    <2> TAKE j \in DOMAIN b
    <2> DEFINE p == m + j
    <2>1. p \in 1..m + n /\ ~(p <= m) /\ p - m = j
      BY <1>2
    <2> HIDE DEF p
    <2>2. c[p] = b[p - m] /\ p \in DOMAIN c
      BY <1>1, <1>3, <2>1, Zenon
    <2> QED  BY <2>1, <2>2 DEF p
  <1>6. ASSUME NEW i \in DOMAIN c, i \notin DOMAIN a
        PROVE  \E j \in DOMAIN b : i = m + j
    <2>1. i - m \in DOMAIN b /\ i = m + (i - m)
      BY <1>2, <1>3, <1>6
    <2> QED  BY <2>1
  <1> QED
    BY <1>1, <1>4, <1>5, <1>6 DEF c, m

\* A list of one.
LEMMA Single ==
    ASSUME NEW S, NEW x \in S
    PROVE  <<x>> \in Seq(S) /\ Len(<<x>>) = 1 /\ DOMAIN <<x>> = {1} /\ <<x>>[1] = x
  OBVIOUS

\* The first of some positions.
LEMMA FirstOf ==
    ASSUME NEW P \in SUBSET Nat, P # {}
    PROVE  Inventory!Min(P) \in P /\ \A p \in P : Inventory!Min(P) <= p
  BY LeastNumber DEF Inventory!Min

\* Moving an element forward loses none and doubles none.
Origin(from, to, i) == IF i = to THEN from ELSE IF to < i /\ i <= from THEN i - 1 ELSE i

Rearranged(m, s, S) ==
  /\ m \in Seq(S) /\ DOMAIN m = DOMAIN s
  /\ \A i \in DOMAIN m : \E k \in DOMAIN s : m[i] = s[k]
  /\ \A k \in DOMAIN s : \E i \in DOMAIN m : m[i] = s[k]
  /\ \A i, j \in DOMAIN m : i # j =>
        \E k, l \in DOMAIN s : k # l /\ m[i] = s[k] /\ m[j] = s[l]

LEMMA MovedList ==
    ASSUME NEW S, NEW s \in Seq(S), NEW from \in DOMAIN s, NEW to \in 1..from
    PROVE  Rearranged(Inventory!Moved(s, from, to), s, S)
  <1> DEFINE m == Inventory!Moved(s, from, to)
             n == Len(s)
  <1>1. n \in Nat /\ DOMAIN s = 1..n /\ \A i \in 1..n : s[i] \in S
    BY LenProperties
  <1>2. from \in 1..n /\ to \in 1..n /\ to <= from
    BY <1>1
  <1>3. m = [i \in 1..n |-> s[Origin(from, to, i)]]
        /\ \A i \in 1..n : Origin(from, to, i) \in 1..n
    BY <1>1, <1>2 DEF Inventory!Moved, Origin
  <1> HIDE DEF m, n
  <1>4. m \in [1..n -> S]
    BY <1>1, <1>3
  <1>5. m \in Seq(S) /\ DOMAIN m = DOMAIN s
    BY <1>1, <1>4, SequenceOf
  <1>6. \A i \in DOMAIN m : m[i] = s[Origin(from, to, i)] /\ Origin(from, to, i) \in DOMAIN s
    BY <1>1, <1>3, <1>5
  <1>7. \A i, j \in 1..n : i # j => Origin(from, to, i) # Origin(from, to, j)
    BY <1>1, <1>2 DEF Origin
  <1>8. \A k \in 1..n : \E i \in 1..n : Origin(from, to, i) = k
    <2> TAKE k \in 1..n
    <2>1. CASE k = from
      BY <1>2, <2>1 DEF Origin
    <2>2. CASE to <= k /\ k < from
      <3>1. k + 1 \in 1..n /\ Origin(from, to, k + 1) = k
        BY <1>1, <1>2, <2>2 DEF Origin
      <3> QED  BY <3>1
    <2>3. CASE k < to \/ k > from
      BY <1>1, <1>2, <2>3 DEF Origin
    <2> QED  BY <1>1, <1>2, <2>1, <2>2, <2>3
  <1>9. \A i \in DOMAIN m : \E k \in DOMAIN s : m[i] = s[k]
    BY <1>6
  <1>10. ASSUME NEW k \in DOMAIN s PROVE \E i \in DOMAIN m : m[i] = s[k]
    <2>1. PICK i \in 1..n : Origin(from, to, i) = k
      BY <1>1, <1>8
    <2> QED  BY <1>1, <1>5, <1>6, <2>1
  <1>11. ASSUME NEW i \in DOMAIN m, NEW j \in DOMAIN m, i # j
         PROVE  \E k, l \in DOMAIN s : k # l /\ m[i] = s[k] /\ m[j] = s[l]
    <2>1. Origin(from, to, i) # Origin(from, to, j)
      BY <1>1, <1>5, <1>7, <1>11
    <2> QED  BY <1>6, <2>1
  <1> QED
    BY <1>5, <1>9, <1>10, <1>11 DEF m, Rearranged

-----------------------------------------------------------------------------
\* What is known of the constants of the inventory.
LEMMA Reported ==
    /\ \A report \in Reports : report = None \/
         report \in [formats : SUBSET STRING, rates : SUBSET Nat, min_channels : Nat, max_channels : Nat]
    /\ \A probe \in Probes, name \in PcmNames, way \in BOOLEAN : probe[<<name, way>>] \in Reports
  BY InventoryAssumed DEF InventoryAssumption

\* Nothing of a usable report gets lost.
Usable(c) == c.formats # {} /\ c.rates # {} /\ c.max_channels > 0

LEMMA Fallback == Inventory!FallbackCapabilities \in Inventory!Capabilities /\ CapsSound(Inventory!FallbackCapabilities)
  BY DEF Inventory!FallbackCapabilities, Inventory!Capabilities, Inventory!Formats, CapsSound

LEMMA Queried ==
    ASSUME NEW report \in Reports, Inventory!QueryCapabilities(report) # None
    PROVE  /\ Inventory!QueryCapabilities(report) \in Inventory!Capabilities
           /\ Usable(Inventory!QueryCapabilities(report))
  <1> DEFINE c == Inventory!QueryCapabilities(report)
             F == report.formats \cap Inventory!Formats
             R == report.rates \cap Inventory!StandardSampleRates
  <1>1. report # None /\ report.max_channels # 0 /\ F # {} /\ R # {}
        /\ c = [report EXCEPT !.formats = @ \cap Inventory!Formats,
                              !.rates = @ \cap Inventory!StandardSampleRates]
    BY DEF Inventory!QueryCapabilities
  <1>2. report \in [formats : SUBSET STRING, rates : SUBSET Nat, min_channels : Nat, max_channels : Nat]
    BY <1>1, Reported
  <1>3. c.formats = F /\ c.rates = R /\ c.max_channels = report.max_channels
        /\ c = [formats |-> F, rates |-> R, min_channels |-> report.min_channels,
                max_channels |-> report.max_channels]
    BY <1>1, <1>2
  <1>4. F \in SUBSET Inventory!Formats /\ R \in SUBSET Nat
    BY <1>2
  <1> HIDE DEF c, F, R
  <1>5. c \in Inventory!Capabilities /\ Usable(c)
    BY <1>1, <1>2, <1>3, <1>4 DEF Inventory!Capabilities, Usable
  <1> QED  BY <1>5 DEF c

\* The plug layer serves one channel and two.
LEMMA Augmented ==
    ASSUME NEW c \in Inventory!Capabilities, Usable(c), NEW fixed \in Nat
    PROVE  LET a == Inventory!AugmentCapabilities(Inventory!FixChannels(c, fixed))
           IN a \in Inventory!Capabilities /\ CapsSound(a)
  <1> DEFINE f == Inventory!FixChannels(c, fixed)
             a == Inventory!AugmentCapabilities(f)
  <1>1. f \in Inventory!Capabilities /\ f.formats = c.formats /\ f.rates = c.rates
    BY DEF Inventory!FixChannels, Inventory!Capabilities
  <1> HIDE DEF f
  <1> DEFINE M == IF f.max_channels < 2 THEN 2 ELSE f.max_channels
             F == f.formats \cup {"s16"}
             R == f.rates \cup {44100, 48000}
  <1>2. a = [f EXCEPT !.formats = F, !.rates = R, !.min_channels = 1, !.max_channels = M]
    BY DEF Inventory!AugmentCapabilities
  <1>3. M \in Nat /\ M > 0 /\ F \in SUBSET Inventory!Formats /\ F # {} /\ R \in SUBSET Nat /\ R # {}
    BY <1>1 DEF Inventory!Capabilities, Inventory!Formats
  <1> HIDE DEF a, M, F, R
  <1>4. a \in Inventory!Capabilities /\ CapsSound(a)
    <2>1. a.formats = F /\ a.rates = R /\ a.min_channels = 1 /\ a.max_channels = M
      BY <1>1, <1>2 DEF Inventory!Capabilities
    <2>2. a \in Inventory!Capabilities
      BY <1>1, <1>2, <1>3 DEF Inventory!Capabilities
    <2> QED  BY <1>3, <2>1, <2>2 DEF CapsSound
  <1> QED  BY <1>4 DEF a, f

LEMMA ProbedSound ==
    ASSUME NEW e \in Inventory!Endpoints, e.pcm # None, NEW probe \in Probes
    PROVE  /\ Inventory!Probed(e, probe) \in Inventory!Capabilities
           /\ CapsSound(Inventory!Probed(e, probe))
  <1> DEFINE found == Inventory!QueryCapabilities(probe[<<e.pcm, e.is_input>>])
             base == IF found = None THEN Inventory!FallbackCapabilities ELSE found
  <1>1. e.pcm \in PcmNames /\ e.is_input \in BOOLEAN /\ e.fixed_channels \in Nat
    BY DEF Inventory!Endpoints
  <1>2. probe[<<e.pcm, e.is_input>>] \in Reports
    BY <1>1, Reported
  <1>3. found # None => found \in Inventory!Capabilities /\ Usable(found)
    BY <1>2, Queried
  <1>4. base \in Inventory!Capabilities /\ Usable(base)
    BY <1>3, Fallback DEF CapsSound, Usable
  <1>5. Inventory!Probed(e, probe) = Inventory!AugmentCapabilities(Inventory!FixChannels(base, e.fixed_channels))
    BY DEF Inventory!Probed
  <1> HIDE DEF base
  <1> QED  BY <1>1, <1>4, <1>5, Augmented

\* A restriction leaves something and keeps the channels.
LEMMA FilteredUsable ==
    ASSUME NEW c \in Inventory!Capabilities, Usable(c), NEW rates, NEW bits
    PROVE  LET f == Inventory!FilterEndpointCapabilities(c, rates, bits)
           IN /\ f \in Inventory!Capabilities /\ Usable(f)
              /\ f.min_channels = c.min_channels /\ f.max_channels = c.max_channels
  <1> DEFINE R == IF rates = {} THEN c.rates ELSE Inventory!KeepSome(c.rates, c.rates \cap rates)
             F == IF bits = {} THEN c.formats
                  ELSE Inventory!KeepSome(c.formats, {g \in c.formats : Inventory!Width[g] \in bits})
             f == Inventory!FilterEndpointCapabilities(c, rates, bits)
  <1>1. R \in SUBSET Nat /\ R # {} /\ F \in SUBSET Inventory!Formats /\ F # {}
    BY DEF Inventory!KeepSome, Usable, Inventory!Capabilities
  <1>4. f = [c EXCEPT !.rates = R, !.formats = F]
    BY DEF Inventory!FilterEndpointCapabilities
  <1> HIDE DEF R, F
  <1>2. f = [formats |-> F, rates |-> R, min_channels |-> c.min_channels, max_channels |-> c.max_channels]
    BY <1>4 DEF Inventory!Capabilities
  <1> HIDE DEF f
  <1>3. /\ f \in Inventory!Capabilities /\ Usable(f)
        /\ f.min_channels = c.min_channels /\ f.max_channels = c.max_channels
    BY <1>1, <1>2 DEF Inventory!Capabilities, Usable
  <1> QED  BY <1>3 DEF f

LEMMA FilteredSound ==
    ASSUME NEW c \in Inventory!Capabilities, CapsSound(c), NEW card
    PROVE  Inventory!Filtered(c, card) \in Inventory!Capabilities /\ CapsSound(Inventory!Filtered(c, card))
  <1>1. Usable(c)
    BY DEF Usable, CapsSound
  <1> QED
    BY <1>1, FilteredUsable DEF Inventory!Filtered, Usable, CapsSound

-----------------------------------------------------------------------------
\* Endpoints that are written to stay on their path.
SamePath(e, f) ==
  /\ f.card = e.card /\ f.is_input = e.is_input /\ f.pcm = e.pcm /\ f.ucm_device = e.ucm_device
  /\ f.is_hdmi_head = e.is_hdmi_head /\ f.is_null = e.is_null
SameRole(e, f) == f.role = e.role /\ f.extra_hdmi = e.extra_hdmi

LEMMA CapsSet ==
    ASSUME NEW e \in Inventory!Endpoints, NEW c \in Inventory!Capabilities,
           NEW f, f = [e EXCEPT !.caps = c]
    PROVE  f \in Inventory!Endpoints /\ SamePath(e, f) /\ SameRole(e, f) /\ f.caps = c /\ f.device = e.device
  BY DEF Inventory!Endpoints, SamePath, SameRole

LEMMA RoleSet ==
    ASSUME NEW e \in Inventory!Endpoints, NEW r \in Inventory!Roles,
           NEW f, f = [e EXCEPT !.role = r]
    PROVE  /\ f \in Inventory!Endpoints /\ SamePath(e, f) /\ f.caps = e.caps
           /\ f.role = r /\ f.extra_hdmi = e.extra_hdmi
  BY DEF Inventory!Endpoints, SamePath

LEMMA RoleLost ==
    ASSUME NEW e \in Inventory!Endpoints, NEW r \in Inventory!Roles, NEW x \in BOOLEAN,
           NEW f, f = [e EXCEPT !.role = r, !.extra_hdmi = x]
    PROVE  /\ f \in Inventory!Endpoints /\ SamePath(e, f) /\ f.caps = e.caps
           /\ f.role = r /\ f.extra_hdmi = x
  BY DEF Inventory!Endpoints, SamePath

LEMMA PortSet ==
    ASSUME NEW e \in Inventory!Endpoints, NEW p \in Nat, NEW f, f = [e EXCEPT !.port_id = p]
    PROVE  f \in Inventory!Endpoints /\ SamePath(e, f) /\ SameRole(e, f) /\ f.caps = e.caps
           /\ f.device = e.device
  BY DEF Inventory!Endpoints, SamePath, SameRole

\* A new path.
NewlyOn(e, card, role, playback, pcm_name, ucm) ==
  /\ e \in Inventory!Endpoints
  /\ e.card = card.index /\ e.role = role /\ (e.is_input <=> ~playback) /\ e.pcm = pcm_name
  /\ e.ucm_device = ucm /\ (e.is_hdmi_head <=> role = "Hdmi") /\ e.extra_hdmi = FALSE
  /\ e.is_null = FALSE /\ CapsSound(e.caps)

LEMMA NewPath ==
    ASSUME NEW card \in Inventory!Cards, NEW role \in Inventory!Roles, NEW playback \in BOOLEAN,
           NEW pcm_name \in PcmNames, NEW ucm \in UcmNames \cup {None}, NEW priority \in Int,
           NEW channels \in Nat
    PROVE  NewlyOn(Inventory!Path(card, role, playback, pcm_name, ucm, priority, channels),
                   card, role, playback, pcm_name, ucm)
  <1> DEFINE caps == Inventory!FallbackCapabilities
             e == Inventory!Path(card, role, playback, pcm_name, ucm, priority, channels)
  <1>1. card.index \in Int /\ (role = "Hdmi") \in BOOLEAN /\ (~playback) \in BOOLEAN
    BY DEF Inventory!Cards
  <1>2. caps \in Inventory!Capabilities /\ CapsSound(caps)
    BY Fallback
  <1>3. e = [card |-> card.index, role |-> role, is_input |-> ~playback, pcm |-> pcm_name,
             ucm_device |-> ucm, is_hdmi_head |-> role = "Hdmi", extra_hdmi |-> FALSE,
             priority |-> priority, fixed_channels |-> channels, caps |-> caps,
             is_null |-> FALSE, device |-> None, is_default |-> FALSE, port_id |-> 0]
    BY DEF Inventory!Path
  <1> HIDE DEF caps, e
  <1>4. NewlyOn(e, card, role, playback, pcm_name, ucm)
    BY <1>1, <1>2, <1>3 DEF Inventory!Endpoints, NewlyOn
  <1> QED  BY <1>4 DEF e

\* The keywords of a UCM device stand for a role of the direction asked for.
LEMMA Classified ==
    ASSUME NEW words, NEW playback \in BOOLEAN
    PROVE  LET role == Inventory!ClassifyUcmDevice(words, playback)
           IN role \in Inventory!Roles /\ (role \in InputRoles <=> ~playback)
  BY DEF Inventory!ClassifyUcmDevice, Inventory!Roles, Inventory!ExternalRoles, InputRoles

-----------------------------------------------------------------------------
\* Endpoints while they are collected.
Fresh(e) ==
  /\ e \in Inventory!Endpoints /\ EndpointSound(e) /\ CapsSound(e.caps) /\ PathSound(e)
  /\ ~e.extra_hdmi /\ ~e.is_null /\ e.pcm # None
FreshList(es) == es \in Seq(Inventory!Endpoints) /\ \A i \in DOMAIN es : Fresh(es[i])

LEMMA FreshJoined ==
    ASSUME NEW a, FreshList(a), NEW b, FreshList(b)
    PROVE  /\ FreshList(a \o b)
           /\ \A i \in DOMAIN a : i \in DOMAIN (a \o b) /\ (a \o b)[i] = a[i]
           /\ \A i \in DOMAIN b : \E j \in DOMAIN (a \o b) : (a \o b)[j] = b[i]
  <1>1. a \in Seq(Inventory!Endpoints) /\ b \in Seq(Inventory!Endpoints)
    BY DEF FreshList
  <1>2. /\ a \o b \in Seq(Inventory!Endpoints)
        /\ \A i \in DOMAIN a : i \in DOMAIN (a \o b) /\ (a \o b)[i] = a[i]
        /\ \A j \in DOMAIN b : Len(a) + j \in DOMAIN (a \o b) /\ (a \o b)[Len(a) + j] = b[j]
        /\ \A i \in DOMAIN (a \o b) :
                i \in DOMAIN a \/ \E j \in DOMAIN b : i = Len(a) + j
    BY <1>1, Joined
  <1> DEFINE c == a \o b
             m == Len(a)
  <1> HIDE DEF c, m
  <1>3. ASSUME NEW i \in DOMAIN c PROVE Fresh(c[i])
    <2>1. CASE i \in DOMAIN a
      BY <1>2, <2>1 DEF c, FreshList
    <2>2. ASSUME NEW j \in DOMAIN b, i = m + j PROVE Fresh(c[i])
      BY <1>2, <2>2 DEF c, m, FreshList
    <2> QED  BY <1>2, <2>1, <2>2 DEF c, m
  <1>4. \A i \in DOMAIN b : \E j \in DOMAIN c : c[j] = b[i]
    BY <1>2 DEF c
  <1> QED  BY <1>2, <1>3, <1>4 DEF c, FreshList

LEMMA FreshOne ==
    ASSUME NEW e, Fresh(e)
    PROVE  FreshList(<<e>>) /\ DOMAIN <<e>> = {1} /\ <<e>>[1] = e
  BY Single DEF FreshList, Fresh

LEMMA FreshNone == FreshList(<<>>) /\ DOMAIN <<>> = {}
  BY EmptySeq DEF FreshList

\* The verb of a profile is one of its verbs.
LEMMA VerbFound ==
    ASSUME NEW card \in Inventory!Cards, card.verbs # <<>>
    PROVE  /\ Inventory!VerbOf(card) \in DOMAIN card.verbs
           /\ Inventory!UcmDevicesOf(card) \in Seq(Inventory!UcmDeviceInfos)
  <1> DEFINE wanted == {v \in DOMAIN card.verbs : card.verbs[v].name = props.ucm_verb}
  <1>1. card.verbs \in Seq(Inventory!Verbs)
    BY DEF Inventory!Cards
  <1>2. DOMAIN card.verbs \in SUBSET Nat /\ 1 \in DOMAIN card.verbs
    BY <1>1, EmptySeq, LenProperties
  <1>3. Inventory!VerbOf(card) = IF wanted = {} THEN 1 ELSE Inventory!Min(wanted)
    BY DEF Inventory!VerbOf
  <1>4. wanted \in SUBSET DOMAIN card.verbs
    OBVIOUS
  <1> HIDE DEF wanted
  <1>5. Inventory!VerbOf(card) \in DOMAIN card.verbs
    BY <1>2, <1>3, <1>4, FirstOf
  <1>6. card.verbs[Inventory!VerbOf(card)] \in Inventory!Verbs
    BY <1>1, <1>5
  <1> QED
    BY <1>5, <1>6 DEF Inventory!UcmDevicesOf, Inventory!Verbs

LEMMA UcmPathFresh ==
    ASSUME NEW k \in DOMAIN cards_, cards_[k] \in Inventory!Cards, cards_[k].verbs # <<>>,
           NEW n \in DOMAIN Inventory!UcmDevicesOf(cards_[k]), NEW playback \in BOOLEAN
    PROVE  LET d == Inventory!UcmDevicesOf(cards_[k])[n]
               p == Inventory!UcmPath(cards_[k], d, playback)
           IN /\ FreshList(p)
              /\ Inventory!HasPath(cards_[k], d, playback) =>
                   \E i \in DOMAIN p : p[i].role = Inventory!ClassifyUcmDevice(d.words, playback)
  <1> DEFINE card == cards_[k]
             d == Inventory!UcmDevicesOf(card)[n]
             role == Inventory!ClassifyUcmDevice(d.words, playback)
             e == Inventory!Path(card, role, playback, Inventory!PcmOf(d, playback), d.name,
                        IF playback THEN d.playback_priority ELSE d.capture_priority,
                        IF playback THEN d.playback_channels ELSE d.capture_channels)
             p == Inventory!UcmPath(card, d, playback)
  <1>1. d \in Inventory!UcmDeviceInfos
    BY VerbFound
  <1>2. CASE ~Inventory!HasPath(card, d, playback)
    <2>1. p = <<>>
      BY <1>2 DEF Inventory!UcmPath
    <2> QED  BY <1>2, <2>1, FreshNone
  <1>3. CASE Inventory!HasPath(card, d, playback)
    <2>1. p = <<e>>
      BY <1>3 DEF Inventory!UcmPath
    <2>2. Inventory!PcmOf(d, playback) \in PcmNames /\ d.name \in UcmNames
      BY <1>1, <1>3 DEF Inventory!HasPath, Inventory!PcmOf, Inventory!UcmDeviceInfos
    <2>3. /\ (IF playback THEN d.playback_priority ELSE d.capture_priority) \in Int
          /\ (IF playback THEN d.playback_channels ELSE d.capture_channels) \in Nat
          /\ (~playback) \in BOOLEAN
      <3>1. d.playback_priority \in Int /\ d.capture_priority \in Int
            /\ d.playback_channels \in Nat /\ d.capture_channels \in Nat
        BY <1>1 DEF Inventory!UcmDeviceInfos
      <3> HIDE DEF d
      <3>2. CASE playback = TRUE
        BY <3>1, <3>2
      <3>3. CASE playback = FALSE
        BY <3>1, <3>3
      <3> QED  BY <3>2, <3>3
    <2>4. role \in Inventory!Roles /\ (role \in InputRoles <=> ~playback)
      BY Classified
    <2>5. NewlyOn(e, card, role, playback, Inventory!PcmOf(d, playback), d.name)
      <3> DEFINE priority == IF playback THEN d.playback_priority ELSE d.capture_priority
                 channels == IF playback THEN d.playback_channels ELSE d.capture_channels
      <3>1. e = Inventory!Path(card, role, playback, Inventory!PcmOf(d, playback), d.name, priority, channels)
        OBVIOUS
      <3>2. priority \in Int /\ channels \in Nat /\ d.name \in UcmNames \cup {None}
        BY <2>2, <2>3
      <3> HIDE DEF role, d, e, priority, channels
      <3> QED  BY <2>2, <2>4, <3>1, <3>2, NewPath
    <2> HIDE DEF e, role, d, p
    <2>6. Inventory!PcmOf(d, ~e.is_input) = Inventory!PcmOf(d, playback)
      BY <2>5 DEF Inventory!PcmOf, NewlyOn
    <2>7. PathSound(e)
      BY <2>5, <2>6 DEF PathSound, NewlyOn, d
    <2>8. e.pcm # None
      BY <1>3, <2>5 DEF Inventory!HasPath, NewlyOn
    <2>9. Fresh(e)
      BY <2>4, <2>5, <2>7, <2>8 DEF Fresh, EndpointSound, NewlyOn
    <2>10. FreshList(p) /\ 1 \in DOMAIN p /\ p[1].role = role
      BY <2>1, <2>5, <2>9, FreshOne DEF NewlyOn
    <2> QED  BY <2>10 DEF p, d, role
  <1> QED  BY <1>2, <1>3

\* A card is one of the product's.
CardKnown(card) ==
  /\ card \in Inventory!Cards
  /\ \A p \in DOMAIN card.pcms : [card |-> card.index, device |-> card.pcms[p].device] \in PcmNames

LEMMA PcmPathFresh ==
    ASSUME NEW card, CardKnown(card), NEW i \in DOMAIN card.pcms, NEW playback \in BOOLEAN
    PROVE  FreshList(Inventory!PcmPath(card, i, playback))
  <1> DEFINE role == Inventory!PcmRole(card, i, playback)
             name == [card |-> card.index, device |-> card.pcms[i].device]
             priority == 1000 - card.pcms[i].device
             e == Inventory!Path(card, role, playback, name, None, priority, 0)
  <1>1. card \in Inventory!Cards /\ name \in PcmNames
    BY DEF CardKnown
  <1>2. priority \in Int
    <2>1. card.pcms \in Seq(Inventory!PcmDeviceInfos)
      BY <1>1 DEF Inventory!Cards
    <2>2. card.pcms[i] \in Inventory!PcmDeviceInfos
      BY <2>1
    <2>3. card.pcms[i].device \in Nat
      BY <2>2 DEF Inventory!PcmDeviceInfos
    <2> QED  BY <2>3
  <1>3. role \in Inventory!Roles /\ (role \in InputRoles <=> ~playback)
    BY DEF Inventory!PcmRole, Inventory!Roles, Inventory!ExternalRoles, InputRoles
  <1>4. Inventory!PcmPath(card, i, playback) \in {<<e>>, <<>>}
    BY DEF Inventory!PcmPath
  <1> HIDE DEF role, name, priority
  <1>5. NewlyOn(e, card, role, playback, name, None)
    <2>1. None \in UcmNames \cup {None} /\ 0 \in Nat
      OBVIOUS
    <2> QED  BY <1>1, <1>2, <1>3, <2>1, NewPath
  <1> HIDE DEF e
  <1>6. name # None
    BY InventoryAssumed, <1>1 DEF InventoryAssumption
  <1>7. Fresh(e)
    BY <1>3, <1>5, <1>6 DEF Fresh, EndpointSound, PathSound, NewlyOn
  <1> QED  BY <1>4, <1>7, FreshOne, FreshNone

\* Of some endpoints one has the highest priority.
LEMMA BestOf ==
    ASSUME NEW es \in Seq(Inventory!Endpoints), NEW P \in SUBSET DOMAIN es, P # {}
    PROVE  \E i \in P : \A j \in P : es[j].priority <= es[i].priority
  <1> DEFINE Above(i) == {j \in P : es[j].priority > es[i].priority}
             T == {Above(i) : i \in P}
             R == StrictSubsetOrdering(P)
             F == FiniteSubsetsOf(P)
  <1>1. \A i \in P : es[i].priority \in Int
    <2>1. \A i \in P : es[i] \in Inventory!Endpoints
      OBVIOUS
    <2> QED  BY <2>1 DEF Inventory!Endpoints
  <1>2. IsFiniteSet(P)
    <2>1. DOMAIN es = 1..Len(es) /\ Len(es) \in Nat
      BY LenProperties
    <2>2. IsFiniteSet(DOMAIN es)
      BY <2>1, FS_Interval
    <2> QED  BY <2>2, FS_Subset
  <1>3. T \subseteq F /\ T # {}
    <2>1. \A i \in P : Above(i) \in SUBSET P /\ IsFiniteSet(Above(i))
      BY <1>2, FS_Subset
    <2> QED
      BY <2>1, Zenon DEF FiniteSubsetsOf
  <1>4. IsWellFoundedOn(R, F)
    BY FS_StrictSubsetOrderingWellFounded
  <1>5. PICK x \in T : \A y \in T : ~(<<y, x>> \in R)
    <2> HIDE DEF T, R, F
    <2> QED  BY <1>3, <1>4, WFMin
  <1>6. PICK i \in P : x = Above(i)
    OBVIOUS
  <1>7. ASSUME NEW j \in P, ~(es[j].priority <= es[i].priority) PROVE FALSE
    <2>1. es[j].priority > es[i].priority
      BY <1>1, <1>7
    <2>2. Above(j) \subseteq Above(i) /\ j \in Above(i) /\ j \notin Above(j)
      BY <1>1, <2>1
    <2>3. Above(j) \in T /\ Above(j) \in SUBSET P /\ Above(i) \in SUBSET P
      OBVIOUS
    <2>4. <<Above(j), Above(i)>> \in R
      <3> HIDE DEF Above
      <3> QED  BY <2>2, <2>3, Zenon DEF StrictSubsetOrdering
    <2> QED
      BY <1>5, <1>6, <2>3, <2>4
  <1> QED  BY <1>7

\* The headset output is on the path of headphones.
LEMMA HeadsetFresh ==
    ASSUME NEW es, FreshList(es), NEW card
    PROVE  LET w == Inventory!WithHeadset(card, es)
           IN FreshList(w) /\ \A i \in DOMAIN es : i \in DOMAIN w /\ w[i] = es[i]
  <1> DEFINE own == {i \in DOMAIN es : es[i].card = card.index}
             phones == {i \in own : es[i].role = "Headphones"}
             best == {i \in phones : \A j \in phones : es[j].priority <= es[i].priority}
             h == Inventory!Min(best)
             e == [es[h] EXCEPT !.role = "Headset"]
             w == Inventory!WithHeadset(card, es)
  <1>1. w = es \/ (phones # {} /\ w = Append(es, e))
    BY DEF Inventory!WithHeadset
  <1>2. CASE w = es
    BY <1>2
  <1>3. CASE phones # {} /\ w = Append(es, e)
    <2>1. es \in Seq(Inventory!Endpoints)
      BY DEF FreshList
    <2>2. phones \in SUBSET DOMAIN es /\ DOMAIN es \in SUBSET Nat
      BY <2>1, LenProperties
    <2>3. best # {} /\ best \in SUBSET phones
      <3>1. \E i \in phones : \A j \in phones : es[j].priority <= es[i].priority
        <4> HIDE DEF phones
        <4> QED  BY <1>3, <2>1, <2>2, BestOf
      <3> QED  BY <3>1
    <2>4. h \in phones
      <3> HIDE DEF best, phones
      <3> QED  BY <2>2, <2>3, FirstOf
    <2>5. Fresh(es[h]) /\ es[h].role = "Headphones"
      BY <2>4 DEF FreshList
    <2>6. /\ e \in Inventory!Endpoints /\ SamePath(es[h], e) /\ e.caps = es[h].caps
          /\ e.role = "Headset" /\ e.extra_hdmi = es[h].extra_hdmi
      <3>1. "Headset" \in Inventory!Roles
        BY DEF Inventory!Roles, Inventory!ExternalRoles
      <3> HIDE DEF h
      <3> QED  BY <2>5, <3>1, RoleSet DEF Fresh
    <2> HIDE DEF h, e, w
    <2>7. Fresh(e)
      BY <2>5, <2>6 DEF Fresh, SamePath, EndpointSound, PathSound, InputRoles
    <2>8. w = es \o <<e>>
      BY <1>3, <2>1, <2>6, AppendIsConcat
    <2>9. FreshList(<<e>>)
      BY <2>7, FreshOne
    <2>10. FreshList(es \o <<e>>) /\ \A i \in DOMAIN es : i \in DOMAIN (es \o <<e>>) /\ (es \o <<e>>)[i] = es[i]
      BY <2>9, FreshJoined
    <2> QED  BY <2>8, <2>10 DEF w
  <1> QED  BY <1>1, <1>2, <1>3

-----------------------------------------------------------------------------
\* Endpoints while and after roles are assigned.
Served(e) ==
  e \in Inventory!Endpoints /\ EndpointSound(e) /\ CapsSound(e.caps) /\ PathSound(e) /\ ~e.is_null
ServedList(es) == es \in Seq(Inventory!Endpoints) /\ \A i \in DOMAIN es : Served(es[i])

\* A role is kept by the first that has it, a default role on the primary card.
LEMMA Keeping ==
    ASSUME NEW es \in Seq(Inventory!Endpoints), NEW i \in DOMAIN es
    PROVE  LET first == \A j \in 1..i - 1 : es[j].role # es[i].role
           IN /\ es[i].role \in BusRoles => Inventory!KeepsRole(es, i)
              /\ es[i].role \notin BusRoles /\ Inventory!KeepsRole(es, i) => first
              /\ es[i].role = "Speaker" /\ Inventory!KeepsRole(es, i) => Inventory!OnPrimary(es[i])
              /\ es[i].role \in Inventory!ExternalRoles /\ first => Inventory!KeepsRole(es, i)
  <1>1. es[i].role \in Inventory!Roles
    <2>1. es[i] \in Inventory!Endpoints
      OBVIOUS
    <2> QED  BY <2>1 DEF Inventory!Endpoints
  <1>2. CASE es[i].role \in {"Speaker", "Earpiece", "Mic"}
    BY <1>2 DEF Inventory!KeepsRole, Inventory!ExternalRoles, BusRoles
  <1>3. CASE es[i].role \in Inventory!ExternalRoles
    BY <1>3 DEF Inventory!KeepsRole, Inventory!ExternalRoles, BusRoles
  <1>4. CASE es[i].role \in BusRoles
    BY <1>4 DEF Inventory!KeepsRole, Inventory!ExternalRoles, BusRoles
  <1> QED
    BY <1>1, <1>2, <1>3, <1>4 DEF Inventory!Roles, BusRoles

\* An endpoint that loses its role becomes a bus port of its direction.
LEMMA Lost ==
    ASSUME NEW e, Fresh(e), NEW f,
           f = [e EXCEPT !.role = IF e.is_input THEN "BusIn" ELSE "BusOut",
                         !.extra_hdmi = e.role = "Hdmi"]
    PROVE  Served(f) /\ f.role \in BusRoles /\ SamePath(e, f)
  <1> DEFINE r == IF e.is_input THEN "BusIn" ELSE "BusOut"
             x == e.role = "Hdmi"
  <1>1. r \in Inventory!Roles /\ x \in BOOLEAN
    BY DEF Inventory!Roles
  <1>2. f = [e EXCEPT !.role = r, !.extra_hdmi = x]
    OBVIOUS
  <1>3. r \in BusRoles /\ (e.is_input => r = "BusIn") /\ (~e.is_input => r = "BusOut")
        /\ (x <=> e.role = "Hdmi")
    BY DEF BusRoles
  <1> HIDE DEF r, x
  <1>4. f \in Inventory!Endpoints /\ SamePath(e, f) /\ f.caps = e.caps /\ f.role = r /\ f.extra_hdmi = x
    <2>1. e \in Inventory!Endpoints
      BY DEF Fresh
    <2> QED  BY <1>1, <1>2, <2>1 DEF Inventory!Endpoints, SamePath
  <1>5. EndpointSound(f)
    BY <1>3, <1>4 DEF Fresh, EndpointSound, SamePath, InputRoles
  <1>6. PathSound(f)
    BY <1>4 DEF Fresh, PathSound, SamePath
  <1> QED
    BY <1>3, <1>4, <1>5, <1>6 DEF Served, Fresh, SamePath

LEMMA DemotedSound ==
    ASSUME NEW es, FreshList(es)
    PROVE  LET d == Inventory!Demoted(es)
           IN /\ ServedList(d) /\ RolesApart(d)
              /\ \A i \in DOMAIN d : d[i].role = "Speaker" => Inventory!OnPrimary(d[i])
              /\ \A role \in Inventory!ExternalRoles : Inventory!Has(es, role) => Inventory!Has(d, role)
  <1> DEFINE d == Inventory!Demoted(es)
             n == Len(es)
             lost(i) == [es[i] EXCEPT !.role = IF es[i].is_input THEN "BusIn" ELSE "BusOut",
                                      !.extra_hdmi = es[i].role = "Hdmi"]
  <1>1. es \in Seq(Inventory!Endpoints) /\ n \in Nat /\ DOMAIN es = 1..n /\ \A i \in 1..n : Fresh(es[i])
    BY LenProperties DEF FreshList
  <1>2. d = [i \in 1..n |-> IF Inventory!KeepsRole(es, i) THEN es[i] ELSE lost(i)]
    BY <1>1 DEF Inventory!Demoted
  <1>3. \A i \in 1..n : Served(lost(i)) /\ lost(i).role \in BusRoles
    BY <1>1, Lost
  <1>4. \A i \in 1..n : Served(es[i])
    BY <1>1 DEF Fresh, Served
  <1> HIDE DEF d, n, lost
  <1>5. \A i \in 1..n : Served(d[i])
    BY <1>2, <1>3, <1>4
  <1>6. d \in Seq(Inventory!Endpoints) /\ DOMAIN d = 1..n
    <2>1. d \in [1..n -> Inventory!Endpoints]
      BY <1>2, <1>5 DEF Served
    <2> QED  BY <1>1, <2>1, SequenceOf
  <1>7. ASSUME NEW i \in 1..n, d[i].role \notin BusRoles
        PROVE  d[i] = es[i] /\ Inventory!KeepsRole(es, i) /\ \A j \in 1..i - 1 : es[j].role # es[i].role
    <2>1. d[i] = es[i] /\ Inventory!KeepsRole(es, i)
      BY <1>2, <1>3, <1>7
    <2> QED  BY <1>1, <1>7, <2>1, Keeping
  <1>8. RolesApart(d)
    <2> SUFFICES ASSUME NEW i \in 1..n, NEW j \in 1..n, d[i].role \notin BusRoles, d[i].role = d[j].role
                 PROVE  i = j
      BY <1>6 DEF RolesApart
    <2>1. es[i].role = es[j].role /\ (\A k \in 1..i - 1 : es[k].role # es[i].role)
          /\ \A k \in 1..j - 1 : es[k].role # es[j].role
      BY <1>7
    <2> QED  BY <1>1, <2>1
  <1>9. ASSUME NEW i \in 1..n, d[i].role = "Speaker" PROVE Inventory!OnPrimary(d[i])
    <2>1. d[i] = es[i] /\ Inventory!KeepsRole(es, i)
      BY <1>7, <1>9 DEF BusRoles
    <2> QED  BY <1>1, <1>9, <2>1, Keeping
  <1>10. ASSUME NEW role \in Inventory!ExternalRoles, Inventory!Has(es, role)
         PROVE  Inventory!Has(d, role)
    <2> DEFINE P == {i \in 1..n : es[i].role = role}
               i == Inventory!Min(P)
    <2>1. P \in SUBSET Nat /\ P # {}
      BY <1>1, <1>10 DEF Inventory!Has
    <2>2. i \in P /\ \A j \in P : i <= j
      <3> HIDE DEF P
      <3> QED  BY <2>1, FirstOf
    <2> HIDE DEF i
    <2>3. \A j \in 1..i - 1 : es[j].role # es[i].role
      BY <1>1, <2>2
    <2>4. Inventory!KeepsRole(es, i)
      BY <1>1, <2>2, <2>3, Keeping
    <2>5. d[i] = es[i]
      BY <1>2, <2>2, <2>4
    <2> QED  BY <1>6, <2>2, <2>5 DEF Inventory!Has
  <1> QED
    BY <1>5, <1>6, <1>8, <1>9, <1>10 DEF ServedList, d

-----------------------------------------------------------------------------
\* Where the two default devices are looked for.
Target(target, way, preference) ==
  \/ target = "Speaker" /\ way = FALSE /\ preference = Inventory!SpeakerPreference
  \/ target = "Mic" /\ way = TRUE /\ preference = Inventory!MicPreference

LEMMA Preferences ==
    /\ Inventory!ToSet(Inventory!SpeakerPreference) = {"LineOut", "BusOut", "Headphones", "Headset", "Spdif"}
    /\ Inventory!ToSet(Inventory!MicPreference) = {"BusIn", "HeadsetMic"}
    /\ DOMAIN Inventory!SpeakerPreference = 1..5 /\ DOMAIN Inventory!MicPreference = 1..2
  <1>1. DOMAIN Inventory!SpeakerPreference = 1..5 /\ DOMAIN Inventory!MicPreference = 1..2
    BY DEF Inventory!SpeakerPreference, Inventory!MicPreference
  <1>2. Inventory!ToSet(Inventory!SpeakerPreference) = {Inventory!SpeakerPreference[i] : i \in 1..5}
    BY <1>1 DEF Inventory!ToSet
  <1>3. Inventory!ToSet(Inventory!MicPreference) = {Inventory!MicPreference[i] : i \in 1..2}
    BY <1>1 DEF Inventory!ToSet
  <1>4. 1..5 = {1, 2, 3, 4, 5} /\ 1..2 = {1, 2}
    OBVIOUS
  <1>5. {Inventory!SpeakerPreference[i] : i \in {1, 2, 3, 4, 5}} = {"LineOut", "BusOut", "Headphones", "Headset", "Spdif"}
    BY DEF Inventory!SpeakerPreference
  <1>6. {Inventory!MicPreference[i] : i \in {1, 2}} = {"BusIn", "HeadsetMic"}
    BY DEF Inventory!MicPreference
  <1> QED
    BY <1>1, <1>2, <1>3, <1>4, <1>5, <1>6

\* The path that is promoted is one of those that may be, on the primary card if
\* one of them is.
Near(e, es, way, preference) ==
  \/ Inventory!OnPrimary(e)
  \/ \A k \in Inventory!Promotable(es, way, preference) : ~Inventory!OnPrimary(es[k])

LEMMA Chosen ==
    ASSUME NEW es \in Seq(Inventory!Endpoints), NEW way, NEW preference, DOMAIN preference \in SUBSET Nat,
           Inventory!Promotable(es, way, preference) # {}
    PROVE  LET i == Inventory!PromotedOf(es, way, preference)
           IN i \in Inventory!Promotable(es, way, preference) /\ Near(es[i], es, way, preference)
  <1> DEFINE loud == Inventory!Promotable(es, way, preference)
             near == {i \in loud : Inventory!OnPrimary(es[i])}
             among == IF near # {} THEN near ELSE loud
             places == {p \in DOMAIN preference : \E i \in among : es[i].role = preference[p]}
             choice == Inventory!Min(places)
             chosen == {i \in among : es[i].role = preference[choice]}
             i == Inventory!PromotedOf(es, way, preference)
  <1>1. i = Inventory!Min(chosen)
    BY DEF Inventory!PromotedOf
  <1>2. loud \in SUBSET Nat
    BY LenProperties DEF Inventory!Promotable
  <1>3. \A k \in loud : \E p \in DOMAIN preference : es[k].role = preference[p]
    BY DEF Inventory!Promotable, Inventory!ToSet
  <1>4. among \in SUBSET loud /\ among # {} /\ (\A k \in among : Near(es[k], es, way, preference))
    BY DEF Near
  <1> HIDE DEF loud, among
  <1>5. places \in SUBSET Nat /\ places # {}
    BY <1>3, <1>4
  <1>6. choice \in places
    <2> HIDE DEF places
    <2> QED  BY <1>5, FirstOf
  <1>7. chosen \in SUBSET among /\ chosen # {}
    <2> HIDE DEF choice
    <2> QED  BY <1>6
  <1> HIDE DEF chosen, places, choice
  <1>8. i \in chosen
    BY <1>1, <1>2, <1>4, <1>7, FirstOf
  <1> QED  BY <1>4, <1>7, <1>8 DEF loud

\* A path with something to hear may become the speaker.
LEMMA Loud ==
    ASSUME NEW e, Served(e), ~Inventory!IsQuiet(e), e.role # "Speaker"
    PROVE  /\ e.is_input = FALSE /\ e.extra_hdmi = FALSE
           /\ e.role \in {"LineOut", "BusOut", "Headphones", "Headset", "Spdif"}
  <1>1. e.is_input \in BOOLEAN /\ e.extra_hdmi \in BOOLEAN /\ e.role \in Inventory!Roles
    BY DEF Served, Inventory!Endpoints
  <1> QED
    BY <1>1 DEF Served, EndpointSound, Inventory!IsQuiet, Inventory!Roles, Inventory!ExternalRoles, InputRoles

\* What takes the role of a default device.
MayTake(e, way, preference) ==
  Served(e) /\ e.is_input = way /\ e.role \in Inventory!ToSet(preference) /\ ~e.extra_hdmi
TookOver(e, f, target) ==
  /\ Served(f) /\ SamePath(e, f) /\ f.role = target /\ f.extra_hdmi = e.extra_hdmi /\ ~f.is_hdmi_head
  /\ Inventory!IsAttached(e) => e.role \in BusRoles

LEMMA Takes ==
    ASSUME NEW target, NEW way, NEW preference, Target(target, way, preference),
           NEW e, MayTake(e, way, preference)
    PROVE  TookOver(e, [e EXCEPT !.role = target], target)
  <1> DEFINE f == [e EXCEPT !.role = target]
  <1>1. e \in Inventory!Endpoints /\ target \in Inventory!Roles
    BY DEF MayTake, Served, Target, Inventory!Roles
  <1>2. f \in Inventory!Endpoints /\ SamePath(e, f) /\ f.caps = e.caps /\ f.role = target
        /\ f.extra_hdmi = e.extra_hdmi
    BY <1>1, RoleSet
  <1> HIDE DEF f
  <1>3. /\ e.role \in {"LineOut", "BusOut", "Headphones", "Headset", "Spdif", "BusIn", "HeadsetMic"}
        /\ target \in {"Speaker", "Mic"} /\ (way <=> target = "Mic")
    BY Preferences DEF Target, MayTake
  <1>4. ~f.is_hdmi_head
    BY <1>2, <1>3 DEF MayTake, Served, EndpointSound, SamePath
  <1>5. EndpointSound(f)
    BY <1>2, <1>3, <1>4 DEF MayTake, Served, EndpointSound, SamePath, InputRoles
  <1>6. PathSound(f)
    BY <1>2 DEF MayTake, Served, PathSound, SamePath
  <1>7. Inventory!IsAttached(e) => e.role \in BusRoles
    BY <1>3 DEF Inventory!IsAttached, Inventory!ExternalRoles, BusRoles
  <1>8. TookOver(e, f, target)
    BY <1>2, <1>4, <1>5, <1>6, <1>7 DEF MayTake, Served, SamePath, TookOver
  <1> QED  BY <1>8 DEF f

-----------------------------------------------------------------------------
\* What promotion leaves alone, and what it adds.
Kept(es, R, target) ==
  /\ DOMAIN R = DOMAIN es
  /\ \A i \in DOMAIN es :
       /\ SamePath(es[i], R[i]) /\ R[i].extra_hdmi = es[i].extra_hdmi
       /\ R[i].role = es[i].role \/ (R[i].role = target /\ es[i].role \in BusRoles)

LetIn(e, es, target, way, preference) ==
  e.role = target /\ ~e.is_hdmi_head /\ Near(e, es, way, preference)

PromotedSound(es, R, A, target, way, preference) ==
  /\ ServedList(R) /\ ServedList(A) /\ DOMAIN A \subseteq {1}
  /\ Kept(es, R, target) /\ RolesApart(R)
  /\ \A i \in DOMAIN R : R[i].role = target =>
       es[i].role = target
         \/ (~Inventory!Has(es, target) /\ LetIn(R[i], es, target, way, preference))
  /\ \A i \in DOMAIN A :
       LetIn(A[i], es, target, way, preference) /\ ~Inventory!Has(R, target) /\ ~Inventory!Has(es, target)
  /\ Inventory!Has(R, target) \/ 1 \in DOMAIN A \/ Inventory!Promotable(es, way, preference) = {}

LEMMA SamePathRefl == \A e : SamePath(e, e)
  BY DEF SamePath

LEMMA NobodyPromoted ==
    ASSUME NEW es, ServedList(es), RolesApart(es), NEW target, NEW way, NEW preference,
           Inventory!Has(es, target) \/ Inventory!Promotable(es, way, preference) = {}
    PROVE  PromotedSound(es, es, <<>>, target, way, preference)
  <1>1. Kept(es, es, target)
    BY SamePathRefl DEF Kept
  <1>2. DOMAIN <<>> = {} /\ ServedList(<<>>)
    BY EmptySeq DEF ServedList
  <1> QED
    BY <1>1, <1>2 DEF PromotedSound

LEMMA InPlace ==
    ASSUME NEW es, ServedList(es), RolesApart(es),
           NEW target, NEW way, NEW preference, Target(target, way, preference),
           ~Inventory!Has(es, target),
           NEW i \in Inventory!Promotable(es, way, preference), Near(es[i], es, way, preference),
           Inventory!IsAttached(es[i])
    PROVE  PromotedSound(es, [es EXCEPT ![i].role = target], <<>>, target, way, preference)
  <1> DEFINE f == [es[i] EXCEPT !.role = target]
             R == [es EXCEPT ![i] = f]
             n == Len(es)
  <1>1. es \in Seq(Inventory!Endpoints) /\ n \in Nat /\ DOMAIN es = 1..n /\ \A k \in 1..n : Served(es[k])
    BY LenProperties DEF ServedList
  <1>2. i \in 1..n /\ es[i].is_input = way /\ es[i].role \in Inventory!ToSet(preference) /\ ~es[i].extra_hdmi
    BY <1>1 DEF Inventory!Promotable
  <1>3. /\ Served(f) /\ SamePath(es[i], f) /\ f.role = target /\ f.extra_hdmi = es[i].extra_hdmi
        /\ ~f.is_hdmi_head /\ es[i].role \in BusRoles
    <2>1. MayTake(es[i], way, preference)
      BY <1>1, <1>2 DEF MayTake
    <2>2. TookOver(es[i], f, target)
      BY <2>1, Takes
    <2> QED  BY <2>2 DEF TookOver
  <1> HIDE DEF f, n
  <1>4. R = [k \in 1..n |-> IF k = i THEN f ELSE es[k]]
    BY <1>1
  <1> HIDE DEF R
  <1>5. \A k \in 1..n : Served(R[k])
    BY <1>1, <1>3, <1>4
  <1>6. R \in Seq(Inventory!Endpoints) /\ DOMAIN R = 1..n
    <2>1. R \in [1..n -> Inventory!Endpoints]
      BY <1>4, <1>5 DEF Served
    <2> QED  BY <1>1, <2>1, SequenceOf
  <1>7. ServedList(R)
    BY <1>5, <1>6 DEF ServedList
  <1>8. Kept(es, R, target)
    BY <1>1, <1>3, <1>4, <1>6, SamePathRefl DEF Kept
  <1>9. RolesApart(R)
    BY <1>1, <1>2, <1>3, <1>4, <1>6 DEF RolesApart, Inventory!Has
  <1>10. LetIn(f, es, target, way, preference)
    BY <1>3 DEF LetIn, Near, SamePath, Inventory!OnPrimary
  <1>11. \A k \in DOMAIN R : R[k].role = target => k = i
    BY <1>1, <1>4, <1>6 DEF Inventory!Has
  <1>12. R[i] = f /\ Inventory!Has(R, target)
    BY <1>2, <1>3, <1>4, <1>6 DEF Inventory!Has
  <1>13. DOMAIN <<>> = {} /\ ServedList(<<>>)
    BY EmptySeq DEF ServedList
  <1>14. PromotedSound(es, R, <<>>, target, way, preference)
    BY <1>7, <1>8, <1>9, <1>10, <1>11, <1>12, <1>13 DEF PromotedSound
  <1> QED  BY <1>14 DEF R, f

LEMMA AsCopy ==
    ASSUME NEW es, ServedList(es), RolesApart(es),
           NEW target, NEW way, NEW preference, Target(target, way, preference),
           ~Inventory!Has(es, target),
           NEW i \in Inventory!Promotable(es, way, preference), Near(es[i], es, way, preference)
    PROVE  PromotedSound(es, es, <<[es[i] EXCEPT !.role = target]>>, target, way, preference)
  <1> DEFINE f == [es[i] EXCEPT !.role = target]
  <1>1. es \in Seq(Inventory!Endpoints) /\ \A k \in DOMAIN es : Served(es[k])
    BY DEF ServedList
  <1>2. i \in DOMAIN es /\ es[i].is_input = way /\ es[i].role \in Inventory!ToSet(preference) /\ ~es[i].extra_hdmi
    BY DEF Inventory!Promotable
  <1>3. /\ Served(f) /\ SamePath(es[i], f) /\ f.role = target /\ ~f.is_hdmi_head
    <2>1. MayTake(es[i], way, preference)
      BY <1>1, <1>2 DEF MayTake
    <2>2. TookOver(es[i], f, target)
      BY <2>1, Takes
    <2> QED  BY <2>2 DEF TookOver
  <1> HIDE DEF f
  <1>4. ServedList(<<f>>) /\ DOMAIN <<f>> = {1} /\ <<f>>[1] = f
    BY <1>3, Single DEF ServedList, Served
  <1>5. LetIn(f, es, target, way, preference)
    BY <1>3 DEF LetIn, Near, SamePath, Inventory!OnPrimary
  <1>6. Kept(es, es, target)
    BY SamePathRefl DEF Kept
  <1>7. PromotedSound(es, es, <<f>>, target, way, preference)
    BY <1>4, <1>5, <1>6 DEF PromotedSound
  <1> QED  BY <1>7 DEF f

LEMMA Promoted ==
    ASSUME NEW es, ServedList(es), RolesApart(es),
           NEW target, NEW way, NEW preference, Target(target, way, preference)
    PROVE  LET p == Inventory!Promotion(es, target, way, preference)
           IN PromotedSound(es, p.replaced, p.added, target, way, preference)
  <1> DEFINE p == Inventory!Promotion(es, target, way, preference)
             i == Inventory!PromotedOf(es, way, preference)
  <1>1. CASE Inventory!Has(es, target) \/ Inventory!Promotable(es, way, preference) = {}
    <2>1. p.replaced = es /\ p.added = <<>>
      BY <1>1 DEF Inventory!Promotion
    <2> QED  BY <1>1, <2>1, NobodyPromoted
  <1>2. CASE ~(Inventory!Has(es, target) \/ Inventory!Promotable(es, way, preference) = {})
    <2>1. DOMAIN preference \in SUBSET Nat
      BY Preferences DEF Target
    <2>2. i \in Inventory!Promotable(es, way, preference) /\ Near(es[i], es, way, preference)
      BY <1>2, <2>1, Chosen DEF ServedList
    <2>3. p = Inventory!Promote(es, i, target)
      BY <1>2 DEF Inventory!Promotion
    <2> HIDE DEF i
    <2>4. CASE Inventory!IsAttached(es[i])
      <3>1. p.replaced = [es EXCEPT ![i].role = target] /\ p.added = <<>>
        BY <2>3, <2>4 DEF Inventory!Promote
      <3> QED  BY <1>2, <2>2, <2>4, <3>1, InPlace
    <2>5. CASE ~Inventory!IsAttached(es[i])
      <3>1. p.replaced = es /\ p.added = <<[es[i] EXCEPT !.role = target]>>
        BY <2>3, <2>5 DEF Inventory!Promote
      <3> QED  BY <1>2, <2>2, <3>1, AsCopy
    <2> QED  BY <2>4, <2>5
  <1> QED  BY <1>1, <1>2

-----------------------------------------------------------------------------
\* Lists of endpoints by what is in them.
In(x, list) == \E i \in DOMAIN list : list[i] = x

LEMMA RolesJoined ==
    ASSUME NEW a, ServedList(a), RolesApart(a), NEW b, ServedList(b), DOMAIN b \subseteq {1},
           \A i \in DOMAIN a, j \in DOMAIN b : a[i].role # b[j].role
    PROVE  /\ ServedList(a \o b) /\ RolesApart(a \o b)
           /\ \A x : In(x, a \o b) <=> In(x, a) \/ In(x, b)
  <1> DEFINE c == a \o b
             m == Len(a)
  <1>1. a \in Seq(Inventory!Endpoints) /\ b \in Seq(Inventory!Endpoints)
    BY DEF ServedList
  <1>2. /\ c \in Seq(Inventory!Endpoints)
        /\ \A i \in DOMAIN a : i \in DOMAIN c /\ c[i] = a[i]
        /\ \A j \in DOMAIN b : m + j \in DOMAIN c /\ c[m + j] = b[j]
        /\ \A i \in DOMAIN c : i \in DOMAIN a \/ \E j \in DOMAIN b : i = m + j
    BY <1>1, Joined
  <1> HIDE DEF c, m
  <1>3. \A i \in DOMAIN c : i \in DOMAIN a \/ (1 \in DOMAIN b /\ i = m + 1)
    BY <1>2
  <1>4. ServedList(c)
    BY <1>2, <1>3 DEF ServedList
  <1>5. RolesApart(c)
    <2> SUFFICES ASSUME NEW i \in DOMAIN c, NEW j \in DOMAIN c, c[i].role \notin BusRoles,
                        c[i].role = c[j].role
                 PROVE  i = j
      BY DEF RolesApart
    <2>1. CASE i \in DOMAIN a /\ j \in DOMAIN a
      BY <1>2, <2>1 DEF RolesApart
    <2>2. CASE i \in DOMAIN a /\ j \notin DOMAIN a
      BY <1>2, <1>3, <2>2
    <2>3. CASE i \notin DOMAIN a /\ j \in DOMAIN a
      BY <1>2, <1>3, <2>3
    <2>4. CASE i \notin DOMAIN a /\ j \notin DOMAIN a
      BY <1>3, <2>4
    <2> QED  BY <2>1, <2>2, <2>3, <2>4
  <1>6. ASSUME NEW x PROVE In(x, c) <=> In(x, a) \/ In(x, b)
    BY <1>2 DEF In
  <1> QED  BY <1>4, <1>5, <1>6 DEF c

\* With no speaker, a path nobody may make one is quiet.
LEMMA QuietPath ==
    ASSUME NEW d, ServedList(d), ~Inventory!Has(d, "Speaker"), NEW k \in DOMAIN d,
           k \notin Inventory!Promotable(d, FALSE, Inventory!SpeakerPreference)
    PROVE  Inventory!IsQuiet(d[k])
  BY Loud, Preferences DEF ServedList, Inventory!Has, Inventory!Promotable

LEMMA Assigned ==
    ASSUME NEW es, FreshList(es)
    PROVE  LET speaker == Inventory!Promotion(Inventory!Demoted(es), "Speaker", FALSE, Inventory!SpeakerPreference)
               mic == Inventory!Promotion(speaker.replaced, "Mic", TRUE, Inventory!MicPreference)
               roles == mic.replaced \o speaker.added \o mic.added
           IN /\ ServedList(roles) /\ RolesApart(roles) /\ SpeakersNear(roles) /\ HeadsetServed(roles)
              /\ QuietWithoutSpeaker(roles)
              /\ \A role \in Inventory!ExternalRoles : Inventory!Has(es, role) => Inventory!Has(roles, role)
  <1> DEFINE SP == Inventory!SpeakerPreference
             MP == Inventory!MicPreference
             d == Inventory!Demoted(es)
             speaker == Inventory!Promotion(d, "Speaker", FALSE, SP)
             R1 == speaker.replaced
             A1 == speaker.added
             mic == Inventory!Promotion(R1, "Mic", TRUE, MP)
             R2 == mic.replaced
             A2 == mic.added
             c == R2 \o A1
             F == c \o A2
  <1>1. /\ ServedList(d) /\ RolesApart(d)
        /\ \A i \in DOMAIN d : d[i].role = "Speaker" => Inventory!OnPrimary(d[i])
        /\ \A role \in Inventory!ExternalRoles : Inventory!Has(es, role) => Inventory!Has(d, role)
    BY DemotedSound
  <1> HIDE DEF d
  <1>2. PromotedSound(d, R1, A1, "Speaker", FALSE, SP)
    BY <1>1, Promoted DEF Target
  <1> HIDE DEF R1, A1
  <1>3. PromotedSound(R1, R2, A2, "Mic", TRUE, MP)
    BY <1>2, Promoted DEF Target, PromotedSound
  <1> HIDE DEF R2, A2, SP, MP
  <1>4. /\ DOMAIN R2 = DOMAIN d /\ DOMAIN R1 = DOMAIN d
        /\ \A k \in DOMAIN d :
             /\ SamePath(d[k], R1[k]) /\ SamePath(R1[k], R2[k]) /\ SamePath(d[k], R2[k])
             /\ R1[k].role = d[k].role \/ (R1[k].role = "Speaker" /\ d[k].role \in BusRoles)
             /\ R2[k].role = R1[k].role \/ (R2[k].role = "Mic" /\ R1[k].role \in BusRoles)
    BY <1>2, <1>3 DEF PromotedSound, Kept, SamePath
  <1>5. /\ \A i \in DOMAIN A1 : A1[i].role = "Speaker"
        /\ \A i \in DOMAIN A2 : A2[i].role = "Mic"
        /\ \A i \in DOMAIN A1, k \in DOMAIN R2 : R2[k].role # "Speaker"
        /\ \A i \in DOMAIN A2, k \in DOMAIN R2 : R2[k].role # "Mic"
    <2>1. /\ \A i \in DOMAIN A1 : A1[i].role = "Speaker" /\ ~Inventory!Has(R1, "Speaker")
          /\ \A i \in DOMAIN A2 : A2[i].role = "Mic" /\ ~Inventory!Has(R2, "Mic")
      BY <1>2, <1>3 DEF PromotedSound, LetIn
    <2> QED  BY <1>4, <2>1 DEF Inventory!Has
  <1>6. ServedList(R2) /\ ServedList(A1) /\ ServedList(A2) /\ RolesApart(R2)
        /\ DOMAIN A1 \subseteq {1} /\ DOMAIN A2 \subseteq {1}
    BY <1>2, <1>3 DEF PromotedSound
  <1>7. ServedList(c) /\ RolesApart(c) /\ \A x : In(x, c) <=> In(x, R2) \/ In(x, A1)
    <2>1. \A i \in DOMAIN R2, j \in DOMAIN A1 : R2[i].role # A1[j].role
      BY <1>5
    <2> QED  BY <1>6, <2>1, RolesJoined
  <1> HIDE DEF c
  <1>8. ServedList(F) /\ RolesApart(F) /\ \A x : In(x, F) <=> In(x, R2) \/ In(x, A1) \/ In(x, A2)
    <2>1. \A i \in DOMAIN c, j \in DOMAIN A2 : c[i].role # A2[j].role
      <3> SUFFICES ASSUME NEW i \in DOMAIN c, NEW j \in DOMAIN A2 PROVE c[i].role # "Mic"
        BY <1>5
      <3>1. In(c[i], R2) \/ In(c[i], A1)
        BY <1>7 DEF In
      <3> QED  BY <1>5, <3>1 DEF In
    <2>2. ServedList(F) /\ RolesApart(F) /\ \A x : In(x, F) <=> In(x, c) \/ In(x, A2)
      BY <1>6, <1>7, <2>1, RolesJoined
    <2> QED  BY <1>7, <2>2
  <1> HIDE DEF F
  <1>9. \A role : Inventory!Has(F, role) <=>
          Inventory!Has(R2, role) \/ Inventory!Has(A1, role) \/ Inventory!Has(A2, role)
    <2>1. ASSUME NEW list, NEW role
          PROVE  Inventory!Has(list, role) <=> \E x : In(x, list) /\ x.role = role
      BY DEF In, Inventory!Has
    <2>2. TAKE role
    <2> QED  BY <1>8, <2>1
  <1>10. \A k \in DOMAIN d : Inventory!IsQuiet(d[k]) => Inventory!IsQuiet(R2[k])
    BY <1>4 DEF SamePath, Inventory!IsQuiet, BusRoles
  <1>11. \A i \in DOMAIN A2 : Inventory!IsQuiet(A2[i])
    BY <1>5, <1>6 DEF ServedList, Served, EndpointSound, InputRoles, Inventory!IsQuiet
  <1>12. SpeakersNear(F)
    <2> SUFFICES ASSUME NEW i \in DOMAIN F, F[i].role = "Speaker"
                 PROVE  /\ ~F[i].is_hdmi_head
                        /\ \/ Inventory!OnPrimary(F[i])
                           \/ \A j \in DOMAIN F : Inventory!OnPrimary(F[j]) => Inventory!IsQuiet(F[j])
      BY DEF SpeakersNear
    <2> DEFINE none == /\ ~Inventory!Has(d, "Speaker")
                       /\ \A k \in Inventory!Promotable(d, FALSE, SP) : ~Inventory!OnPrimary(d[k])
    <2>1. In(F[i], R2) \/ In(F[i], A1)
      BY <1>5, <1>8 DEF In
    <2>2. ~F[i].is_hdmi_head /\ (Inventory!OnPrimary(F[i]) \/ none)
      <3>1. ASSUME NEW k \in DOMAIN R2, R2[k] = F[i]
            PROVE  ~F[i].is_hdmi_head /\ (Inventory!OnPrimary(F[i]) \/ none)
        <4>1. R1[k].role = "Speaker" /\ k \in DOMAIN d
          BY <1>4, <3>1
        <4>2. CASE d[k].role = "Speaker"
          <5>1. Inventory!OnPrimary(d[k]) /\ ~d[k].is_hdmi_head
            BY <1>1, <4>1, <4>2 DEF ServedList, Served, EndpointSound
          <5>2. SamePath(d[k], F[i])
            BY <1>4, <3>1, <4>1
          <5>3. F[i].is_hdmi_head = d[k].is_hdmi_head /\ F[i].card = d[k].card
            BY <5>2 DEF SamePath
          <5> HIDE DEF none
          <5> QED  BY <5>1, <5>3 DEF Inventory!OnPrimary
        <4>3. CASE d[k].role # "Speaker"
          <5>1. ~Inventory!Has(d, "Speaker") /\ LetIn(R1[k], d, "Speaker", FALSE, SP)
            BY <1>2, <1>4, <4>1, <4>3 DEF PromotedSound
          <5>2. ~R1[k].is_hdmi_head /\ (Inventory!OnPrimary(R1[k]) \/ none)
            BY <5>1 DEF LetIn, Near
          <5>3. SamePath(R1[k], F[i])
            BY <1>4, <3>1, <4>1
          <5>4. F[i].is_hdmi_head = R1[k].is_hdmi_head /\ F[i].card = R1[k].card
            BY <5>3 DEF SamePath
          <5> HIDE DEF none
          <5> QED  BY <5>2, <5>4 DEF Inventory!OnPrimary
        <4> QED  BY <4>2, <4>3
      <3>2. ASSUME NEW k \in DOMAIN A1, A1[k] = F[i]
            PROVE  ~F[i].is_hdmi_head /\ (Inventory!OnPrimary(F[i]) \/ none)
        BY <1>2, <3>2 DEF PromotedSound, LetIn, Near
      <3> QED  BY <2>1, <3>1, <3>2 DEF In
    <2>3. ASSUME none, ~Inventory!OnPrimary(F[i]), NEW j \in DOMAIN F, Inventory!OnPrimary(F[j])
          PROVE  Inventory!IsQuiet(F[j])
      <3>1. F[j].role # "Speaker"
        BY <1>8, <2>3 DEF RolesApart, BusRoles
      <3>2. In(F[j], R2) \/ In(F[j], A2)
        BY <1>5, <1>8, <3>1 DEF In
      <3>3. ASSUME NEW k \in DOMAIN R2, R2[k] = F[j] PROVE Inventory!IsQuiet(R2[k])
        <4>1. Inventory!OnPrimary(d[k]) /\ k \in DOMAIN d
          BY <1>4, <2>3, <3>3 DEF SamePath, Inventory!OnPrimary
        <4>2. k \notin Inventory!Promotable(d, FALSE, SP)
          BY <2>3, <4>1
        <4>3. Inventory!IsQuiet(d[k])
          BY <1>1, <2>3, <4>1, <4>2, QuietPath DEF SP
        <4> QED  BY <1>10, <4>1, <4>3
      <3> QED  BY <1>11, <3>2, <3>3 DEF In
    <2> QED  BY <2>2, <2>3
  <1>13. HeadsetServed(F)
    <2> SUFFICES ASSUME Inventory!Has(F, "HeadsetMic") PROVE Inventory!Has(F, "Mic")
      BY DEF HeadsetServed
    <2>1. PICK k \in DOMAIN R2 : R2[k].role = "HeadsetMic"
      BY <1>5, <1>9 DEF Inventory!Has
    <2>2. R1[k].role = "HeadsetMic" /\ k \in DOMAIN R1
      BY <1>4, <2>1
    <2>3. R1[k].is_input = TRUE /\ ~R1[k].extra_hdmi
      <3>1. Served(R1[k])
        BY <1>2, <2>2 DEF PromotedSound, ServedList
      <3>2. R1[k].is_input \in BOOLEAN
        BY <3>1 DEF Served, Inventory!Endpoints
      <3> QED  BY <2>2, <3>1, <3>2 DEF Served, EndpointSound, InputRoles
    <2>4. k \in Inventory!Promotable(R1, TRUE, MP)
      BY <2>2, <2>3, Preferences DEF Inventory!Promotable, MP
    <2>5. Inventory!Has(R2, "Mic") \/ 1 \in DOMAIN A2
      BY <1>3, <2>4 DEF PromotedSound
    <2> QED  BY <1>5, <1>9, <2>5 DEF Inventory!Has
  <1>14. QuietWithoutSpeaker(F)
    <2> SUFFICES ASSUME ~Inventory!Has(F, "Speaker"), NEW i \in DOMAIN F PROVE Inventory!IsQuiet(F[i])
      BY DEF QuietWithoutSpeaker
    <2>1. \A k \in DOMAIN d : R2[k].role # "Speaker" /\ R1[k].role # "Speaker" /\ d[k].role # "Speaker"
      <3> SUFFICES ASSUME NEW k \in DOMAIN d
                   PROVE  R2[k].role # "Speaker" /\ R1[k].role # "Speaker" /\ d[k].role # "Speaker"
        OBVIOUS
      <3>1. R2[k].role # "Speaker"
        BY <1>4, <1>9 DEF Inventory!Has
      <3>2. R1[k].role # "Speaker"
        BY <1>4, <3>1 DEF BusRoles
      <3>3. d[k].role # "Speaker"
        BY <1>4, <3>2 DEF BusRoles
      <3> QED  BY <3>1, <3>2, <3>3
    <2>2. DOMAIN A1 = {}
      BY <1>5, <1>9 DEF Inventory!Has
    <2>3. Inventory!Promotable(d, FALSE, SP) = {} /\ ~Inventory!Has(d, "Speaker")
      BY <1>2, <1>4, <2>1, <2>2 DEF PromotedSound, Inventory!Has
    <2>4. \A k \in DOMAIN d : Inventory!IsQuiet(d[k])
      BY <1>1, <2>3, QuietPath DEF SP
    <2>5. In(F[i], R2) \/ In(F[i], A2)
      BY <1>8, <2>2 DEF In
    <2> QED  BY <1>4, <1>10, <1>11, <2>4, <2>5 DEF In
  <1>15. ASSUME NEW role \in Inventory!ExternalRoles, Inventory!Has(es, role)
         PROVE  Inventory!Has(F, role)
    <2>1. PICK k \in DOMAIN d : d[k].role = role
      BY <1>1, <1>15 DEF Inventory!Has
    <2>2. role \notin BusRoles
      BY DEF Inventory!ExternalRoles, BusRoles
    <2>3. R1[k].role = role
      BY <1>4, <2>1, <2>2
    <2>4. R2[k].role = role
      BY <1>4, <2>1, <2>2, <2>3
    <2> QED  BY <1>4, <1>9, <2>4 DEF Inventory!Has
  <1> QED
    BY <1>8, <1>12, <1>13, <1>14, <1>15 DEF F, c, R2, A2, R1, A1, d, SP, MP

(***************************************************************************)
(* The steps of the discovery, one part of the invariant after the other   *)
(***************************************************************************)

\* The verb of a profile stays while the properties stay.
LEMMA VerbStays ==
    ASSUME UNCHANGED props
    PROVE  \A card : Inventory!UcmDevicesOf(card)' = Inventory!UcmDevicesOf(card)
  <1> TAKE card
  <1> DEFINE W(p) == {v \in DOMAIN card.verbs : card.verbs[v].name = p.ucm_verb}
             V(p) == IF W(p) = {} THEN 1 ELSE Inventory!Min(W(p))
  <1>1. Inventory!VerbOf(card) = V(props)
    BY DEF Inventory!VerbOf
  <1>2. Inventory!VerbOf(card)' = V(props')
    BY DEF Inventory!VerbOf
  <1> HIDE DEF V
  <1> QED  BY <1>1, <1>2 DEF Inventory!UcmDevicesOf

\* Paths stay known while the selected cards and the properties stay.
LEMMA EndpointsStep ==
    ASSUME UNCHANGED <<cards_, props>>, endpoints_' \in Seq(Inventory!Endpoints),
           \A i \in DOMAIN endpoints_' :
             EndpointSound(endpoints_'[i]) /\ CapsSound(endpoints_'[i].caps) /\ PathSound(endpoints_'[i])
    PROVE  EndpointsInv'
  BY VerbStays DEF EndpointsInv, EndpointSound, CapsSound, PathSound

LEMMA EarlyStep ==
    ASSUME UNCHANGED <<cards_, props>>, FreshList(endpoints_'), Early'
    PROVE  EndpointsInv' /\ RolesInv'
  <1>1. EndpointsInv'
    BY EndpointsStep DEF FreshList, Fresh
  <1>2. RolesInv'
    BY DEF RolesInv, FreshList, Fresh
  <1> QED  BY <1>1, <1>2

LEMMA EarlyState ==
    ASSUME EndpointsInv, RolesInv, Early
    PROVE  FreshList(endpoints_)
  BY DEF EndpointsInv, RolesInv, FreshList, Fresh

\* What the lists of cards have to do with the later stages.
LEMMA CardsStay ==
    ASSUME CardsInv, UNCHANGED Inventory!selection, stage \notin {"cards", "select"}, stage' \notin {"cards", "select"},
           at' \in Nat \ {0}, pos' \in Nat
    PROVE  CardsInv'
  BY DEF CardsInv, IndexedApart, AmongFirst, Inventory!selection, Inventory!Cards

LEMMA TemplatesStay ==
    ASSUME TemplatesInv, CardsInv, UNCHANGED <<cards_, props, ucm_managers_>>, stage' # "candidates",
           stage = "candidates" => at > Len(cards_),
           \A role \in Inventory!ExternalRoles :
             Inventory!Has(endpoints_, role) => Inventory!Has(endpoints_', role)
    PROVE  TemplatesInv'
  <1>1. cards_ \in Seq(Inventory!Cards) /\ DOMAIN cards_ = 1..Len(cards_) /\ Len(cards_) \in Nat /\ at \in Nat
    BY LenProperties DEF CardsInv
  <1>2. \A k \in DOMAIN cards_, n \in Nat : Done(k, n)
    BY <1>1 DEF Done
  <1>3. \A k \in DOMAIN cards_ : cards_[k].index \in ucm_managers_ =>
          DOMAIN Inventory!UcmDevicesOf(cards_[k]) \in SUBSET Nat
    BY <1>1, VerbFound, LenProperties DEF TemplatesInv
  <1>4. \A k \in DOMAIN cards_ : cards_[k].index \in ucm_managers_ =>
          /\ cards_[k].verbs # <<>>
          /\ \A n \in DOMAIN Inventory!UcmDevicesOf(cards_[k]), playback \in BOOLEAN :
               LET d == Inventory!UcmDevicesOf(cards_[k])[n]
                   role == Inventory!ClassifyUcmDevice(d.words, playback)
               IN Inventory!HasPath(cards_[k], d, playback) /\ role \in Inventory!ExternalRoles =>
                    Inventory!Has(endpoints_', role)
    BY <1>2, <1>3 DEF TemplatesInv, Inventory!Has
  <1> QED
    BY <1>4, VerbStays DEF TemplatesInv, Inventory!Has

LEMMA PortsEarly ==
    ASSUME PortsInv, stage # "ready", stage' \notin {"build", "ready"}, UNCHANGED external
    PROVE  PortsInv'
  BY DEF PortsInv

\* Capabilities do not matter while roles are looked for.
LEMMA FreshCaps ==
    ASSUME NEW es, FreshList(es), NEW f,
           \A i \in DOMAIN es : f[i] \in Inventory!Capabilities /\ CapsSound(f[i])
    PROVE  LET cs == [i \in DOMAIN es |-> [es[i] EXCEPT !.caps = f[i]]]
           IN FreshList(cs) /\ \A role : Inventory!Has(es, role) => Inventory!Has(cs, role)
  <1> DEFINE n == Len(es)
             g(i) == [es[i] EXCEPT !.caps = f[i]]
             cs == [i \in DOMAIN es |-> g(i)]
  <1>1. es \in Seq(Inventory!Endpoints) /\ n \in Nat /\ DOMAIN es = 1..n /\ \A i \in 1..n : Fresh(es[i])
    BY LenProperties DEF FreshList
  <1>2. \A i \in 1..n : g(i) \in Inventory!Endpoints /\ SamePath(es[i], g(i)) /\ SameRole(es[i], g(i))
                        /\ g(i).caps = f[i]
    BY <1>1, CapsSet DEF Fresh
  <1> HIDE DEF n, g
  <1>3. ASSUME NEW i \in 1..n PROVE Fresh(g(i))
    BY <1>1, <1>2 DEF Fresh, SamePath, SameRole, EndpointSound, PathSound
  <1>4. cs \in Seq(Inventory!Endpoints)
    <2>1. cs \in [1..n -> Inventory!Endpoints]
      BY <1>1, <1>2
    <2> QED  BY <1>1, <2>1, SequenceOf
  <1>5. FreshList(cs)
    BY <1>1, <1>3, <1>4 DEF FreshList
  <1>6. \A role : Inventory!Has(es, role) => Inventory!Has(cs, role)
    BY <1>1, <1>2 DEF Inventory!Has, SameRole
  <1> QED  BY <1>5, <1>6 DEF g

LEMMA FreshMoved ==
    ASSUME NEW es, FreshList(es), NEW from \in DOMAIN es, NEW to \in 1..from
    PROVE  LET m == Inventory!Moved(es, from, to)
           IN FreshList(m) /\ \A role : Inventory!Has(es, role) => Inventory!Has(m, role)
  <1> DEFINE m == Inventory!Moved(es, from, to)
  <1>1. /\ m \in Seq(Inventory!Endpoints)
        /\ \A i \in DOMAIN m : \E k \in DOMAIN es : m[i] = es[k]
        /\ \A k \in DOMAIN es : \E i \in DOMAIN m : m[i] = es[k]
    <2>1. es \in Seq(Inventory!Endpoints)
      BY DEF FreshList
    <2>2. Rearranged(m, es, Inventory!Endpoints)
      BY <2>1, MovedList
    <2> QED  BY <2>2 DEF Rearranged
  <1> HIDE DEF m
  <1>2. FreshList(m)
    BY <1>1 DEF FreshList
  <1>3. \A role : Inventory!Has(es, role) => Inventory!Has(m, role)
    BY <1>1 DEF Inventory!Has
  <1> QED  BY <1>2, <1>3 DEF m

\* A step of the later stages that keeps paths fresh.
LEMMA EarlyKeeps ==
    ASSUME InventoryInv, UNCHANGED <<Inventory!selection, ucm_managers_, external>>, FreshList(endpoints_'),
           \A role : Inventory!Has(endpoints_, role) => Inventory!Has(endpoints_', role),
           stage \notin {"cards", "select", "ready"}, stage = "candidates" => at > Len(cards_),
           stage' \in {"filter", "sort"}, at' \in Nat \ {0}, pos' \in Nat
    PROVE  InventoryInv'
  <1>1. UNCHANGED <<cards_, props>>
    BY DEF Inventory!selection
  <1>2. EndpointsInv' /\ RolesInv'
    BY <1>1, EarlyStep DEF Early
  <1>3. CardsInv'
    BY CardsStay DEF InventoryInv
  <1>4. TemplatesInv'
    BY <1>1, TemplatesStay DEF InventoryInv
  <1>5. PortsInv'
    BY PortsEarly DEF InventoryInv
  <1> QED
    BY <1>2, <1>3, <1>4, <1>5 DEF InventoryInv, Inventory!Stages

LEMMA ProbeStep ==
    ASSUME InventoryInv, Inventory!ProbeCapabilities
    PROVE  InventoryInv'
  <1>1. FreshList(endpoints_)
    BY EarlyState DEF InventoryInv, Early, Inventory!ProbeCapabilities
  <1>2. PICK probe \in Probes :
          endpoints_' = [i \in DOMAIN endpoints_ |->
                          [endpoints_[i] EXCEPT !.caps = Inventory!Probed(endpoints_[i], probe)]]
    BY DEF Inventory!ProbeCapabilities
  <1> DEFINE f == [i \in DOMAIN endpoints_ |-> Inventory!Probed(endpoints_[i], probe)]
             cs == [i \in DOMAIN endpoints_ |-> [endpoints_[i] EXCEPT !.caps = f[i]]]
  <1>3. \A i \in DOMAIN endpoints_ : f[i] \in Inventory!Capabilities /\ CapsSound(f[i])
    BY <1>1, ProbedSound DEF FreshList, Fresh
  <1>4. endpoints_' = cs
    BY <1>2
  <1> HIDE DEF f
  <1>5. FreshList(cs) /\ \A role : Inventory!Has(endpoints_, role) => Inventory!Has(cs, role)
    BY <1>1, <1>3, FreshCaps
  <1> HIDE DEF cs
  <1>6. /\ UNCHANGED <<Inventory!selection, ucm_managers_, external>> /\ UNCHANGED <<at, pos>>
        /\ stage = "candidates" /\ stage' = "filter" /\ at > Len(cards_)
    BY DEF Inventory!ProbeCapabilities, Inventory!result
  <1>7. at' \in Nat \ {0} /\ pos' \in Nat
    BY <1>6 DEF InventoryInv, CardsInv
  <1> QED
    BY <1>4, <1>5, <1>6, <1>7, EarlyKeeps

LEMMA FilterStep ==
    ASSUME InventoryInv, Inventory!FilterCapabilities
    PROVE  InventoryInv'
  <1>1. FreshList(endpoints_)
    BY EarlyState DEF InventoryInv, Early, Inventory!FilterCapabilities
  <1> DEFINE f == [i \in DOMAIN endpoints_ |-> Inventory!Filtered(endpoints_[i].caps, endpoints_[i].card)]
             cs == [i \in DOMAIN endpoints_ |-> [endpoints_[i] EXCEPT !.caps = f[i]]]
  <1>2. \A i \in DOMAIN endpoints_ : endpoints_[i] \in Inventory!Endpoints /\ CapsSound(endpoints_[i].caps)
    BY <1>1 DEF FreshList, Fresh
  <1>3. \A i \in DOMAIN endpoints_ : f[i] \in Inventory!Capabilities /\ CapsSound(f[i])
    <2>1. \A i \in DOMAIN endpoints_ : endpoints_[i].caps \in Inventory!Capabilities
      BY <1>2 DEF Inventory!Endpoints
    <2> QED  BY <1>2, <2>1, FilteredSound
  <1>4. endpoints_' = cs
    BY <1>2 DEF Inventory!FilterCapabilities
  <1> HIDE DEF f
  <1>5. FreshList(cs) /\ \A role : Inventory!Has(endpoints_, role) => Inventory!Has(cs, role)
    BY <1>1, <1>3, FreshCaps
  <1> HIDE DEF cs
  <1>6. /\ UNCHANGED <<Inventory!selection, ucm_managers_, external>> /\ at' = 1 /\ UNCHANGED pos
        /\ stage = "filter" /\ stage' = "sort"
    BY DEF Inventory!FilterCapabilities, Inventory!result
  <1>7. at' \in Nat \ {0} /\ pos' \in Nat
    BY <1>6 DEF InventoryInv, CardsInv
  <1> QED
    BY <1>4, <1>5, <1>6, <1>7, EarlyKeeps

LEMMA SortStep ==
    ASSUME InventoryInv, Inventory!SortEndpoint
    PROVE  InventoryInv'
  <1>1. FreshList(endpoints_)
    BY EarlyState DEF InventoryInv, Early, Inventory!SortEndpoint
  <1> DEFINE places == {at} \cup {i \in 1..at - 1 : Inventory!Before(endpoints_[at], endpoints_[i])}
             to == Inventory!Min(places)
             m == Inventory!Moved(endpoints_, at, to)
  <1>2. endpoints_' = m /\ at \in DOMAIN endpoints_ /\ at' = at + 1
    BY DEF Inventory!SortEndpoint
  <1>3. at \in Nat \ {0} /\ pos \in Nat
    BY DEF InventoryInv, CardsInv
  <1>4. to \in 1..at
    <2>1. places \in SUBSET Nat /\ places # {} /\ places \in SUBSET (1..at)
      BY <1>3
    <2> HIDE DEF places
    <2>2. to \in places
      BY <2>1, FirstOf
    <2> QED  BY <2>1, <2>2
  <1> HIDE DEF to
  <1>5. FreshList(m) /\ \A role : Inventory!Has(endpoints_, role) => Inventory!Has(m, role)
    BY <1>1, <1>2, <1>4, FreshMoved
  <1> HIDE DEF m
  <1>6. /\ UNCHANGED <<Inventory!selection, ucm_managers_, external>> /\ UNCHANGED pos
        /\ stage = "sort" /\ stage' = "sort"
    BY DEF Inventory!SortEndpoint, Inventory!result
  <1>7. at' \in Nat \ {0} /\ pos' \in Nat
    BY <1>2, <1>3, <1>6
  <1> QED
    BY <1>2, <1>5, <1>6, <1>7, EarlyKeeps

\* The stages after the roles were assigned.
LateState(es) ==
  RolesApart(es) /\ SpeakersNear(es) /\ HeadsetServed(es)

LEMMA LateStep ==
    ASSUME UNCHANGED primary_card_, LateState(endpoints_')
    PROVE  (RolesApart(endpoints_) /\ SpeakersNear(endpoints_) /\ HeadsetServed(endpoints_))'
  BY DEF LateState, RolesApart, SpeakersNear, HeadsetServed, Inventory!Has, Inventory!OnPrimary, Inventory!IsQuiet

LEMMA AssignStep ==
    ASSUME InventoryInv, Inventory!AssignRoles
    PROVE  InventoryInv'
  <1>1. FreshList(endpoints_)
    BY EarlyState DEF InventoryInv, Early, Inventory!AssignRoles
  <1> DEFINE speaker == Inventory!Promotion(Inventory!Demoted(endpoints_), "Speaker", FALSE, Inventory!SpeakerPreference)
             mic == Inventory!Promotion(speaker.replaced, "Mic", TRUE, Inventory!MicPreference)
             F == mic.replaced \o speaker.added \o mic.added
  <1>2. endpoints_' = F
    BY DEF Inventory!AssignRoles
  <1>3. /\ ServedList(F) /\ RolesApart(F) /\ SpeakersNear(F) /\ HeadsetServed(F)
        /\ QuietWithoutSpeaker(F)
        /\ \A role \in Inventory!ExternalRoles : Inventory!Has(endpoints_, role) => Inventory!Has(F, role)
    BY <1>1, Assigned
  <1> HIDE DEF F
  <1>4. /\ UNCHANGED <<Inventory!selection, ucm_managers_, external>> /\ UNCHANGED <<at, pos>>
        /\ stage = "sort" /\ stage' = "null"
    BY DEF Inventory!AssignRoles, Inventory!result
  <1>5. UNCHANGED <<cards_, props, primary_card_>>
    BY <1>4 DEF Inventory!selection
  <1>6. EndpointsInv'
    BY <1>2, <1>3, <1>5, EndpointsStep DEF ServedList, Served
  <1>7. RolesInv'
    <2>1. (RolesApart(endpoints_) /\ SpeakersNear(endpoints_) /\ HeadsetServed(endpoints_))'
      BY <1>2, <1>3, <1>5, LateStep DEF LateState
    <2>2. QuietWithoutSpeaker(endpoints_)'
      BY <1>2, <1>3 DEF QuietWithoutSpeaker, Inventory!Has, Inventory!IsQuiet
    <2>3. \A i \in DOMAIN endpoints_' : ~endpoints_'[i].is_null
      BY <1>2, <1>3 DEF ServedList, Served
    <2> QED  BY <1>4, <2>1, <2>2, <2>3 DEF RolesInv, Early
  <1>8. CardsInv'
    <2>1. at' \in Nat \ {0} /\ pos' \in Nat
      BY <1>4 DEF InventoryInv, CardsInv
    <2> QED  BY <1>4, <2>1, CardsStay DEF InventoryInv
  <1>9. TemplatesInv'
    <2>1. \A role \in Inventory!ExternalRoles :
             Inventory!Has(endpoints_, role) => Inventory!Has(endpoints_', role)
      BY <1>2, <1>3
    <2> QED  BY <1>4, <1>5, <2>1, TemplatesStay DEF InventoryInv
  <1>10. PortsInv'
    BY <1>4, PortsEarly DEF InventoryInv
  <1> QED
    BY <1>4, <1>6, <1>7, <1>8, <1>9, <1>10 DEF InventoryInv, Inventory!Stages

\* A placeholder.
LEMMA Placeholder ==
    ASSUME NEW role \in {"Speaker", "Mic"}, NEW way \in BOOLEAN, way <=> role = "Mic"
    PROVE  LET e == Inventory!NullEndpoint(role, way)
           IN /\ e \in Inventory!Endpoints /\ EndpointSound(e) /\ CapsSound(e.caps) /\ PathSound(e)
              /\ e.role = role /\ e.is_null = TRUE /\ e.is_hdmi_head = FALSE /\ (e.is_input <=> way)
  <1> DEFINE caps == Inventory!FallbackCapabilities
             e == Inventory!NullEndpoint(role, way)
  <1>1. caps \in Inventory!Capabilities /\ CapsSound(caps)
    BY Fallback
  <1>2. e = [card |-> -1, role |-> role, is_input |-> way, pcm |-> None, ucm_device |-> None,
             is_hdmi_head |-> FALSE, extra_hdmi |-> FALSE, priority |-> 0, fixed_channels |-> 0,
             caps |-> caps, is_null |-> TRUE, device |-> None, is_default |-> FALSE, port_id |-> 0]
    BY DEF Inventory!NullEndpoint
  <1> HIDE DEF caps, e
  <1>3. /\ e \in Inventory!Endpoints /\ EndpointSound(e) /\ CapsSound(e.caps) /\ PathSound(e)
        /\ e.role = role /\ e.is_null = TRUE /\ e.is_hdmi_head = FALSE /\ (e.is_input <=> way)
    BY <1>1, <1>2 DEF Inventory!Endpoints, Inventory!Roles, EndpointSound, PathSound, InputRoles
  <1> QED  BY <1>3 DEF e

\* The placeholders: one of a speaker, of a microphone, or both.
LEMMA AddNullStep ==
    ASSUME InventoryInv, Inventory!AddNullEndpointsIfNeeded
    PROVE  InventoryInv'
  <1> DEFINE es == endpoints_
             A == IF Inventory!Has(es, "Speaker") THEN <<>> ELSE <<Inventory!NullEndpoint("Speaker", FALSE)>>
             B == IF Inventory!Has(es, "Mic") \/ ~props.null_mic THEN <<>>
                  ELSE <<Inventory!NullEndpoint("Mic", TRUE)>>
             c == es \o A
             F == c \o B
             S == Inventory!NullEndpoint("Speaker", FALSE)
             M == Inventory!NullEndpoint("Mic", TRUE)
  <1>1. endpoints_' = F
    BY DEF Inventory!AddNullEndpointsIfNeeded
  <1>2. /\ UNCHANGED <<Inventory!selection, ucm_managers_, external>> /\ UNCHANGED <<at, pos>>
        /\ stage = "null" /\ stage' = "finalize"
    BY DEF Inventory!AddNullEndpointsIfNeeded, Inventory!result
  <1>3. UNCHANGED <<cards_, props, primary_card_>>
    BY <1>2 DEF Inventory!selection
  <1>4. /\ es \in Seq(Inventory!Endpoints)
        /\ \A i \in DOMAIN es : EndpointSound(es[i]) /\ CapsSound(es[i].caps) /\ PathSound(es[i])
        /\ RolesApart(es) /\ SpeakersNear(es) /\ HeadsetServed(es) /\ QuietWithoutSpeaker(es)
        /\ \A i \in DOMAIN es : ~es[i].is_null
    BY <1>2 DEF InventoryInv, EndpointsInv, RolesInv, Early
  <1>5. /\ S \in Inventory!Endpoints /\ EndpointSound(S) /\ CapsSound(S.caps) /\ PathSound(S)
        /\ S.role = "Speaker" /\ S.is_null = TRUE /\ S.is_hdmi_head = FALSE
        /\ M \in Inventory!Endpoints /\ EndpointSound(M) /\ CapsSound(M.caps) /\ PathSound(M)
        /\ M.role = "Mic" /\ M.is_null = TRUE /\ M.is_hdmi_head = FALSE /\ M.is_input
    BY Placeholder
  <1> HIDE DEF S, M
  <1>6. /\ A \in Seq(Inventory!Endpoints) /\ B \in Seq(Inventory!Endpoints)
        /\ IF Inventory!Has(es, "Speaker") THEN DOMAIN A = {} ELSE DOMAIN A = {1} /\ A[1] = S
        /\ IF Inventory!Has(es, "Mic") \/ ~props.null_mic THEN DOMAIN B = {} ELSE DOMAIN B = {1} /\ B[1] = M
    <2>1. /\ <<>> \in Seq(Inventory!Endpoints) /\ DOMAIN <<>> = {}
          /\ <<S>> \in Seq(Inventory!Endpoints) /\ DOMAIN <<S>> = {1} /\ <<S>>[1] = S
          /\ <<M>> \in Seq(Inventory!Endpoints) /\ DOMAIN <<M>> = {1} /\ <<M>>[1] = M
      BY <1>5, EmptySeq, Single
    <2>2. /\ A = IF Inventory!Has(es, "Speaker") THEN <<>> ELSE <<S>>
          /\ B = IF Inventory!Has(es, "Mic") \/ ~props.null_mic THEN <<>> ELSE <<M>>
      BY DEF S, M
    <2> HIDE DEF A, B
    <2> QED  BY <2>1, <2>2
  <1> HIDE DEF A, B
  <1>7. /\ c \in Seq(Inventory!Endpoints)
        /\ \A i \in DOMAIN es : i \in DOMAIN c /\ c[i] = es[i]
        /\ \A j \in DOMAIN A : Len(es) + j \in DOMAIN c /\ c[Len(es) + j] = A[j]
        /\ \A i \in DOMAIN c : i \in DOMAIN es \/ \E j \in DOMAIN A : i = Len(es) + j
    BY <1>4, <1>6, Joined
  <1> DEFINE m == Len(es)
  <1> HIDE DEF c
  <1>8. /\ F \in Seq(Inventory!Endpoints)
        /\ \A i \in DOMAIN c : i \in DOMAIN F /\ F[i] = c[i]
        /\ \A j \in DOMAIN B : Len(c) + j \in DOMAIN F /\ F[Len(c) + j] = B[j]
        /\ \A i \in DOMAIN F : i \in DOMAIN c \/ \E j \in DOMAIN B : i = Len(c) + j
    BY <1>6, <1>7, Joined
  <1> DEFINE p == m + 1
             q == Len(c) + 1
  <1>9. /\ \A i \in DOMAIN es : i \in DOMAIN F /\ F[i] = es[i]
        /\ \A i \in DOMAIN F : i \in DOMAIN es
             \/ (i = p /\ F[i] = S /\ ~Inventory!Has(es, "Speaker"))
             \/ (i = q /\ F[i] = M /\ ~Inventory!Has(es, "Mic"))
        /\ ~Inventory!Has(es, "Speaker") => \E i \in DOMAIN F : F[i] = S
        /\ p \notin DOMAIN es /\ q \notin DOMAIN es
    <2>1. DOMAIN es = 1..m /\ m \in Nat /\ DOMAIN c = 1..Len(c) /\ Len(c) \in Nat
      BY <1>4, <1>7, LenProperties
    <2>2. p \notin DOMAIN es /\ q \notin DOMAIN c
      BY <2>1
    <2>3. \A i \in DOMAIN c : i \in DOMAIN es \/ (i = p /\ c[i] = S /\ ~Inventory!Has(es, "Speaker"))
      BY <1>6, <1>7
    <2>4. \A i \in DOMAIN F : i \in DOMAIN c \/ (i = q /\ F[i] = M /\ ~Inventory!Has(es, "Mic"))
      BY <1>6, <1>8
    <2>5. ~Inventory!Has(es, "Speaker") => p \in DOMAIN c /\ c[p] = S
      BY <1>6, <1>7
    <2> HIDE DEF p, q, F, m
    <2> QED  BY <1>7, <1>8, <2>2, <2>3, <2>4, <2>5
  <1> HIDE DEF p, q, F
  <1>10. EndpointsInv'
    <2>1. \A i \in DOMAIN F : EndpointSound(F[i]) /\ CapsSound(F[i].caps) /\ PathSound(F[i])
      BY <1>4, <1>5, <1>9
    <2> QED  BY <1>1, <1>3, <1>8, <2>1, EndpointsStep
  <1>11. RolesApart(F)
    BY <1>4, <1>5, <1>9 DEF RolesApart, Inventory!Has
  <1>12. SpeakersNear(F)
    <2> SUFFICES ASSUME NEW i \in DOMAIN F, F[i].role = "Speaker"
                 PROVE  /\ ~F[i].is_hdmi_head
                        /\ \/ Inventory!OnPrimary(F[i])
                           \/ \A j \in DOMAIN F : Inventory!OnPrimary(F[j]) => Inventory!IsQuiet(F[j])
      BY DEF SpeakersNear
    <2>1. Inventory!IsQuiet(M)
      BY <1>5 DEF Inventory!IsQuiet
    <2>2. CASE i \in DOMAIN es
      <3>1. Inventory!Has(es, "Speaker") /\ F[i] = es[i]
        BY <1>9, <2>2 DEF Inventory!Has
      <3> QED  BY <1>4, <1>9, <2>1, <2>2, <3>1 DEF SpeakersNear
    <2>3. CASE i = p /\ F[i] = S /\ ~Inventory!Has(es, "Speaker")
      BY <1>4, <1>5, <1>9, <2>1, <2>3 DEF QuietWithoutSpeaker
    <2> QED  BY <1>5, <1>9, <2>2, <2>3
  <1>13. HeadsetServed(F)
    BY <1>4, <1>5, <1>9 DEF HeadsetServed, Inventory!Has
  <1>14. Inventory!Has(F, "Speaker") /\ NullSpeaker(F)
    <2>1. Inventory!Has(F, "Speaker")
      BY <1>5, <1>9 DEF Inventory!Has
    <2>2. ASSUME NEW i \in DOMAIN F, NEW j \in DOMAIN F, F[i].role = "Speaker", F[i].is_null
          PROVE  F[j].is_null \/ Inventory!IsQuiet(F[j])
      <3>1. ~Inventory!Has(es, "Speaker")
        BY <1>4, <1>5, <1>9, <2>2
      <3> QED  BY <1>4, <1>5, <1>9, <3>1 DEF QuietWithoutSpeaker
    <2> QED  BY <2>1, <2>2 DEF NullSpeaker
  <1>15. RolesInv'
    <2>1. (RolesApart(endpoints_) /\ SpeakersNear(endpoints_) /\ HeadsetServed(endpoints_))'
      BY <1>1, <1>3, <1>11, <1>12, <1>13, LateStep DEF LateState
    <2>2. Inventory!Has(endpoints_, "Speaker")' /\ NullSpeaker(endpoints_)'
      BY <1>1, <1>14 DEF NullSpeaker, Inventory!Has, Inventory!IsQuiet
    <2> QED  BY <1>2, <2>1, <2>2 DEF RolesInv, Early
  <1>16. CardsInv'
    <2>1. at' \in Nat \ {0} /\ pos' \in Nat
      BY <1>2 DEF InventoryInv, CardsInv
    <2> QED  BY <1>2, <2>1, CardsStay DEF InventoryInv
  <1>17. TemplatesInv'
    <2>1. \A role \in Inventory!ExternalRoles :
             Inventory!Has(endpoints_, role) => Inventory!Has(endpoints_', role)
      BY <1>1, <1>9 DEF Inventory!Has
    <2> QED  BY <1>2, <1>3, <2>1, TemplatesStay DEF InventoryInv
  <1>18. PortsInv'
    BY <1>2, PortsEarly DEF InventoryInv
  <1> QED
    BY <1>2, <1>10, <1>15, <1>16, <1>17, <1>18 DEF InventoryInv, Inventory!Stages

\* Endpoints that keep role, path and capabilities.
SameEndpoints(es, fs) ==
  /\ DOMAIN fs = DOMAIN es
  /\ \A i \in DOMAIN es : SamePath(es[i], fs[i]) /\ SameRole(es[i], fs[i]) /\ fs[i].caps = es[i].caps

LEMMA Relabelled ==
    ASSUME NEW es, NEW fs, SameEndpoints(es, fs)
    PROVE  /\ LateState(es) => LateState(fs)
           /\ NullSpeaker(es) => NullSpeaker(fs)
           /\ \A role : Inventory!Has(es, role) <=> Inventory!Has(fs, role)
           /\ \A i \in DOMAIN fs :
                /\ EndpointSound(es[i]) => EndpointSound(fs[i])
                /\ PathSound(es[i]) => PathSound(fs[i])
                /\ Inventory!DeviceOf(fs[i]) = Inventory!DeviceOf(es[i])
                /\ Inventory!IsAttached(fs[i]) <=> Inventory!IsAttached(es[i])
  <1>1. \A i \in DOMAIN es : Inventory!IsQuiet(es[i]) <=> Inventory!IsQuiet(fs[i])
    BY DEF SameEndpoints, SamePath, SameRole, Inventory!IsQuiet
  <1>2. \A i \in DOMAIN es : Inventory!OnPrimary(es[i]) <=> Inventory!OnPrimary(fs[i])
    BY DEF SameEndpoints, SamePath, Inventory!OnPrimary
  <1>3. \A i \in DOMAIN es : fs[i].role = es[i].role /\ (fs[i].is_hdmi_head <=> es[i].is_hdmi_head)
                             /\ (fs[i].is_null <=> es[i].is_null)
    BY DEF SameEndpoints, SamePath, SameRole
  <1>4. DOMAIN fs = DOMAIN es
    BY DEF SameEndpoints
  <1>5. \A role : Inventory!Has(es, role) <=> Inventory!Has(fs, role)
    BY <1>3, <1>4 DEF Inventory!Has
  <1>6. LateState(es) => LateState(fs)
    BY <1>1, <1>2, <1>3, <1>4, <1>5 DEF LateState, RolesApart, SpeakersNear, HeadsetServed
  <1>7. NullSpeaker(es) => NullSpeaker(fs)
    BY <1>1, <1>3, <1>4 DEF NullSpeaker
  <1>8. ASSUME NEW i \in DOMAIN fs
        PROVE  /\ EndpointSound(es[i]) => EndpointSound(fs[i])
               /\ PathSound(es[i]) => PathSound(fs[i])
               /\ Inventory!DeviceOf(fs[i]) = Inventory!DeviceOf(es[i])
               /\ Inventory!IsAttached(fs[i]) <=> Inventory!IsAttached(es[i])
    <2>1. SamePath(es[i], fs[i]) /\ SameRole(es[i], fs[i])
      BY <1>4 DEF SameEndpoints
    <2>2. EndpointSound(es[i]) => EndpointSound(fs[i])
      BY <2>1 DEF SamePath, SameRole, EndpointSound
    <2>3. PathSound(es[i]) => PathSound(fs[i])
      BY <2>1 DEF SamePath, PathSound
    <2>4. Inventory!DeviceOf(fs[i]) = Inventory!DeviceOf(es[i])
      BY <2>1 DEF SamePath, SameRole, Inventory!DeviceOf
    <2>5. Inventory!IsAttached(fs[i]) <=> Inventory!IsAttached(es[i])
      BY <2>1 DEF SameRole, Inventory!IsAttached
    <2> QED  BY <2>2, <2>3, <2>4, <2>5
  <1> QED  BY <1>5, <1>6, <1>7, <1>8

\* A step of the last stages that only labels endpoints.
LEMMA LateKeeps ==
    ASSUME InventoryInv, UNCHANGED <<Inventory!selection, ucm_managers_, at, pos>>,
           endpoints_' \in Seq(Inventory!Endpoints), SameEndpoints(endpoints_, endpoints_'),
           stage \in {"finalize", "build", "ready"}, stage' \in {"build", "ready"}
    PROVE  EndpointsInv' /\ RolesInv' /\ CardsInv' /\ TemplatesInv'
  <1>1. UNCHANGED <<cards_, props, primary_card_>>
    BY DEF Inventory!selection
  <1>2. /\ \A i \in DOMAIN endpoints_ :
             EndpointSound(endpoints_[i]) /\ CapsSound(endpoints_[i].caps) /\ PathSound(endpoints_[i])
        /\ LateState(endpoints_) /\ NullSpeaker(endpoints_) /\ Inventory!Has(endpoints_, "Speaker")
    BY DEF InventoryInv, EndpointsInv, RolesInv, Early, LateState
  <1> DEFINE fs == endpoints_'
  <1>3. /\ \A i \in DOMAIN fs : EndpointSound(fs[i]) /\ CapsSound(fs[i].caps) /\ PathSound(fs[i])
        /\ LateState(fs) /\ NullSpeaker(fs)
        /\ \A role : Inventory!Has(endpoints_, role) <=> Inventory!Has(fs, role)
    <2> HIDE DEF fs
    <2>1. SameEndpoints(endpoints_, fs)
      BY DEF fs
    <2> QED  BY <1>2, <2>1, Relabelled DEF SameEndpoints
  <1>4. EndpointsInv'
    BY <1>1, <1>3, EndpointsStep
  <1>5. RolesInv'
    <2>1. (RolesApart(endpoints_) /\ SpeakersNear(endpoints_) /\ HeadsetServed(endpoints_))'
      BY <1>1, <1>3, LateStep
    <2>2. Inventory!Has(endpoints_, "Speaker")' /\ NullSpeaker(endpoints_)'
      BY <1>2, <1>3 DEF NullSpeaker, Inventory!Has, Inventory!IsQuiet
    <2> QED  BY <2>1, <2>2 DEF RolesInv, Early
  <1>6. CardsInv'
    <2>1. at' \in Nat \ {0} /\ pos' \in Nat
      BY DEF InventoryInv, CardsInv
    <2> QED  BY <2>1, CardsStay DEF InventoryInv
  <1>7. TemplatesInv'
    BY <1>1, <1>3, TemplatesStay DEF InventoryInv
  <1> QED  BY <1>4, <1>5, <1>6, <1>7

LEMMA FinalizeStep ==
    ASSUME InventoryInv, Inventory!FinalizeEndpoints
    PROVE  InventoryInv'
  <1> DEFINE es == endpoints_
             n == Len(es)
             D(i) == Inventory!DeviceOf(es[i])
             B(i) == es[i].role \in {"Speaker", "Mic"}
             g(i) == [es[i] EXCEPT !.device = D(i), !.is_default = B(i)]
             fs == [i \in DOMAIN es |-> g(i)]
  <1>1. es \in Seq(Inventory!Endpoints) /\ n \in Nat /\ DOMAIN es = 1..n
        /\ \A i \in 1..n : es[i] \in Inventory!Endpoints
    BY LenProperties DEF InventoryInv, EndpointsInv
  <1>2. endpoints_' = fs
    BY DEF Inventory!FinalizeEndpoints
  <1>3. \A i \in 1..n : D(i) \in Inventory!AudioDevices /\ B(i) \in BOOLEAN
    <2> TAKE i \in 1..n
    <2>1. es[i].role \in Inventory!Roles /\ es[i].card \in Int /\ es[i].ucm_device \in UcmNames \cup {None}
          /\ es[i].pcm \in PcmNames \cup {None}
      BY <1>1 DEF Inventory!Endpoints
    <2>2. D(i) \in Inventory!AudioDevices
      BY <2>1 DEF Inventory!DeviceOf, Inventory!AudioDevices, Inventory!Addresses
    <2> QED  BY <2>2
  <1> HIDE DEF D
  <1>4. \A i \in 1..n : /\ g(i) \in Inventory!Endpoints /\ SamePath(es[i], g(i)) /\ SameRole(es[i], g(i))
                        /\ g(i).caps = es[i].caps /\ g(i).device = D(i)
    BY <1>1, <1>3 DEF Inventory!Endpoints, SamePath, SameRole
  <1> HIDE DEF g, n
  <1>5. fs \in Seq(Inventory!Endpoints) /\ SameEndpoints(es, fs)
    <2>1. fs \in [1..n -> Inventory!Endpoints]
      BY <1>1, <1>4
    <2> QED  BY <1>1, <1>4, <2>1, SequenceOf DEF SameEndpoints
  <1>6. \A i \in DOMAIN fs : fs[i].device = Inventory!DeviceOf(fs[i])
    <2>1. \A i \in DOMAIN fs : fs[i].device = Inventory!DeviceOf(es[i])
      BY <1>1, <1>4 DEF D
    <2> HIDE DEF fs
    <2> QED  BY <1>5, <2>1, Relabelled
  <1> HIDE DEF fs
  <1>7. /\ UNCHANGED <<Inventory!selection, ucm_managers_, at, pos>> /\ UNCHANGED external
        /\ stage = "finalize" /\ stage' = "build"
    BY DEF Inventory!FinalizeEndpoints, Inventory!result
  <1>8. EndpointsInv' /\ RolesInv' /\ CardsInv' /\ TemplatesInv'
    BY <1>2, <1>5, <1>7, LateKeeps
  <1>9. PortsInv'
    <2>1. \A i \in DOMAIN endpoints_' : endpoints_'[i].device = Inventory!DeviceOf(endpoints_'[i])
      BY <1>2, <1>6
    <2> QED  BY <1>7, <2>1 DEF InventoryInv, PortsInv
  <1> QED  BY <1>7, <1>8, <1>9 DEF InventoryInv, Inventory!Stages

-----------------------------------------------------------------------------
\* What several ports can take, each of them can.
CommonTo(c, es, ports) ==
  \A i \in ports :
    /\ c.formats \subseteq es[i].caps.formats /\ c.rates \subseteq es[i].caps.rates
    /\ es[i].caps.min_channels <= c.min_channels /\ c.max_channels <= es[i].caps.max_channels

LEMMA Intersected ==
    ASSUME EndpointsInv, NEW ports \in SUBSET DOMAIN endpoints_, NEW low \in Nat, low > 0, NEW high \in Nat
    PROVE  LET c == Inventory!IntersectCapabilities(ports, low, high)
           IN c \in Inventory!Capabilities /\ CommonTo(c, endpoints_, ports)
  <1> DEFINE caps == {endpoints_[i].caps : i \in ports}
             F == {f \in Inventory!Formats : ports # {} /\ \A c \in caps : f \in c.formats}
             R == {r \in UNION {c.rates : c \in caps} : \A c \in caps : r \in c.rates}
             lows == {low} \cup {c.min_channels : c \in caps}
             highs == {high} \cup {c.max_channels : c \in caps}
             L == Inventory!Max(lows)
             H == Inventory!Min(highs)
             c == Inventory!IntersectCapabilities(ports, low, high)
  <1>1. c = [formats |-> F, rates |-> R, min_channels |-> L, max_channels |-> H]
    BY DEF Inventory!IntersectCapabilities
  <1>2. \A d \in caps : d \in Inventory!Capabilities /\ d.min_channels = 1
    <2>1. \A i \in ports : endpoints_[i] \in Inventory!Endpoints /\ CapsSound(endpoints_[i].caps)
      BY DEF EndpointsInv
    <2>2. \A i \in ports : endpoints_[i].caps \in Inventory!Capabilities
      BY <2>1 DEF Inventory!Endpoints
    <2> QED  BY <2>1, <2>2 DEF CapsSound
  <1>3. \A i \in ports : endpoints_[i].caps \in caps
    OBVIOUS
  <1> HIDE DEF caps
  <1>4. \A d \in caps : d.rates \in SUBSET Nat /\ d.max_channels \in Nat
    BY <1>2 DEF Inventory!Capabilities
  <1>5. F \in SUBSET Inventory!Formats /\ R \in SUBSET Nat
    BY <1>4
  <1>6. (\A i \in ports : F \subseteq endpoints_[i].caps.formats /\ R \subseteq endpoints_[i].caps.rates)
    BY <1>3
  <1>7. L \in Nat /\ L >= 1
    <2>1. lows \in SUBSET {low, 1} /\ low \in lows
      BY <1>2
    <2> HIDE DEF lows
    <2>2. \E x \in lows : \A y \in lows : x >= y
      BY <2>1
    <2>3. L \in lows /\ \A y \in lows : L >= y
      BY <2>2 DEF Inventory!Max
    <2>4. (L = low \/ L = 1) /\ L >= low
      BY <2>1, <2>3
    <2> HIDE DEF L
    <2> QED  BY <2>4
  <1>8. H \in Nat /\ \A d \in caps : H <= d.max_channels
    <2>1. highs \in SUBSET Nat /\ highs # {} /\ \A d \in caps : d.max_channels \in highs
      BY <1>4
    <2> HIDE DEF highs
    <2> QED  BY <2>1, FirstOf
  <1> HIDE DEF F, R, L, H, c
  <1>9. c \in Inventory!Capabilities
    BY <1>1, <1>5, <1>7, <1>8 DEF Inventory!Capabilities
  <1>10. ASSUME NEW i \in ports
         PROVE  /\ c.formats \subseteq endpoints_[i].caps.formats
                /\ c.rates \subseteq endpoints_[i].caps.rates
                /\ endpoints_[i].caps.min_channels <= c.min_channels
                /\ c.max_channels <= endpoints_[i].caps.max_channels
    <2>1. endpoints_[i].caps.min_channels = 1
      BY <1>2, <1>3
    <2> QED  BY <1>1, <1>3, <1>6, <1>7, <1>8, <2>1
  <1> QED  BY <1>9, <1>10 DEF c, CommonTo

\* The high resolution filter takes nothing that is not there.
LEMMA HraSound ==
    ASSUME NEW c \in Inventory!Capabilities, NEW is_hra \in BOOLEAN
    PROVE  LET h == Inventory!HraFilter(c, is_hra)
           IN /\ h \in Inventory!Capabilities /\ h.formats \subseteq c.formats /\ h.rates \subseteq c.rates
              /\ h.min_channels = c.min_channels /\ h.max_channels = c.max_channels
  <1> DEFINE rates == {r \in c.rates : Inventory!IsHraRate(r)}
             F == IF is_hra THEN c.formats \cap Inventory!HighResolution
                  ELSE Inventory!KeepSome(c.formats, c.formats \ Inventory!HighResolution)
             R == IF is_hra THEN rates ELSE Inventory!KeepSome(c.rates, c.rates \ rates)
             h == Inventory!HraFilter(c, is_hra)
  <1>1. h = [c EXCEPT !.formats = F, !.rates = R]
    BY DEF Inventory!HraFilter
  <1>2. F \subseteq c.formats /\ R \subseteq c.rates
    BY DEF Inventory!KeepSome
  <1> HIDE DEF F, R
  <1>3. h = [formats |-> F, rates |-> R, min_channels |-> c.min_channels, max_channels |-> c.max_channels]
    BY <1>1 DEF Inventory!Capabilities
  <1> HIDE DEF h
  <1>4. /\ h \in Inventory!Capabilities /\ h.formats \subseteq c.formats /\ h.rates \subseteq c.rates
        /\ h.min_channels = c.min_channels /\ h.max_channels = c.max_channels
    BY <1>2, <1>3 DEF Inventory!Capabilities
  <1> QED  BY <1>4 DEF h

\* What is asked of the port configuration: of one mix port, and of the external
\* port.
ServesFrom(m, es, connections) ==
  IF m.caps = None THEN m.devices \subseteq connections \ DOMAIN es
  ELSE /\ Inventory!HasCommonProfile(m.caps)
       /\ \/ m.name \in {"primary output", "primary input"} /\ m.caps = Inventory!FallbackCapabilities
          \/ \A i \in m.devices :
               LET c == es[i].caps
               IN /\ m.caps.formats \subseteq c.formats /\ m.caps.rates \subseteq c.rates
                  /\ c.min_channels <= m.caps.min_channels
                  /\ m.caps.max_channels <= c.max_channels

ExternalServed ==
  external # None =>
    /\ external.port \in config.connected
    /\ external.caps.formats # {} /\ external.caps.rates # {} /\ external.caps.max_channels > 0

LEMMA OfferedParts ==
    OfferedIsServed <=>
      (stage = "ready" => (\A m \in config.mix : ServesFrom(m, endpoints_, config.connected)) /\ ExternalServed)
  BY DEF OfferedIsServed, Inventory!OfferedIsServed, Inventory!Ready, ServesFrom, ExternalServed

LEMMA OfferedPartsNext ==
    (OfferedIsServed <=>
      (stage = "ready" => (\A m \in config.mix : ServesFrom(m, endpoints_, config.connected)) /\ ExternalServed))'
  BY DEF OfferedIsServed, Inventory!OfferedIsServed, Inventory!Ready, ServesFrom, ExternalServed,
         Inventory!HasCommonProfile

LEMMA FallbackCommon == Inventory!HasCommonProfile(Inventory!FallbackCapabilities)
  <1> DEFINE fallback == Inventory!FallbackCapabilities
  <1>1. fallback.min_channels = 1 /\ fallback.max_channels = 2
    BY DEF Inventory!FallbackCapabilities
  <1> HIDE DEF fallback
  <1>2. fallback.formats # {} /\ fallback.rates # {}
    BY Fallback DEF fallback, CapsSound
  <1> QED  BY <1>1, <1>2 DEF fallback, Inventory!HasCommonProfile

\* A mix port with the profile of its ports, or one that offers what the plug layer
\* can always do.
LEMMA OrFallbackServes ==
    ASSUME NEW c \in Inventory!Capabilities, NEW name \in {"primary output", "primary input"}, NEW es,
           NEW ports, NEW connections,
           CommonTo(c, es, ports)
    PROVE  ServesFrom(Inventory!MixPort(name, Inventory!OrFallback(c), ports), es, connections)
  <1> DEFINE o == Inventory!OrFallback(c)
             fallback == Inventory!FallbackCapabilities
             m == Inventory!MixPort(name, o, ports)
  <1>1. fallback \in Inventory!Capabilities /\ Inventory!HasCommonProfile(fallback)
    BY Fallback, FallbackCommon, Zenon
  <1> HIDE DEF fallback
  <1>2. o \in Inventory!Capabilities /\ Inventory!HasCommonProfile(o) /\ (o = fallback \/ o = c)
    BY <1>1 DEF Inventory!OrFallback, fallback
  <1> HIDE DEF o
  <1>3. m.name = name /\ m.caps = o /\ m.devices = ports
    BY DEF Inventory!MixPort
  <1> HIDE DEF m
  <1>4. o # None
    BY <1>2, InventoryAssumed DEF InventoryAssumption
  <1>5. ServesFrom(m, es, connections)
    BY <1>2, <1>3, <1>4 DEF ServesFrom, fallback, CommonTo
  <1> QED  BY <1>5 DEF m, o

LEMMA OptionalServes ==
    ASSUME NEW c \in Inventory!Capabilities, NEW name, NEW es, NEW ports, NEW connections,
           CommonTo(c, es, ports)
    PROVE  \A m \in Inventory!OptionalOutput(name, c, ports) : ServesFrom(m, es, connections)
  <1> DEFINE m == Inventory!MixPort(name, c, ports)
  <1>1. m.name = name /\ m.caps = c /\ m.devices = ports
    BY DEF Inventory!MixPort
  <1>2. \A x \in Inventory!OptionalOutput(name, c, ports) : x = m /\ Inventory!HasCommonProfile(c)
    BY DEF Inventory!OptionalOutput
  <1> HIDE DEF m
  <1>3. c # None
    BY InventoryAssumed DEF InventoryAssumption
  <1> QED
    BY <1>1, <1>2, <1>3 DEF ServesFrom, CommonTo

LEMMA MixPortsServe ==
    ASSUME EndpointsInv, NEW connections,
           Inventory!UsbOutputs \cup Inventory!UsbInputs \subseteq connections
    PROVE  \A m \in Inventory!MixPorts : ServesFrom(m, endpoints_, connections)
  <1> DEFINE O == Inventory!IntersectCapabilities(Inventory!Outputs, 1, 2)
             HO == Inventory!HraFilter(O, FALSE)
             MU == Inventory!IntersectCapabilities(Inventory!Multichannel, 3, 8)
             H == Inventory!IntersectCapabilities(Inventory!Hires, 1, 2)
             HH == Inventory!HraFilter(H, TRUE)
             I == Inventory!IntersectCapabilities(Inventory!Inputs, 1, 2)
             Primary == Inventory!MixPort("primary output", Inventory!OrFallback(HO), Inventory!Outputs)
             Input == Inventory!MixPort("primary input", Inventory!OrFallback(I), Inventory!Inputs)
             UsbOut == Inventory!MixPort("usb output", None, Inventory!UsbOutputs)
             UsbIn == Inventory!MixPort("usb input", None, Inventory!UsbInputs)
             Multi == Inventory!OptionalOutput("multichannel output", MU, Inventory!Multichannel)
             Hra == Inventory!OptionalOutput("hra output", HH, Inventory!Hires)
  <1>1. /\ Inventory!Outputs \in SUBSET DOMAIN endpoints_ /\ Inventory!Multichannel \in SUBSET DOMAIN endpoints_
        /\ Inventory!Hires \in SUBSET DOMAIN endpoints_ /\ Inventory!Inputs \in SUBSET DOMAIN endpoints_
    BY DEF Inventory!Outputs, Inventory!Multichannel, Inventory!Hires, Inventory!Inputs, Inventory!Ports
  <1>2. \A m \in Inventory!MixPorts : m = Primary \/ m \in Multi \/ m \in Hra \/ m = Input \/ m = UsbOut \/ m = UsbIn
    BY DEF Inventory!MixPorts
  <1>3. /\ O \in Inventory!Capabilities /\ CommonTo(O, endpoints_, Inventory!Outputs)
        /\ MU \in Inventory!Capabilities /\ CommonTo(MU, endpoints_, Inventory!Multichannel)
        /\ H \in Inventory!Capabilities /\ CommonTo(H, endpoints_, Inventory!Hires)
        /\ I \in Inventory!Capabilities /\ CommonTo(I, endpoints_, Inventory!Inputs)
    BY <1>1, Intersected
  <1> HIDE DEF O, MU, H, I
  <1>4. /\ HO \in Inventory!Capabilities /\ CommonTo(HO, endpoints_, Inventory!Outputs)
        /\ HH \in Inventory!Capabilities /\ CommonTo(HH, endpoints_, Inventory!Hires)
    <2>1. /\ HO \in Inventory!Capabilities /\ HO.formats \subseteq O.formats /\ HO.rates \subseteq O.rates
          /\ HO.min_channels = O.min_channels /\ HO.max_channels = O.max_channels
      BY <1>3, HraSound
    <2>2. /\ HH \in Inventory!Capabilities /\ HH.formats \subseteq H.formats /\ HH.rates \subseteq H.rates
          /\ HH.min_channels = H.min_channels /\ HH.max_channels = H.max_channels
      BY <1>3, HraSound
    <2> HIDE DEF HO, HH
    <2> QED  BY <1>3, <2>1, <2>2 DEF CommonTo
  <1> HIDE DEF HO, HH
  <1>5. ServesFrom(Primary, endpoints_, connections) /\ ServesFrom(Input, endpoints_, connections)
    BY <1>3, <1>4, OrFallbackServes
  <1>6. \A m \in Multi \cup Hra : ServesFrom(m, endpoints_, connections)
    BY <1>3, <1>4, OptionalServes
  <1>7. ServesFrom(UsbOut, endpoints_, connections) /\ ServesFrom(UsbIn, endpoints_, connections)
    <2>1. (Inventory!UsbOutputs \cup Inventory!UsbInputs) \cap DOMAIN endpoints_ = {}
      BY LenProperties DEF EndpointsInv, Inventory!UsbOutputs, Inventory!UsbInputs
    <2>2. UsbOut.caps = None /\ UsbOut.devices = Inventory!UsbOutputs
          /\ UsbIn.caps = None /\ UsbIn.devices = Inventory!UsbInputs
      BY DEF Inventory!MixPort
    <2> HIDE DEF UsbOut, UsbIn
    <2> QED  BY <2>1, <2>2 DEF ServesFrom
  <1> QED  BY <1>2, <1>5, <1>6, <1>7

\* A mix port is served as well when endpoints got their port.
LEMMA ServedAlike ==
    ASSUME NEW es, NEW fs, SameEndpoints(es, fs), NEW m, NEW connections, m.devices \subseteq DOMAIN es \/ m.caps = None,
           ServesFrom(m, es, connections)
    PROVE  ServesFrom(m, fs, connections)
  BY Zenon DEF ServesFrom, SameEndpoints

LEMMA MixPortDevices ==
    \A m \in Inventory!MixPorts : m.devices \subseteq DOMAIN endpoints_ \/ m.caps = None
  <1> DEFINE OK(m) == m.devices \subseteq DOMAIN endpoints_ \/ m.caps = None
  <1>1. ASSUME NEW name, NEW caps, NEW ports, ports \subseteq DOMAIN endpoints_
        PROVE  /\ OK(Inventory!MixPort(name, caps, ports))
               /\ \A m \in Inventory!OptionalOutput(name, caps, ports) : OK(m)
    BY <1>1 DEF Inventory!MixPort, Inventory!OptionalOutput
  <1>2. ASSUME NEW name, NEW ports PROVE OK(Inventory!MixPort(name, None, ports))
    BY DEF Inventory!MixPort
  <1>3. /\ Inventory!Outputs \subseteq DOMAIN endpoints_ /\ Inventory!Multichannel \subseteq DOMAIN endpoints_
        /\ Inventory!Hires \subseteq DOMAIN endpoints_ /\ Inventory!Inputs \subseteq DOMAIN endpoints_
    BY DEF Inventory!Outputs, Inventory!Multichannel, Inventory!Hires, Inventory!Inputs, Inventory!Ports
  <1> HIDE DEF OK
  <1> DEFINE Primary == Inventory!MixPort("primary output", Inventory!OrFallback(Inventory!HraFilter(
                            Inventory!IntersectCapabilities(Inventory!Outputs, 1, 2), FALSE)), Inventory!Outputs)
             Input == Inventory!MixPort("primary input", Inventory!OrFallback(
                            Inventory!IntersectCapabilities(Inventory!Inputs, 1, 2)), Inventory!Inputs)
             UsbOut == Inventory!MixPort("usb output", None, Inventory!UsbOutputs)
             UsbIn == Inventory!MixPort("usb input", None, Inventory!UsbInputs)
             Multi == Inventory!OptionalOutput("multichannel output",
                            Inventory!IntersectCapabilities(Inventory!Multichannel, 3, 8), Inventory!Multichannel)
             Hra == Inventory!OptionalOutput("hra output",
                            Inventory!HraFilter(Inventory!IntersectCapabilities(Inventory!Hires, 1, 2), TRUE), Inventory!Hires)
  <1>4. \A m \in Inventory!MixPorts : m = Primary \/ m \in Multi \/ m \in Hra \/ m = Input \/ m = UsbOut \/ m = UsbIn
    BY DEF Inventory!MixPorts
  <1>5. OK(Primary) /\ OK(Input) /\ OK(UsbOut) /\ OK(UsbIn)
    BY <1>1, <1>2, <1>3
  <1>6. \A m \in Multi \cup Hra : OK(m)
    BY <1>1, <1>3
  <1> HIDE DEF Primary, Input, UsbOut, UsbIn, Multi, Hra
  <1>7. \A m \in Inventory!MixPorts : OK(m)
    BY <1>4, <1>5, <1>6
  <1> QED  BY <1>7 DEF OK

LEMMA BuildStep ==
    ASSUME InventoryInv, Inventory!BuildConfiguration
    PROVE  InventoryInv'
  <1> DEFINE es == endpoints_
             n == Len(es)
             g(i) == [es[i] EXCEPT !.port_id = i]
             fs == [i \in DOMAIN es |-> g(i)]
             C == {i \in DOMAIN es : ~Inventory!IsAttached(es[i])} \cup Inventory!UsbOutputs \cup Inventory!UsbInputs
  <1>1. es \in Seq(Inventory!Endpoints) /\ n \in Nat /\ DOMAIN es = 1..n
        /\ \A i \in 1..n : es[i] \in Inventory!Endpoints
    BY LenProperties DEF InventoryInv, EndpointsInv
  <1>2. endpoints_' = fs
    BY DEF Inventory!BuildConfiguration, Inventory!Ports
  <1>3. \A i \in 1..n : /\ g(i) \in Inventory!Endpoints /\ SamePath(es[i], g(i)) /\ SameRole(es[i], g(i))
                        /\ g(i).caps = es[i].caps /\ g(i).device = es[i].device
    BY <1>1, PortSet
  <1> HIDE DEF g, n
  <1>4. fs \in Seq(Inventory!Endpoints) /\ SameEndpoints(es, fs)
        /\ \A i \in DOMAIN fs : fs[i].device = es[i].device
    <2>1. fs \in [1..n -> Inventory!Endpoints]
      BY <1>1, <1>3
    <2> QED  BY <1>1, <1>3, <2>1, SequenceOf DEF SameEndpoints
  <1> HIDE DEF fs
  <1>5. /\ UNCHANGED <<Inventory!selection, ucm_managers_, at, pos>> /\ UNCHANGED external
        /\ stage = "build" /\ stage' = "ready"
        /\ config'.mix = Inventory!MixPorts /\ config'.connected = C
    BY DEF Inventory!BuildConfiguration, Inventory!Ports, Inventory!selection
  <1>6. EndpointsInv' /\ RolesInv' /\ CardsInv' /\ TemplatesInv'
    BY <1>2, <1>4, <1>5, LateKeeps
  <1>7. /\ \A i \in DOMAIN es : es[i].device = Inventory!DeviceOf(es[i])
        /\ external' = None
    BY <1>5 DEF InventoryInv, PortsInv
  <1>8. \A i \in DOMAIN fs : /\ fs[i].device = Inventory!DeviceOf(fs[i])
                             /\ Inventory!IsAttached(fs[i]) <=> Inventory!IsAttached(es[i])
    <2>1. \A i \in DOMAIN fs : /\ Inventory!DeviceOf(fs[i]) = Inventory!DeviceOf(es[i])
                               /\ Inventory!IsAttached(fs[i]) <=> Inventory!IsAttached(es[i])
      BY <1>4, Relabelled
    <2> QED  BY <1>4, <1>7, <2>1 DEF SameEndpoints
  <1>9. Len(fs) = n
    <2>1. Len(fs) \in Nat /\ DOMAIN fs = 1..Len(fs)
      BY <1>4, LenProperties
    <2> QED  BY <1>1, <1>4, <2>1 DEF SameEndpoints
  <1>10. config'.connected = {i \in DOMAIN endpoints_' : ~Inventory!IsAttached(endpoints_'[i])}
                               \cup Inventory!UsbOutputs' \cup Inventory!UsbInputs'
    <2>1. Inventory!UsbOutputs' = Inventory!UsbOutputs /\ Inventory!UsbInputs' = Inventory!UsbInputs
      BY <1>2, <1>9 DEF Inventory!UsbOutputs, Inventory!UsbInputs, n
    <2>2. {i \in DOMAIN fs : ~Inventory!IsAttached(fs[i])} = {i \in DOMAIN es : ~Inventory!IsAttached(es[i])}
      BY <1>4, <1>8 DEF SameEndpoints
    <2> QED  BY <1>2, <1>5, <2>1, <2>2
  <1>11. OfferedIsServed'
    <2>1. \A m \in Inventory!MixPorts : ServesFrom(m, es, C)
      BY MixPortsServe DEF InventoryInv
    <2>2. \A m \in Inventory!MixPorts : m.devices \subseteq DOMAIN es \/ m.caps = None
      BY MixPortDevices
    <2>3. \A m \in Inventory!MixPorts : ServesFrom(m, fs, C)
      <3> HIDE DEF C
      <3> QED  BY <1>4, <2>1, <2>2, ServedAlike
    <2>4. ExternalServed'
      BY <1>7 DEF ExternalServed
    <2> HIDE DEF C
    <2> QED  BY <1>2, <1>5, <2>3, <2>4, OfferedPartsNext
  <1>12. PortsInv'
    BY <1>2, <1>5, <1>7, <1>8, <1>10, <1>11 DEF PortsInv
  <1> QED  BY <1>5, <1>6, <1>12 DEF InventoryInv, Inventory!Stages

\* External ports of the running module.
LEMMA ConnectKeeps ==
    ASSUME InventoryInv, stage = "ready", stage' = "ready",
           UNCHANGED <<Inventory!selection, ucm_managers_, at, pos, endpoints_, config>>, ExternalServed'
    PROVE  InventoryInv'
  <1>1. SameEndpoints(endpoints_, endpoints_')
    BY SamePathRefl DEF SameEndpoints, SameRole
  <1>2. EndpointsInv' /\ RolesInv' /\ CardsInv' /\ TemplatesInv'
    BY <1>1, LateKeeps DEF InventoryInv, EndpointsInv
  <1>3. OfferedIsServed'
    <2>1. \A m \in config.mix : ServesFrom(m, endpoints_, config.connected)
      BY OfferedParts DEF InventoryInv, PortsInv
    <2>2. \A m \in config'.mix : ServesFrom(m, endpoints_', config'.connected)
      BY <2>1
    <2> QED  BY <2>2, OfferedPartsNext
  <1>4. Inventory!UsbOutputs' = Inventory!UsbOutputs /\ Inventory!UsbInputs' = Inventory!UsbInputs
    BY DEF Inventory!UsbOutputs, Inventory!UsbInputs
  <1>5. PortsInv'
    <2>1. /\ \A i \in DOMAIN endpoints_ : endpoints_[i].device = Inventory!DeviceOf(endpoints_[i])
          /\ config.connected = {i \in DOMAIN endpoints_ : ~Inventory!IsAttached(endpoints_[i])}
                               \cup Inventory!UsbOutputs \cup Inventory!UsbInputs
      BY DEF InventoryInv, PortsInv
    <2> QED  BY <1>3, <1>4, <2>1 DEF PortsInv
  <1> QED  BY <1>2, <1>5 DEF InventoryInv

LEMMA HeadSelected ==
    ASSUME EndpointsInv, NEW i \in DOMAIN endpoints_, NEW jacks, DOMAIN jacks = Inventory!HeadEndpoints
    PROVE  Inventory!SelectHdmiEndpoint(i, jacks) \in DOMAIN endpoints_
  <1> DEFINE heads(s) == {h \in DOMAIN jacks : jacks[h] = s}
  <1>1. \A s : heads(s) \in SUBSET DOMAIN endpoints_
    BY DEF Inventory!HeadEndpoints
  <1>2. DOMAIN endpoints_ \in SUBSET Nat
    BY LenProperties DEF EndpointsInv
  <1>3. \/ Inventory!SelectHdmiEndpoint(i, jacks) = i
        \/ \E s : heads(s) # {} /\ Inventory!SelectHdmiEndpoint(i, jacks) = Inventory!Min(heads(s))
    BY DEF Inventory!SelectHdmiEndpoint
  <1> HIDE DEF heads
  <1> QED  BY <1>1, <1>2, <1>3, FirstOf

LEMMA TemplateStep ==
    ASSUME InventoryInv, Inventory!ConnectTemplate
    PROVE  InventoryInv'
  <1>1. PICK i \in DOMAIN endpoints_, jacks \in [Inventory!HeadEndpoints -> {"plugged", "unplugged", "unknown"}] :
          /\ ~Inventory!IsAttached(endpoints_[i])
          /\ external' = [port |-> i, caps |-> endpoints_[Inventory!SelectHdmiEndpoint(i, jacks)].caps]
    BY DEF Inventory!ConnectTemplate
  <1>2. stage = "ready" /\ stage' = "ready"
        /\ UNCHANGED <<Inventory!selection, ucm_managers_, at, pos, endpoints_, config>>
    BY DEF Inventory!ConnectTemplate
  <1> DEFINE k == Inventory!SelectHdmiEndpoint(i, jacks)
  <1>3. k \in DOMAIN endpoints_
    BY HeadSelected DEF InventoryInv
  <1>4. i \in config.connected
    BY <1>1, <1>2 DEF InventoryInv, PortsInv
  <1>5. CapsSound(endpoints_[k].caps)
    BY <1>3 DEF InventoryInv, EndpointsInv
  <1> HIDE DEF k
  <1>6. external'.port = i /\ external'.caps = endpoints_[k].caps
    BY <1>1 DEF k
  <1>7. ExternalServed'
    BY <1>2, <1>4, <1>5, <1>6 DEF ExternalServed, CapsSound
  <1> QED  BY <1>2, <1>7, ConnectKeeps

LEMMA UsbStep ==
    ASSUME InventoryInv, Inventory!ConnectUsb
    PROVE  InventoryInv'
  <1>1. PICK c \in Inventory!ToSet(system), way \in BOOLEAN, answers \in BOOLEAN, report \in Reports :
          LET caps == Inventory!MakeUsbEndpoint(c.index, report, answers)
          IN /\ caps # None
             /\ external' = [port |-> Inventory!Min(IF way THEN Inventory!UsbInputs ELSE Inventory!UsbOutputs),
                             caps |-> caps]
    BY DEF Inventory!ConnectUsb
  <1> DEFINE caps == Inventory!MakeUsbEndpoint(c.index, report, answers)
             P == IF way THEN Inventory!UsbInputs ELSE Inventory!UsbOutputs
             found == Inventory!QueryCapabilities(report)
  <1>2. stage = "ready" /\ stage' = "ready"
        /\ UNCHANGED <<Inventory!selection, ucm_managers_, at, pos, endpoints_, config>>
    BY DEF Inventory!ConnectUsb
  <1>3. caps = (IF found = None \/ ~answers THEN found ELSE Inventory!Filtered(found, c.index)) /\ caps # None
    BY <1>1 DEF Inventory!MakeUsbEndpoint
  <1>4. Usable(caps)
    <2>1. found # None
      BY <1>3
    <2>2. found \in Inventory!Capabilities /\ Usable(found)
      BY <2>1, Queried
    <2> HIDE DEF found
    <2>3. Usable(Inventory!Filtered(found, c.index))
      BY <2>2, FilteredUsable DEF Inventory!Filtered
    <2> QED  BY <1>3, <2>2, <2>3
  <1>5. Inventory!Min(P) \in config.connected
    <2>1. Len(endpoints_) \in Nat
      BY LenProperties DEF InventoryInv, EndpointsInv
    <2>2. P \in SUBSET Nat /\ P # {}
      BY <2>1 DEF Inventory!UsbInputs, Inventory!UsbOutputs
    <2>3. P \subseteq config.connected
      BY <1>2 DEF InventoryInv, PortsInv
    <2> HIDE DEF P
    <2> QED  BY <2>2, <2>3, FirstOf
  <1>6. external'.port = Inventory!Min(P) /\ external'.caps = caps
    BY <1>1
  <1> HIDE DEF P, caps
  <1>7. ExternalServed'
    BY <1>2, <1>4, <1>5, <1>6 DEF ExternalServed, Usable
  <1> QED  BY <1>2, <1>7, ConnectKeeps

(***************************************************************************)
(* The first stages: which cards there are                                 *)
(***************************************************************************)

LEMMA SystemKnown ==
    ASSUME CardsInv
    PROVE  /\ system \in Seq(Inventory!Cards) /\ IndexedApart(system)
           /\ \A i \in DOMAIN system : CardKnown(system[i])
           /\ \A i \in DOMAIN system : \A v \in DOMAIN system[i].verbs :
                \A d, e \in DOMAIN system[i].verbs[v].devices :
                  system[i].verbs[v].devices[d].name = system[i].verbs[v].devices[e].name => d = e
  <1>1. system \in Systems
    BY DEF CardsInv
  <1>2. /\ system \in Seq(Inventory!Cards) /\ IndexedApart(system)
        /\ \A i \in DOMAIN system :
            /\ \A p \in DOMAIN system[i].pcms :
                [card |-> system[i].index, device |-> system[i].pcms[p].device] \in PcmNames
            /\ \A v \in DOMAIN system[i].verbs : \A d, e \in DOMAIN system[i].verbs[v].devices :
                system[i].verbs[v].devices[d].name = system[i].verbs[v].devices[e].name => d = e
    BY <1>1, InventoryAssumed DEF InventoryAssumption, IndexedApart
  <1>3. \A i \in DOMAIN system : system[i] \in Inventory!Cards
    BY <1>2
  <1> QED  BY <1>2, <1>3 DEF CardKnown

LEMMA CardAdded ==
    ASSUME NEW from \in Seq(Inventory!Cards), IndexedApart(from), NEW n \in DOMAIN from,
           NEW list \in Seq(Inventory!Cards), AmongFirst(list, from, n), IndexedApart(list)
    PROVE  LET longer == Append(list, from[n])
           IN /\ longer \in Seq(Inventory!Cards) /\ IndexedApart(longer) /\ AmongFirst(longer, from, n + 1)
              /\ \A i \in DOMAIN longer : (i \in DOMAIN list /\ longer[i] = list[i]) \/ longer[i] = from[n]
  <1> DEFINE c == from[n]
             longer == Append(list, c)
             m == Len(list)
  <1>1. c \in Inventory!Cards /\ m \in Nat /\ DOMAIN list = 1..m /\ DOMAIN from = 1..Len(from) /\ n \in Nat
    BY LenProperties
  <1>2. /\ longer \in Seq(Inventory!Cards) /\ Len(longer) = m + 1
        /\ \A i \in 1..m : longer[i] = list[i]
        /\ longer[m + 1] = c
    BY <1>1, AppendProperties
  <1>3. DOMAIN longer = 1..m + 1
    BY <1>2, LenProperties
  <1> HIDE DEF longer
  <1>4. \A i \in DOMAIN longer : (i \in DOMAIN list /\ longer[i] = list[i]) \/ (i = m + 1 /\ longer[i] = c)
    BY <1>1, <1>2, <1>3
  <1>5. AmongFirst(longer, from, n + 1)
    BY <1>1, <1>4 DEF AmongFirst
  <1>6. \A i \in DOMAIN list : list[i].index # c.index
    <2> SUFFICES ASSUME NEW i \in DOMAIN list, list[i].index = c.index PROVE FALSE
      OBVIOUS
    <2>1. PICK j \in DOMAIN from : j < n /\ list[i] = from[j]
      BY DEF AmongFirst
    <2>2. j = n
      BY <2>1 DEF IndexedApart
    <2> QED  BY <1>1, <2>1, <2>2
  <1>7. IndexedApart(longer)
    BY <1>4, <1>6 DEF IndexedApart
  <1> QED  BY <1>2, <1>4, <1>5, <1>7 DEF longer

\* Nothing is known of endpoints before the cards are selected.
LEMMA NothingYet ==
    ASSUME CardsInv', PortsInv', stage' \in {"cards", "select", "candidates"},
           endpoints_' = <<>>, ucm_managers_' = {}
    PROVE  InventoryInv'
  <1>1. <<>> \in Seq(Inventory!Endpoints) /\ DOMAIN <<>> = {}
    BY EmptySeq
  <1>2. EndpointsInv' /\ RolesInv' /\ TemplatesInv'
    BY <1>1 DEF EndpointsInv, RolesInv, TemplatesInv, Early
  <1> QED  BY <1>2 DEF InventoryInv, Inventory!Stages

LEMMA FirstStages ==
    ASSUME InventoryInv, stage \in {"cards", "select"}
    PROVE  ucm_managers_ = {} /\ endpoints_ = <<>>
  BY DEF InventoryInv, CardsInv

LEMMA QueryStep ==
    ASSUME InventoryInv, Inventory!QueryCard
    PROVE  InventoryInv'
  <1>1. /\ stage = "cards" /\ stage' = "cards" /\ at \in DOMAIN system /\ at' = at + 1
        /\ answered' \in {answered, Append(answered, system[at])}
        /\ UNCHANGED <<system, pos, cards_, ucm_managers_, endpoints_, external>>
    BY DEF Inventory!QueryCard, Inventory!result
  <1>2. CardsInv
    BY DEF InventoryInv
  <1>3. /\ at \in Nat \ {0} /\ pos \in Nat /\ answered \in Seq(Inventory!Cards) /\ IndexedApart(answered)
        /\ AmongFirst(answered, system, at) /\ cards_ = <<>>
    BY <1>1, <1>2 DEF CardsInv
  <1>4. system \in Seq(Inventory!Cards) /\ IndexedApart(system)
    BY <1>2, SystemKnown
  <1>5. answered' \in Seq(Inventory!Cards) /\ IndexedApart(answered') /\ AmongFirst(answered', system, at + 1)
    <2>1. CASE answered' = answered
      <3>1. AmongFirst(answered, system, at + 1)
        <4>1. DOMAIN system \in SUBSET Nat
          BY <1>4, LenProperties
        <4> QED  BY <1>3, <4>1 DEF AmongFirst
      <3> QED  BY <1>3, <2>1, <3>1
    <2>2. CASE answered' = Append(answered, system[at])
      BY <1>1, <1>3, <1>4, <2>2, CardAdded
    <2> QED  BY <1>1, <2>1, <2>2
  <1>6. CardsInv'
    BY <1>1, <1>2, <1>3, <1>5 DEF CardsInv, IndexedApart, AmongFirst
  <1>7. PortsInv'
    BY <1>1, PortsEarly DEF InventoryInv
  <1> QED  BY <1>1, <1>6, <1>7, NothingYet, FirstStages

LEMMA PollStep ==
    ASSUME InventoryInv, Inventory!Poll
    PROVE  InventoryInv'
  <1>1. /\ stage = "cards" /\ stage' = "cards" /\ at' = 1 /\ answered' = <<>>
        /\ UNCHANGED <<system, pos, cards_, ucm_managers_, endpoints_, external>>
    BY DEF Inventory!Poll, Inventory!Enumerated, Inventory!result
  <1>2. <<>> \in Seq(Inventory!Cards) /\ DOMAIN <<>> = {}
    BY EmptySeq
  <1>3. CardsInv'
    BY <1>1, <1>2 DEF InventoryInv, CardsInv, IndexedApart, AmongFirst
  <1>4. PortsInv'
    BY <1>1, PortsEarly DEF InventoryInv
  <1> QED  BY <1>1, <1>3, <1>4, NothingYet, FirstStages

LEMMA EndWaitStep ==
    ASSUME InventoryInv, Inventory!EndWait
    PROVE  InventoryInv'
  <1>1. /\ stage = "cards" /\ stage' = "select" /\ at' = 1 /\ at > Len(system)
        /\ UNCHANGED <<system, answered, pos, cards_, ucm_managers_, endpoints_, external>>
    BY DEF Inventory!EndWait, Inventory!Enumerated, Inventory!selection, Inventory!result
  <1>2. CardsInv /\ cards_ = <<>>
    BY <1>1 DEF InventoryInv, CardsInv
  <1>3. DOMAIN <<>> = {} /\ DOMAIN system = 1..Len(system) /\ Len(system) \in Nat
    BY <1>2, EmptySeq, LenProperties, SystemKnown
  <1>4. AmongFirst(answered, system, Len(system) + 1)
    BY <1>1, <1>2, <1>3 DEF CardsInv, AmongFirst
  <1>5. CardsInv'
    BY <1>1, <1>2, <1>3, <1>4 DEF CardsInv, IndexedApart, AmongFirst
  <1>6. PortsInv'
    BY <1>1, PortsEarly DEF InventoryInv
  <1> QED  BY <1>1, <1>5, <1>6, NothingYet, FirstStages

LEMMA SelectStep ==
    ASSUME InventoryInv, Inventory!SelectCard
    PROVE  InventoryInv'
  <1>1. /\ stage = "select" /\ stage' = "select" /\ at \in DOMAIN answered /\ at' = at + 1
        /\ cards_' \in {cards_, Append(cards_, answered[at])}
        /\ UNCHANGED <<system, answered, pos, ucm_managers_, endpoints_, external>>
    BY DEF Inventory!SelectCard, Inventory!result
  <1>2. CardsInv
    BY DEF InventoryInv
  <1>3. /\ at \in Nat \ {0} /\ answered \in Seq(Inventory!Cards) /\ IndexedApart(answered)
        /\ AmongFirst(answered, system, Len(system) + 1)
        /\ cards_ \in Seq(Inventory!Cards) /\ IndexedApart(cards_) /\ AmongFirst(cards_, answered, at)
        /\ AmongFirst(cards_, system, Len(system) + 1)
    BY <1>1, <1>2 DEF CardsInv
  <1>4. /\ cards_' \in Seq(Inventory!Cards) /\ IndexedApart(cards_') /\ AmongFirst(cards_', answered, at + 1)
        /\ AmongFirst(cards_', system, Len(system) + 1)
    <2>1. CASE cards_' = cards_
      <3>1. AmongFirst(cards_, answered, at + 1)
        <4>1. DOMAIN answered \in SUBSET Nat
          BY <1>3, LenProperties
        <4> QED  BY <1>3, <4>1 DEF AmongFirst
      <3> QED  BY <1>3, <2>1, <3>1
    <2>2. CASE cards_' = Append(cards_, answered[at])
      <3> DEFINE longer == Append(cards_, answered[at])
      <3>1. /\ longer \in Seq(Inventory!Cards) /\ IndexedApart(longer) /\ AmongFirst(longer, answered, at + 1)
            /\ \A i \in DOMAIN longer : (i \in DOMAIN cards_ /\ longer[i] = cards_[i]) \/ longer[i] = answered[at]
        BY <1>1, <1>3, CardAdded
      <3> HIDE DEF longer
      <3>2. AmongFirst(longer, system, Len(system) + 1)
        BY <1>1, <1>3, <3>1 DEF AmongFirst
      <3> QED  BY <2>2, <3>1, <3>2 DEF longer
    <2> QED  BY <1>1, <2>1, <2>2
  <1>5. CardsInv'
    BY <1>1, <1>2, <1>3, <1>4 DEF CardsInv, IndexedApart, AmongFirst
  <1>6. PortsInv'
    BY <1>1, PortsEarly DEF InventoryInv
  <1> QED  BY <1>1, <1>5, <1>6, NothingYet, FirstStages

LEMMA PrimaryStep ==
    ASSUME InventoryInv, Inventory!SelectPrimary
    PROVE  InventoryInv'
  <1> DEFINE P == Inventory!PrimaryPosition
             m == Inventory!Moved(cards_, P, 1)
  <1>1. /\ stage = "select" /\ stage' = "candidates" /\ at' = 1 /\ answered' = <<>>
        /\ (P = 0 /\ cards_' = cards_) \/ (P # 0 /\ cards_' = m)
        /\ UNCHANGED <<system, pos, ucm_managers_, endpoints_, external>>
    BY DEF Inventory!SelectPrimary, Inventory!result
  <1>2. /\ cards_ \in Seq(Inventory!Cards) /\ IndexedApart(cards_)
        /\ AmongFirst(cards_, system, Len(system) + 1)
    BY DEF InventoryInv, CardsInv
  <1>3. P # 0 => P \in DOMAIN cards_
    <2> DEFINE asked == {i \in DOMAIN cards_ : cards_[i].index = props.primary_card}
               analog == {i \in DOMAIN cards_ : Inventory!HasAnalogPlayback(cards_[i])}
               output == {i \in DOMAIN cards_ : Inventory!HasPlayback(cards_[i])}
               input == {i \in DOMAIN cards_ : Inventory!HasCapture(cards_[i])}
               candidates == IF asked # {} THEN asked ELSE IF analog # {} THEN analog
                             ELSE IF output # {} THEN output ELSE input
    <2>1. P = IF candidates = {} THEN 0 ELSE Inventory!Min(candidates)
      BY DEF Inventory!PrimaryPosition
    <2>2. candidates \in SUBSET DOMAIN cards_ /\ DOMAIN cards_ \in SUBSET Nat
      BY <1>2, LenProperties
    <2> HIDE DEF candidates, P
    <2> QED  BY <2>1, <2>2, FirstOf
  <1> HIDE DEF P
  <1>4. /\ cards_' \in Seq(Inventory!Cards) /\ IndexedApart(cards_')
        /\ AmongFirst(cards_', system, Len(system) + 1)
    <2>1. CASE P = 0
      BY <1>1, <1>2, <2>1
    <2>2. CASE P # 0
      <3>1. 1 \in 1..P
        <4>1. DOMAIN cards_ = 1..Len(cards_) /\ Len(cards_) \in Nat
          BY <1>2, LenProperties
        <4> QED  BY <1>3, <2>2, <4>1
      <3>2. Rearranged(m, cards_, Inventory!Cards)
        BY <1>2, <1>3, <2>2, <3>1, MovedList
      <3> HIDE DEF m
      <3>3. m \in Seq(Inventory!Cards) /\ AmongFirst(m, system, Len(system) + 1)
        BY <1>2, <3>2 DEF Rearranged, AmongFirst
      <3>4. IndexedApart(m)
        <4> SUFFICES ASSUME NEW i \in DOMAIN m, NEW j \in DOMAIN m, i # j PROVE m[i].index # m[j].index
          BY DEF IndexedApart
        <4>1. PICK k \in DOMAIN cards_, l \in DOMAIN cards_ : k # l /\ m[i] = cards_[k] /\ m[j] = cards_[l]
          BY <3>2 DEF Rearranged
        <4> QED  BY <1>2, <4>1 DEF IndexedApart
      <3> QED  BY <1>1, <2>2, <3>3, <3>4
    <2> QED  BY <2>1, <2>2
  <1> HIDE DEF m
  <1>5. <<>> \in Seq(Inventory!Cards) /\ DOMAIN <<>> = {}
    BY EmptySeq
  <1>6. CardsInv'
    BY <1>1, <1>4, <1>5 DEF InventoryInv, CardsInv, IndexedApart, AmongFirst
  <1>7. PortsInv'
    BY <1>1, PortsEarly DEF InventoryInv
  <1> QED  BY <1>1, <1>6, <1>7, NothingYet, FirstStages

(***************************************************************************)
(* Collecting the paths of the cards                                       *)
(***************************************************************************)

\* Where the collection is when card k and its UCM device n are done.
Passed(k, n) == k < at \/ (k = at /\ n < pos)
TemplatesKept(es, k, n) ==
  \A playback \in BOOLEAN :
    LET d == Inventory!UcmDevicesOf(cards_[k])[n]
        role == Inventory!ClassifyUcmDevice(d.words, playback)
    IN Inventory!HasPath(cards_[k], d, playback) /\ role \in Inventory!ExternalRoles => Inventory!Has(es, role)

LEMMA CollectKeeps ==
    ASSUME InventoryInv, stage = "candidates", stage' = "candidates",
           UNCHANGED <<Inventory!selection, external>>, at' \in Nat \ {0}, pos' \in Nat, FreshList(endpoints_'),
           \A k \in DOMAIN cards_ : cards_[k].index \in ucm_managers_' =>
             /\ cards_[k].verbs # <<>> /\ (k < at' \/ (k = at' /\ pos' > 0))
             /\ \A n \in DOMAIN Inventory!UcmDevicesOf(cards_[k]) :
                  k < at' \/ (k = at' /\ n < pos') => TemplatesKept(endpoints_', k, n)
    PROVE  InventoryInv'
  <1>1. UNCHANGED <<cards_, props>>
    BY DEF Inventory!selection
  <1>2. EndpointsInv' /\ RolesInv'
    BY <1>1, EarlyStep DEF Early
  <1>3. CardsInv'
    BY CardsStay DEF InventoryInv
  <1>4. TemplatesInv'
    BY <1>1, VerbStays DEF TemplatesInv, TemplatesKept, Done, Inventory!Has
  <1>5. PortsInv'
    BY PortsEarly DEF InventoryInv
  <1> QED  BY <1>2, <1>3, <1>4, <1>5 DEF InventoryInv, Inventory!Stages

LEMMA CollectState ==
    ASSUME InventoryInv, Inventory!Collecting
    PROVE  /\ FreshList(endpoints_) /\ stage = "candidates" /\ at \in DOMAIN cards_ /\ at \in Nat \ {0} /\ pos \in Nat
           /\ cards_ \in Seq(Inventory!Cards) /\ DOMAIN cards_ \in SUBSET Nat /\ IndexedApart(cards_)
           /\ \A k \in DOMAIN cards_ : CardKnown(cards_[k])
           /\ \A k \in DOMAIN cards_ : cards_[k].index \in ucm_managers_ =>
                /\ cards_[k].verbs # <<>> /\ (k < at \/ (k = at /\ pos > 0))
                /\ \A n \in DOMAIN Inventory!UcmDevicesOf(cards_[k]) : Passed(k, n) => TemplatesKept(endpoints_, k, n)
  <1>1. stage = "candidates" /\ at \in DOMAIN cards_
    BY DEF Inventory!Collecting
  <1>2. FreshList(endpoints_)
    BY <1>1, EarlyState DEF InventoryInv, Early
  <1>3. /\ at \in Nat \ {0} /\ pos \in Nat /\ cards_ \in Seq(Inventory!Cards) /\ IndexedApart(cards_)
        /\ AmongFirst(cards_, system, Len(system) + 1) /\ CardsInv
    BY DEF InventoryInv, CardsInv
  <1>4. \A k \in DOMAIN cards_ : CardKnown(cards_[k])
    BY <1>3, SystemKnown DEF AmongFirst
  <1>5. DOMAIN cards_ \in SUBSET Nat
    BY <1>3, LenProperties
  <1>6. \A k \in DOMAIN cards_ : cards_[k].index \in ucm_managers_ =>
          /\ cards_[k].verbs # <<>> /\ (k < at \/ (k = at /\ pos > 0))
          /\ \A n \in DOMAIN Inventory!UcmDevicesOf(cards_[k]) : Passed(k, n) => TemplatesKept(endpoints_, k, n)
    BY <1>1 DEF InventoryInv, TemplatesInv, Passed, Done, TemplatesKept, Inventory!Has
  <1> QED  BY <1>1, <1>2, <1>3, <1>4, <1>5, <1>6

\* Paths that were found stay.
LEMMA ServedStays ==
    ASSUME NEW es, NEW fs, \A i \in DOMAIN es : i \in DOMAIN fs /\ fs[i] = es[i], NEW k, NEW n, TemplatesKept(es, k, n)
    PROVE  TemplatesKept(fs, k, n)
  BY DEF TemplatesKept, Inventory!Has

LEMMA OpenStep ==
    ASSUME InventoryInv, Inventory!OpenCard
    PROVE  InventoryInv'
  <1>1. /\ Inventory!Collecting /\ pos = 0 /\ pos' = 1 /\ stage' = stage
        /\ UNCHANGED <<at, Inventory!selection, endpoints_, external>>
        /\ \/ cards_[at].verbs # <<>> /\ ucm_managers_' = ucm_managers_ \cup {cards_[at].index}
           \/ ucm_managers_' = ucm_managers_
    BY DEF Inventory!OpenCard, Inventory!result
  <1>2. /\ FreshList(endpoints_) /\ stage = "candidates" /\ at \in DOMAIN cards_ /\ at \in Nat \ {0} /\ pos \in Nat
        /\ cards_ \in Seq(Inventory!Cards) /\ DOMAIN cards_ \in SUBSET Nat /\ IndexedApart(cards_)
        /\ \A k \in DOMAIN cards_ : CardKnown(cards_[k])
        /\ \A k \in DOMAIN cards_ : cards_[k].index \in ucm_managers_ =>
             /\ cards_[k].verbs # <<>> /\ (k < at \/ (k = at /\ pos > 0))
             /\ \A n \in DOMAIN Inventory!UcmDevicesOf(cards_[k]) : Passed(k, n) => TemplatesKept(endpoints_, k, n)
    BY <1>1, CollectState
  <1>3. ASSUME NEW k \in DOMAIN cards_, cards_[k].index \in ucm_managers_'
        PROVE  /\ cards_[k].verbs # <<>> /\ (k < at' \/ (k = at' /\ pos' > 0))
               /\ \A n \in DOMAIN Inventory!UcmDevicesOf(cards_[k]) :
                  k < at' \/ (k = at' /\ n < pos') => TemplatesKept(endpoints_', k, n)
    <2>1. CASE cards_[k].index \in ucm_managers_
      BY <1>1, <1>2, <2>1 DEF Passed
    <2>2. CASE cards_[k].index \notin ucm_managers_
      <3>1. k = at /\ cards_[at].verbs # <<>>
        BY <1>1, <1>2, <1>3, <2>2 DEF IndexedApart
      <3>2. \A n \in DOMAIN Inventory!UcmDevicesOf(cards_[k]) : n \in Nat /\ n >= 1
        BY <1>2, <3>1, VerbFound, LenProperties
      <3> QED  BY <1>1, <1>2, <3>1, <3>2
    <2> QED  BY <2>1, <2>2
  <1>4. at' \in Nat \ {0} /\ pos' \in Nat /\ stage' = "candidates" /\ FreshList(endpoints_')
    BY <1>1, <1>2
  <1> QED  BY <1>1, <1>2, <1>3, <1>4, CollectKeeps

Covers(fs, es) == \A i \in DOMAIN es : \E j \in DOMAIN fs : fs[j] = es[i]

LEMMA FreshCovered ==
    ASSUME NEW a, FreshList(a), NEW b, FreshList(b)
    PROVE  Covers(a \o b, b)
  <1>1. a \in Seq(Inventory!Endpoints) /\ b \in Seq(Inventory!Endpoints)
    BY DEF FreshList
  <1>2. \A j \in DOMAIN b : Len(a) + j \in DOMAIN (a \o b) /\ (a \o b)[Len(a) + j] = b[j]
    BY <1>1, Joined
  <1> DEFINE c == a \o b
             m == Len(a)
  <1> HIDE DEF c, m
  <1>3. \A i \in DOMAIN b : \E j \in DOMAIN c : c[j] = b[i]
    BY <1>2 DEF c
  <1> QED  BY <1>3 DEF c, Covers

LEMMA UcmStep ==
    ASSUME InventoryInv, Inventory!CollectFromUcm
    PROVE  InventoryInv'
  <1> DEFINE d == Inventory!UcmDevicesOf(cards_[at])[pos]
             a == Inventory!UcmPath(cards_[at], d, TRUE)
             b == Inventory!UcmPath(cards_[at], d, FALSE)
             es == endpoints_
             fs == es \o a \o b
  <1>1. /\ Inventory!Collecting /\ cards_[at].index \in ucm_managers_ /\ pos' = pos + 1 /\ stage' = stage
        /\ pos \in DOMAIN Inventory!UcmDevicesOf(cards_[at]) /\ endpoints_' = fs
        /\ UNCHANGED <<at, Inventory!selection, external, ucm_managers_>>
    BY DEF Inventory!CollectFromUcm, Inventory!result
  <1>2. /\ FreshList(es) /\ stage = "candidates" /\ at \in DOMAIN cards_ /\ at \in Nat \ {0} /\ pos \in Nat
        /\ cards_ \in Seq(Inventory!Cards) /\ DOMAIN cards_ \in SUBSET Nat /\ IndexedApart(cards_)
        /\ \A k \in DOMAIN cards_ : CardKnown(cards_[k])
        /\ \A k \in DOMAIN cards_ : cards_[k].index \in ucm_managers_ =>
             /\ cards_[k].verbs # <<>> /\ (k < at \/ (k = at /\ pos > 0))
             /\ \A n \in DOMAIN Inventory!UcmDevicesOf(cards_[k]) : Passed(k, n) => TemplatesKept(es, k, n)
    BY <1>1, CollectState
  <1>3. /\ FreshList(a) /\ FreshList(b)
        /\ Inventory!HasPath(cards_[at], d, TRUE) =>
             \E i \in DOMAIN a : a[i].role = Inventory!ClassifyUcmDevice(d.words, TRUE)
        /\ Inventory!HasPath(cards_[at], d, FALSE) =>
             \E i \in DOMAIN b : b[i].role = Inventory!ClassifyUcmDevice(d.words, FALSE)
    <2>1. at \in DOMAIN cards_ /\ cards_[at] \in Inventory!Cards /\ cards_[at].verbs # <<>>
      BY <1>1, <1>2 DEF CardKnown
    <2> HIDE DEF a, b
    <2>2. ASSUME NEW way \in BOOLEAN
          PROVE  /\ FreshList(Inventory!UcmPath(cards_[at], d, way))
                 /\ Inventory!HasPath(cards_[at], d, way) =>
                      \E i \in DOMAIN Inventory!UcmPath(cards_[at], d, way) :
                        Inventory!UcmPath(cards_[at], d, way)[i].role = Inventory!ClassifyUcmDevice(d.words, way)
      BY <1>1, <2>1, UcmPathFresh
    <2> QED  BY <2>2 DEF a, b
  <1> DEFINE c == es \o a
  <1> HIDE DEF a, b, c, es
  <1>a. FreshList(es)
    BY <1>2
  <1>b. FreshList(a)
    BY <1>3
  <1>c. FreshList(b)
    BY <1>3
  <1>4. /\ FreshList(c) /\ \A i \in DOMAIN es : i \in DOMAIN c /\ c[i] = es[i]
    BY <1>a, <1>b, FreshJoined DEF c
  <1>f. Covers(c, a)
    BY <1>a, <1>b, FreshCovered DEF c
  <1>d. FreshList(c)
    BY <1>4
  <1> HIDE DEF c
  <1>5. /\ FreshList(fs) /\ \A i \in DOMAIN c : i \in DOMAIN fs /\ fs[i] = c[i]
        /\ Covers(fs, b)
    <2>1. fs = c \o b
      BY DEF c
    <2> HIDE DEF fs
    <2> QED  BY <1>c, <1>d, <2>1, FreshJoined, FreshCovered
  <1> HIDE DEF fs
  <1>6. \A i \in DOMAIN es : i \in DOMAIN fs /\ fs[i] = es[i]
    BY <1>4, <1>5
  <1>7. TemplatesKept(fs, at, pos)
    <2>1. Inventory!HasPath(cards_[at], d, TRUE) => Inventory!Has(fs, Inventory!ClassifyUcmDevice(d.words, TRUE))
      <3>1. \A i \in DOMAIN a : \E j \in DOMAIN fs : fs[j] = a[i]
        BY <1>5, <1>f DEF Covers
      <3> QED  BY <1>3, <3>1 DEF Inventory!Has
    <2>2. Inventory!HasPath(cards_[at], d, FALSE) => Inventory!Has(fs, Inventory!ClassifyUcmDevice(d.words, FALSE))
      BY <1>3, <1>5 DEF Inventory!Has, Covers
    <2> QED  BY <2>1, <2>2 DEF TemplatesKept
  <1>8. ASSUME NEW k \in DOMAIN cards_, cards_[k].index \in ucm_managers_'
        PROVE  /\ cards_[k].verbs # <<>> /\ (k < at' \/ (k = at' /\ pos' > 0))
               /\ \A n \in DOMAIN Inventory!UcmDevicesOf(cards_[k]) :
                  k < at' \/ (k = at' /\ n < pos') => TemplatesKept(endpoints_', k, n)
    <2>1. cards_[k].verbs # <<>> /\ (k < at' \/ (k = at' /\ pos' > 0))
      BY <1>1, <1>2, <1>8
    <2>2. ASSUME NEW n \in DOMAIN Inventory!UcmDevicesOf(cards_[k]), k < at \/ (k = at /\ n < pos + 1)
          PROVE  TemplatesKept(fs, k, n)
      <3>1. n \in Nat /\ k \in Nat
        BY <1>2, <2>1, VerbFound, LenProperties
      <3>2. CASE Passed(k, n)
        <4>1. TemplatesKept(es, k, n)
          BY <1>1, <1>2, <1>8, <3>2
        <4> QED  BY <1>6, <4>1, ServedStays
      <3>3. CASE ~Passed(k, n)
        <4>1. k = at /\ n = pos
          BY <1>2, <2>2, <3>1, <3>3 DEF Passed
        <4> QED  BY <1>7, <4>1
      <3> QED  BY <3>2, <3>3
    <2> QED  BY <1>1, <2>1, <2>2
  <1>9. at' \in Nat \ {0} /\ pos' \in Nat /\ stage' = "candidates" /\ FreshList(endpoints_')
    BY <1>1, <1>2, <1>5
  <1> QED  BY <1>1, <1>2, <1>8, <1>9, CollectKeeps

LEMMA HeadsetStep ==
    ASSUME InventoryInv, Inventory!AddHeadset
    PROVE  InventoryInv'
  <1> DEFINE es == endpoints_
             fs == Inventory!WithHeadset(cards_[at], es)
  <1>1. /\ Inventory!Collecting /\ cards_[at].index \in ucm_managers_ /\ pos' = 0 /\ at' = at + 1 /\ stage' = stage
        /\ pos > Len(Inventory!UcmDevicesOf(cards_[at])) /\ endpoints_' = fs
        /\ UNCHANGED <<Inventory!selection, external, ucm_managers_>>
    BY DEF Inventory!AddHeadset, Inventory!result, Inventory!NextCard
  <1>2. /\ FreshList(es) /\ stage = "candidates" /\ at \in DOMAIN cards_ /\ at \in Nat \ {0} /\ pos \in Nat
        /\ cards_ \in Seq(Inventory!Cards) /\ DOMAIN cards_ \in SUBSET Nat /\ IndexedApart(cards_)
        /\ \A k \in DOMAIN cards_ : CardKnown(cards_[k])
        /\ \A k \in DOMAIN cards_ : cards_[k].index \in ucm_managers_ =>
             /\ cards_[k].verbs # <<>> /\ (k < at \/ (k = at /\ pos > 0))
             /\ \A n \in DOMAIN Inventory!UcmDevicesOf(cards_[k]) : Passed(k, n) => TemplatesKept(es, k, n)
    BY <1>1, CollectState
  <1> HIDE DEF es
  <1>3. FreshList(fs) /\ \A i \in DOMAIN es : i \in DOMAIN fs /\ fs[i] = es[i]
    BY <1>2, HeadsetFresh
  <1> HIDE DEF fs
  <1>4. ASSUME NEW k \in DOMAIN cards_, cards_[k].index \in ucm_managers_'
        PROVE  /\ cards_[k].verbs # <<>> /\ (k < at' \/ (k = at' /\ pos' > 0))
               /\ \A n \in DOMAIN Inventory!UcmDevicesOf(cards_[k]) :
                  k < at' \/ (k = at' /\ n < pos') => TemplatesKept(endpoints_', k, n)
    <2>1. cards_[k].verbs # <<>> /\ k < at' /\ (k < at \/ k = at)
      BY <1>1, <1>2, <1>4
    <2>2. ASSUME NEW n \in DOMAIN Inventory!UcmDevicesOf(cards_[k]) PROVE TemplatesKept(fs, k, n)
      <3>1. Inventory!UcmDevicesOf(cards_[k]) \in Seq(Inventory!UcmDeviceInfos)
        BY <1>2, <2>1, VerbFound
      <3>2. n \in 1..Len(Inventory!UcmDevicesOf(cards_[k])) /\ Len(Inventory!UcmDevicesOf(cards_[k])) \in Nat
        BY <3>1, LenProperties
      <3>3. Passed(k, n)
        BY <1>1, <1>2, <2>1, <3>2 DEF Passed
      <3>4. TemplatesKept(es, k, n)
        BY <1>1, <1>2, <1>4, <3>3
      <3> QED  BY <1>3, <3>4, ServedStays
    <2> QED  BY <1>1, <2>1, <2>2
  <1>5. at' \in Nat \ {0} /\ pos' \in Nat /\ stage' = "candidates" /\ FreshList(endpoints_')
    BY <1>1, <1>2, <1>3
  <1> QED  BY <1>1, <1>2, <1>4, <1>5, CollectKeeps

LEMMA PcmStep ==
    ASSUME InventoryInv, Inventory!CollectFromPcmDevices
    PROVE  InventoryInv'
  <1> DEFINE a == Inventory!PcmPath(cards_[at], pos, TRUE)
             b == Inventory!PcmPath(cards_[at], pos, FALSE)
             es == endpoints_
             fs == es \o a \o b
             c == es \o a
  <1>1. /\ Inventory!Collecting /\ cards_[at].index \notin ucm_managers_ /\ pos' = pos + 1 /\ stage' = stage
        /\ pos \in DOMAIN cards_[at].pcms /\ endpoints_' = fs
        /\ UNCHANGED <<at, Inventory!selection, external, ucm_managers_>>
    BY DEF Inventory!CollectFromPcmDevices, Inventory!result
  <1>2. /\ FreshList(es) /\ stage = "candidates" /\ at \in DOMAIN cards_ /\ at \in Nat \ {0} /\ pos \in Nat
        /\ cards_ \in Seq(Inventory!Cards) /\ DOMAIN cards_ \in SUBSET Nat /\ IndexedApart(cards_)
        /\ \A k \in DOMAIN cards_ : CardKnown(cards_[k])
        /\ \A k \in DOMAIN cards_ : cards_[k].index \in ucm_managers_ =>
             /\ cards_[k].verbs # <<>> /\ (k < at \/ (k = at /\ pos > 0))
             /\ \A n \in DOMAIN Inventory!UcmDevicesOf(cards_[k]) : Passed(k, n) => TemplatesKept(es, k, n)
    BY <1>1, CollectState
  <1>3. FreshList(a) /\ FreshList(b)
    BY <1>1, <1>2, PcmPathFresh
  <1> HIDE DEF a, b, c, es
  <1>4. FreshList(c) /\ \A i \in DOMAIN es : i \in DOMAIN c /\ c[i] = es[i]
    BY <1>2, <1>3, FreshJoined DEF c
  <1>5. FreshList(fs) /\ \A i \in DOMAIN c : i \in DOMAIN fs /\ fs[i] = c[i]
    <2>1. fs = c \o b
      BY DEF c
    <2> QED  BY <1>3, <1>4, <2>1, FreshJoined
  <1> HIDE DEF fs
  <1>6. \A i \in DOMAIN es : i \in DOMAIN fs /\ fs[i] = es[i]
    BY <1>4, <1>5
  <1>7. ASSUME NEW k \in DOMAIN cards_, cards_[k].index \in ucm_managers_'
        PROVE  /\ cards_[k].verbs # <<>> /\ (k < at' \/ (k = at' /\ pos' > 0))
               /\ \A n \in DOMAIN Inventory!UcmDevicesOf(cards_[k]) :
                  k < at' \/ (k = at' /\ n < pos') => TemplatesKept(endpoints_', k, n)
    <2>1. cards_[k].verbs # <<>> /\ k < at /\ k # at
      BY <1>1, <1>2, <1>7
    <2>2. ASSUME NEW n \in DOMAIN Inventory!UcmDevicesOf(cards_[k]) PROVE TemplatesKept(fs, k, n)
      <3>1. TemplatesKept(es, k, n)
        BY <1>1, <1>2, <1>7, <2>1 DEF Passed
      <3> QED  BY <1>6, <3>1, ServedStays
    <2> QED  BY <1>1, <2>1, <2>2
  <1>8. at' \in Nat \ {0} /\ pos' \in Nat /\ stage' = "candidates" /\ FreshList(endpoints_')
    BY <1>1, <1>2, <1>5
  <1> QED  BY <1>1, <1>2, <1>7, <1>8, CollectKeeps

LEMMA PcmEndStep ==
    ASSUME InventoryInv, Inventory!EndOfPcmDevices
    PROVE  InventoryInv'
  <1>1. /\ Inventory!Collecting /\ cards_[at].index \notin ucm_managers_ /\ pos' = 0 /\ at' = at + 1 /\ stage' = stage
        /\ UNCHANGED <<Inventory!selection, external, ucm_managers_, endpoints_>>
    BY DEF Inventory!EndOfPcmDevices, Inventory!result, Inventory!NextCard
  <1>2. /\ FreshList(endpoints_) /\ stage = "candidates" /\ at \in DOMAIN cards_ /\ at \in Nat \ {0} /\ pos \in Nat
        /\ DOMAIN cards_ \in SUBSET Nat
        /\ \A k \in DOMAIN cards_ : cards_[k].index \in ucm_managers_ =>
             /\ cards_[k].verbs # <<>> /\ (k < at \/ (k = at /\ pos > 0))
             /\ \A n \in DOMAIN Inventory!UcmDevicesOf(cards_[k]) : Passed(k, n) => TemplatesKept(endpoints_, k, n)
    BY <1>1, CollectState
  <1>3. ASSUME NEW k \in DOMAIN cards_, cards_[k].index \in ucm_managers_'
        PROVE  /\ cards_[k].verbs # <<>> /\ (k < at' \/ (k = at' /\ pos' > 0))
               /\ \A n \in DOMAIN Inventory!UcmDevicesOf(cards_[k]) :
                  k < at' \/ (k = at' /\ n < pos') => TemplatesKept(endpoints_', k, n)
    <2>1. cards_[k].verbs # <<>> /\ k < at /\ k # at
      BY <1>1, <1>2, <1>3
    <2> QED  BY <1>1, <1>2, <1>3, <2>1 DEF Passed
  <1>4. at' \in Nat \ {0} /\ pos' \in Nat /\ stage' = "candidates" /\ FreshList(endpoints_')
    BY <1>1, <1>2
  <1> QED  BY <1>1, <1>2, <1>3, <1>4, CollectKeeps

(***************************************************************************)
(* The discovery as a whole                                                *)
(***************************************************************************)

LEMMA InventoryInit ==
    ASSUME Inventory!Init
    PROVE  InventoryInv
  <1>1. /\ system \in Systems /\ stage = "cards" /\ at = 1 /\ pos = 0 /\ answered = <<>> /\ cards_ = <<>>
        /\ ucm_managers_ = {} /\ endpoints_ = <<>> /\ external = None
    BY DEF Inventory!Init
  <1>2. EndpointsInv
    BY <1>1, EmptySeq DEF EndpointsInv
  <1>3. CardsInv
    BY <1>1, EmptySeq DEF CardsInv, IndexedApart, AmongFirst
  <1>4. TemplatesInv
    BY <1>1, EmptySeq DEF TemplatesInv
  <1>5. RolesInv
    BY <1>1, EmptySeq DEF RolesInv, Early
  <1>6. PortsInv
    BY <1>1 DEF PortsInv
  <1> QED  BY <1>1, <1>2, <1>3, <1>4, <1>5, <1>6 DEF InventoryInv, Inventory!Stages

LEMMA InventoryKept ==
    ASSUME InventoryInv, Inventory!Next
    PROVE  InventoryInv'
  <1>1. \/ Inventory!QueryCard \/ Inventory!Poll \/ Inventory!EndWait \/ Inventory!SelectCard
        \/ Inventory!SelectPrimary \/ Inventory!OpenCard \/ Inventory!CollectFromUcm \/ Inventory!AddHeadset
        \/ Inventory!CollectFromPcmDevices \/ Inventory!EndOfPcmDevices
        \/ Inventory!ProbeCapabilities \/ Inventory!FilterCapabilities \/ Inventory!SortEndpoint
        \/ Inventory!AssignRoles \/ Inventory!AddNullEndpointsIfNeeded \/ Inventory!FinalizeEndpoints
        \/ Inventory!BuildConfiguration \/ Inventory!ConnectTemplate \/ Inventory!ConnectUsb
    BY DEF Inventory!Next
  <1> QED
    BY <1>1, QueryStep, PollStep, EndWaitStep, SelectStep, PrimaryStep, OpenStep, UcmStep, HeadsetStep,
       PcmStep, PcmEndStep, ProbeStep, FilterStep, SortStep, AssignStep, AddNullStep, FinalizeStep,
       BuildStep, TemplateStep, UsbStep

\* The other parts leave the inventory alone.
LEMMA InventoryStays ==
    ASSUME InventoryInv, UNCHANGED inventory
    PROVE  InventoryInv'
  <1>1. UNCHANGED <<system, props, stage, at, pos, answered, cards_, primary_card_, ucm_managers_,
                    endpoints_, config, external>>
    BY DEF inventory
  <1>2. EndpointsInv'
    BY <1>1, EndpointsStep DEF InventoryInv, EndpointsInv
  <1>3. CardsInv'
    BY <1>1 DEF InventoryInv, CardsInv, IndexedApart, AmongFirst, Inventory!Cards
  <1>4. TemplatesInv'
    BY <1>1, VerbStays DEF InventoryInv, TemplatesInv, Done
  <1>5. RolesInv'
    <2>1. Early' = Early
      BY <1>1 DEF Early
    <2>2. (RolesApart(endpoints_) /\ SpeakersNear(endpoints_) /\ HeadsetServed(endpoints_)
              /\ QuietWithoutSpeaker(endpoints_) /\ NullSpeaker(endpoints_))'
            <=> (RolesApart(endpoints_) /\ SpeakersNear(endpoints_) /\ HeadsetServed(endpoints_)
                  /\ QuietWithoutSpeaker(endpoints_) /\ NullSpeaker(endpoints_))
      BY <1>1 DEF RolesApart, SpeakersNear, HeadsetServed, QuietWithoutSpeaker, NullSpeaker,
                  Inventory!Has, Inventory!OnPrimary, Inventory!IsQuiet
    <2> QED
      BY <1>1 DEF InventoryInv, RolesInv, Early, RolesApart, SpeakersNear, HeadsetServed, QuietWithoutSpeaker,
                  NullSpeaker, Inventory!Has, Inventory!OnPrimary, Inventory!IsQuiet
  <1>6. PortsInv'
    BY <1>1 DEF InventoryInv, PortsInv, OfferedIsServed, Inventory!OfferedIsServed, Inventory!Ready,
                Inventory!UsbOutputs, Inventory!UsbInputs
  <1> QED  BY <1>1, <1>2, <1>3, <1>4, <1>5, <1>6 DEF InventoryInv

LEMMA InventoryInvariant == MCSpec => []InventoryInv
  <1>1. MCInit => InventoryInv
    BY InventoryInit DEF MCInit
  <1>2. InventoryInv /\ [MCNext]_all => InventoryInv'
    <2> SUFFICES ASSUME InventoryInv, [MCNext]_all PROVE InventoryInv'
      OBVIOUS
    <2>1. UNCHANGED inventory \/ Inventory!Next
      BY DEF MCNext, StreamNext, PcmNext, InventoryNext, EffectNext, all
    <2> QED  BY <2>1, InventoryKept, InventoryStays
  <1> QED  BY <1>1, <1>2, PTL DEF MCSpec

(***************************************************************************)
(* What the invariant says of the ports                                    *)
(***************************************************************************)

\* The name of a UCM device stands for one path of the card in each direction.
LEMMA NamesOnePath ==
    ASSUME CardsInv, NEW e, NEW f, PathSound(e), PathSound(f), e.card = f.card,
           e.ucm_device = f.ucm_device, e.ucm_device # None, e.is_input <=> f.is_input
    PROVE  e.pcm = f.pcm
  <1>1. PICK k \in DOMAIN cards_ :
          /\ cards_[k].index = e.card /\ cards_[k].verbs # <<>>
          /\ \E n \in DOMAIN Inventory!UcmDevicesOf(cards_[k]) :
               /\ Inventory!UcmDevicesOf(cards_[k])[n].name = e.ucm_device
               /\ e.pcm = Inventory!PcmOf(Inventory!UcmDevicesOf(cards_[k])[n], ~e.is_input)
    BY DEF PathSound
  <1>2. PICK l \in DOMAIN cards_ :
          /\ cards_[l].index = f.card /\ cards_[l].verbs # <<>>
          /\ \E n \in DOMAIN Inventory!UcmDevicesOf(cards_[l]) :
               /\ Inventory!UcmDevicesOf(cards_[l])[n].name = f.ucm_device
               /\ f.pcm = Inventory!PcmOf(Inventory!UcmDevicesOf(cards_[l])[n], ~f.is_input)
    BY DEF PathSound
  <1>3. k = l
    BY <1>1, <1>2 DEF CardsInv, IndexedApart
  <1>4. PICK s \in DOMAIN system : cards_[k] = system[s]
    BY DEF CardsInv, AmongFirst
  <1>5. /\ Inventory!VerbOf(cards_[k]) \in DOMAIN cards_[k].verbs
        /\ \A v \in DOMAIN cards_[k].verbs : \A m, n \in DOMAIN cards_[k].verbs[v].devices :
             cards_[k].verbs[v].devices[m].name = cards_[k].verbs[v].devices[n].name => m = n
    BY <1>1, <1>4, SystemKnown, VerbFound DEF CardKnown
  <1>6. \A m, n \in DOMAIN Inventory!UcmDevicesOf(cards_[k]) :
          Inventory!UcmDevicesOf(cards_[k])[m].name = Inventory!UcmDevicesOf(cards_[k])[n].name => m = n
    BY <1>5 DEF Inventory!UcmDevicesOf
  <1> QED  BY <1>1, <1>2, <1>3, <1>6 DEF Inventory!PcmOf

LEMMA DeviceParts ==
    ASSUME NEW e
    PROVE  /\ Inventory!DeviceOf(e).type = e.role
           /\ e.role \in BusRoles =>
                /\ Inventory!DeviceOf(e).address.card = e.card
                /\ Inventory!DeviceOf(e).address.ucm_device = e.ucm_device
                /\ Inventory!DeviceOf(e).address.pcm = IF e.ucm_device = None THEN e.pcm ELSE None
  <1> DEFINE address == [card |-> e.card, ucm_device |-> e.ucm_device,
                         pcm |-> IF e.ucm_device = None THEN e.pcm ELSE None]
  <1>1. /\ address.card = e.card /\ address.ucm_device = e.ucm_device
        /\ address.pcm = IF e.ucm_device = None THEN e.pcm ELSE None
    OBVIOUS
  <1>2. Inventory!DeviceOf(e) = [type |-> e.role, address |-> IF e.role \notin BusRoles THEN None ELSE address]
    BY DEF Inventory!DeviceOf, BusRoles
  <1> HIDE DEF address
  <1> QED  BY <1>1, <1>2

LEMMA DevicesHeld ==
    ASSUME InventoryInv
    PROVE  DevicesLead
  <1> SUFFICES ASSUME stage = "ready" PROVE DevicesLead
    BY DEF DevicesLead, Inventory!DevicesLead, Inventory!Ready
  <1> DEFINE es == endpoints_
             n == Len(es)
             Leads(d) == Inventory!FindByDevice(d)
             Same(d) == {i \in DOMAIN es : es[i].device = d}
             Typed(d) == {i \in DOMAIN es : ~Inventory!IsAttached(es[i]) /\ es[i].device.type = d.type}
  <1>1. /\ n \in Nat /\ DOMAIN es = 1..n /\ CardsInv /\ RolesApart(es)
        /\ \A i \in 1..n : es[i] \in Inventory!Endpoints /\ EndpointSound(es[i]) /\ PathSound(es[i])
                           /\ es[i].device = Inventory!DeviceOf(es[i])
    BY LenProperties DEF InventoryInv, EndpointsInv, RolesInv, Early, PortsInv
  <1>2. \A i \in 1..n : es[i].device.type = es[i].role
    BY <1>1, DeviceParts
  <1>3. ASSUME NEW i \in 1..n, NEW j \in 1..n, es[i].device = es[j].device
        PROVE  es[i].card = es[j].card /\ es[i].pcm = es[j].pcm /\ es[i].is_input = es[j].is_input
    <2>1. es[i].role = es[j].role
      BY <1>2, <1>3
    <2>2. CASE es[i].role \notin BusRoles
      BY <1>1, <2>1, <2>2 DEF RolesApart
    <2>3. CASE es[i].role \in BusRoles
      <3>1. es[j].role \in BusRoles
        BY <2>1, <2>3
      <3>2. /\ es[i].card = es[j].card /\ es[i].ucm_device = es[j].ucm_device
            /\ es[i].ucm_device = None => es[i].pcm = es[j].pcm
        <4> DEFINE x == es[i]
                   y == es[j]
        <4>1. Inventory!DeviceOf(x) = Inventory!DeviceOf(y) /\ x.role \in BusRoles /\ y.role \in BusRoles
          BY <1>1, <1>3, <2>3, <3>1
        <4> HIDE DEF x, y
        <4>2. /\ x.card = y.card /\ x.ucm_device = y.ucm_device
              /\ x.ucm_device = None => x.pcm = y.pcm
          BY <4>1, DeviceParts
        <4> QED  BY <4>2 DEF x, y
      <3>3. es[i].is_input <=> es[j].is_input
        BY <1>1, <2>1 DEF EndpointSound
      <3>4. es[i].is_input = es[j].is_input
        BY <1>1, <3>3 DEF Inventory!Endpoints
      <3>5. es[i].ucm_device # None => es[i].pcm = es[j].pcm
        BY <1>1, <3>2, <3>3, NamesOnePath
      <3> QED  BY <3>2, <3>4, <3>5
    <2> QED  BY <2>2, <2>3
  <1>4. \A d : /\ Same(d) # {} => Leads(d) \in Same(d)
               /\ Same(d) = {} /\ Typed(d) # {} => Leads(d) \in Typed(d)
    <2> TAKE d
    <2>1. Leads(d) = IF Same(d) # {} THEN Inventory!Min(Same(d))
                     ELSE IF Typed(d) # {} THEN Inventory!Min(Typed(d)) ELSE 0
      BY DEF Inventory!FindByDevice
    <2>2. Same(d) \in SUBSET Nat /\ Typed(d) \in SUBSET Nat
      BY <1>1
    <2> HIDE DEF Same, Typed, Leads
    <2> QED  BY <2>1, <2>2, FirstOf
  <1>5. ASSUME NEW i \in 1..n
        PROVE  /\ Leads(es[i].device) # 0 /\ Leads(es[i].device) \in 1..n
               /\ es[Leads(es[i].device)].device = es[i].device
    <2>1. i \in Same(es[i].device)
      BY <1>1
    <2>2. Leads(es[i].device) \in Same(es[i].device)
      BY <1>4, <2>1
    <2> HIDE DEF Leads
    <2> QED  BY <1>1, <2>2
  <1>6. ASSUME NEW i \in 1..n, ~Inventory!IsAttached(es[i]), NEW address
        PROVE  Leads([type |-> es[i].role, address |-> address]) = i
    <2> DEFINE d == [type |-> es[i].role, address |-> address]
    <2>1. \A j \in 1..n : es[j].role = es[i].role => j = i
      BY <1>1, <1>6 DEF RolesApart, Inventory!IsAttached, Inventory!ExternalRoles, BusRoles
    <2>2. d.type = es[i].role
      OBVIOUS
    <2> HIDE DEF d
    <2>3. \A j \in Same(d) : j = i
      BY <1>1, <1>2, <2>1, <2>2
    <2>4. \A j \in Typed(d) : j = i
      BY <1>1, <1>2, <2>1, <2>2
    <2>5. i \in Typed(d)
      BY <1>1, <1>2, <1>6, <2>2
    <2> HIDE DEF Same, Typed, Leads
    <2>6. Leads(d) = i
      BY <1>4, <2>3, <2>4, <2>5
    <2> QED  BY <2>6 DEF d
  <1> HIDE DEF Leads
  <1>7. ASSUME NEW i \in 1..n
        PROVE  /\ Leads(es[i].device) # 0
               /\ es[Leads(es[i].device)].card = es[i].card /\ es[Leads(es[i].device)].pcm = es[i].pcm
               /\ es[Leads(es[i].device)].is_input = es[i].is_input
    BY <1>3, <1>5
  <1> QED  BY <1>1, <1>6, <1>7 DEF DevicesLead, Inventory!DevicesLead, Leads

LEMMA DefaultsHeld ==
    ASSUME InventoryInv
    PROVE  DefaultsAndTemplates
  <1> SUFFICES ASSUME stage = "ready" PROVE DefaultsAndTemplates
    BY DEF DefaultsAndTemplates, Inventory!DefaultsAndTemplates, Inventory!Ready
  <1> DEFINE es == endpoints_
  <1>1. /\ RolesApart(es) /\ SpeakersNear(es) /\ HeadsetServed(es) /\ Inventory!Has(es, "Speaker") /\ NullSpeaker(es)
    BY DEF InventoryInv, RolesInv, Early
  <1>2. \A role : /\ Inventory!WithRole(role) = {i \in DOMAIN es : es[i].role = role}
                  /\ Inventory!WithRole(role) # {} <=> Inventory!Has(es, role)
    BY DEF Inventory!WithRole, Inventory!Has
  <1>3. Inventory!ToSet(es) = {es[i] : i \in DOMAIN es} /\ Inventory!ToSet(cards_) = {cards_[k] : k \in DOMAIN cards_}
    BY DEF Inventory!ToSet
  <1>4. \A role \in Inventory!Roles \ {"BusOut", "BusIn"} : \A i, j \in Inventory!WithRole(role) : i = j
    BY <1>1, <1>2 DEF RolesApart, BusRoles
  <1>5. ASSUME NEW i \in Inventory!WithRole("Speaker")
        PROVE  /\ ~es[i].is_hdmi_head
               /\ \/ Inventory!OnPrimary(es[i])
                  \/ \A e \in Inventory!ToSet(es) : Inventory!OnPrimary(e) => Inventory!IsQuiet(e)
               /\ es[i].is_null => \A e \in Inventory!ToSet(es) : e.is_null \/ Inventory!IsQuiet(e)
    BY <1>1, <1>2, <1>3 DEF SpeakersNear, NullSpeaker
  <1>6. ASSUME NEW c \in Inventory!ToSet(cards_), c.index \in ucm_managers_,
               NEW d \in Inventory!ToSet(Inventory!UcmDevicesOf(c)), NEW playback \in BOOLEAN,
               Inventory!HasPath(c, d, playback), Inventory!ClassifyUcmDevice(d.words, playback) \in Inventory!ExternalRoles
        PROVE  Inventory!WithRole(Inventory!ClassifyUcmDevice(d.words, playback)) # {}
    <2>1. PICK k \in DOMAIN cards_ : c = cards_[k]
      BY <1>3
    <2>2. PICK n \in DOMAIN Inventory!UcmDevicesOf(c) : d = Inventory!UcmDevicesOf(c)[n]
      BY DEF Inventory!ToSet
    <2>3. TemplatesInv /\ Done(k, n)
      BY DEF InventoryInv, Done
    <2>4. Inventory!Has(es, Inventory!ClassifyUcmDevice(d.words, playback))
      BY <1>6, <2>1, <2>2, <2>3 DEF TemplatesInv, Inventory!Has
    <2> QED  BY <1>2, <2>4
  <1>7. Inventory!WithRole("HeadsetMic") # {} => Inventory!WithRole("Mic") # {}
    BY <1>1, <1>2 DEF HeadsetServed
  <1>8. Inventory!WithRole("Speaker") # {}
    BY <1>1, <1>2
  <1> QED
    BY <1>4, <1>5, <1>6, <1>7, <1>8 DEF DefaultsAndTemplates, Inventory!DefaultsAndTemplates

\* Whatever cards a product has, whatever its properties ask for and its PCM
\* devices report, the ports that are offered can be used (DeviceInventory.cpp,
\* ConfigurationBuilder.cpp and populateConnectedDevicePort() of ModuleMainline).
THEOREM PortsSoundAlways == MCSpec => []PortsSound
  <1>1. InventoryInv => PortsSound
    <2> SUFFICES ASSUME InventoryInv PROVE PortsSound
      OBVIOUS
    <2>1. OfferedIsServed
      <3>1. CASE stage = "ready"
        BY <3>1 DEF InventoryInv, PortsInv
      <3>2. CASE stage # "ready"
        BY <3>2 DEF OfferedIsServed, Inventory!OfferedIsServed, Inventory!Ready
      <3> QED  BY <3>1, <3>2
    <2> QED  BY <2>1, DevicesHeld, DefaultsHeld DEF PortsSound
  <1> QED  BY <1>1, InventoryInvariant, PTL
=============================================================================
