--------------------------- MODULE AudioInventory ---------------------------
(***************************************************************************)
(* What the audio HAL finds when it starts: the sound cards                *)
(* (alsa/AlsaCard.cpp) and their UCM profiles (ucm/UcmManager.cpp), one    *)
(* endpoint per path (routing/DeviceInventory.cpp), the ports and routes   *)
(* of the module (routing/ConfigurationBuilder.cpp); and the profiles of   *)
(* the external devices connected later (ModuleMainline.cpp).              *)
(*                                                                         *)
(* Cards appear while the HAL enumerates or waits for them, UCM profiles   *)
(* may be unusable and devices may refuse to be probed.  The loops of      *)
(* Discover() over cards, paths and endpoints are actions that do one      *)
(* element each.                                                           *)
(***************************************************************************)
EXTENDS Integers, Sequences, SequencesExt, FiniteSets, FiniteSetsExt

CONSTANTS
    Systems,            \* the sound cards a product may have, each a sequence by index
    Configurations,     \* the properties of the product, see Properties
    PcmNames,           \* names of PCM devices, [card, device]
    UcmNames,           \* names of UCM devices
    Reports,            \* what a PCM device may report, None when it does not open
    Probes,             \* the reports of all PCM devices, functions of name and direction
    None

\* A card is [index, usb, pcms, verbs]; pcms is a sequence of [device, kind,
\* playback, capture] and verbs one of [name, devices], each UCM device being
\* [name, words, playback, capture, playback_priority, capture_priority,
\* playback_channels, capture_channels] with the keywords of its name.  A PCM
\* name that is no plain "hw:" name has the card None.
\* Properties are [cards, wait, primary_card, include_usb, null_mic, ucm_enabled,
\* ucm_verb, mixer_init, rates, bits, multichannel]: cards is None when the list
\* is empty, wait a number of polls, rates and bits are functions of the card.

VARIABLES
    system,             \* the cards of this product
    props, stage,
    at, pos,            \* where the loop of the stage is, and its inner loop
    polls, answered,        \* polls of the wait, what EnumerateCards() found
    cards_, primary_card_, ucm_managers_, mixed, endpoints_,
    config,             \* the module's configuration, None until it is built
    external            \* the port connected last, with its profiles

vars == <<system, props, stage, at, pos, polls, answered, cards_, primary_card_,
          ucm_managers_, mixed, endpoints_, config, external>>

selection == <<system, props, polls, answered, cards_, primary_card_>>
result == <<config, external>>

-----------------------------------------------------------------------------
(* Roles and capabilities.                                                 *)

ExternalRoles == {"Headphones", "Headset", "LineOut", "Hdmi", "Spdif", "HeadsetMic"}
Roles == ExternalRoles \cup {"Speaker", "Earpiece", "Mic", "BusOut", "BusIn"}
IsAttached(e) == e.role \notin ExternalRoles

Width == [u8 |-> 8, s16 |-> 16, s24_3 |-> 24, s24 |-> 24, s32 |-> 32, float |-> 32]
Formats == {"u8", "s16", "s24_3", "s24", "s32", "float"}
StandardSampleRates == {8000, 11025, 12000, 16000, 22050, 24000, 32000, 44100, 48000, 64000,
                        88200, 96000, 176400, 192000}
Capabilities ==
    [formats : SUBSET Formats, rates : SUBSET Nat, min_channels : Nat, max_channels : Nat]

FallbackCapabilities ==
    [formats |-> {"s16"}, rates |-> {44100, 48000}, min_channels |-> 1, max_channels |-> 2]

\* A device that does not open, or has nothing Android understands, has none.
QueryCapabilities(report) ==
    IF \/ report = None \/ report.max_channels = 0
       \/ report.formats \cap Formats = {} \/ report.rates \cap StandardSampleRates = {}
    THEN None
    ELSE [report EXCEPT !.formats = @ \cap Formats, !.rates = @ \cap StandardSampleRates]

\* What the plug layer of alsa-lib can always serve.
AugmentCapabilities(c) ==
    [c EXCEPT !.formats = @ \cup {"s16"}, !.rates = @ \cup {44100, 48000},
              !.min_channels = 1, !.max_channels = IF @ < 2 THEN 2 ELSE @]

\* The channel count of the UCM device, when it names one.
FixChannels(c, fixed) ==
    LET max == IF c.max_channels = 0 \/ fixed < c.max_channels THEN fixed ELSE c.max_channels
    IN IF fixed = 0 THEN c
       ELSE [c EXCEPT !.max_channels = max, !.min_channels = IF @ < max THEN @ ELSE max]

\* A restriction that would leave nothing is ignored.
KeepExactly(all, kept) == kept
KeepSome(all, kept) == IF kept = {} THEN all ELSE kept
FilterEndpointCapabilities(c, rates, bits) ==
    [c EXCEPT
        !.rates = IF rates = {} THEN @ ELSE KeepSome(@, @ \cap rates),
        !.formats = IF bits = {} THEN @ ELSE KeepSome(@, {f \in @ : Width[f] \in bits})]

-----------------------------------------------------------------------------
PcmDeviceInfos == [device : Nat, kind : STRING, playback : BOOLEAN, capture : BOOLEAN]
UcmDeviceInfos ==
    [name : UcmNames, words : SUBSET STRING, playback : PcmNames \cup {None},
     capture : PcmNames \cup {None}, playback_priority : Int, capture_priority : Int,
     playback_channels : Nat, capture_channels : Nat]
Verbs == [name : STRING, devices : Seq(UcmDeviceInfos)]
Cards == [index : Nat, usb : BOOLEAN, pcms : Seq(PcmDeviceInfos), verbs : Seq(Verbs)]

Addresses == [card : Int, ucm_device : UcmNames \cup {None}, pcm : PcmNames \cup {None}]
AudioDevices == [type : Roles, address : Addresses \cup {None}]
Endpoints ==
    [card : Int, role : Roles, is_input : BOOLEAN, pcm : PcmNames \cup {None},
     ucm_device : UcmNames \cup {None}, is_hdmi_head : BOOLEAN, extra_hdmi : BOOLEAN,
     priority : Int, fixed_channels : Nat, caps : Capabilities, is_null : BOOLEAN,
     device : AudioDevices \cup {None}, is_default : BOOLEAN, port_id : Nat]

Stages == {"cards", "select", "candidates", "filter", "sort", "null", "finalize", "build", "ready"}

TypeOK ==
    /\ stage \in Stages /\ endpoints_ \in Seq(Endpoints)
    /\ primary_card_ \in {-1} \cup {c.index : c \in ToSet(system)}

Init ==
    /\ system \in Systems /\ props \in Configurations
    /\ stage = "cards" /\ at = 1 /\ pos = 0 /\ polls = 0 /\ answered = <<>>
    /\ cards_ = <<>> /\ primary_card_ = -1 /\ ucm_managers_ = {} /\ mixed = {}
    /\ endpoints_ = <<>> /\ config = None /\ external = None

\* Element `from` of a sequence moved forward to `to`.
Moved(s, from, to) ==
    [i \in DOMAIN s |-> IF i = to THEN s[from] ELSE IF to < i /\ i <= from THEN s[i - 1] ELSE s[i]]

-----------------------------------------------------------------------------
(* SelectCards().                                                          *)

\* EnumerateCards() asks for the next card; one that has not appeared yet, or does
\* not answer, is left out.
QueryCard ==
    /\ stage = "cards" /\ at \in DOMAIN system /\ at' = at + 1
    /\ answered' \in {answered, Append(answered, system[at])}
    /\ UNCHANGED <<system, props, stage, pos, polls, cards_, primary_card_,
                   ucm_managers_, mixed, endpoints_, result>>

Enumerated == stage = "cards" /\ at > Len(system)
AllFound == \A i \in props.cards : \E c \in ToSet(answered) : c.index = i
Waits == props.cards # None /\ ~AllFound /\ polls < props.wait

\* One more poll of the requested cards.
Poll ==
    /\ Enumerated /\ Waits
    /\ polls' = polls + 1 /\ at' = 1 /\ answered' = <<>>
    /\ UNCHANGED <<system, props, stage, pos, cards_, primary_card_,
                   ucm_managers_, mixed, endpoints_, result>>

EndWait ==
    /\ Enumerated /\ ~Waits
    /\ stage' = "select" /\ at' = 1
    /\ UNCHANGED <<pos, selection, ucm_managers_, mixed, endpoints_, result>>

Selected(c) == IF props.cards # None THEN c.index \in props.cards ELSE ~c.usb \/ props.include_usb

SelectCard ==
    /\ stage = "select" /\ at \in DOMAIN answered /\ at' = at + 1
    /\ cards_' = IF Selected(answered[at]) THEN Append(cards_, answered[at]) ELSE cards_
    /\ UNCHANGED <<system, props, stage, pos, polls, answered, primary_card_,
                   ucm_managers_, mixed, endpoints_, result>>

HasAnalogPlayback(c) == \E p \in ToSet(c.pcms) : p.playback /\ p.kind = "analog"
HasPlayback(c) == \E p \in ToSet(c.pcms) : p.playback
HasCapture(c) == \E p \in ToSet(c.pcms) : p.capture

\* The requested card, or the first with an analog output, any output, any input.
PrimaryPosition ==
    LET asked == {i \in DOMAIN cards_ : cards_[i].index = props.primary_card}
        analog == {i \in DOMAIN cards_ : HasAnalogPlayback(cards_[i])}
        output == {i \in DOMAIN cards_ : HasPlayback(cards_[i])}
        input == {i \in DOMAIN cards_ : HasCapture(cards_[i])}
        candidates == IF asked # {} THEN asked ELSE IF analog # {} THEN analog
                      ELSE IF output # {} THEN output ELSE input
    IN IF candidates = {} THEN 0 ELSE Min(candidates)

\* The primary card goes to the front; the lists of the function are gone.
SelectPrimary ==
    /\ stage = "select" /\ at > Len(answered)
    /\ IF PrimaryPosition = 0 THEN UNCHANGED <<primary_card_, cards_>>
       ELSE /\ primary_card_' = cards_[PrimaryPosition].index
            /\ cards_' = Moved(cards_, PrimaryPosition, 1)
    /\ stage' = "candidates" /\ at' = 1 /\ answered' = <<>> /\ polls' = 0
    /\ UNCHANGED <<system, props, pos, ucm_managers_, mixed, endpoints_, result>>

-----------------------------------------------------------------------------
(* CollectCandidates(): the paths of one card after the other.             *)

Collecting == stage = "candidates" /\ at \in DOMAIN cards_

\* UcmManager::Open() and SelectVerb(): the preferred verb or the first; the
\* profile may not open and the verb may not be set.  Without UCM the mixer of
\* the card is initialised.
VerbOf(card) ==
    LET wanted == {v \in DOMAIN card.verbs : card.verbs[v].name = props.ucm_verb}
    IN IF wanted = {} THEN 1 ELSE Min(wanted)

OpenCard ==
    /\ Collecting /\ pos = 0 /\ pos' = 1
    /\ LET card == cards_[at]
       IN \/ /\ props.ucm_enabled /\ card.verbs # <<>>
             /\ ucm_managers_' = ucm_managers_ \cup {card.index} /\ UNCHANGED mixed
          \/ /\ mixed' = IF props.mixer_init THEN mixed \cup {card.index} ELSE mixed
             /\ UNCHANGED ucm_managers_
    /\ UNCHANGED <<stage, at, selection, endpoints_, result>>

Path(card, role, playback, pcm, ucm_device, priority, channels) ==
    [card |-> card.index, role |-> role, is_input |-> ~playback, pcm |-> pcm,
     ucm_device |-> ucm_device, is_hdmi_head |-> role = "Hdmi", extra_hdmi |-> FALSE,
     priority |-> priority, fixed_channels |-> channels, caps |-> FallbackCapabilities,
     is_null |-> FALSE, device |-> None, is_default |-> FALSE, port_id |-> 0]

\* The keywords in the name of a UCM device give its role; "^" marks one that has
\* to start the name.
Says(words, keys) == words \cap keys # {}
ClassifyUcmDevice(words, playback) ==
    IF playback
    THEN IF Says(words, {"earpiece", "handset", "receiver"}) THEN "Earpiece"
         ELSE IF Says(words, {"^speaker", "spk"}) THEN "Speaker"
         ELSE IF "headphone" \in words THEN "Headphones"
         ELSE IF "headset" \in words THEN "Headset"
         ELSE IF Says(words, {"hdmi", "displayport", "^dp"}) THEN "Hdmi"
         ELSE IF Says(words, {"spdif", "iec958", "digital", "optical", "toslink"}) THEN "Spdif"
         ELSE IF Says(words, {"lineout", "^line", "aux"}) THEN "LineOut" ELSE "BusOut"
    ELSE IF Says(words, {"headset", "headphonemic", "hsmic"}) THEN "HeadsetMic"
         ELSE IF Says(words, {"line", "aux", "spdif", "iec958", "hdmi", "usb", "monitor", "loopback"})
              THEN "BusIn"
         ELSE IF Says(words, {"mic", "capture", "handset"}) THEN "Mic" ELSE "BusIn"

\* A name of another card, or that is no plain "hw:" name, is trusted.
PcmExists(card, name, playback) ==
    name.card = card.index =>
        \E p \in ToSet(card.pcms) : p.device = name.device /\ (IF playback THEN p.playback ELSE p.capture)

\* The playback or the capture path of a UCM device, where it has one.
PcmOf(d, playback) == IF playback THEN d.playback ELSE d.capture
HasPath(card, d, playback) == PcmOf(d, playback) # None /\ PcmExists(card, PcmOf(d, playback), playback)
UcmPath(card, d, playback) ==
    IF HasPath(card, d, playback)
    THEN <<Path(card, ClassifyUcmDevice(d.words, playback), playback, PcmOf(d, playback), d.name,
                IF playback THEN d.playback_priority ELSE d.capture_priority,
                IF playback THEN d.playback_channels ELSE d.capture_channels)>>
    ELSE <<>>

UcmDevicesOf(card) == card.verbs[VerbOf(card)].devices

CollectFromUcm ==
    /\ Collecting /\ cards_[at].index \in ucm_managers_
    /\ LET card == cards_[at]
       IN /\ pos \in DOMAIN UcmDevicesOf(card)
          /\ endpoints_' = endpoints_ \o UcmPath(card, UcmDevicesOf(card)[pos], TRUE)
                                      \o UcmPath(card, UcmDevicesOf(card)[pos], FALSE)
    /\ pos' = pos + 1
    /\ UNCHANGED <<stage, at, selection, ucm_managers_, mixed, result>>

\* A headset output on the path of the best headphones, when the card has a
\* headset microphone and no headset output of its own.
WithHeadset(card, es) ==
    LET own == {i \in DOMAIN es : es[i].card = card.index}
        phones == {i \in own : es[i].role = "Headphones"}
        best == {i \in phones : \A j \in phones : es[j].priority <= es[i].priority}
    IN IF phones # {} /\ (\E i \in own : es[i].role = "HeadsetMic") /\ (\A i \in own : es[i].role # "Headset")
       THEN Append(es, [es[Min(best)] EXCEPT !.role = "Headset"]) ELSE es

NextCard == at' = at + 1 /\ pos' = 0

AddHeadset ==
    /\ Collecting /\ cards_[at].index \in ucm_managers_ /\ pos > Len(UcmDevicesOf(cards_[at]))
    /\ endpoints_' = WithHeadset(cards_[at], endpoints_)
    /\ NextCard
    /\ UNCHANGED <<stage, selection, ucm_managers_, mixed, result>>

\* Without a profile the kind of each PCM device decides; the first analog ones
\* are the speaker and the microphone.
FirstAnalog(card, i, playback) ==
    /\ card.pcms[i].kind = "analog"
    /\ \A j \in 1..i - 1 : card.pcms[j].kind # "analog"
        \/ ~(IF playback THEN card.pcms[j].playback ELSE card.pcms[j].capture)

PcmRole(card, i, playback) ==
    LET kind == card.pcms[i].kind
    IN IF playback /\ kind = "hdmi" THEN "Hdmi"
       ELSE IF playback /\ kind = "spdif" THEN "Spdif"
       ELSE IF FirstAnalog(card, i, playback) THEN IF playback THEN "Speaker" ELSE "Mic"
       ELSE IF playback THEN "LineOut" ELSE "BusIn"

PcmPath(card, i, playback) ==
    LET p == card.pcms[i]
    IN IF (IF playback THEN p.playback ELSE p.capture)
       THEN <<Path(card, PcmRole(card, i, playback), playback,
                   [card |-> card.index, device |-> p.device], None, 1000 - p.device, 0)>>
       ELSE <<>>

CollectFromPcmDevices ==
    /\ Collecting /\ cards_[at].index \notin ucm_managers_
    /\ pos \in DOMAIN cards_[at].pcms /\ pos' = pos + 1
    /\ endpoints_' = endpoints_ \o PcmPath(cards_[at], pos, TRUE) \o PcmPath(cards_[at], pos, FALSE)
    /\ UNCHANGED <<stage, at, selection, ucm_managers_, mixed, result>>

EndOfPcmDevices ==
    /\ Collecting /\ cards_[at].index \notin ucm_managers_
    /\ pos > Len(cards_[at].pcms)
    /\ NextCard
    /\ UNCHANGED <<stage, selection, ucm_managers_, mixed, endpoints_, result>>

-----------------------------------------------------------------------------
\* A device that can not be probed is taken for a basic one.
Probed(e, probe) ==
    LET found == QueryCapabilities(probe[<<e.pcm, e.is_input>>])
    IN AugmentCapabilities(FixChannels(IF found = None THEN FallbackCapabilities ELSE found,
                                       e.fixed_channels))

ProbeCapabilities ==
    /\ stage = "candidates" /\ at > Len(cards_) /\ stage' = "filter"
    /\ \E probe \in Probes :
        endpoints_' = [i \in DOMAIN endpoints_ |->
                        [endpoints_[i] EXCEPT !.caps = Probed(endpoints_[i], probe)]]
    /\ UNCHANGED <<at, pos, selection, ucm_managers_, mixed, result>>

Filtered(c, card) == FilterEndpointCapabilities(c, props.rates[card], props.bits[card])

FilterCapabilities ==
    /\ stage = "filter" /\ stage' = "sort" /\ at' = 1
    /\ endpoints_' = [i \in DOMAIN endpoints_ |->
                        [endpoints_[i] EXCEPT !.caps = Filtered(@, endpoints_[i].card)]]
    /\ UNCHANGED <<pos, selection, ucm_managers_, mixed, result>>

-----------------------------------------------------------------------------
(* AssignRoles().                                                          *)

OnPrimary(e) == e.card = primary_card_

\* Primary card first, then higher priority, then the order of discovery.
Before(a, b) == IF OnPrimary(a) # OnPrimary(b) THEN OnPrimary(a) ELSE a.priority > b.priority
SortEndpoint ==
    /\ stage = "sort" /\ at \in DOMAIN endpoints_ /\ at' = at + 1
    /\ endpoints_' = Moved(endpoints_, at,
            Min({at} \cup {i \in 1..at - 1 : Before(endpoints_[at], endpoints_[i])}))
    /\ UNCHANGED <<stage, pos, selection, ucm_managers_, mixed, result>>

\* One speaker, earpiece and mic of the primary card, and one template of each
\* external kind: the framework can connect only one device of a type.
KeepsRole(es, i) ==
    LET first == \A j \in 1..i - 1 : es[j].role # es[i].role
    IN CASE es[i].role \in {"Speaker", "Earpiece", "Mic"} -> OnPrimary(es[i]) /\ first
         [] es[i].role \in ExternalRoles -> first
         [] es[i].role \in {"BusOut", "BusIn"} -> TRUE

Demoted(es) ==
    [i \in DOMAIN es |->
        IF KeepsRole(es, i) THEN es[i]
        ELSE [es[i] EXCEPT !.role = IF es[i].is_input THEN "BusIn" ELSE "BusOut",
                           !.extra_hdmi = es[i].role = "Hdmi"]]

\* Where to look for a replacement of the default device: the primary card
\* first, then by preference, then by position; never an HDMI head.
Promotable(es, is_input, preference) ==
    {i \in DOMAIN es : es[i].is_input = is_input /\ es[i].role \in ToSet(preference) /\ ~es[i].extra_hdmi}
PromotedOf(es, is_input, preference) ==
    LET all == Promotable(es, is_input, preference)
        near == {i \in all : OnPrimary(es[i])}
        among == IF near # {} THEN near ELSE all
        choice == Min({p \in DOMAIN preference : \E i \in among : es[i].role = preference[p]})
    IN Min({i \in among : es[i].role = preference[choice]})

\* The promoted path takes the role; an external one keeps its template, for the
\* jack, and a copy takes the role.
PromoteInPlace(es, i, target) == [replaced |-> [es EXCEPT ![i].role = target], added |-> <<>>]
Promote(es, i, target) ==
    IF IsAttached(es[i]) THEN [replaced |-> [es EXCEPT ![i].role = target], added |-> <<>>]
    ELSE [replaced |-> es, added |-> <<[es[i] EXCEPT !.role = target]>>]

Has(es, role) == \E i \in DOMAIN es : es[i].role = role
Promotion(es, target, is_input, preference) ==
    IF Has(es, target) \/ Promotable(es, is_input, preference) = {}
    THEN [replaced |-> es, added |-> <<>>]
    ELSE Promote(es, PromotedOf(es, is_input, preference), target)

SpeakerPreference == <<"LineOut", "BusOut", "Headphones", "Headset", "Spdif">>
MicPreference == <<"BusIn", "HeadsetMic">>

AssignRoles ==
    /\ stage = "sort" /\ at > Len(endpoints_) /\ stage' = "null"
    /\ LET speaker == Promotion(Demoted(endpoints_), "Speaker", FALSE, SpeakerPreference)
           mic == Promotion(speaker.replaced, "Mic", TRUE, MicPreference)
       IN endpoints_' = mic.replaced \o speaker.added \o mic.added
    /\ UNCHANGED <<at, pos, selection, ucm_managers_, mixed, result>>

NullEndpoint(role, is_input) ==
    [card |-> -1, role |-> role, is_input |-> is_input, pcm |-> None, ucm_device |-> None,
     is_hdmi_head |-> FALSE, extra_hdmi |-> FALSE, priority |-> 0, fixed_channels |-> 0,
     caps |-> FallbackCapabilities, is_null |-> TRUE, device |-> None, is_default |-> FALSE,
     port_id |-> 0]

\* A speaker in any case, a microphone only on request.
AddNullEndpointsIfNeeded ==
    /\ stage = "null" /\ stage' = "finalize"
    /\ endpoints_' = endpoints_
            \o (IF Has(endpoints_, "Speaker") THEN <<>> ELSE <<NullEndpoint("Speaker", FALSE)>>)
            \o (IF Has(endpoints_, "Mic") \/ ~props.null_mic THEN <<>> ELSE <<NullEndpoint("Mic", TRUE)>>)
    /\ UNCHANGED <<at, pos, selection, ucm_managers_, mixed, result>>

\* The role stands for the device type and connection; bus ports are told apart
\* by an address made of the card and the UCM device or the PCM.
DeviceOf(e) ==
    [type |-> e.role,
     address |-> IF e.role \notin {"BusOut", "BusIn"} THEN None
                 ELSE [card |-> e.card, ucm_device |-> e.ucm_device,
                       pcm |-> IF e.ucm_device = None THEN e.pcm ELSE None]]

FinalizeEndpoints ==
    /\ stage = "finalize" /\ stage' = "build"
    /\ endpoints_' = [i \in DOMAIN endpoints_ |->
            [endpoints_[i] EXCEPT !.device = DeviceOf(endpoints_[i]),
                                  !.is_default = endpoints_[i].role \in {"Speaker", "Mic"}]]
    /\ UNCHANGED <<at, pos, selection, ucm_managers_, mixed, result>>

-----------------------------------------------------------------------------
(* BuildConfiguration(): sets of ports stand for its lists.                *)

HighResolution == {"s24", "s24_3", "s32", "float"}
IsHraRate(r) == r >= 88200

\* What all of these ports can take, within a window of channel counts.
IntersectFirst(ports, low, high) ==
    [endpoints_[Min(ports)].caps EXCEPT !.min_channels = low, !.max_channels = high]
IntersectCapabilities(ports, low, high) ==
    LET caps == {endpoints_[i].caps : i \in ports}
    IN [formats |-> {f \in Formats : ports # {} /\ \A c \in caps : f \in c.formats},
        rates |-> {r \in UNION {c.rates : c \in caps} : \A c \in caps : r \in c.rates},
        min_channels |-> Max({low} \cup {c.min_channels : c \in caps}),
        max_channels |-> Min({high} \cup {c.max_channels : c \in caps})]

HasCommonProfile(c) ==
    c.formats # {} /\ c.rates # {} /\ c.max_channels > 0 /\ c.min_channels <= c.max_channels

\* The high resolution output keeps only that; the primary output drops it as
\* long as something remains.
HraFilter(c, is_hra) ==
    LET rates == {r \in c.rates : IsHraRate(r)}
    IN IF is_hra THEN [c EXCEPT !.formats = @ \cap HighResolution, !.rates = rates]
       ELSE [c EXCEPT !.formats = KeepSome(@, @ \ HighResolution), !.rates = KeepSome(@, @ \ rates)]

OrFallback(c) == IF HasCommonProfile(c) THEN c ELSE FallbackCapabilities

\* The optional outputs are left out when their ports have nothing in common.
MixPort(name, caps, ports) == [name |-> name, caps |-> caps, devices |-> ports]
OptionalOutput(name, caps, ports) ==
    IF ports = {} \/ ~HasCommonProfile(caps) THEN {} ELSE {MixPort(name, caps, ports)}

Ports == DOMAIN endpoints_
Outputs == {i \in Ports : ~endpoints_[i].is_input}
Inputs == {i \in Ports : endpoints_[i].is_input}
Multichannel == {i \in Outputs : endpoints_[i].caps.max_channels >= 6 /\ ~endpoints_[i].is_null}
Hires == {i \in Outputs : /\ ~endpoints_[i].is_null
                          /\ \E r \in endpoints_[i].caps.rates : IsHraRate(r)
                          /\ endpoints_[i].caps.formats \cap HighResolution # {}}

\* Templates of the USB devices the framework may connect, behind mix ports whose
\* profiles are filled in then.
UsbOutputs == {Len(endpoints_) + 1, Len(endpoints_) + 2}
UsbInputs == {Len(endpoints_) + 3, Len(endpoints_) + 4}

MixPorts ==
    {MixPort("primary output", OrFallback(HraFilter(IntersectCapabilities(Outputs, 1, 2), FALSE)), Outputs)}
    \cup (IF props.multichannel
          THEN OptionalOutput("multichannel output", IntersectCapabilities(Multichannel, 3, 8), Multichannel)
          ELSE {})
    \cup OptionalOutput("hra output", HraFilter(IntersectCapabilities(Hires, 1, 2), TRUE), Hires)
    \cup (IF Inputs = {} THEN {}
          ELSE {MixPort("primary input", OrFallback(IntersectCapabilities(Inputs, 1, 2)), Inputs)})
    \cup {MixPort("usb output", None, UsbOutputs), MixPort("usb input", None, UsbInputs)}

BuildConfiguration ==
    /\ stage = "build" /\ stage' = "ready"
    /\ endpoints_' = [i \in Ports |-> [endpoints_[i] EXCEPT !.port_id = i]]
    /\ config' = [mix |-> MixPorts,
                  initial |-> {i \in Ports : IsAttached(endpoints_[i])},
                  connected |-> {i \in Ports : ~IsAttached(endpoints_[i])} \cup UsbOutputs \cup UsbInputs]
    /\ UNCHANGED <<at, pos, selection, ucm_managers_, mixed, external>>

-----------------------------------------------------------------------------
(* External devices of the running module.                                 *)

\* Endpoints are found by the device the framework names: the same device, or the
\* template of its type when the framework gave it an address.
FindByDevice(device) ==
    LET same == {i \in DOMAIN endpoints_ : endpoints_[i].device = device}
        typed == {i \in DOMAIN endpoints_ :
                    ~IsAttached(endpoints_[i]) /\ endpoints_[i].device.type = device.type}
    IN IF same # {} THEN Min(same) ELSE IF typed # {} THEN Min(typed) ELSE 0

\* Behind the one HDMI template the head that is plugged now, or else one whose
\* jack says nothing.
SelectHdmiEndpoint(i, jacks) ==
    LET heads(state) == {h \in DOMAIN jacks : jacks[h] = state}
    IN IF endpoints_[i].role # "Hdmi" THEN i
       ELSE IF heads("plugged") # {} THEN Min(heads("plugged"))
       ELSE IF heads("unknown") # {} THEN Min(heads("unknown")) ELSE i

HeadEndpoints == {i \in DOMAIN endpoints_ : endpoints_[i].is_hdmi_head}

\* populateConnectedDevicePort() of a template: the profiles of its path.
ConnectTemplate ==
    /\ stage = "ready"
    /\ \E i \in DOMAIN endpoints_, jacks \in [HeadEndpoints -> {"plugged", "unplugged", "unknown"}] :
        /\ ~IsAttached(endpoints_[i])
        /\ external' = [port |-> i, caps |-> endpoints_[SelectHdmiEndpoint(i, jacks)].caps]
    /\ UNCHANGED <<stage, at, pos, selection, ucm_managers_, mixed, endpoints_, config>>

\* MakeUsbEndpoint() probes the device the framework names and refuses it when that
\* fails; the rates and bits of a card that does not answer are not restricted.
MakeUsbEndpoint(card, report, answers) ==
    LET found == QueryCapabilities(report)
    IN IF found = None \/ ~answers THEN found ELSE Filtered(found, card)

\* The mixer of the card is initialised once it is connected.
ConnectUsb ==
    /\ stage = "ready"
    /\ \E c \in ToSet(system), is_input, answers \in BOOLEAN, report \in Reports :
        LET caps == MakeUsbEndpoint(c.index, report, answers)
        IN /\ c.usb /\ caps # None
           /\ external' = [port |-> Min(IF is_input THEN UsbInputs ELSE UsbOutputs), caps |-> caps]
           /\ mixed' = IF props.mixer_init THEN mixed \cup {c.index} ELSE mixed
    /\ UNCHANGED <<stage, at, pos, selection, ucm_managers_, endpoints_, config>>

Next ==
    \/ QueryCard \/ Poll \/ EndWait \/ SelectCard \/ SelectPrimary
    \/ OpenCard \/ CollectFromUcm \/ AddHeadset \/ CollectFromPcmDevices \/ EndOfPcmDevices
    \/ ProbeCapabilities \/ FilterCapabilities \/ SortEndpoint \/ AssignRoles
    \/ AddNullEndpointsIfNeeded \/ FinalizeEndpoints \/ BuildConfiguration
    \/ ConnectTemplate \/ ConnectUsb

Spec == Init /\ [][Next]_vars

-----------------------------------------------------------------------------
Ready == stage = "ready"
WithRole(role) == {i \in DOMAIN endpoints_ : endpoints_[i].role = role}
IsQuiet(e) == e.is_input \/ e.is_hdmi_head \/ e.role = "Earpiece"

\* Audio always has somewhere to go and jacks keep working: there is one default
\* output and at most one device of each other kind the framework can connect
\* once; the default output is no HDMI head, leaves the primary card only when
\* that has none but HDMI heads and earpieces, and is a placeholder only when no
\* card has; a headset microphone makes a default input; and every external path
\* of a profile keeps a template of its kind.
DefaultsAndTemplates ==
    Ready =>
        /\ WithRole("Speaker") # {}
        /\ \A role \in Roles \ {"BusOut", "BusIn"} : \A i, j \in WithRole(role) : i = j
        /\ \A i \in WithRole("Speaker") :
            /\ ~endpoints_[i].is_hdmi_head
            /\ \/ OnPrimary(endpoints_[i])
               \/ \A e \in ToSet(endpoints_) : OnPrimary(e) => IsQuiet(e)
            /\ endpoints_[i].is_null => \A e \in ToSet(endpoints_) : e.is_null \/ IsQuiet(e)
        /\ WithRole("HeadsetMic") # {} => WithRole("Mic") # {}
        /\ \A c \in ToSet(cards_) : c.index \in ucm_managers_ =>
            \A d \in ToSet(UcmDevicesOf(c)), playback \in BOOLEAN :
                LET role == ClassifyUcmDevice(d.words, playback)
                IN HasPath(c, d, playback) /\ role \in ExternalRoles => WithRole(role) # {}

\* "so that the framework never picks a configuration one of them does not
\* support": what a mix port offers every device port behind it can take, or it
\* is the fallback that the plug layer serves; and no port is left without a
\* profile but those of USB devices, which get theirs when the device connects.
OfferedIsServed ==
    Ready =>
        /\ \A m \in config.mix :
            IF m.caps = None THEN m.devices \subseteq config.connected \ DOMAIN endpoints_
            ELSE /\ HasCommonProfile(m.caps)
                 /\ \/ m.name \in {"primary output", "primary input"} /\ m.caps = FallbackCapabilities
                    \/ \A i \in m.devices :
                        LET c == endpoints_[i].caps
                        IN /\ m.caps.formats \subseteq c.formats /\ m.caps.rates \subseteq c.rates
                           /\ c.min_channels <= m.caps.min_channels
                           /\ m.caps.max_channels <= c.max_channels
        /\ external # None =>
            /\ external.port \in config.connected
            /\ external.caps.formats # {} /\ external.caps.rates # {} /\ external.caps.max_channels > 0

\* "Addressed ports need a stable, unique address": the device of a port leads to
\* an endpoint on the same path, and that of a template does with any address.
DevicesLead ==
    Ready => \A i \in DOMAIN endpoints_ :
        LET e == endpoints_[i]
            found == FindByDevice(e.device)
        IN /\ found # 0 /\ endpoints_[found].card = e.card /\ endpoints_[found].pcm = e.pcm
           /\ endpoints_[found].is_input = e.is_input
           /\ ~IsAttached(e) => \A x \in ToSet(endpoints_) :
                FindByDevice([type |-> e.role, address |-> x.device.address]) = i

\* No two ports have the same device.
UniqueAddresses ==
    Ready => \A i, j \in DOMAIN endpoints_ :
        endpoints_[i].device = endpoints_[j].device => i = j
=============================================================================
