------------------------------ MODULE MCAudio ------------------------------
(***************************************************************************)
(* The audio HALs for TLC: streams and routing (AudioStream), one PCM      *)
(* device (AudioPcm), the discovery of the cards (AudioInventory) and the  *)
(* effects of legacy libraries (LegacyEffects), one `part` per behaviour.  *)
(*                                                                         *)
(* Two streams share the UCM devices of one card and the client of one of  *)
(* them sends commands; the framework connects the speaker, a template     *)
(* with two HDMI heads, the placeholder of a missing output, a microphone, *)
(* a USB device and devices nobody knows.  The cards below cover UCM       *)
(* profiles with and without a speaker, paths a profile names but the card *)
(* lacks, several HDMI heads, HDMI only, USB, and two profiles with        *)
(* headphones and a headset microphone.                                    *)
(***************************************************************************)
EXTENDS AudioStream

CONSTANTS
    Burst, Buffer, MaxRecoverAttempts, ResumeAttempts, MaxBursts, Gone,
    Systems, Configurations, PcmNames, UcmNames, Reports, Probes,
    Instances, Commons, RejectsLater, OpenFailsLate, SharedBuffer

VARIABLES
    part,           \* "stream", "pcm", "inventory" or "effect"
    state, is_input, is_plug, queued, taken, op, result, bursts,
    system, props, stage, at, pos, polls, answered, cards_, primary_card_, ucm_managers_, mixed,
    endpoints_, config, external,
    instances_, effects, burst

\* A burst is a number of frames.
ASSUME BurstAssumption == Burst \in Nat

Device == INSTANCE AudioPcm
Inventory == INSTANCE AudioInventory
Effect == INSTANCE LegacyEffects

pcm == <<state, is_input, is_plug, queued, taken, op, result, bursts>>
inventory == <<system, props, stage, at, pos, polls, answered, cards_, primary_card_, ucm_managers_,
               mixed, endpoints_, config, external>>
effect == <<instances_, effects, burst>>
all == <<part, vars, pcm, inventory, effect>>

\* Cards differ by index, the UCM devices of a verb by name; and what a PCM device
\* may report is no mistake for a missing report.
InventoryAssumption ==
    /\ None \notin PcmNames \cup Inventory!Capabilities
    /\ Reports \subseteq
        {None} \cup [formats : SUBSET STRING, rates : SUBSET Nat, min_channels : Nat, max_channels : Nat]
    /\ \A probe \in Probes, name \in PcmNames, way \in BOOLEAN : probe[<<name, way>>] \in Reports
    /\ \A cards \in Systems :
        /\ cards \in Seq(Inventory!Cards)
        /\ \A i, j \in DOMAIN cards : cards[i].index = cards[j].index => i = j
        /\ \A i \in DOMAIN cards :
            /\ \A p \in DOMAIN cards[i].pcms :
                [card |-> cards[i].index, device |-> cards[i].pcms[p].device] \in PcmNames
            /\ \A v \in DOMAIN cards[i].verbs : \A d, e \in DOMAIN cards[i].verbs[v].devices :
                cards[i].verbs[v].devices[d].name = cards[i].verbs[v].devices[e].name => d = e

ASSUME InventoryAssumed == InventoryAssumption

-----------------------------------------------------------------------------
MCDevices == {"speaker", "hdmi", "null", "mic", "usb", "unknown"}
MCDeviceLists ==
    {<<>>, <<"speaker">>, <<"speaker", "hdmi">>, <<"null">>, <<"mic">>, <<"speaker", "unknown">>, <<"usb">>}
MCEndpoint ==
    [speaker |-> "spk", hdmi |-> "hdmi1", null |-> "none", mic |-> "mic", usb |-> None, unknown |-> None]
MCUsbEndpoint == [d \in MCDevices |-> IF d = "usb" THEN "usb" ELSE None]
MCUcmDevice ==
    [spk |-> "Speaker", hdmi1 |-> "HDMI1", hdmi2 |-> "HDMI2", none |-> None, mic |-> "Mic", usb |-> None]
MCHdmiHeads == <<"hdmi1", "hdmi2">>
MCConflicting == [u \in {"Speaker", "HDMI1", "HDMI2", "Mic"} |-> {}]

Pcm(d, k, p, c) == [device |-> d, kind |-> k, playback |-> p, capture |-> c]
Hw(c, d) == [card |-> c, device |-> d]
Ucm(n, words, p, c, priority) ==
    [name |-> n, words |-> words, playback |-> p, capture |-> c, playback_priority |-> priority,
     capture_priority |-> priority + 1, playback_channels |-> 0, capture_channels |-> 0]
HiFi(devices) == [name |-> "HiFi", devices |-> devices]

Headphones(c) == Ucm("Headphones", {"headphone"}, Hw(c, 0), None, 200)
Headset(c) == Ucm("Headset", {"headset"}, None, Hw(c, 0), 100)

\* A desktop codec, UCM profiles without and with a speaker, HDMI only, and USB.
Codec ==
    [index |-> 0, usb |-> FALSE, verbs |-> <<>>,
     pcms |-> <<Pcm(0, "analog", TRUE, TRUE), Pcm(1, "spdif", TRUE, FALSE),
                Pcm(3, "hdmi", TRUE, FALSE), Pcm(7, "hdmi", TRUE, FALSE)>>]
Laptop ==
    [index |-> 0, usb |-> FALSE,
     verbs |-> <<HiFi(<<Headphones(0), Headset(0), Ucm("HDMI1", {"hdmi"}, Hw(0, 3), None, 300),
                        Ucm("Speaker", {"^speaker"}, Hw(0, 9), None, 400)>>)>>,
     pcms |-> <<Pcm(0, "analog", TRUE, TRUE), Pcm(3, "hdmi", TRUE, FALSE)>>]
Phone ==
    [index |-> 1, usb |-> FALSE,
     verbs |-> <<[name |-> "Voice", devices |-> <<Ucm("Line", {"^line", "line"}, Hw(None, 0), None, 0)>>],
                 HiFi(<<[Ucm("Speaker", {"^speaker"}, Hw(1, 0), None, 100) EXCEPT !.playback_channels = 2],
                        Ucm("Earpiece", {"earpiece"}, Hw(1, 0), None, 100),
                        Ucm("Mic", {"mic"}, None, Hw(1, 0), 100), Headphones(1), Headset(1)>>)>>,
     pcms |-> <<Pcm(0, "analog", TRUE, TRUE)>>]
Hdmi ==
    [index |-> 1, usb |-> FALSE, verbs |-> <<>>, pcms |-> <<Pcm(3, "hdmi", TRUE, FALSE)>>]
Usb ==
    [index |-> 2, usb |-> TRUE, verbs |-> <<>>,
     pcms |-> <<Pcm(0, "analog", TRUE, TRUE), Pcm(1, "analog", TRUE, FALSE)>>]
MCSystems == {<<Codec, Usb>>, <<Codec, Phone>>, <<Laptop, Phone, Usb>>, <<Laptop, Hdmi>>}
MCPcmNames == [card : {0, 1, 2, None}, device : {0, 1, 3, 7, 9}]
MCUcmNames == {"Headphones", "Headset", "HDMI1", "Speaker", "Line", "Earpiece", "Mic"}

\* What PCM devices report: nothing, what Android does not understand, high
\* resolution stereo, and high resolution only.
MCReports ==
    {None,
     [formats |-> {"dsd"}, rates |-> {48000}, min_channels |-> 2, max_channels |-> 2],
     [formats |-> {"s16", "s24_3", "s32"}, rates |-> {5512, 48000, 96000}, min_channels |-> 2,
      max_channels |-> 2],
     [formats |-> {"s32"}, rates |-> {96000}, min_channels |-> 2, max_channels |-> 8]}
MCProbes ==
    {[x \in MCPcmNames \X BOOLEAN |->
        IF x[2] THEN input ELSE IF x[1].device \in {3, 7} THEN hdmi ELSE IF x[1].card = 0 THEN analog ELSE other] :
     input, hdmi, analog, other \in MCReports}

NoLimit == [c \in 0..2 |-> {}]
Plain ==
    [cards |-> None, wait |-> 0, primary_card |-> -1, include_usb |-> FALSE, null_mic |-> FALSE,
     ucm_enabled |-> TRUE, ucm_verb |-> "HiFi", mixer_init |-> TRUE, rates |-> NoLimit,
     bits |-> NoLimit, multichannel |-> TRUE]
Studio == [Plain EXCEPT !.include_usb = TRUE, !.rates[0] = {96000}, !.bits[0] = {32}]
MCConfigurations ==
    {Studio,
     [Plain EXCEPT !.cards = {0, 1}, !.wait = 2, !.primary_card = 1, !.null_mic = TRUE],
     [Plain EXCEPT !.ucm_verb = "Hifi", !.mixer_init = FALSE, !.rates[1] = {22050},
                   !.rates[0] = {48000}, !.multichannel = FALSE]}

\* Common parameters of an effect that takes more, as many and less than it gives.
MCCommons == {[ins |-> 1, outs |-> 2, frames |-> 2], [ins |-> 2, outs |-> 2, frames |-> 1],
              [ins |-> 2, outs |-> 1, frames |-> 2]}

-----------------------------------------------------------------------------
MCInit ==
    /\ part \in {"stream", "pcm", "inventory", "effect"}
    /\ part # "inventory" => props = Studio /\ system = <<Codec, Usb>>
    /\ part # "pcm" => is_input = FALSE
    /\ part # "stream" => inputs = {}
    /\ Init /\ Device!Init /\ Inventory!Init /\ Effect!Init

StreamNext == part = "stream" /\ Next /\ UNCHANGED <<part, pcm, inventory, effect>>
PcmNext == part = "pcm" /\ Device!Next /\ UNCHANGED <<part, vars, inventory, effect>>
InventoryNext == part = "inventory" /\ Inventory!Next /\ UNCHANGED <<part, vars, pcm, effect>>
EffectNext == part = "effect" /\ Effect!Next /\ UNCHANGED <<part, vars, pcm, inventory>>

MCNext == StreamNext \/ PcmNext \/ InventoryNext \/ EffectNext

\* Device!Fairness for the behaviours of that part.
MCFairness == WF_all(PcmNext /\ Device!Step) /\ WF_all(PcmNext /\ Device!Hardware)

MCSpec == MCInit /\ [][MCNext]_all /\ MCFairness

-----------------------------------------------------------------------------
\* The types of the four parts.
Types == TypeOK /\ Device!TypeOK /\ Inventory!TypeOK /\ Effect!TypeOK

\* A transfer that succeeds has moved every frame once and in order.
WholeBurst == Device!WholeBurst

\* A transfer returns although the device may fail for ever.
TransferReturns == part = "pcm" => Device!TransferReturns

\* One default output, one template per external kind, HDMI never the default.
DefaultsAndTemplates == Inventory!DefaultsAndTemplates

\* Every device port can take what the mix ports in front of it offer, and none is
\* left without a profile.
OfferedIsServed == Inventory!OfferedIsServed

\* The device of a port leads to the path behind it.
DevicesLead == Inventory!DevicesLead

\* "Addressed ports need a stable, unique address".
UniqueAddresses == Inventory!UniqueAddresses

\* An open effect has one legacy instance, set up as the client asked, and fills
\* the bursts it announces.
EffectsSound == Effect!ConfiguredAsAsked /\ Effect!NoLegacyLeft /\ Effect!BurstFits

\* A stream is routed to its devices and transfers with them, whole bursts at a
\* time, and its effects work with the configuration they were given
\* (AudioStream, AudioPcm, LegacyEffects).
StreamsSound ==
    RoutingHolds /\ OnConnectedDevices /\ TransfersWithDevices /\ WholeBurst /\ EffectsSound

\* The ports that are offered can be used (AudioInventory).
PortsSound == DefaultsAndTemplates /\ OfferedIsServed /\ DevicesLead
=============================================================================
