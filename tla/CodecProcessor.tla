----------------------------- MODULE CodecProcessor -----------------------------
(***************************************************************************)
(* What a stream does to the units of a video format before readers get    *)
(* them (codecprocessor): parameter sets are taken out of access units,    *)
(* kept, and put in front of each key frame; RTP packets are routed to     *)
(* RTSP readers as they are, or, once one of them was too big, decoded and *)
(* encoded again.  A packet carries whole NALUs, a parameter set is sent   *)
(* at most once in an access unit.                                         *)
(***************************************************************************)
EXTENDS Naturals, SequencesExt

CONSTANTS
    Codecs,           \* among h264, h265, mpeg4Video, av1
    MaxParameters,    \* bound: versions of a parameter set that changes
    MaxNALUs          \* bound: of an access unit

ProcessorAssumption ==
    Codecs \subseteq {"h264", "h265", "mpeg4Video", "av1"} /\ MaxParameters \in Nat \ {0} /\ MaxNALUs \in Nat

VARIABLES
    codec,
    generates,    \* GenerateRTPPackets: the source writes access units, not packets
    known,        \* of each parameter set: the version in Format, 0 if none
    encoder,      \* it is there
    decoder,      \* it is there
    collected,    \* the NALUs the decoder has of the current access unit
    others,       \* hasNonRTSPReaders
    accessUnit,   \* what the source has sent of the current one
    ended,        \* that is all of it
    latest,       \* of each parameter set: the version the source sent last
    routed,       \* what RTSP readers got of it
    frame,        \* what other readers got of it
    trouble       \* what happened during it: late, switched, failed

formatVars == <<codec, generates, known, encoder, decoder>>
unitVars == <<accessUnit, ended, latest, routed, frame, trouble>>
processorVars == <<formatVars, collected, others, unitVars>>

ParametersOf(c) ==
    CASE c = "h264" -> <<"sps", "pps">>
      [] c = "h265" -> <<"vps", "sps", "pps">>
      [] c = "mpeg4Video" -> <<"config">>
      [] c = "av1" -> <<>>
Parameters == ParametersOf(codec)
Changing == {"pps", "config"}
RemuxesPackets == codec \in {"h264", "h265"}

NALU(type, version) == [type |-> type, version |-> version]
Has(nalus, type) == \E i \in DOMAIN nalus : nalus[i].type = type
ContentUpTo(nalus) ==
    LET content[i \in 0 .. Len(nalus)] ==
            IF i = 0 THEN <<>>
            ELSE IF nalus[i].type \in {"key", "other"} THEN Append(content[i - 1], nalus[i]) ELSE content[i - 1]
    IN  content
Content(nalus) == ContentUpTo(nalus)[Len(nalus)]
Noticed(versions, nalus) ==
    [p \in DOMAIN versions |->
        IF Has(nalus, p) THEN (CHOOSE n \in ToSet(nalus) : n.type = p).version ELSE versions[p]]
Complete(versions) == \A p \in DOMAIN versions : versions[p] # 0
InFront(versions) == [i \in DOMAIN Parameters |-> NALU(Parameters[i], versions[Parameters[i]])]

ProcessorInit ==
    /\ codec \in Codecs /\ generates \in BOOLEAN
    /\ known = [p \in ToSet(Parameters) |-> 0]
    /\ encoder = generates /\ decoder = FALSE /\ collected = <<>> /\ others = FALSE
    /\ accessUnit = <<>> /\ ended = FALSE /\ latest = known
    /\ routed = <<>> /\ frame = <<>> /\ trouble = {}

-----------------------------------------------------------------------------
(* What a source sends.                                                    *)

NALUs ==
    {NALU("key", 0), NALU("other", 0)}
    \cup (IF codec = "mpeg4Video" THEN {} ELSE {NALU("delimiter", 0)})
    \cup UNION {{NALU(p, v) : v \in 1 .. (IF p \in Changing THEN MaxParameters ELSE 1)} : p \in ToSet(Parameters)}

OneOfEach(nalus) ==
    \A i, j \in DOMAIN nalus : nalus[i].type = nalus[j].type /\ nalus[i].type # "other" => i = j

(* A delimiter comes first; so does the configuration of MPEG-4, in front  *)
(* of the first picture of a group, in the same packet.                    *)
Possible(nalus, begins) ==
    /\ \A i \in DOMAIN nalus : nalus[i].type \in {"delimiter", "config"} => begins /\ i = 1
    /\ codec = "mpeg4Video" =>
           /\ nalus[1].type = "config" => Len(nalus) > 1 /\ nalus[2].type = "key"
           /\ \A i \in DOMAIN nalus :
                  nalus[i].type = "key" => begins /\ (i = 1 \/ nalus[1].type = "config")

(* Of up to so many NALUs, those that may come next.                       *)
Following(length) ==
    {nalus \in SeqOf(NALUs, length) \ {<<>>} :
        /\ Len(accessUnit) + Len(nalus) <= MaxNALUs
        /\ Possible(nalus, accessUnit = <<>>) /\ OneOfEach(accessUnit \o nalus)}

(* The source sends these, the last ones of the access unit or not.        *)
Sent(nalus, last) ==
    /\ ~ended /\ accessUnit' = accessUnit \o nalus
    /\ ended' = last /\ latest' = Noticed(latest, nalus)
    /\ UNCHANGED <<codec, generates, others>>

(* The readers have taken what there was of it, the next one follows.      *)
UnitTaken ==
    /\ ended /\ ended' = FALSE
    /\ accessUnit' = <<>> /\ collected' = <<>> /\ routed' = <<>> /\ frame' = <<>> /\ trouble' = {}
    /\ UNCHANGED <<formatVars, others, latest>>

-----------------------------------------------------------------------------
(* The processor.                                                          *)

Remux(nalus, versions) ==
    (IF Has(nalus, "key") /\ Complete(versions) THEN InFront(versions) ELSE <<>>) \o Content(nalus)

ProcessUnit(nalus) ==
    /\ Sent(nalus, TRUE)
    /\ known' = Noticed(known, nalus)
    /\ frame' = Remux(nalus, known') /\ routed' = frame'
    /\ UNCHANGED <<encoder, decoder, collected, trouble>>

(* Mutant: parameter sets in packets with several NALUs are overlooked.    *)
RTPExtractParams_Single(nalus) == IF Len(nalus) = 1 THEN nalus ELSE <<>>

(* Of each packet, whether it will be decoded or not.                      *)
RTPExtractParams(nalus) == nalus

(* Only RTSP readers so far.                                               *)
PacketRouted(nalus, last) ==
    /\ ~generates /\ ~others /\ ~decoder /\ ~encoder /\ Sent(nalus, last)
    /\ known' = Noticed(known, RTPExtractParams(nalus))
    /\ routed' = routed \o nalus
    /\ UNCHANGED <<encoder, decoder, collected, frame, trouble>>

(* Mutant: packets are routed although they are encoded again.             *)
Routed_Twice(nalus, last, encodes) ==
    routed \o nalus \o (IF last /\ encodes THEN Remux(collected', known') ELSE <<>>)

(* Packets as they are, or those that are made of the access unit.         *)
Routed(nalus, last, encodes) ==
    routed \o (IF ~encodes THEN nalus ELSE IF last THEN Remux(collected', known') ELSE <<>>)

Decodes(big) == ~generates /\ (big => RemuxesPackets) /\ (others \/ decoder \/ encoder \/ big)

(* The decoder collects until the last packet of the access unit; once     *)
(* there, it stays.  A packet that is too big brings the encoder.          *)
PacketDecoded(nalus, last, big) ==
    /\ Decodes(big) /\ Sent(nalus, last)
    /\ known' = Noticed(known, RTPExtractParams(nalus))
    /\ decoder' = TRUE /\ encoder' = (encoder \/ big)
    /\ collected' = collected \o nalus
    /\ routed' = Routed(nalus, last, encoder')
    /\ frame' = IF last THEN Remux(collected', known') ELSE <<>>
    /\ trouble' = trouble \cup (IF decoder \/ accessUnit = <<>> THEN {} ELSE {"late"})
                        \cup (IF big /\ ~encoder THEN {"switched"} ELSE {})

(* An error of the decoder, which forgets what it has: the unit, with its  *)
(* packet, is not written.                                                 *)
DecodeFails(nalus, last, big) ==
    /\ Decodes(big) /\ Sent(nalus, last)
    /\ known' = Noticed(known, RTPExtractParams(nalus))
    /\ decoder' = TRUE /\ encoder' = (encoder \/ big)
    /\ collected' = <<>> /\ trouble' = trouble \cup {"failed"}
    /\ UNCHANGED <<routed, frame>>

(* The other codecs refuse packets that are too big.                       *)
PacketRefused(nalus, last) ==
    /\ ~generates /\ ~RemuxesPackets /\ Sent(nalus, last)
    /\ known' = Noticed(known, RTPExtractParams(nalus))
    /\ trouble' = trouble \cup {"failed"}
    /\ UNCHANGED <<encoder, decoder, collected, routed, frame>>

OthersComeOrGo ==
    /\ ~ended /\ others' = ~others
    /\ UNCHANGED <<formatVars, collected, unitVars>>

ProcessorNext ==
    \/ OthersComeOrGo \/ UnitTaken
    \/ generates /\ ~ended /\ \E nalus \in Following(MaxNALUs) : ProcessUnit(nalus)
    \/ ~generates /\ ~ended /\ \E nalus \in Following(2), last \in BOOLEAN :
           \/ PacketRouted(nalus, last) \/ PacketRefused(nalus, last)
           \/ \E big \in BOOLEAN : PacketDecoded(nalus, last, big) \/ DecodeFails(nalus, last, big)

-----------------------------------------------------------------------------
ProcessorTypeOK ==
    /\ codec \in Codecs /\ {generates, encoder, decoder, others, ended} \subseteq BOOLEAN
    /\ known \in [ToSet(Parameters) -> 0 .. MaxParameters] /\ latest \in [ToSet(Parameters) -> 0 .. MaxParameters]
    /\ ToSet(accessUnit) \cup ToSet(routed) \cup ToSet(frame) \cup ToSet(collected) \subseteq NALUs
    /\ trouble \subseteq {"late", "switched", "failed"}

(* A reader that begins at a key frame can decode it: the parameter sets   *)
(* the source sent last, in whatever access unit or packet, are in front,  *)
(* and nothing is missing behind unless the decoder came late or failed.   *)
KeyFramesDecodable ==
    /\ Has(frame, "key") /\ Complete(latest) => IsPrefix(InFront(latest), frame)
    /\ ended /\ frame # <<>> /\ trouble \cap {"late", "failed"} = {} => Content(frame) = Content(accessUnit)

(* RTSP readers get each NALU once, also while packets are encoded again;  *)
(* of the access unit in which that begins, some may come twice.           *)
RoutedWithoutGap ==
    LET sent == Content(accessUnit)
    IN  ended /\ "failed" \notin trouble =>
            IF "switched" \in trouble
            THEN \E i \in 0 .. Len(sent) : \E j \in 1 .. i + 1 :
                     Content(routed) = SubSeq(sent, 1, i) \o SubSeq(sent, j, Len(sent))
            ELSE Content(routed) = sent
=============================================================================
