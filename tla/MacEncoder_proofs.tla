-------------------------- MODULE MacEncoder_proofs --------------------------
(***************************************************************************)
(* What holds of an encoded frame for outputs of any number of NAL units   *)
(* and any number of frames.                                               *)
(*                                                                         *)
(* The argument: of an output that is converted every prefix is good, so   *)
(* the inspection has looked at all of it (InspectsAll).  Either the two   *)
(* parameter sets of the session are put in front of a keyframe without    *)
(* any, or the output goes out as it is and brings its own in front.       *)
(***************************************************************************)
EXTENDS MacEncoder, SequenceTheorems, TLAPS

USE EncoderAssumption

NalTypes == {"slice", "idr", "sps", "pps"}

LEMMA OutputTypes ==
  ASSUME NEW nals \in Outputs
  PROVE  /\ nals \in Seq(Nal)
         /\ Types(nals) \in Seq(NalTypes) /\ Len(Types(nals)) = Len(nals)
         /\ WholeSets(Types(nals))
  <1>1. nals \in Seq(Nal)
    BY DEF Outputs, BoundedSeq, SeqOf
  <1>2. Types(nals) \in [1 .. Len(nals) -> NalTypes] /\ Len(nals) \in Nat
    <2>1. Len(nals) \in Nat /\ \A i \in 1 .. Len(nals) : nals[i] \in Nal
      BY <1>1
    <2>2. \A nal \in Nal : nal.type \in NalTypes
      BY DEF Nal, NalTypes
    <2>3. \A i \in 1 .. Len(nals) : nals[i].type \in NalTypes
      BY <2>1, <2>2
    <2> QED
      BY <2>1, <2>3 DEF Types
  <1>3. Types(nals) \in Seq(NalTypes) /\ Len(Types(nals)) = Len(nals)
    BY <1>2
  <1> QED
    BY <1>1, <1>3 DEF Outputs

\* What is converted has been inspected to its end.
LEMMA InspectsAll ==
  ASSUME NEW nals, ~Faulty(nals)
  PROVE  InspectedTypes(nals) = Types(nals)
  BY DEF InspectedTypes, UpToFault

\* Both sets stand before the slice at i.
SetsBefore(types, i) ==
  /\ Occurs("sps", SubSeq(types, 1, i - 1))
  /\ Occurs("pps", SubSeq(types, 1, i - 1))

\* Two sets at the front are before every slice.
LEMMA FrontSets ==
  ASSUME NEW types \in Seq(NalTypes), Len(types) >= 2, types[1] = "sps", types[2] = "pps",
         NEW i \in 1 .. Len(types), types[i] = "idr"
  PROVE  SetsBefore(types, i)
  <1>1. i >= 3
    <2>1. i # 1 /\ i # 2
      OBVIOUS
    <2> QED
      BY <2>1
  <1> DEFINE before == SubSeq(types, 1, i - 1)
  <1>2. /\ Len(before) = i - 1
        /\ before[1] = types[1] /\ before[2] = types[2]
    BY <1>1, SubSeqProperties
  <1> HIDE DEF before
  <1>3. 1 \in 1 .. Len(before) /\ 2 \in 1 .. Len(before)
    BY <1>1, <1>2
  <1>4. Occurs("sps", before) /\ Occurs("pps", before)
    BY <1>2, <1>3 DEF Occurs
  <1> QED
    BY <1>4 DEF before, SetsBefore

-----------------------------------------------------------------------------
\* The bytes of a frame, with what the two flags are to say of them.
Described(bytes, isKeyframe, hasParameterSets) ==
  /\ bytes \in Seq(NalTypes)
  /\ isKeyframe \in BOOLEAN /\ hasParameterSets \in BOOLEAN
  /\ isKeyframe <=> Occurs("idr", bytes)
  /\ hasParameterSets <=> Occurs("sps", bytes) \/ Occurs("pps", bytes)
  /\ \A i \in 1 .. Len(bytes) : bytes[i] = "idr" => SetsBefore(bytes, i)

\* An output that needs nothing in front.
LEMMA AsItIs ==
  ASSUME NEW types \in Seq(NalTypes), WholeSets(types),
         Occurs("idr", types) => Occurs("sps", types) \/ Occurs("pps", types)
  PROVE  Described(types, Occurs("idr", types),
                   Occurs("sps", types) \/ Occurs("pps", types))
  <1>1. ASSUME NEW i \in 1 .. Len(types), types[i] = "idr"
        PROVE  SetsBefore(types, i)
    <2>1. Occurs("sps", types) \/ Occurs("pps", types)
      BY <1>1 DEF Occurs
    <2>2. Len(types) >= 2 /\ types[1] = "sps" /\ types[2] = "pps"
      BY <2>1 DEF WholeSets
    <2> QED
      BY <1>1, <2>2, FrontSets
  <1>2. Occurs("idr", types) \in BOOLEAN
        /\ (Occurs("sps", types) \/ Occurs("pps", types)) \in BOOLEAN
    BY DEF Occurs
  <1> QED
    BY <1>1, <1>2 DEF Described

\* A keyframe without parameter sets, behind those of the session.
LEMMA Prefixed ==
  ASSUME NEW types \in Seq(NalTypes), Occurs("idr", types)
  PROVE  Described(DescriptionSets \o types, TRUE, TRUE)
  <1> DEFINE bytes == DescriptionSets \o types
  <1>0. /\ DescriptionSets \in Seq(NalTypes) /\ Len(DescriptionSets) = 2
        /\ DescriptionSets[1] = "sps" /\ DescriptionSets[2] = "pps"
    BY DEF DescriptionSets, NalTypes
  <1>1. /\ bytes \in Seq(NalTypes) /\ Len(bytes) = 2 + Len(types)
        /\ bytes[1] = "sps" /\ bytes[2] = "pps"
        /\ \A j \in 1 .. Len(types) : bytes[2 + j] = types[j]
    <2>1. /\ bytes \in Seq(NalTypes)
          /\ Len(bytes) = Len(DescriptionSets) + Len(types)
          /\ \A i \in 1 .. Len(DescriptionSets) + Len(types) :
               bytes[i] = IF i <= Len(DescriptionSets) THEN DescriptionSets[i]
                                                   ELSE types[i - Len(DescriptionSets)]
      BY <1>0, ConcatProperties, Zenon
    <2> HIDE DEF bytes
    <2>2. Len(types) \in Nat
      OBVIOUS
    <2> QED
      BY <1>0, <2>1, <2>2
  <1> HIDE DEF bytes
  <1>2. 1 \in 1 .. Len(bytes) /\ 2 \in 1 .. Len(bytes)
    BY <1>1
  <1>3. Occurs("sps", bytes)
    BY <1>1, <1>2 DEF Occurs
  <1>4. Occurs("idr", bytes)
    <2>1. PICK j \in 1 .. Len(types) : types[j] = "idr"
      BY DEF Occurs
    <2>2. 2 + j \in 1 .. Len(bytes) /\ bytes[2 + j] = "idr"
      BY <1>1, <2>1
    <2> QED
      BY <2>2 DEF Occurs
  <1>5. \A i \in 1 .. Len(bytes) : bytes[i] = "idr" => SetsBefore(bytes, i)
    BY <1>1, FrontSets
  <1> QED
    BY <1>1, <1>3, <1>4, <1>5 DEF Described, bytes

\* macos.rs:260 - one frame, from the output of the session to what goes out.
LEMMA FrameDescribed ==
  ASSUME NEW nals \in Outputs, ~Faulty(nals)
  PROVE  Described(Prepended(nals, DescriptionSets) \o Types(nals),
                   IsKeyframe(nals),
                   \/ SourceHasParameterSets(nals)
                   \/ Prepended(nals, DescriptionSets) # <<>>)
  <1> DEFINE types == Types(nals)
             set   == Occurs("sps", types) \/ Occurs("pps", types)
  <1>1. types \in Seq(NalTypes) /\ WholeSets(types)
    BY OutputTypes
  <1>2. /\ IsKeyframe(nals) = Occurs("idr", types)
        /\ SourceHasParameterSets(nals) = set
    BY InspectsAll DEF IsKeyframe, SourceHasParameterSets
  <1> HIDE DEF types
  <1>3. CASE Occurs("idr", types) /\ ~set
    <2>1. Prepended(nals, DescriptionSets) = DescriptionSets
      BY <1>2, <1>3 DEF Prepended
    <2>2. DescriptionSets # <<>>
      BY DEF DescriptionSets
    <2>3. Described(DescriptionSets \o types, TRUE, TRUE)
      BY <1>1, <1>3, Prefixed
    <2>4. IsKeyframe(nals) = TRUE
          /\ (SourceHasParameterSets(nals) \/ Prepended(nals, DescriptionSets) # <<>>) = TRUE
      BY <1>2, <1>3, <2>1, <2>2 DEF Occurs
    <2> QED
      BY <2>1, <2>3, <2>4 DEF types
  <1>4. CASE ~(Occurs("idr", types) /\ ~set)
    <2>1. Prepended(nals, DescriptionSets) = <<>>
      BY <1>2, <1>4 DEF Prepended
    <2>2. <<>> \o types = types
      BY <1>1, ConcatEmptySeq
    <2>3. Described(types, Occurs("idr", types), set)
      BY <1>1, <1>4, AsItIs
    <2>4. (SourceHasParameterSets(nals) \/ Prepended(nals, DescriptionSets) # <<>>) = set
      BY <1>2, <2>1
    <2> QED
      BY <1>2, <2>1, <2>2, <2>3, <2>4 DEF types
  <1> QED
    BY <1>3, <1>4

-----------------------------------------------------------------------------
EncoderTyped ==
  /\ nextPts \in 0 .. MaxPts
  /\ parameterSets \in {<<>>, DescriptionSets}

FrameRecord ==
  frame = [bytes |-> frame.bytes, isKeyframe |-> frame.isKeyframe,
           hasParameterSets |-> frame.hasParameterSets]

EncoderInv ==
  /\ EncoderTyped /\ FrameRecord
  /\ Described(frame.bytes, frame.isKeyframe, frame.hasParameterSets)

LEMMA EncoderInit == Init => EncoderInv
  <1> SUFFICES ASSUME Init PROVE EncoderInv
    OBVIOUS
  <1>1. /\ frame.bytes = <<>> /\ frame.isKeyframe = FALSE
        /\ frame.hasParameterSets = FALSE /\ FrameRecord
    BY DEF Init, NoFrame, FrameRecord
  <1>2. <<>> \in Seq(NalTypes) /\ Len(<<>>) = 0
    OBVIOUS
  <1>3. Described(<<>>, FALSE, FALSE)
    BY <1>2 DEF Described, Occurs
  <1>4. EncoderTyped
    BY DEF Init, EncoderTyped
  <1> QED
    BY <1>1, <1>3, <1>4 DEF EncoderInv

LEMMA EncoderStep == EncoderInv /\ [Next]_vars => EncoderInv'
  <1> SUFFICES ASSUME EncoderInv, [Next]_vars PROVE EncoderInv'
    OBVIOUS
  <1>1. CASE EncodeSurface
    <2>1. PICK nals \in Outputs :
            /\ ~Faulty(nals)
            /\ frame' = [bytes |-> Prepended(nals, parameterSets') \o Types(nals),
                         isKeyframe |-> IsKeyframe(nals),
                         hasParameterSets |-> \/ SourceHasParameterSets(nals)
                                              \/ Prepended(nals, parameterSets') # <<>>]
      BY <1>1 DEF EncodeSurface
    <2>2. parameterSets' = DescriptionSets
      BY <1>1 DEF EncodeSurface, Fetch, EncoderInv, EncoderTyped
    <2>3. nextPts' \in 0 .. MaxPts
      BY <1>1 DEF EncodeSurface, SessionEncodes, EncoderInv, EncoderTyped
    <2> DEFINE bytes == Prepended(nals, DescriptionSets) \o Types(nals)
               key   == IsKeyframe(nals)
               has   == \/ SourceHasParameterSets(nals)
                        \/ Prepended(nals, DescriptionSets) # <<>>
    <2>4. frame' = [bytes |-> bytes, isKeyframe |-> key, hasParameterSets |-> has]
      BY <2>1, <2>2
    <2>5. Described(bytes, key, has)
      BY <2>1, FrameDescribed
    <2> HIDE DEF bytes, key, has
    <2>6. /\ frame'.bytes = bytes /\ frame'.isKeyframe = key
          /\ frame'.hasParameterSets = has
      BY <2>4
    <2> QED
      BY <2>2, <2>3, <2>4, <2>5, <2>6 DEF EncoderInv, EncoderTyped, FrameRecord,
         DescriptionSets
  <1>2. CASE ConversionFails \/ OutputRefused \/ EncodeRefused \/ UNCHANGED vars
    <2>1. frame' = frame
      BY <1>2 DEF ConversionFails, OutputRefused, EncodeRefused, vars
    <2>2. EncoderTyped'
      BY <1>2 DEF ConversionFails, OutputRefused, EncodeRefused, vars, SessionEncodes,
         Fetch, EncoderInv, EncoderTyped, DescriptionSets
    <2> QED
      BY <2>1, <2>2 DEF EncoderInv, FrameRecord
  <1> QED
    BY <1>1, <1>2 DEF Next

LEMMA EncoderSafe == Spec => []EncoderInv
  BY EncoderInit, EncoderStep, PTL DEF Spec

\* The fields hold what they may, for any number of NAL units and frames.
THEOREM EncoderTypeCorrect == Spec => []TypeOK
  <1>1. EncoderInv => TypeOK
    <2> SUFFICES ASSUME EncoderInv PROVE TypeOK
      OBVIOUS
    <2>1. /\ frame.bytes \in Seq(NalTypes)
          /\ frame.isKeyframe \in BOOLEAN /\ frame.hasParameterSets \in BOOLEAN
      BY DEF EncoderInv, Described
    <2>2. frame \in [bytes : Seq(NalTypes), isKeyframe : BOOLEAN,
                     hasParameterSets : BOOLEAN]
      BY <2>1 DEF EncoderInv, FrameRecord
    <2> QED
      BY <2>2 DEF TypeOK, EncoderInv, EncoderTyped, NalTypes
  <1> QED
    BY <1>1, EncoderSafe, PTL

\* macos.rs:260 - the flags were taken from the AVCC bytes before the sets were
\* put in front, and they describe the bytes that go out.
THEOREM FlagsAreRight == Spec => []FlagsDescribeBytes
  <1>1. EncoderInv => FlagsDescribeBytes
    BY DEF EncoderInv, Described, FlagsDescribeBytes
  <1> QED
    BY <1>1, EncoderSafe, PTL

\* macos.rs:51 - every IDR slice that goes out has both sets in front of it,
\* whatever the session returned before and whatever failed in between.
THEOREM KeyframesStandAlone == Spec => []KeyframesDecodable
  <1>1. EncoderInv => KeyframesDecodable
    BY DEF EncoderInv, Described, KeyframesDecodable, SetsBefore
  <1> QED
    BY <1>1, EncoderSafe, PTL
=============================================================================
