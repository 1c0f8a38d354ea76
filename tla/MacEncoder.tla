----------------------------- MODULE MacEncoder -----------------------------
(***************************************************************************)
(* MacH264Encoder::encode_surface of src/codec/macos.rs: from what the     *)
(* VideoToolbox session returns to the access unit that goes out.          *)
(*                                                                         *)
(* AVCC bytes are a sequence of NAL units, each with its type and what its *)
(* length prefix is worth: "ok", or one of the prefixes at which a parser  *)
(* stops - "zero", "beyond" the end of the bytes, or "cut" off itself.     *)
(* Annex B bytes are the sequence of NAL types between start codes.        *)
(***************************************************************************)
EXTENDS Integers, SequencesExt

CONSTANTS
  MaxNals,      \* bound: NAL units of one output
  MaxPts        \* bound: frames the session encodes

ASSUME EncoderAssumption == MaxNals \in Nat \ {0} /\ MaxPts \in Nat

VARIABLES
  nextPts,        \* next_pts
  parameterSets,  \* parameter_sets: <<>> for None
  frame           \* the last EncodedFrame, or NoFrame

vars == <<nextPts, parameterSets, frame>>

NoFrame == [bytes |-> <<>>, isKeyframe |-> FALSE, hasParameterSets |-> FALSE]

\* parameter_sets_from_video_toolbox returns all sets, and two at least.
DescriptionSets == <<"sps", "pps">>

Nal == [type : {"slice", "idr", "sps", "pps"}, length : {"ok", "zero", "beyond", "cut"}]

Types(nals) == [i \in 1 .. Len(nals) |-> nals[i].type]
Occurs(type, types) == \E i \in 1 .. Len(types) : types[i] = type

\* Every SPS has its PPS at once behind it and precedes every slice.
WholeSets(types) ==
  \/ ~Occurs("sps", types) /\ ~Occurs("pps", types)
  \/ /\ Len(types) >= 2 /\ types[1] = "sps" /\ types[2] = "pps"
     /\ \A i \in 3 .. Len(types) : types[i] \in {"slice", "idr"}

\* VideoToolbox: it keeps the sets in its format description and puts both or
\* neither into the bytes as well.
Outputs ==
  {nals \in BoundedSeq(Nal, MaxNals) : nals # <<>> /\ WholeSets(Types(nals))}

Init ==
  /\ nextPts = 0 /\ parameterSets = <<>>
  /\ frame = NoFrame

-----------------------------------------------------------------------------
\* Mutant of InspectedTypes: the last NAL unit is not looked at.
InspectedButLast(nals) == Types(SubSeq(nals, 1, Len(nals) - 1))

\* inspect_length_prefixed_h264 stops at the first bad prefix.
Faulty(nals) == \E i \in 1 .. Len(nals) : nals[i].length # "ok"
UpToFault(nals) ==
  IF Faulty(nals)
  THEN SubSeq(nals, 1, SelectInSeq(nals, LAMBDA nal : nal.length # "ok") - 1)
  ELSE nals

InspectedTypes(nals) == Types(UpToFault(nals))
IsKeyframe(nals) == Occurs("idr", InspectedTypes(nals))
SourceHasParameterSets(nals) ==
  Occurs("sps", InspectedTypes(nals)) \/ Occurs("pps", InspectedTypes(nals))

Prepended(nals, sets) ==
  IF IsKeyframe(nals) /\ ~SourceHasParameterSets(nals) THEN sets ELSE <<>>

\* The session encodes the surface under the next timestamp.
SessionEncodes ==
  /\ nextPts < MaxPts
  /\ nextPts' = nextPts + 1

\* Mutant of Fetch: the loop over the description ends after the first set.
FetchFirst ==
  parameterSets' = IF parameterSets = <<>> THEN <<DescriptionSets[1]>> ELSE parameterSets

\* encode_surface up to the bytes it converts: the sets are fetched once.
Fetch ==
  parameterSets' = IF parameterSets = <<>> THEN DescriptionSets ELSE parameterSets

\* A surface of another shape, or an error of the session.
EncodeRefused == UNCHANGED vars

\* Empty output, no format description, or sets that cannot be read.
OutputRefused ==
  /\ SessionEncodes
  /\ UNCHANGED <<parameterSets, frame>>

\* avcc_access_unit_to_annex_b fails at the first bad prefix.
ConversionFails ==
  /\ SessionEncodes
  /\ \E nals \in Outputs : Faulty(nals)
  /\ Fetch
  /\ UNCHANGED frame

EncodeSurface ==
  /\ SessionEncodes
  /\ Fetch
  /\ \E nals \in Outputs :
       /\ ~Faulty(nals)
       /\ frame' =
            [bytes |-> Prepended(nals, parameterSets') \o Types(nals),
             isKeyframe |-> IsKeyframe(nals),
             hasParameterSets |-> \/ SourceHasParameterSets(nals)
                                  \/ Prepended(nals, parameterSets') # <<>>]

Next == EncodeRefused \/ OutputRefused \/ ConversionFails \/ EncodeSurface

Spec == Init /\ [][Next]_vars

-----------------------------------------------------------------------------
\* Every field holds what the code can store in it.
TypeOK ==
  /\ nextPts \in 0 .. MaxPts
  /\ parameterSets \in {<<>>, DescriptionSets}
  /\ frame \in [bytes : Seq({"slice", "idr", "sps", "pps"}),
                isKeyframe : BOOLEAN, hasParameterSets : BOOLEAN]

\* macos.rs:260 - the metadata is inspected on the AVCC bytes, the bytes that go
\* out are another conversion of them: the flags describe what goes out.
FlagsDescribeBytes ==
  /\ frame.isKeyframe <=> Occurs("idr", frame.bytes)
  /\ frame.hasParameterSets <=>
       Occurs("sps", frame.bytes) \/ Occurs("pps", frame.bytes)

\* macos.rs:51, "lets every IDR be independently decodable on the wire": both
\* parameter sets precede the IDR slice, whichever output was the first and
\* whatever failed in between.
KeyframesDecodable ==
  \A i \in 1 .. Len(frame.bytes) :
    frame.bytes[i] = "idr" =>
      /\ Occurs("sps", SubSeq(frame.bytes, 1, i - 1))
      /\ Occurs("pps", SubSeq(frame.bytes, 1, i - 1))
=============================================================================
