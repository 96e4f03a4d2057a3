---------------------------- MODULE H264Bitstream ----------------------------
(***************************************************************************)
(* inspectH264ByteStream(): which of IDR slice, SPS and PPS an access unit *)
(* in byte-stream format contains.  Offsets count from 0, as in the code.  *)
(***************************************************************************)
EXTENDS Integers, Sequences

NalType(byte) == byte % 32

Summary(types) ==
  [has_idr |-> 5 \in types, has_sps |-> 7 \in types, has_pps |-> 8 \in types]

(* independentlyDecodable(): the parser's flag on the sample counts too. *)
Decodable(summary, delta) ==
  (summary.has_idr \/ ~delta) /\ summary.has_sps /\ summary.has_pps

(* data has the given bytes at offset, all of them inside data. *)
BytesAt(data, offset, bytes) ==
  /\ offset + Len(bytes) <= Len(data)
  /\ \A i \in 1..Len(bytes) : data[offset + i] = bytes[i]

(* Mutant: only four-byte start codes are known. *)
BugLongStartCodesOnly(data, offset) ==
  IF BytesAt(data, offset, <<0, 0, 0, 1>>) THEN 4 ELSE 0

startCodeLength(data, offset) ==
  IF BytesAt(data, offset, <<0, 0, 1>>) THEN 3
  ELSE IF BytesAt(data, offset, <<0, 0, 0, 1>>) THEN 4
  ELSE 0

(* One pass; after a NAL unit's header the scan goes on behind it. *)
inspectH264ByteStream(data) ==
  LET size == Len(data)
      TypesFrom[offset \in 0..size] ==
        LET prefix == startCodeLength(data, offset)
            header == offset + prefix
        IN IF offset + 3 >= size THEN {}
           ELSE IF prefix = 0 THEN TypesFrom[offset + 1]
           ELSE IF header >= size THEN {}
           ELSE {NalType(data[header + 1])} \cup TypesFrom[header + 1]
  IN Summary(IF size < 4 THEN {} ELSE TypesFrom[0])

-----------------------------------------------------------------------------
(* The NAL units' headers: the bytes behind a start code. *)
Headers(data) ==
  {data[i + 4] : i \in {j \in 0..Len(data)-4 : BytesAt(data, j, <<0, 0, 1>>)}}

(* The byte strings of 4 to n bytes of B whose NAL units have a type; a    *)
(* zero in the place of a header may hide the start code it belongs to.    *)
ByteStreams(B, n) ==
  {data \in UNION {[1..k -> B] : k \in 4..n} : 0 \notin Headers(data)}

(* The scan finds a kind of NAL unit exactly when some start code in data  *)
(* introduces one, at the very end and behind start codes of either length *)
(* too.                                                                    *)
ScanFindsNalUnits(B, n) ==
  \A data \in ByteStreams(B, n) :
    inspectH264ByteStream(data) = Summary({NalType(h) : h \in Headers(data)})
=============================================================================
