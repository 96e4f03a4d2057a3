------------------------------ MODULE MCStream ------------------------------
(***************************************************************************)
(* Model-checking instance of RtspFeeder (with H264Encoder) and of the     *)
(* inspection of the units' bytes.                                         *)
(***************************************************************************)
EXTENDS RtspFeeder, H264Bitstream, FiniteSets

CONSTANTS
  SensorTimes,   \* sensor timestamps of the frames
  PlainTime,     \* that of all frames, once there is an appsrc
  MaxFrames,     \* bound on the frames captured
  MaxGen,        \* bound on encoder generations
  MaxSourceGen,  \* bound on how often the appsrc changes
  MaxUnmade,     \* bound on the units of which no buffer is made
  Bytes,         \* bytes of the streams inspected
  MaxBytes       \* bound on the length of a stream

ASSUME StreamBoundAssumption ==
  SensorTimes \subseteq Nat \ {0} /\ MaxBytes \in Nat

VARIABLE odd     \* a frame had another time than PlainTime, or its sample
                 \* lost the PTS

MCInit == Init /\ odd = FALSE

Odd ==
  \/ \E i \in DOMAIN latest : latest[i] # PlainTime
  \/ \E i \in DOMAIN sink : sink[i].pts = NoPts

Unmade == {n \in DOMAIN offered : ~offered[n].made}

Step ==
  \/ captured < MaxFrames /\ \E t \in SensorTimes : Encoder(CameraSubmit(t))
  \/ Encoder(Input) \/ Output
  \/ gen < MaxGen /\ Encoder(BusError)
  \/ Encoder(Bus)
  \/ Main \/ Encoder(EncoderStartFails) \/ Encoder(WaitFails)
  \/ RtspStartFails \/ Encoder(ExitRequested)
  \/ source_gen < MaxSourceGen /\ (Bind \/ Unbind)
  \/ Clear \/ Feed
  \/ main = "over" /\ UNCHANGED vars

(* The server reads no timestamp of a unit: they vary only as long as no   *)
(* appsrc has been bound, and where they have varied none will be.         *)
MCNext ==
  /\ Step
  /\ odd' = (odd \/ Odd')
  /\ odd' => sources' = 0
  /\ Cardinality(Unmade') <= MaxUnmade

MCSpec == MCInit /\ [][MCNext]_<<vars, odd>> /\ Fairness

(* inspectH264ByteStream() on every short stream; it does not depend on    *)
(* the state, so the first state is enough.                                *)
ScanMatchesHeaders == main = "start" => ScanFindsNalUnits(Bytes, MaxBytes)
=============================================================================
