-------------------------- MODULE RtspFeederProofs --------------------------
(***************************************************************************)
(* TLAPS proofs about RtspFeeder and the H264Encoder it extends: for any   *)
(* number of frames, encoder restarts and medias, and any size of the      *)
(* appsink; and about inspectH264ByteStream() on byte strings of any       *)
(* length.                                                                 *)
(***************************************************************************)
EXTENDS MCStream, WellFoundedInduction, TLAPS

(* The output thread has a unit. *)
Busy == output.at \in {"ready", "deliver", "push"}

(* Between two generations of the encoder no thread of it runs and nothing *)
(* is left in the pipeline.                                                *)
Quiet ==
  main \in {"start", "restart"} =>
    /\ input # "loop" /\ output.at \in {"none", "exited"}
    /\ sink = <<>>

(* From base b, the sample's PTS leads back to its frame, if it has one    *)
(* and the frame is not earlier.                                           *)
TimedFrom(b, s) == s.pts # NoPts /\ s.frame >= b => b + s.pts = s.frame

(* The base outputLoop() will add is the generation's first frame, which   *)
(* inputLoop() subtracted for every sample in the appsink.                 *)
SamplesTimed ==
  /\ base = first
  /\ base = 0 => sink = <<>> /\ ~Busy
  /\ \A i \in 1..Len(sink) : TimedFrom(base, sink[i])

(* The unit the output thread has is the last one pulled, of the present   *)
(* generation.                                                             *)
UnitCurrent ==
  /\ gen = 0 => output.at = "none"
  /\ Busy => /\ output.unit.id = pulled /\ output.unit.gen = gen
             /\ output.unit.dec => gen \in keyed

(* independent_frame_seen_ speaks of the present generation. *)
SeenCurrent == seen => gen \in keyed

(* The inductive invariant of the encoder. *)
EncoderInv ==
  /\ EncoderTypeOK /\ Quiet /\ SamplesTimed /\ UnitCurrent /\ SeenCurrent
  /\ ServesOnlyAfterKeyframe /\ SensorTimestampExact

(* The steps of the encoder's own threads and of main(). *)
EncoderStep ==
  \/ \E frame \in Nat \ {0} : CameraSubmit(frame)
  \/ Input \/ Pull \/ PullFails \/ Ready \/ OutputExit
  \/ BusError \/ Bus \/ Supervise
  \/ EncoderStartFails \/ WaitFails \/ ExitRequested

LEMMA NoUnitType == NoUnit \in Unit
BY DEF NoUnit, Unit

(* What latest_ holds when it is empty, and after a push. *)
LEMMA LatestType ==
  /\ <<>> \in Seq(Nat \ {0}) /\ Len(<<>>) <= 1
  /\ \A f \in Nat \ {0} : <<f>> \in Seq(Nat \ {0}) /\ Len(<<f>>) <= 1
OBVIOUS

LEMMA InputPushPreserves == EncoderInv /\ InputPush => EncoderInv'
<1> SUFFICES ASSUME EncoderInv, InputPush PROVE EncoderInv'
  OBVIOUS
<1>1. /\ latest \in Seq(Nat \ {0}) /\ latest # <<>>
      /\ sink \in Seq(Sample) /\ base \in Nat /\ Len(sink) <= SinkMax
      /\ input = "loop"
  BY DEF InputPush, EncoderInv, EncoderTypeOK
<1> DEFINE f == latest[1]
           i == IF base = 0 THEN 0 ELSE frames
<1>2. f \in Nat \ {0} /\ i \in Nat
  BY <1>1 DEF EncoderInv, EncoderTypeOK
<1>3. /\ base' = BaseFor(f) /\ base' \in Nat \ {0} /\ frames' \in Nat
      /\ base' = first' /\ first' \in Nat
  BY <1>1, <1>2 DEF InputPush, BaseFor, EncoderInv, SamplesTimed
<1>4. PICK dec \in BOOLEAN, timed \in BOOLEAN :
        Encoded([pts |-> IF timed THEN RawPts(f, i) ELSE NoPts,
                 frame |-> f, dec |-> dec])
  BY DEF InputPush
<1> DEFINE pts == IF timed THEN RawPts(f, i) ELSE NoPts
           s == [pts |-> pts, frame |-> f, dec |-> dec]
           kept == IF Len(sink) = SinkMax THEN Tail(sink) ELSE sink
<1>5. s \in Sample /\ TimedFrom(base', s)
  <2>1. i * Period \in Nat
    BY <1>2, EncoderAssumption
  <2>2. RawPts(f, i) \in Nat /\ (f >= base' => base' + RawPts(f, i) = f)
    BY <1>2, <1>3, <2>1 DEF RawPts
  <2> HIDE DEF f, i
  <2>3. pts \in Nat \cup {NoPts} /\ (pts # NoPts /\ f >= base' => base' + pts = f)
    BY <2>2
  <2> HIDE DEF pts
  <2> QED BY <1>2, <2>3 DEF Sample, TimedFrom
<1>6. /\ kept \in Seq(Sample) /\ Len(kept) < SinkMax
      /\ \A n \in 1..Len(kept) : TimedFrom(base', kept[n])
  <2>1. \A n \in 1..Len(sink) : TimedFrom(base', sink[n])
    BY <1>1, <1>3 DEF EncoderInv, SamplesTimed, BaseFor
  <2>2. CASE Len(sink) = SinkMax
    <3>1. sink # <<>> /\ Len(sink) \in Nat \ {0}
      BY <1>1, <2>2, EncoderAssumption
    <3>2. /\ Tail(sink) \in Seq(Sample) /\ Len(Tail(sink)) = Len(sink) - 1
          /\ \A n \in 1..Len(sink)-1 : Tail(sink)[n] = sink[n + 1]
      BY <1>1, <3>1
    <3> QED BY <2>1, <2>2, <3>1, <3>2
  <2>3. CASE Len(sink) # SinkMax
    BY <1>1, <2>1, <2>3, EncoderAssumption
  <2> QED BY <2>2, <2>3
<1>7. /\ sink' \in Seq(Sample) /\ Len(sink') <= SinkMax
      /\ \A n \in 1..Len(sink') : TimedFrom(base', sink'[n])
  <2>1. CASE sink' = sink
    BY <1>1, <1>3, <2>1 DEF EncoderInv, SamplesTimed, BaseFor
  <2>2. CASE sink' = Append(kept, s)
    <3> HIDE DEF s, kept
    <3> QED BY <1>5, <1>6, <2>2, EncoderAssumption
  <2> QED BY <1>4, <2>1, <2>2 DEF Encoded
<1>8. EncoderTypeOK'
  BY <1>3, <1>7, LatestType DEF InputPush, EncoderInv, EncoderTypeOK, flagVars
<1>9. Quiet' /\ SamplesTimed'
  BY <1>1, <1>3, <1>7 DEF InputPush, EncoderInv, Quiet, SamplesTimed
<1>10. SensorTimestampExact'
  <2>1. Busy => first' = first
    BY DEF InputPush, EncoderInv, SamplesTimed
  <2> QED BY <2>1 DEF InputPush, EncoderInv, SensorTimestampExact, Busy
<1> QED BY <1>8, <1>9, <1>10
      DEF InputPush, EncoderInv, UnitCurrent, Busy, SeenCurrent, flagVars,
          ServesOnlyAfterKeyframe

LEMMA PullPreserves == EncoderInv /\ Pull => EncoderInv'
<1> SUFFICES ASSUME EncoderInv, Pull PROVE EncoderInv'
  OBVIOUS
<1> DEFINE s == Head(sink)
           u == [id |-> pulled + 1, gen |-> gen, sensor |-> base + Pts(s),
                 frame |-> s.frame, timed |-> s.pts # NoPts, dec |-> s.dec]
<1>1. /\ sink \in Seq(Sample) /\ sink # <<>> /\ s \in Sample
      /\ s = sink[1] /\ Len(sink) \in Nat \ {0}
      /\ base \in Nat /\ pulled \in Nat /\ gen \in Nat
  BY DEF Pull, EncoderInv, EncoderTypeOK
<1>2. TimedFrom(base, s) /\ base = first /\ base # 0
  BY <1>1 DEF EncoderInv, SamplesTimed
<1>3. /\ s.pts \in Nat \cup {NoPts} /\ s.frame \in Nat /\ s.dec \in BOOLEAN
      /\ Pts(s) \in Nat /\ (s.pts # NoPts => Pts(s) = s.pts)
      /\ (s.pts = NoPts => Pts(s) = 0)
  BY <1>1 DEF Sample, Pts
<1>4. /\ u \in Unit /\ u.id = pulled + 1 /\ u.gen = gen
      /\ IF ~u.timed THEN u.sensor = first
         ELSE IF u.frame < first THEN u.sensor >= first
         ELSE u.sensor = u.frame
  <2> DEFINE timed == s.pts # NoPts
             sensor == base + Pts(s)
  <2>1. sensor \in Nat /\ timed \in BOOLEAN
    BY <1>1, <1>3
  <2>2. /\ ~timed => sensor = first
        /\ s.frame < first => sensor >= first
        /\ timed /\ ~(s.frame < first) => sensor = s.frame
    BY <1>1, <1>2, <1>3 DEF TimedFrom
  <2>3. /\ u.sensor = sensor /\ u.frame = s.frame /\ u.timed = timed
        /\ u.id = pulled + 1 /\ u.gen = gen /\ u.dec = s.dec
    OBVIOUS
  <2>4. u \in Unit
    <3> HIDE DEF s, timed, sensor
    <3>1. pulled + 1 \in Nat
      BY <1>1
    <3> QED BY <1>1, <1>3, <2>1, <3>1 DEF Unit, timed, sensor
  <2> HIDE DEF s, u, timed, sensor
  <2> QED BY <2>2, <2>3, <2>4
<1>5. /\ output' = [at |-> "ready", unit |-> u]
      /\ keyed' = IF u.dec THEN keyed \cup {gen} ELSE keyed
      /\ output.at = "loop" /\ pulled' = pulled + 1 /\ sink' = Tail(sink)
      /\ UNCHANGED <<main, exposed, flagVars, frameVars, inputVars, input, bus>>
  BY DEF Pull
<1> HIDE DEF u
<1>6. gen # 0
  BY <1>5 DEF EncoderInv, UnitCurrent
<1>7. EncoderTypeOK'
  <2>1. sink' \in Seq(Sample) /\ Len(sink') <= SinkMax
    BY <1>1, <1>5, EncoderAssumption DEF EncoderInv, EncoderTypeOK
  <2>2. keyed' \subseteq 1..gen
    BY <1>1, <1>5, <1>6 DEF EncoderInv, EncoderTypeOK
  <2>3. output' \in [at : {"none", "loop", "ready", "deliver", "push", "exited"},
                     unit : Unit]
    BY <1>4, <1>5
  <2> QED BY <1>1, <1>5, <2>1, <2>2, <2>3
        DEF EncoderInv, EncoderTypeOK, flagVars, frameVars, inputVars
<1>8. SamplesTimed'
  BY <1>1, <1>2, <1>5 DEF EncoderInv, SamplesTimed, inputVars
<1> QED BY <1>4, <1>5, <1>7, <1>8
      DEF EncoderInv, Quiet, UnitCurrent, Busy, SeenCurrent, flagVars, inputVars,
          ServesOnlyAfterKeyframe, SensorTimestampExact

(* A sample that cannot be mapped is gone. *)
LEMMA PullFailsPreserves == EncoderInv /\ PullFails => EncoderInv'
<1> SUFFICES ASSUME EncoderInv, PullFails PROVE EncoderInv'
  OBVIOUS
<1>1. /\ sink \in Seq(Sample) /\ sink # <<>> /\ Len(sink) \in Nat \ {0}
      /\ Len(sink) <= SinkMax
  BY DEF PullFails, EncoderInv, EncoderTypeOK
<1>2. /\ sink' = Tail(sink) /\ sink' \in Seq(Sample) /\ Len(sink') <= SinkMax
      /\ \A i \in 1..Len(sink') : sink'[i] = sink[i + 1] /\ i + 1 \in 1..Len(sink)
  BY <1>1, EncoderAssumption DEF PullFails
<1>3. EncoderTypeOK'
  BY <1>2 DEF PullFails, EncoderInv, EncoderTypeOK, flagVars, frameVars, inputVars
<1>4. SamplesTimed'
  BY <1>1, <1>2 DEF PullFails, EncoderInv, SamplesTimed, Busy, inputVars
<1> QED BY <1>3, <1>4
      DEF PullFails, EncoderInv, Quiet, UnitCurrent, Busy, SeenCurrent, flagVars,
          inputVars, ServesOnlyAfterKeyframe, SensorTimestampExact

LEMMA ReadyPreserves == EncoderInv /\ Ready => EncoderInv'
<1> SUFFICES ASSUME EncoderInv, Ready PROVE EncoderInv'
  OBVIOUS
<1>1. /\ output.at = "ready" /\ output.unit \in Unit
      /\ output' = [output EXCEPT !.at = "deliver"]
      /\ output'.at = "deliver" /\ output'.unit = output.unit
      /\ output' \in [at : {"none", "loop", "ready", "deliver", "push", "exited"},
                      unit : Unit]
  BY DEF Ready, EncoderInv, EncoderTypeOK
<1>2. seen' \in BOOLEAN /\ (seen' => gen \in keyed)
  BY <1>1 DEF Ready, EncoderInv, UnitCurrent, Busy, SeenCurrent, Unit, EncoderTypeOK
<1>3. EncoderTypeOK'
  BY <1>1, <1>2
     DEF Ready, EncoderInv, EncoderTypeOK, frameVars, codecVars, inputVars
<1> QED BY <1>1, <1>2, <1>3
      DEF Ready, EncoderInv, Quiet, SamplesTimed, UnitCurrent, Busy, SeenCurrent,
          frameVars, codecVars, inputVars, ServesOnlyAfterKeyframe,
          SensorTimestampExact

(* The output thread goes back to its loop, or leaves it. *)
OutputFreed(where) ==
  /\ output.at \notin {"none", "exited"} /\ output' = At(where)
  /\ where \in {"loop", "exited"} /\ (where = "loop" => output.at # "loop")
  /\ UNCHANGED <<main, exposed, flagVars, frameVars, codecVars, input, bus,
                 pulled, keyed>>

LEMMA FreedPreserves ==
  ASSUME EncoderInv, NEW where, OutputFreed(where)
  PROVE  EncoderInv'
<1>1. EncoderTypeOK'
  BY NoUnitType DEF OutputFreed, At, EncoderInv, EncoderTypeOK, flagVars,
                    frameVars, codecVars, inputVars
<1> QED BY <1>1 DEF OutputFreed, At, EncoderInv, Quiet, SamplesTimed, UnitCurrent,
      Busy, SeenCurrent, flagVars, frameVars, codecVars, inputVars,
      ServesOnlyAfterKeyframe, SensorTimestampExact

(* Steps that touch neither the appsink, the base nor the output thread.   *)
LEMMA FlagsPreserve ==
  ASSUME EncoderInv, EncoderTypeOK',
         UNCHANGED <<gen, seen, codecVars, output, pulled, keyed>>,
         main' \in {"start", "restart"} => main' = main,
         main' \in {"expose", "serve"} => main \in {"expose", "serve"} \/ seen,
         input' = "loop" => input = "loop"
  PROVE  EncoderInv'
BY DEF EncoderInv, Quiet, SamplesTimed, UnitCurrent, Busy, SeenCurrent,
       codecVars, inputVars, ServesOnlyAfterKeyframe, SensorTimestampExact

LEMMA StartPreserves == EncoderInv /\ EncoderStart => EncoderInv'
<1> SUFFICES ASSUME EncoderInv, EncoderStart PROVE EncoderInv'
  OBVIOUS
<1>1. sink = <<>>
  BY DEF EncoderStart, EncoderInv, Quiet
<1>2. EncoderTypeOK'
  <2>1. keyed \subseteq 1..gen' /\ gen' \in Nat
    BY DEF EncoderStart, ResetForStart, EncoderInv, EncoderTypeOK
  <2> QED BY <1>1, <2>1, NoUnitType, LatestType
        DEF EncoderStart, ResetForStart, At, EncoderInv, EncoderTypeOK
<1> QED BY <1>1, <1>2
      DEF EncoderStart, ResetForStart, At, EncoderInv, Quiet, SamplesTimed,
          UnitCurrent, Busy, SeenCurrent, ServesOnlyAfterKeyframe,
          SensorTimestampExact, EncoderTypeOK

LEMMA StartFailsPreserves == EncoderInv /\ EncoderStartFails => EncoderInv'
<1> SUFFICES ASSUME EncoderInv, EncoderStartFails PROVE EncoderInv'
  OBVIOUS
<1>1. sink = <<>> /\ output.at \in {"none", "exited"}
  BY DEF EncoderStartFails, EncoderInv, Quiet
<1>2. EncoderTypeOK'
  <2>1. keyed \subseteq 1..gen' /\ gen' \in Nat
    BY DEF EncoderStartFails, ResetForStart, EncoderInv, EncoderTypeOK
  <2>2. latest' \in Seq(Nat \ {0}) /\ Len(latest') <= 1
    BY LatestType DEF EncoderStartFails, ResetForStart, EncoderInv, EncoderTypeOK
  <2>3. /\ closed' \in BOOLEAN /\ recovery' \in BOOLEAN /\ seen' \in BOOLEAN
        /\ base' \in Nat /\ first' \in Nat
    <3>1. CASE ResetForStart
      BY <3>1 DEF ResetForStart
    <3>2. CASE UNCHANGED <<latest, closed, base, first, recovery, gen, seen>>
      BY <3>2 DEF EncoderInv, EncoderTypeOK
    <3> QED BY <3>1, <3>2 DEF EncoderStartFails
  <2> QED BY <2>1, <2>2, <2>3 DEF EncoderStartFails, EncoderInv, EncoderTypeOK
<1> QED BY <1>1, <1>2
      DEF EncoderStartFails, ResetForStart, EncoderInv, Quiet, SamplesTimed,
          UnitCurrent, Busy, SeenCurrent, ServesOnlyAfterKeyframe,
          SensorTimestampExact, EncoderTypeOK

LEMMA StopEndsPreserves ==
  ASSUME EncoderInv, NEW from, NEW to, StopEnds(from, to),
         to \in {"restart", "exit_rtsp"}
  PROVE  EncoderInv'
<1>1. EncoderTypeOK'
  BY EncoderAssumption
     DEF StopEnds, EncoderInv, EncoderTypeOK, flagVars, frameVars, inputVars
<1> QED BY <1>1
      DEF StopEnds, Joined, EncoderInv, Quiet, SamplesTimed, UnitCurrent, Busy,
          SeenCurrent, flagVars, inputVars, ServesOnlyAfterKeyframe,
          SensorTimestampExact

(* The encoder's invariant is preserved by each of its steps. *)
LEMMA EncoderStepPreserves == EncoderInv /\ EncoderStep => EncoderInv'
<1> SUFFICES ASSUME EncoderInv, EncoderStep PROVE EncoderInv'
  OBVIOUS
<1>1. CASE \E frame \in Nat \ {0} : CameraSubmit(frame)
  <2>1. PICK frame \in Nat \ {0} : CameraSubmit(frame)
    BY <1>1
  <2>2. latest' \in Seq(Nat \ {0}) /\ Len(latest') <= 1
    <3>1. latest' = latest \/ latest' = <<frame>>
      BY <2>1 DEF CameraSubmit
    <3> QED BY <3>1, LatestType DEF EncoderInv, EncoderTypeOK
  <2>3. EncoderTypeOK'
    BY <2>1, <2>2
       DEF CameraSubmit, EncoderInv, EncoderTypeOK, flagVars, codecVars, inputVars
  <2> QED BY <2>1, <2>3, FlagsPreserve DEF CameraSubmit, flagVars
<1>2. CASE InputExit
  <2>1. EncoderTypeOK'
    BY <1>2
       DEF InputExit, EncoderInv, EncoderTypeOK, flagVars,
           frameVars, codecVars, inputVars
  <2> QED BY <1>2, <2>1, FlagsPreserve DEF InputExit, flagVars
<1>3. CASE OutputExit
  BY <1>3, FreedPreserves DEF OutputExit, OutputFreed
<1>4. CASE BusError \/ BusHalt \/ BusExit
  <2>1. EncoderTypeOK'
    <3>1. CASE BusError
      BY <3>1
         DEF BusError, EncoderInv, EncoderTypeOK, flagVars,
             frameVars, codecVars, inputVars
    <3>2. CASE BusHalt
      <4>1. /\ running' = FALSE /\ bus' = "close"
            /\ UNCHANGED <<main, exposed, gen, recovery, seen, frameVars, codecVars,
                           input, output, pulled, keyed>>
        BY <3>2 DEF BusHalt
      <4>2. /\ exposed' \in BOOLEAN /\ running' \in BOOLEAN
            /\ recovery' \in BOOLEAN /\ seen' \in BOOLEAN /\ closed' \in BOOLEAN
        BY <4>1, Zenon DEF EncoderInv, EncoderTypeOK, frameVars
      <4> QED BY <4>1, <4>2
         DEF EncoderInv, EncoderTypeOK, frameVars, codecVars, inputVars
    <3>3. CASE BusExit
      BY <3>3
         DEF BusExit, EncoderInv, EncoderTypeOK, flagVars,
             frameVars, codecVars, inputVars
    <3> QED BY <1>4, <3>1, <3>2, <3>3
  <2> QED BY <1>4, <2>1, FlagsPreserve DEF BusError, BusHalt, BusExit, flagVars
<1>5. CASE BusClose
  <2>1. EncoderTypeOK'
    BY <1>5 DEF BusClose, EncoderInv, EncoderTypeOK, flagVars, codecVars, inputVars
  <2> QED BY <1>5, <2>1, FlagsPreserve DEF BusClose, flagVars
<1>6. CASE WaitReturns \/ WaitFails \/ ExitRequested
  <2>1. EncoderTypeOK'
    <3>1. CASE WaitReturns
      BY <3>1
         DEF WaitReturns, EncoderInv, EncoderTypeOK, flagVars,
             frameVars, codecVars, inputVars
    <3>2. CASE WaitFails
      BY <3>2
         DEF WaitFails, EncoderInv, EncoderTypeOK, flagVars,
             frameVars, codecVars, inputVars
    <3>3. CASE ExitRequested
      BY <3>3
         DEF ExitRequested, EncoderInv, EncoderTypeOK, flagVars,
             frameVars, codecVars, inputVars
    <3> QED BY <1>6, <3>1, <3>2, <3>3
  <2> QED BY <1>6, <2>1, FlagsPreserve
        DEF WaitReturns, WaitFails, ExitRequested, flagVars
<1>7. CASE RecoveryBegins \/ ExitStops
  <2>1. EncoderTypeOK'
    BY <1>7, LatestType
       DEF RecoveryBegins, ExitStops, StopBegin, EncoderInv, EncoderTypeOK,
                codecVars, inputVars
  <2> QED BY <1>7, <2>1, FlagsPreserve DEF RecoveryBegins, ExitStops, StopBegin
<1>8. CASE RecoveryStopped \/ ExitStopped
  BY <1>8, StopEndsPreserves DEF RecoveryStopped, ExitStopped
<1> QED BY <1>1, <1>2, <1>3, <1>4, <1>5, <1>6, <1>7, <1>8, InputPushPreserves,
        PullPreserves, PullFailsPreserves, ReadyPreserves, StartPreserves,
        StartFailsPreserves
      DEF EncoderStep, Input, Bus, Supervise

-----------------------------------------------------------------------------
(* The way from the output thread to the appsrc.                           *)

(* u was output before w. *)
Before(u, w) == u.id < w.id /\ u.gen <= w.gen

(* The units that are under way: in the queue and with the feeder. *)
Queued == IF queue = <<>> THEN {} ELSE {queue[1]}
Fed == IF feeder.at = "read" THEN {feeder.unit} ELSE {}
Offered == {offered[n].unit : n \in 1..Len(offered)}

(* What was offered came before what the feeder has, that before what is   *)
(* in the queue, and that before what the output thread has or will pull.  *)
UnitsInOrder ==
  /\ \A u \in Offered : \A w \in Fed \cup Queued : Before(u, w)
  /\ \A u \in Fed : \A w \in Queued : Before(u, w)
  /\ \A u \in Offered \cup Fed \cup Queued :
       /\ u.id <= pulled /\ u.gen <= gen
       /\ Busy => u.id < output.unit.id

(* main() starts the server once, and nothing is offered before. *)
ExposedOnce ==
  /\ main = "expose" => ~exposed
  /\ ~exposed => offered = <<>> /\ feeder.at = "none"

(* The gate describes the last unit that met an appsrc: its generation is  *)
(* the newest, and if a unit went through, it is the last one offered.     *)
GateRemembers ==
  /\ gate.awaiting => gate.index = 0
  /\ \A n \in 1..Len(offered) :
       /\ offered[n].source \in 1..sources
       /\ offered[n].unit.gen <= gate.gen
  /\ \A u \in Fed \cup Queued : gate.gen <= u.gen
  /\ ~gate.awaiting =>
       /\ offered # <<>>
       /\ LET o == offered[Len(offered)] IN
          /\ o.index = gate.index - 1 /\ o.unit.gen = gate.gen
          /\ gate.source_gen = source_gen => o.source = source

(* An appsrc the gate has not met was offered nothing, and one it waits    *)
(* with was offered nothing of the gate's generation.                      *)
SourceUntouched ==
  \A n \in 1..Len(offered) :
    offered[n].source = source =>
      /\ gate.source_gen = source_gen
      /\ gate.awaiting => offered[n].unit.gen # gate.gen

(* The inductive invariant of the feeder. *)
FeederInv ==
  /\ TypeOK /\ EncoderInv /\ UnitsInOrder /\ ExposedOnce
  /\ GateRemembers /\ SourceUntouched
  /\ OfferedInOrder /\ SourceStartsDecodable

LEMMA SeqElements ==
  ASSUME NEW S, NEW s \in Seq(S)
  PROVE  \A n \in 1..Len(s) : s[n] \in S
OBVIOUS

LEMMA FeederTypes ==
  ASSUME TypeOK
  PROVE  /\ Payload(NoUnit) \in QueuedUnit
         /\ feeder.unit \in QueuedUnit /\ output.unit \in Unit
         /\ Payload(output.unit) \in QueuedUnit
         /\ queue # <<>> => queue[1] \in QueuedUnit
         /\ Offered \subseteq QueuedUnit
         /\ pulled \in Nat /\ gen \in Nat /\ gate.gen \in Nat
         /\ Len(offered) \in Nat
<1>1. Payload(NoUnit) \in QueuedUnit
  BY DEF Payload, NoUnit, QueuedUnit
<1>2. feeder.unit \in QueuedUnit /\ output.unit \in Unit
  BY DEF TypeOK, EncoderTypeOK
<1>3. Payload(output.unit) \in QueuedUnit
  BY <1>2 DEF Payload, Unit, QueuedUnit
<1>4. queue # <<>> => queue[1] \in QueuedUnit
  BY DEF TypeOK
<1>5. Offered \subseteq QueuedUnit
  <2>1. \A n \in 1..Len(offered) :
          offered[n] \in Offer
    <3>1. offered \in Seq(Offer)
      BY DEF TypeOK
    <3> QED BY <3>1, SeqElements
  <2>2. \A n \in 1..Len(offered) : offered[n].unit \in QueuedUnit
    BY <2>1 DEF Offer
  <2> QED BY <2>2 DEF Offered
<1>6. /\ pulled \in Nat /\ gen \in Nat /\ gate.gen \in Nat
      /\ Len(offered) \in Nat
  BY DEF TypeOK, EncoderTypeOK
<1> QED BY <1>1, <1>2, <1>3, <1>4, <1>5, <1>6

(* A step that leaves the server's variables alone, advances the encoder's *)
(* generation and count of units or leaves them, and gives the output      *)
(* thread no unit but the next one.                                        *)
LEMMA EncoderSidePreserves ==
  ASSUME FeederInv, EncoderInv',
         UNCHANGED <<sourceVars, queueVars, feederVars, exposed>>,
         main' = "expose" => ~exposed,
         pulled' >= pulled, gen' >= gen,
         Busy' => \/ Busy /\ output'.unit = output.unit
                  \/ output'.unit.id > pulled
  PROVE  FeederInv'
<1>1. /\ pulled \in Nat /\ pulled' \in Nat /\ gen \in Nat /\ gen' \in Nat
      /\ Offered \cup Fed \cup Queued \subseteq QueuedUnit
  BY FeederTypes DEF FeederInv, EncoderInv, EncoderTypeOK, Fed, Queued
<1>2. Offered' = Offered /\ Fed' = Fed /\ Queued' = Queued
  BY DEF feederVars, queueVars, Offered, Fed, Queued
<1>3. TypeOK'
  <2>1. gate' \in [source_gen : 0..source_gen, gen : 0..gen', index : Nat,
                   awaiting : BOOLEAN]
    BY <1>1 DEF FeederInv, TypeOK, feederVars
  <2> QED BY <2>1 DEF FeederInv, TypeOK, EncoderInv, sourceVars, queueVars, feederVars
<1>4. UnitsInOrder'
  <2>1. ASSUME NEW u \in Offered \cup Fed \cup Queued
        PROVE  u.id <= pulled' /\ u.gen <= gen' /\ (Busy' => u.id < output'.unit.id)
    <3>1. /\ u.id \in Nat /\ u.gen \in Nat
      BY <1>1 DEF QueuedUnit
    <3>2. u.id <= pulled /\ u.gen <= gen /\ (Busy => u.id < output.unit.id)
      BY DEF FeederInv, UnitsInOrder
    <3>3. Busy' => output'.unit.id \in Nat
      BY DEF EncoderInv, EncoderTypeOK, Unit
    <3> QED BY <1>1, <3>1, <3>2, <3>3
  <2> QED BY <1>2, <2>1 DEF FeederInv, UnitsInOrder, Before
<1>5. ExposedOnce'
  BY DEF FeederInv, ExposedOnce, feederVars
<1>6. GateRemembers' /\ SourceUntouched'
  BY <1>2 DEF FeederInv, GateRemembers, SourceUntouched, feederVars, sourceVars
<1>7. OfferedInOrder' /\ SourceStartsDecodable'
  BY DEF FeederInv, OfferedInOrder, SourceStartsDecodable, feederVars
<1> QED BY <1>3, <1>4, <1>5, <1>6, <1>7 DEF FeederInv

LEMMA EncoderStepInOrder == FeederInv /\ Encoder(EncoderStep) => FeederInv'
<1> SUFFICES ASSUME FeederInv, EncoderStep,
                    UNCHANGED <<sourceVars, queueVars, feederVars>>
             PROVE  FeederInv'
  BY DEF Encoder
<1>1. EncoderInv'
  BY EncoderStepPreserves DEF FeederInv
<1>2. exposed' = exposed /\ (main' = "expose" => ~exposed)
  BY DEF FeederInv, ExposedOnce, EncoderStep, CameraSubmit, Input, InputPush,
     InputExit, Pull, PullFails, Ready, OutputExit, BusError, Bus, BusHalt, BusClose,
     BusExit, Supervise, EncoderStart, WaitReturns, RecoveryBegins, RecoveryStopped,
     ExitStops, ExitStopped, StopBegin, StopEnds, EncoderStartFails, WaitFails, ExitRequested
<1>3. /\ pulled \in Nat /\ gen \in Nat
  BY FeederTypes DEF FeederInv
<1>4. pulled' >= pulled /\ gen' >= gen
  BY <1>3 DEF EncoderStep, CameraSubmit, Input, InputPush,
     InputExit, Pull, PullFails, Ready, OutputExit, BusError, Bus, BusHalt, BusClose,
     BusExit, Supervise, EncoderStart, WaitReturns, RecoveryBegins, RecoveryStopped,
     ExitStops, ExitStopped, StopBegin, StopEnds, EncoderStartFails, WaitFails, ExitRequested,
     ResetForStart, flagVars
<1>5. Busy' => \/ Busy /\ output'.unit = output.unit
               \/ output'.unit.id > pulled
  <2>1. CASE Pull
    BY <1>3, <2>1 DEF Pull
  <2>2. CASE Ready
    BY <2>2 DEF Ready, Busy, FeederInv, TypeOK, EncoderTypeOK
  <2>3. CASE OutputExit \/ EncoderStart
    BY <2>3 DEF OutputExit, EncoderStart, Busy, At
  <2>4. CASE UNCHANGED output
    BY <2>4 DEF Busy
  <2> QED BY <2>1, <2>2, <2>3, <2>4
        DEF EncoderStep, CameraSubmit, Input, InputPush, InputExit, PullFails, BusError,
        Bus, BusHalt, BusClose, BusExit, Supervise, WaitReturns, RecoveryBegins,
        RecoveryStopped, ExitStops, ExitStopped, StopBegin, StopEnds,
        EncoderStartFails, WaitFails, ExitRequested
<1> QED BY <1>1, <1>2, <1>4, <1>5, EncoderSidePreserves

(* submit() has no appsrc to submit to, or is about to push. *)
LEMMA SubmitTestPreserves == FeederInv /\ SubmitTest => FeederInv'
<1> SUFFICES ASSUME FeederInv, SubmitTest PROVE FeederInv'
  OBVIOUS
<1>1. CASE output' = At("loop")
  <2>1. EncoderInv'
    BY <1>1, FreedPreserves DEF SubmitTest, OutputFreed, FeederInv
  <2>2. ~Busy'
    BY <1>1 DEF Busy, At
  <2> QED BY <2>1, <2>2, EncoderSidePreserves, FeederTypes
        DEF SubmitTest, FeederInv, ExposedOnce, flagVars
<1>2. CASE output' = [output EXCEPT !.at = "push"]
  <2>1. /\ output'.at = "push" /\ output'.unit = output.unit /\ Busy /\ Busy'
        /\ output' \in [at : {"none", "loop", "ready", "deliver", "push", "exited"},
                        unit : Unit]
    BY <1>2 DEF SubmitTest, FeederInv, EncoderInv, EncoderTypeOK, Busy
  <2>2. EncoderTypeOK'
    BY <2>1 DEF SubmitTest, FeederInv, EncoderInv, EncoderTypeOK, flagVars,
                frameVars, codecVars, inputVars
  <2>3. EncoderInv'
    BY <2>1, <2>2 DEF SubmitTest, FeederInv, EncoderInv, Quiet, SamplesTimed,
          UnitCurrent, Busy, SeenCurrent, flagVars,
          frameVars, codecVars, inputVars,
          ServesOnlyAfterKeyframe, SensorTimestampExact
  <2> QED BY <2>1, <2>3, EncoderSidePreserves, FeederTypes
        DEF SubmitTest, FeederInv, ExposedOnce, flagVars
<1> QED BY <1>1, <1>2 DEF SubmitTest

(* Steps that leave the encoder, and what was offered, alone; the units    *)
(* that stay under way are among those that were.                          *)
LEMMA FewerUnits ==
  ASSUME FeederInv, UNCHANGED <<gen, pulled, output, offered>>,
         Fed' \subseteq Fed, Queued' \subseteq Queued
  PROVE  UnitsInOrder' /\ OfferedInOrder' /\ SourceStartsDecodable'
BY DEF FeederInv, UnitsInOrder, Offered, Busy, OfferedInOrder,
       SourceStartsDecodable

(* The unit of the output thread becomes the queue's. *)
LEMMA SubmitPushPreserves == FeederInv /\ SubmitPush => FeederInv'
<1> SUFFICES ASSUME FeederInv, SubmitPush PROVE FeederInv'
  OBVIOUS
<1> DEFINE u == Payload(output.unit)
<1>1. EncoderInv'
  BY FreedPreserves DEF SubmitPush, OutputFreed, FeederInv
<1>2. ~Busy' /\ Busy
  BY DEF SubmitPush, Busy, At
<1>3. u \in QueuedUnit /\ u.id = pulled /\ u.gen = gen
  BY <1>2, FeederTypes DEF Payload, FeederInv, EncoderInv, UnitCurrent
<1>4. \A w \in Offered \cup Fed : Before(w, u)
  BY <1>2, <1>3, FeederTypes DEF FeederInv, UnitsInOrder, Before, Payload
<1>5. Queued' \subseteq Queued \cup {u} /\ Offered' = Offered /\ Fed' = Fed
  <2>1. queue' = queue \/ queue' = <<u>>
    BY DEF SubmitPush
  <2> HIDE DEF u
  <2> QED BY <2>1 DEF SubmitPush, Queued, Offered, Fed, feederVars
<1>6. UnitsInOrder'
  <2>1. \A x \in Offered \cup Fed \cup Queued : x.id <= pulled /\ x.gen <= gen
    BY DEF FeederInv, UnitsInOrder
  <2>2. UNCHANGED <<pulled, gen>>
    BY DEF SubmitPush, flagVars
  <2>3. u.id <= pulled /\ u.gen <= gen
    BY <1>3, FeederTypes DEF FeederInv
  <2> HIDE DEF u
  <2> QED BY <1>2, <1>4, <1>5, <2>1, <2>2, <2>3 DEF FeederInv, UnitsInOrder
<1>7. TypeOK'
  <2>1. queue' \in Seq(QueuedUnit) /\ Len(queue') <= 1
    <3>1. queue' = queue \/ queue' = <<u>>
      BY DEF SubmitPush
    <3> HIDE DEF u
    <3>2. <<u>> \in Seq(QueuedUnit) /\ Len(<<u>>) <= 1
      BY <1>3
    <3> QED BY <3>1, <3>2 DEF FeederInv, TypeOK
  <2> QED BY <1>1, <2>1 DEF SubmitPush, FeederInv, TypeOK, EncoderInv, sourceVars,
        feederVars, flagVars
<1>8. GateRemembers'
  <2>1. gate.gen <= u.gen
    BY <1>3, FeederTypes DEF FeederInv, TypeOK
  <2> HIDE DEF u
  <2> QED BY <1>5, <2>1 DEF SubmitPush, FeederInv, GateRemembers, feederVars, sourceVars
<1>9. /\ ExposedOnce' /\ SourceUntouched' /\ OfferedInOrder'
      /\ SourceStartsDecodable'
  BY DEF SubmitPush, FeederInv, ExposedOnce, SourceUntouched, OfferedInOrder,
         SourceStartsDecodable, feederVars, sourceVars
<1> QED BY <1>1, <1>6, <1>7, <1>8, <1>9 DEF FeederInv

(* The encoder's invariant does not look at the server. *)
LEMMA EncoderUnchanged ==
  ASSUME EncoderInv, UNCHANGED encoderVars
  PROVE  EncoderInv'
BY DEF EncoderInv, encoderVars, EncoderTypeOK, Quiet, SamplesTimed, UnitCurrent,
       Busy, SeenCurrent, flagVars, frameVars, codecVars, inputVars,
       ServesOnlyAfterKeyframe, SensorTimestampExact

(* A new appsrc is one to which nothing was offered. *)
LEMMA BindPreserves == FeederInv /\ Bind => FeederInv'
<1> SUFFICES ASSUME FeederInv, Bind PROVE FeederInv'
  OBVIOUS
<1>1. EncoderInv'
  BY EncoderUnchanged DEF Bind, FeederInv
<1>2. UnitsInOrder' /\ OfferedInOrder' /\ SourceStartsDecodable'
  BY FewerUnits DEF Bind, Fed, Queued, encoderVars, flagVars, feederVars, queueVars
<1>3. /\ sources \in Nat /\ source_gen \in Nat /\ gate.source_gen \in 0..source_gen
  BY DEF FeederInv, TypeOK
<1>4. TypeOK'
  <2>1. gate \in [source_gen : 0..source_gen', gen : 0..gen, index : Nat,
                  awaiting : BOOLEAN]
    BY <1>3 DEF Bind, FeederInv, TypeOK
  <2> QED BY <1>1, <1>3, <2>1
        DEF Bind, FeederInv, TypeOK, EncoderInv, encoderVars, flagVars, queueVars,
            feederVars
<1>5. GateRemembers'
  BY <1>3 DEF Bind, FeederInv, GateRemembers, Fed, Queued, feederVars, queueVars
<1>6. SourceUntouched'
  BY <1>3 DEF Bind, FeederInv, GateRemembers, SourceUntouched, feederVars
<1>7. ExposedOnce'
  BY DEF Bind, FeederInv, ExposedOnce, encoderVars, feederVars
<1> QED BY <1>1, <1>2, <1>4, <1>5, <1>6, <1>7 DEF FeederInv

(* Without an appsrc the gate still remembers what it met. *)
LEMMA NoSourcePreserves ==
  ASSUME FeederInv, EncoderInv', source' = 0, source_gen' = source_gen + 1,
         clearing' \in Nat, up' \in BOOLEAN,
         main' = "expose" => main = "expose",
         UNCHANGED <<sources, queueVars, feederVars, gen, pulled, output, exposed>>
  PROVE  FeederInv'
<1>1. UnitsInOrder' /\ OfferedInOrder' /\ SourceStartsDecodable'
  BY FewerUnits DEF Fed, Queued, feederVars, queueVars
<1>2. /\ sources \in Nat /\ source_gen \in Nat /\ gate.source_gen \in 0..source_gen
  BY DEF FeederInv, TypeOK
<1>3. TypeOK'
  <2>1. gate \in [source_gen : 0..source_gen', gen : 0..gen, index : Nat,
                  awaiting : BOOLEAN]
    BY <1>2 DEF FeederInv, TypeOK
  <2> QED BY <1>2, <2>1 DEF FeederInv, TypeOK, EncoderInv, queueVars, feederVars
<1>4. GateRemembers' /\ SourceUntouched'
  BY <1>2 DEF FeederInv, GateRemembers, SourceUntouched, Fed, Queued, feederVars,
              queueVars
<1>5. ExposedOnce'
  BY DEF FeederInv, ExposedOnce, feederVars
<1> QED BY <1>1, <1>3, <1>4, <1>5 DEF FeederInv

LEMMA UnbindPreserves == FeederInv /\ Unbind => FeederInv'
<1> SUFFICES ASSUME FeederInv, Unbind PROVE FeederInv'
  OBVIOUS
<1>1. EncoderInv'
  BY EncoderUnchanged DEF Unbind, FeederInv
<1>2. clearing' \in Nat /\ up' \in BOOLEAN
  BY DEF Unbind, FeederInv, TypeOK
<1> QED BY <1>1, <1>2, NoSourcePreserves DEF Unbind, encoderVars, flagVars

(* Steps that take units away, or nothing, and move the threads on.        *)
LEMMA TakesAwayPreserves ==
  ASSUME FeederInv, EncoderInv', TypeOK',
         UNCHANGED <<gen, pulled, output, exposed, source, sources, source_gen,
                     gate, offered>>,
         Fed' \subseteq Fed, Queued' \subseteq Queued,
         main' = "expose" => main = "expose",
         feeder.at = "none" => feeder'.at = "none"
  PROVE  FeederInv'
<1>1. UnitsInOrder' /\ OfferedInOrder' /\ SourceStartsDecodable'
  BY FewerUnits
<1>2. ExposedOnce' /\ GateRemembers' /\ SourceUntouched'
  BY DEF FeederInv, ExposedOnce, GateRemembers, SourceUntouched
<1> QED BY <1>1, <1>2 DEF FeederInv

LEMMA EmptyQueueType == <<>> \in Seq(QueuedUnit) /\ Len(<<>>) <= 1
OBVIOUS

LEMMA ClearPreserves == FeederInv /\ Clear => FeederInv'
<1> SUFFICES ASSUME FeederInv, Clear PROVE FeederInv'
  OBVIOUS
<1>1. EncoderInv'
  BY EncoderUnchanged DEF Clear, FeederInv
<1>2. TypeOK'
  BY <1>1, EmptyQueueType
     DEF Clear, FeederInv, TypeOK, EncoderInv, feederVars, encoderVars, flagVars
<1> QED BY <1>1, <1>2, TakesAwayPreserves
      DEF Clear, encoderVars, flagVars, feederVars, Fed, Queued

LEMMA FeederExitPreserves == FeederInv /\ FeederExit => FeederInv'
<1> SUFFICES ASSUME FeederInv, FeederExit PROVE FeederInv'
  OBVIOUS
<1>1. EncoderInv'
  BY EncoderUnchanged DEF FeederExit, FeederInv
<1>2. TypeOK'
  BY <1>1, FeederTypes
     DEF FeederExit, FeederAt, FeederInv, TypeOK, EncoderInv, encoderVars, flagVars,
         sourceVars, queueVars
<1> QED BY <1>1, <1>2, TakesAwayPreserves
      DEF FeederExit, FeederAt, encoderVars, flagVars, sourceVars, queueVars, Fed,
          Queued

(* The unit in the queue becomes the feeder's. *)
LEMMA FeederPopPreserves == FeederInv /\ FeederPop => FeederInv'
<1> SUFFICES ASSUME FeederInv, FeederPop PROVE FeederInv'
  OBVIOUS
<1>1. EncoderInv'
  BY EncoderUnchanged DEF FeederPop, FeederInv
<1>2. /\ feeder'.at = "read" /\ feeder'.unit = queue[1] /\ feeder.at = "loop"
      /\ feeder' \in [at : {"none", "loop", "read", "exited"}, unit : QueuedUnit]
  BY FeederTypes DEF FeederPop, FeederAt, FeederInv
<1>3. Fed' = Queued /\ Queued' = {} /\ Fed = {} /\ Offered' = Offered
  BY <1>2 DEF FeederPop, Fed, Queued, Offered
<1>4. UnitsInOrder'
  BY <1>3 DEF FeederPop, FeederInv, UnitsInOrder, Busy, encoderVars, flagVars
<1>5. TypeOK'
  BY <1>1, <1>2, EmptyQueueType
     DEF FeederPop, FeederInv, TypeOK, EncoderInv, encoderVars, flagVars, sourceVars
<1>6. GateRemembers'
  BY <1>3 DEF FeederPop, FeederInv, GateRemembers, sourceVars
<1>7. /\ ExposedOnce' /\ SourceUntouched' /\ OfferedInOrder'
      /\ SourceStartsDecodable'
  BY <1>2 DEF FeederPop, FeederInv, ExposedOnce, SourceUntouched, OfferedInOrder,
              SourceStartsDecodable, encoderVars, sourceVars
<1> QED BY <1>1, <1>4, <1>5, <1>6, <1>7 DEF FeederInv

(* feederLoop() meets an appsrc with a unit: when something begins anew,   *)
(* or the gate still waits, nothing of that unit's generation was offered  *)
(* to that appsrc.                                                         *)
LEMMA AnewIsUntouched ==
  ASSUME FeederInv, feeder.at = "read", source # 0,
         BeginsAnew(feeder.unit) \/ gate.awaiting,
         NEW n \in 1..Len(offered), offered[n].source = source
  PROVE  offered[n].unit.gen # feeder.unit.gen
<1>1. /\ gate.source_gen = source_gen
      /\ gate.awaiting => offered[n].unit.gen # gate.gen
  BY DEF FeederInv, SourceUntouched
<1>2. offered[n].unit.gen <= gate.gen /\ gate.gen <= feeder.unit.gen
  BY DEF FeederInv, GateRemembers, Fed
<1>3. /\ offered[n].unit.gen \in Nat /\ gate.gen \in Nat /\ feeder.unit.gen \in Nat
  BY FeederTypes DEF FeederInv, Offered, QueuedUnit
<1> QED BY <1>1, <1>2, <1>3 DEF BeginsAnew

LEMMA AppendFacts ==
  ASSUME NEW S, NEW s \in Seq(S), NEW e \in S
  PROVE  /\ Append(s, e) \in Seq(S) /\ Len(Append(s, e)) = Len(s) + 1
         /\ Append(s, e)[Len(s) + 1] = e
         /\ \A n \in 1..Len(s) : Append(s, e)[n] = s[n]
         /\ 1..Len(s)+1 = (1..Len(s)) \cup {Len(s) + 1}
OBVIOUS

LEMMA FeederPushPreserves == FeederInv /\ FeederPush => FeederInv'
<1> SUFFICES ASSUME FeederInv, FeederPush PROVE FeederInv'
  OBVIOUS
<1> DEFINE u == feeder.unit
           g == IF BeginsAnew(u)
                  THEN [source_gen |-> source_gen, gen |-> u.gen, index |-> 0,
                        awaiting |-> TRUE]
                  ELSE gate
           entry(made) == [source |-> source, index |-> g.index, unit |-> u,
                           made |-> made]
           L == Len(offered)
<1>1. EncoderInv'
  BY EncoderUnchanged DEF FeederPush, FeederInv
<1>2. /\ feeder.at = "read" /\ feeder' = FeederAt("loop") /\ feeder'.at = "loop"
      /\ UNCHANGED <<encoderVars, sourceVars, queueVars>>
      /\ feeder' \in [at : {"none", "loop", "read", "exited"}, unit : QueuedUnit]
  BY FeederTypes DEF FeederPush, FeederAt, FeederInv
<1>3. Fed = {u} /\ Fed' = {} /\ Queued' = Queued
  BY <1>2 DEF Fed, Queued, queueVars
<1>4. ExposedOnce'
  BY <1>2 DEF FeederInv, ExposedOnce, encoderVars
<1>5. UNCHANGED <<gen, pulled, output, main, exposed>>
  BY <1>2 DEF encoderVars, flagVars
<1>6. /\ u \in QueuedUnit /\ u.id \in Nat /\ u.gen \in Nat /\ u.dec \in BOOLEAN
      /\ offered \in Seq(Offer) /\ L \in Nat /\ gen \in Nat /\ source \in Nat
      /\ source_gen \in Nat /\ sources \in Nat /\ source <= sources
      /\ gate \in [source_gen : 0..source_gen, gen : 0..gen, index : Nat,
                   awaiting : BOOLEAN]
  BY FeederTypes DEF FeederInv, TypeOK, QueuedUnit
<1>7. u.gen <= gen /\ gate.gen <= u.gen /\ \A w \in Queued : Before(u, w)
  BY <1>3 DEF FeederInv, UnitsInOrder, GateRemembers
<1>8. /\ g \in [source_gen : 0..source_gen, gen : 0..gen, index : Nat,
                awaiting : BOOLEAN]
      /\ g.source_gen = source_gen /\ g.gen = u.gen
      /\ g.awaiting => g.index = 0
      /\ g.awaiting <=> (BeginsAnew(u) \/ gate.awaiting)
      /\ ~g.awaiting => g = gate
  BY <1>6, <1>7 DEF BeginsAnew, FeederInv, GateRemembers
<1>9. CASE source = 0
  <2>1. UNCHANGED <<gate, offered>>
    BY <1>9 DEF FeederPush
  <2>2. TypeOK'
    BY <1>1, <1>2, <1>5, <2>1
       DEF FeederInv, TypeOK, EncoderInv, sourceVars, queueVars
  <2> QED BY <1>1, <1>2, <1>3, <1>5, <2>1, <2>2, TakesAwayPreserves DEF sourceVars
<1> SUFFICES ASSUME source # 0 PROVE FeederInv'
  BY <1>9
<1>10. \A n \in 1..L : g.awaiting /\ offered[n].source = source =>
                         offered[n].unit.gen # u.gen
  BY <1>2, <1>8, AnewIsUntouched
<1>11. \A n \in 1..L : offered[n].unit.gen <= u.gen
  <2> TAKE n \in 1..L
  <2>1. offered[n].unit.gen <= gate.gen
    BY DEF FeederInv, GateRemembers
  <2>2. offered[n].unit.gen \in Nat /\ gate.gen \in Nat
    BY FeederTypes DEF FeederInv, Offered, QueuedUnit
  <2>3. u.gen \in Nat /\ gate.gen <= u.gen
    BY <1>6, <1>7
  <2> HIDE DEF u
  <2> QED BY <2>1, <2>2, <2>3
<1> HIDE DEF g
<1>12. CASE g.awaiting /\ ~u.dec
  <2>1. gate' = g /\ UNCHANGED offered
    BY <1>12 DEF FeederPush, g
  <2>2. UnitsInOrder' /\ OfferedInOrder' /\ SourceStartsDecodable'
    BY <1>3, <1>5, <2>1, FewerUnits
  <2>3. TypeOK'
    BY <1>1, <1>2, <1>5, <1>8, <2>1
       DEF FeederInv, TypeOK, EncoderInv, sourceVars, queueVars
  <2>4. GateRemembers'
    <3>1. \A w \in Queued : u.gen <= w.gen
      BY <1>7 DEF Before
    <3> QED BY <1>2, <1>3, <1>8, <1>11, <1>12, <2>1, <3>1
          DEF FeederInv, GateRemembers, sourceVars
  <2>5. SourceUntouched'
    BY <1>2, <1>8, <1>10, <2>1 DEF SourceUntouched, sourceVars
  <2> QED BY <1>1, <1>4, <2>2, <2>3, <2>4, <2>5 DEF FeederInv
<1>13. CASE ~(g.awaiting /\ ~u.dec)
  <2>1. PICK made \in BOOLEAN :
          /\ gate' = [g EXCEPT !.index = @ + 1, !.awaiting = FALSE]
          /\ offered' = Append(offered, entry(made))
    BY <1>13 DEF FeederPush, g
  <2> DEFINE o == entry(made)
  <2>0. offered' = Append(offered, o)
    BY <2>1
  <2>2. /\ gate' \in [source_gen : 0..source_gen, gen : 0..gen, index : Nat,
                      awaiting : BOOLEAN]
        /\ gate'.source_gen = source_gen /\ gate'.gen = u.gen
        /\ gate'.index = g.index + 1 /\ ~gate'.awaiting
    <3> DEFINE h == [source_gen |-> g.source_gen, gen |-> g.gen,
                     index |-> g.index + 1, awaiting |-> FALSE]
    <3>1. gate' = h
      BY <1>8, <2>1
    <3> QED BY <1>6, <1>8, <3>1
  <2>3. o \in Offer /\ o.source = source /\ o.index = g.index /\ o.unit = u
    BY <1>6, <1>8 DEF Offer
  <2> HIDE DEF o, u, entry
  <2>4. /\ offered' \in Seq(Offer) /\ Len(offered') = L + 1
        /\ offered'[L + 1] = o
        /\ \A n \in 1..L : offered'[n] = offered[n]
        /\ 1..L+1 = (1..L) \cup {L + 1}
    BY <1>6, <2>0, <2>3, AppendFacts
  <2>5. Offered' = Offered \cup {u}
    <3>1. Offered' = {offered'[n].unit : n \in (1..L) \cup {L + 1}}
      BY <2>4 DEF Offered
    <3>2. Offered = {offered[n].unit : n \in 1..L}
      BY DEF Offered
    <3> HIDE DEF L
    <3> QED BY <2>3, <2>4, <3>1, <3>2
  <2>6. TypeOK'
    BY <1>1, <1>2, <1>5, <2>2, <2>4
       DEF FeederInv, TypeOK, EncoderInv, sourceVars, queueVars
  <2>7. UnitsInOrder'
    BY <1>3, <1>5, <2>5 DEF FeederInv, UnitsInOrder, Busy
  <2>8. OfferedInOrder'
    <3>1. \A n \in 1..L : Before(offered[n].unit, u)
      BY <1>3 DEF FeederInv, UnitsInOrder, Offered
    <3>2. ASSUME NEW n \in 2..L+1
          PROVE  /\ offered'[n-1].unit.id < offered'[n].unit.id
                 /\ offered'[n-1].unit.gen <= offered'[n].unit.gen
      <4> HIDE DEF L
      <4>0. n-1 \in 1..L /\ (n = L + 1 \/ n \in 2..L)
        <5>1. L \in Nat
          BY <1>6
        <5> QED BY <5>1
      <4>1. offered'[n-1] = offered[n-1]
        BY <2>4, <4>0
      <4>2. CASE n = L + 1
        BY <2>3, <2>4, <3>1, <4>0, <4>1, <4>2 DEF Before
      <4>3. CASE n \in 2..L
        <5>1. offered'[n] = offered[n]
          BY <1>6, <2>4, <4>3
        <5> QED BY <4>1, <4>3, <5>1 DEF FeederInv, OfferedInOrder, L
      <4> QED BY <4>0, <4>2, <4>3
    <3> QED BY <2>4, <3>2 DEF OfferedInOrder
  <2>9. GateRemembers'
    <3>1. \A w \in Queued : u.gen <= w.gen
      BY <1>7 DEF Before
    <3>2. \A n \in 1..L+1 : /\ offered'[n].source \in 1..sources
                            /\ offered'[n].unit.gen <= u.gen
      <4>1. \A n \in 1..L : offered[n].source \in 1..sources
        BY DEF FeederInv, GateRemembers
      <4>2. source \in 1..sources /\ u.gen <= u.gen
        BY <1>6
      <4>3. \A n \in 1..L : offered'[n].source \in 1..sources
        BY <2>4, <4>1
      <4>4. \A n \in 1..L : offered'[n].unit.gen <= u.gen
        BY <1>11, <2>4
      <4>5. offered'[L+1].source \in 1..sources /\ offered'[L+1].unit.gen <= u.gen
        BY <2>3, <2>4, <4>2
      <4>6. \A n \in 1..L+1 : n \in 1..L \/ n = L + 1
        BY <1>6
      <4> QED BY <4>3, <4>4, <4>5, <4>6, SMTT(20)
    <3>3. offered' # <<>>
      BY <1>6, <2>4
    <3> QED BY <1>2, <1>3, <1>6, <1>8, <2>2, <2>3, <2>4, <3>1, <3>2, <3>3, SMTT(30)
          DEF GateRemembers, sourceVars
  <2>10. SourceUntouched'
    BY <1>2, <2>2 DEF SourceUntouched, sourceVars
  <2>11. SourceStartsDecodable'
    <3> DEFINE before(n) == {p \in 1..n-1 : /\ offered[p].source = offered[n].source
                                            /\ offered[p].unit.gen = offered[n].unit.gen}
               before2(n) == {p \in 1..n-1 : /\ offered'[p].source = offered'[n].source
                                             /\ offered'[p].unit.gen = offered'[n].unit.gen}
               ok(n) == IF before2(n) = {} THEN offered'[n].unit.dec /\ offered'[n].index = 0
                        ELSE /\ offered'[n-1].source = offered'[n].source
                             /\ offered'[n-1].index = offered'[n].index - 1
    <3>1. ASSUME NEW n \in 1..L PROVE ok(n)
      <4>1. \A p \in 1..n : offered'[p] = offered[p]
        BY <1>6, <2>4
      <4>2. before2(n) = before(n)
        <5>1. \A p \in 1..n-1 : p \in 1..n
          BY <1>6
        <5>2. n \in 1..n
          BY <1>6
        <5> QED BY <4>1, <5>1, <5>2
      <4>3. IF before(n) = {} THEN offered[n].unit.dec /\ offered[n].index = 0
            ELSE /\ offered[n-1].source = offered[n].source
                 /\ offered[n-1].index = offered[n].index - 1
        BY DEF FeederInv, SourceStartsDecodable
      <4>4. n-1 \in 1..n \/ before(n) = {}
        BY <1>6
      <4> HIDE DEF before, before2
      <4> QED BY <1>6, <4>1, <4>2, <4>3, <4>4, SMTT(30)
    <3>2. ok(L + 1)
      <4>1. CASE g.awaiting
        <5>1. before2(L + 1) = {}
          BY <1>6, <1>10, <2>3, <2>4, <4>1, SMTT(20)
        <5>2. u.dec /\ g.index = 0
          BY <1>8, <1>13, <4>1
        <5> HIDE DEF before2
        <5> QED BY <2>3, <2>4, <5>1, <5>2
      <4>2. CASE ~g.awaiting
        <5>1. /\ g = gate /\ ~gate.awaiting /\ gate.source_gen = source_gen
              /\ gate.gen = u.gen
          BY <1>8, <4>2
        <5>2. /\ L >= 1 /\ offered[L].source = source
              /\ offered[L].index = gate.index - 1 /\ offered[L].unit.gen = u.gen
          BY <1>6, <5>1 DEF FeederInv, GateRemembers
        <5>3. offered'[L] = offered[L] /\ L \in 1..L /\ (L + 1) - 1 = L
          BY <1>6, <2>4, <5>2
        <5>4. L \in before2(L + 1)
          BY <1>6, <2>3, <2>4, <5>2, <5>3
        <5> HIDE DEF before2
        <5> QED BY <2>3, <2>4, <5>1, <5>2, <5>3, <5>4
      <4> QED BY <4>1, <4>2
    <3> HIDE DEF ok
    <3>3. \A n \in 1..L+1 : ok(n)
      BY <2>4, <3>1, <3>2
    <3> USE DEF ok
    <3> QED BY <2>4, <3>3 DEF SourceStartsDecodable
  <2> QED BY <1>1, <1>4, <2>6, <2>7, <2>8, <2>9, <2>10, <2>11 DEF FeederInv
<1> QED BY <1>12, <1>13

(* main() moves on; the encoder's threads do not. *)
LEMMA MainMovesPreserves ==
  ASSUME EncoderInv,
         UNCHANGED <<flagVars, frameVars, codecVars, input, bus, output, pulled,
                     keyed>>,
         \/ main = "expose" /\ main' = "serve" /\ exposed' = TRUE
         \/ /\ main' \in {"exit", "exit_feeder", "over"}
            /\ exposed' = exposed
  PROVE  EncoderInv'
<1>1. EncoderTypeOK'
  <2>1. main' \in {"serve", "exit", "exit_feeder", "over"} /\ exposed' \in BOOLEAN
    BY DEF EncoderInv, EncoderTypeOK
  <2> QED BY <2>1
     DEF EncoderInv, EncoderTypeOK, flagVars, frameVars, codecVars, inputVars
<1> QED BY <1>1 DEF EncoderInv, Quiet, SamplesTimed, UnitCurrent, Busy, SeenCurrent,
      ServesOnlyAfterKeyframe, SensorTimestampExact, flagVars,
      frameVars, codecVars, inputVars

(* The server starts with nothing queued, nothing offered and a gate that  *)
(* waits.                                                                  *)
LEMMA RtspStartPreserves == FeederInv /\ RtspStart => FeederInv'
<1> SUFFICES ASSUME FeederInv, RtspStart PROVE FeederInv'
  OBVIOUS
<1>1. EncoderInv'
  BY MainMovesPreserves DEF RtspStart, FeederInv
<1>2. /\ offered = <<>> /\ offered' = <<>> /\ queue' = <<>>
      /\ feeder' = FeederAt("loop") /\ feeder'.at = "loop"
  BY DEF RtspStart, FeederInv, ExposedOnce, FeederAt
<1>3. Offered' = {} /\ Fed' = {} /\ Queued' = {} /\ Len(offered') = 0
  BY <1>2 DEF Offered, Fed, Queued
<1>4. UnitsInOrder' /\ SourceUntouched' /\ OfferedInOrder' /\ SourceStartsDecodable'
  BY <1>3 DEF UnitsInOrder, SourceUntouched, OfferedInOrder, SourceStartsDecodable
<1>5. GateRemembers'
  BY <1>3 DEF RtspStart, GateRemembers
<1>6. TypeOK'
  <2>1. feeder' \in [at : {"none", "loop", "read", "exited"}, unit : QueuedUnit]
    BY <1>2, FeederTypes DEF FeederAt, FeederInv
  <2>2. gate' \in [source_gen : 0..source_gen, gen : 0..gen, index : Nat,
                   awaiting : BOOLEAN]
    BY FeederTypes DEF RtspStart, FeederInv, TypeOK
  <2>3. offered' \in Seq(Offer)
    BY <1>2 DEF FeederInv, TypeOK
  <2> QED BY <1>1, <1>2, <2>1, <2>2, <2>3, EmptyQueueType
        DEF RtspStart, FeederInv, TypeOK, EncoderInv, flagVars
<1>7. ExposedOnce'
  BY DEF RtspStart, ExposedOnce
<1> QED BY <1>1, <1>4, <1>5, <1>6, <1>7 DEF FeederInv

LEMMA RtspStartFailsPreserves == FeederInv /\ RtspStartFails => FeederInv'
<1> SUFFICES ASSUME FeederInv, RtspStartFails PROVE FeederInv'
  OBVIOUS
<1>1. EncoderInv'
  BY MainMovesPreserves DEF RtspStartFails, FeederInv
<1>2. TypeOK'
  BY <1>1 DEF RtspStartFails, FeederInv, TypeOK, EncoderInv, flagVars, sourceVars,
              queueVars, feederVars
<1> QED BY <1>1, <1>2, TakesAwayPreserves
      DEF RtspStartFails, flagVars, sourceVars, queueVars, feederVars, Fed, Queued

LEMMA RtspStopPreserves == FeederInv /\ RtspStop => FeederInv'
<1> SUFFICES ASSUME FeederInv, RtspStop PROVE FeederInv'
  OBVIOUS
<1>1. EncoderInv'
  BY MainMovesPreserves DEF RtspStop, FeederInv
<1>2. queue' = queue \/ queue' = <<>>
  BY DEF RtspStop, queueVars
<1>3. qclosed' \in BOOLEAN
  BY DEF RtspStop, queueVars, FeederInv, TypeOK
<1>4. TypeOK'
  BY <1>1, <1>2, <1>3, EmptyQueueType
     DEF RtspStop, FeederInv, TypeOK, EncoderInv, flagVars, feederVars
<1> QED BY <1>1, <1>2, <1>4, TakesAwayPreserves
      DEF RtspStop, flagVars, feederVars, Fed, Queued

LEMMA RtspStoppedPreserves == FeederInv /\ RtspStopped => FeederInv'
<1> SUFFICES ASSUME FeederInv, RtspStopped PROVE FeederInv'
  OBVIOUS
<1>1. EncoderInv'
  BY MainMovesPreserves DEF RtspStopped, FeederInv
<1> QED BY <1>1, NoSourcePreserves
      DEF RtspStopped, FeederInv, TypeOK, flagVars

LEMMA FeederInvInit == Init => FeederInv
<1> SUFFICES ASSUME Init PROVE FeederInv
  OBVIOUS
<1>1. EncoderTypeOK
  <2>1. At("none") \in [at : {"none", "loop", "ready", "deliver", "push", "exited"},
                        unit : Unit]
    BY DEF At, NoUnit, Unit
  <2>2. <<>> \in Seq(Sample) /\ Len(<<>>) <= SinkMax
    BY EncoderAssumption
  <2> QED BY <2>1, <2>2, LatestType DEF Init, EncoderInit, EncoderTypeOK
<1>2. EncoderInv
  BY <1>1 DEF Init, EncoderInit, EncoderInv, Quiet, SamplesTimed, UnitCurrent, Busy,
     SeenCurrent, ServesOnlyAfterKeyframe, SensorTimestampExact, At
<1>3. Offered = {} /\ Fed = {} /\ Queued = {} /\ Len(offered) = 0
  BY DEF Init, Offered, Fed, Queued, FeederAt
<1>4. /\ UnitsInOrder /\ SourceUntouched /\ OfferedInOrder /\ SourceStartsDecodable
  BY <1>3 DEF UnitsInOrder, SourceUntouched, OfferedInOrder, SourceStartsDecodable
<1>5. GateRemembers /\ ExposedOnce
  BY <1>3 DEF Init, EncoderInit, GateRemembers, ExposedOnce, FeederAt
<1>6. TypeOK
  <2>1. feeder \in [at : {"none", "loop", "read", "exited"}, unit : QueuedUnit]
    BY DEF Init, FeederAt, Payload, NoUnit, QueuedUnit
  <2>2. gate \in [source_gen : 0..source_gen, gen : 0..gen, index : Nat,
                  awaiting : BOOLEAN]
    BY DEF Init, EncoderInit
  <2>3. offered \in Seq(Offer)
    BY DEF Init
  <2> QED BY <1>1, <2>1, <2>2, <2>3, EmptyQueueType DEF Init, TypeOK
<1> QED BY <1>2, <1>4, <1>5, <1>6 DEF FeederInv

LEMMA FeederInvPreserved == FeederInv /\ [Next]_vars => FeederInv'
<1> SUFFICES ASSUME FeederInv, [Next]_vars PROVE FeederInv'
  OBVIOUS
<1>1. CASE UNCHANGED vars
  <2>1. EncoderInv'
    BY <1>1, EncoderUnchanged DEF FeederInv, vars
  <2>2. TypeOK'
    BY <1>1, <2>1 DEF FeederInv, TypeOK, EncoderInv, vars, encoderVars, flagVars,
       sourceVars, queueVars, feederVars
  <2> QED BY <1>1, <2>1, <2>2, TakesAwayPreserves
        DEF vars, encoderVars, flagVars, sourceVars, queueVars, feederVars, Fed, Queued
<1>2. CASE Encoder(EncoderStep)
  BY <1>2, EncoderStepInOrder
<1>3. CASE Submit
  BY <1>3, SubmitTestPreserves, SubmitPushPreserves DEF Submit
<1>4. CASE Feed
  BY <1>4, FeederPopPreserves, FeederPushPreserves, FeederExitPreserves DEF Feed
<1>5. CASE RtspStart \/ RtspStartFails \/ RtspStop \/ RtspStopped
  BY <1>5, RtspStartPreserves, RtspStartFailsPreserves, RtspStopPreserves,
     RtspStoppedPreserves
<1>6. CASE Bind \/ Unbind \/ Clear
  BY <1>6, BindPreserves, UnbindPreserves, ClearPreserves
<1> QED BY <1>1, <1>2, <1>3, <1>4, <1>5, <1>6
      DEF Next, Output, Main, Encoder, EncoderStep

LEMMA FeederInvAlways == Spec => []FeederInv
BY FeederInvInit, FeederInvPreserved, PTL DEF Spec

-----------------------------------------------------------------------------
(* waitForIndependentFrame() speaks of the generation it waits for: main() *)
(* opens the listener, and calls a recovery done, only after that          *)
(* generation's own decodable unit.                                        *)
THEOREM ServedAfterItsKeyframe == Spec => []ServesOnlyAfterKeyframe
<1>1. FeederInv => ServesOnlyAfterKeyframe
  BY DEF FeederInv, EncoderInv
<1> QED BY <1>1, FeederInvAlways, PTL

(* outputLoop() gives every unit the sensor timestamp of its own frame,    *)
(* but for a unit whose sample has no PTS, which gets that of its          *)
(* generation's first frame, and one of a frame earlier than that.         *)
THEOREM TimestampsAreExact == Spec => []SensorTimestampExact
<1>1. FeederInv => SensorTimestampExact
  BY DEF FeederInv, EncoderInv
<1> QED BY <1>1, FeederInvAlways, PTL

(* What feederLoop()'s gate lets through to an appsrc of one generation    *)
(* starts with a decodable unit and is numbered from 0 without gaps,       *)
(* counting the units that makeBuffer() makes no buffer of.                *)
THEOREM SourcesStartDecodable == Spec => []SourceStartsDecodable
<1>1. FeederInv => SourceStartsDecodable
  BY DEF FeederInv
<1> QED BY <1>1, FeederInvAlways, PTL

(* feederLoop() offers units in the order of output, each at most once,    *)
(* through submit()'s queue and every restart of the encoder.              *)
THEOREM UnitsOfferedInOrder == Spec => []OfferedInOrder
<1>1. FeederInv => OfferedInOrder
  BY DEF FeederInv
<1> QED BY <1>1, FeederInvAlways, PTL

-----------------------------------------------------------------------------
(* Sets of natural numbers have a least element; from it, induction.       *)
LEMMA LeastElement ==
  ASSUME NEW T \in SUBSET Nat, T # {}
  PROVE  \E m \in T : \A k \in T : m <= k
<1> DEFINE R == OpToRel(<, Nat)
<1>1. IsWellFoundedOn(R, Nat)
  BY NatLessThanWellFounded
<1>2. \A a, b \in Nat : a < b => <<a, b>> \in R
  BY DEF OpToRel
<1> HIDE DEF R
<1>3. PICK x \in T : \A y \in T : ~(<<y, x>> \in R)
  BY <1>1, WFMin
<1>4. \A y \in T : ~(y < x)
  BY <1>2, <1>3
<1>5. \A y \in T : x <= y
  BY <1>4
<1> QED BY <1>5

LEMMA SetInduction ==
  ASSUME NEW T, 0 \in T, \A n \in Nat : n \in T => n + 1 \in T
  PROVE  Nat \subseteq T
<1> DEFINE B == Nat \ T
<1> SUFFICES ASSUME B # {} PROVE FALSE
  OBVIOUS
<1>1. PICK m \in B : \A k \in B : m <= k
  BY LeastElement
<1>2. m \in Nat /\ m # 0 /\ m - 1 \in Nat /\ m - 1 \notin B
  BY <1>1
<1> QED BY <1>1, <1>2

-----------------------------------------------------------------------------
(* inspectH264ByteStream(): its loop is a recursive function, the scan.    *)

LEMMA StartCodeBytes ==
  ASSUME NEW data, Len(data) \in Nat, NEW o \in Nat
  PROVE  /\ BytesAt(data, o, <<0, 0, 1>>) <=>
              o + 3 <= Len(data) /\ data[o+1] = 0 /\ data[o+2] = 0 /\ data[o+3] = 1
         /\ BytesAt(data, o, <<0, 0, 0, 1>>) <=>
              o + 4 <= Len(data) /\ data[o+1] = 0 /\ data[o+2] = 0 /\ data[o+3] = 0 /\ data[o+4] = 1
<1>1. /\ Len(<<0, 0, 1>>) = 3 /\ <<0, 0, 1>>[1] = 0 /\ <<0, 0, 1>>[2] = 0 /\ <<0, 0, 1>>[3] = 1
      /\ 1..3 = {1, 2, 3}
  OBVIOUS
<1>2. /\ Len(<<0, 0, 0, 1>>) = 4 /\ <<0, 0, 0, 1>>[1] = 0 /\ <<0, 0, 0, 1>>[2] = 0
      /\ <<0, 0, 0, 1>>[3] = 0 /\ <<0, 0, 0, 1>>[4] = 1
      /\ 1..4 = {1, 2, 3, 4}
  OBVIOUS
<1>3. BytesAt(data, o, <<0, 0, 1>>) <=>
        o + 3 <= Len(data) /\ data[o+1] = 0 /\ data[o+2] = 0 /\ data[o+3] = 1
  BY <1>1 DEF BytesAt
<1>4. BytesAt(data, o, <<0, 0, 0, 1>>) <=>
        o + 4 <= Len(data) /\ data[o+1] = 0 /\ data[o+2] = 0 /\ data[o+3] = 0 /\ data[o+4] = 1
  BY <1>2 DEF BytesAt
<1> QED BY <1>3, <1>4

(* What one iteration adds to what f finds behind it. *)
ScanStep(data, f, o) ==
  LET size == Len(data)
      prefix == startCodeLength(data, o)
      header == o + prefix
  IN IF o + 3 >= size THEN {}
     ELSE IF prefix = 0 THEN f[o + 1]
     ELSE IF header >= size THEN {}
     ELSE {NalType(data[header + 1])} \cup f[header + 1]

(* f is what the loop finds from low on. *)
IsScan(f, data, low) == f = [o \in low..Len(data) |-> ScanStep(data, f, o)]

LEMMA ScanLooksAhead ==
  ASSUME NEW data, Len(data) \in Nat, NEW f, NEW g, NEW o \in Nat,
         \A i \in o+1..Len(data) : f[i] = g[i]
  PROVE  ScanStep(data, f, o) = ScanStep(data, g, o)
<1> DEFINE size == Len(data)
           prefix == startCodeLength(data, o)
           header == o + prefix
<1>1. prefix \in {0, 3, 4}
  BY DEF startCodeLength
<1>2. o + 3 < size => o + 1 \in o+1..size
  OBVIOUS
<1>3. prefix # 0 /\ header < size => header + 1 \in o+1..size
  BY <1>1
<1> HIDE DEF prefix
<1>4. CASE o + 3 >= size
  BY <1>4 DEF ScanStep
<1>5. CASE o + 3 < size /\ prefix = 0
  <2>1. f[o+1] = g[o+1]
    BY <1>2, <1>5
  <2> QED BY <1>5, <2>1 DEF ScanStep, prefix
<1>6. CASE o + 3 < size /\ prefix # 0 /\ header >= size
  BY <1>6 DEF ScanStep, prefix
<1>7. CASE o + 3 < size /\ prefix # 0 /\ header < size
  <2>1. f[header+1] = g[header+1]
    BY <1>3, <1>7
  <2> QED BY <1>7, <2>1 DEF ScanStep, prefix
<1> QED BY <1>1, <1>4, <1>5, <1>6, <1>7

LEMMA ScanExists ==
  ASSUME NEW data, Len(data) \in Nat
  PROVE  \E f : IsScan(f, data, 0)
<1> DEFINE size == Len(data)
           T == {m \in Nat : m <= size => \E f : IsScan(f, data, size - m)}
<1>1. 0 \in T
  <2> DEFINE f == [o \in size-0..size |-> {}]
  <2>1. ASSUME NEW o \in size-0..size PROVE f[o] = ScanStep(data, f, o)
    BY DEF ScanStep
  <2>2. f = [o \in size-0..size |-> f[o]]
    OBVIOUS
  <2> HIDE DEF f
  <2>3. IsScan(f, data, size - 0)
    BY <2>1, <2>2 DEF IsScan
  <2> QED BY <2>3
<1>2. ASSUME NEW m \in Nat, m \in T PROVE m + 1 \in T
  <2> SUFFICES ASSUME m + 1 <= size PROVE \E f : IsScan(f, data, size - (m + 1))
    OBVIOUS
  <2>1. PICK f : IsScan(f, data, size - m)
    BY <1>2
  <2> DEFINE low == size - (m + 1)
             g == [o \in low..size |-> IF o = low THEN ScanStep(data, f, low) ELSE f[o]]
  <2>2. low \in Nat /\ low + 1 = size - m /\ low \in low..size /\ size \in Nat
    OBVIOUS
  <2> HIDE DEF low
  <2>3. \A o \in low+1..size : g[o] = f[o]
    BY <2>2
  <2>4. g[low] = ScanStep(data, f, low)
    BY <2>2
  <2>5. g = [o \in low..size |-> g[o]]
    OBVIOUS
  <2> HIDE DEF g
  <2>6. ASSUME NEW o \in low..size PROVE g[o] = ScanStep(data, g, o)
    <3>1. \A i \in o+1..size : f[i] = g[i]
      BY <2>2, <2>3
    <3>2. o \in Nat
      BY <2>2
    <3>3. ScanStep(data, f, o) = ScanStep(data, g, o)
      BY <3>1, <3>2, ScanLooksAhead
    <3>4. CASE o = low
      BY <2>4, <3>3, <3>4
    <3>5. CASE o \in low+1..size
      <4>1. f[o] = ScanStep(data, f, o)
        BY <2>1, <2>2, <3>5 DEF IsScan
      <4> QED BY <2>3, <3>3, <3>5, <4>1
    <3> QED BY <2>2, <3>4, <3>5
  <2>7. IsScan(g, data, low)
    BY <2>5, <2>6 DEF IsScan
  <2> QED BY <2>7 DEF low
<1> HIDE DEF T
<1>3. Nat \subseteq T
  BY <1>1, <1>2, SetInduction
<1>4. size \in T
  BY <1>3
<1> QED BY <1>4 DEF T

(* The types of the NAL units whose start code is at o or later. *)
FoundFrom(data, o) ==
  {NalType(data[i + 4]) : i \in {j \in o..Len(data)-4 : BytesAt(data, j, <<0, 0, 1>>)}}

LEMMA FoundSkip ==
  ASSUME NEW data, Len(data) \in Nat, NEW o \in Nat, ~BytesAt(data, o, <<0, 0, 1>>)
  PROVE  FoundFrom(data, o) = FoundFrom(data, o + 1)
<1>1. ASSUME NEW j PROVE j \in o..Len(data)-4 <=> (j = o /\ o <= Len(data)-4) \/ j \in o+1..Len(data)-4
  OBVIOUS
<1>2. {j \in o..Len(data)-4 : BytesAt(data, j, <<0, 0, 1>>)}
        = {j \in o+1..Len(data)-4 : BytesAt(data, j, <<0, 0, 1>>)}
  BY <1>1
<1> QED BY <1>2 DEF FoundFrom

LEMMA FoundHere ==
  ASSUME NEW data, Len(data) \in Nat, NEW o \in Nat, BytesAt(data, o, <<0, 0, 1>>),
         o + 3 < Len(data)
  PROVE  FoundFrom(data, o) = {NalType(data[o + 4])} \cup FoundFrom(data, o + 1)
<1>1. ASSUME NEW j PROVE j \in o..Len(data)-4 <=> j = o \/ j \in o+1..Len(data)-4
  OBVIOUS
<1>2. {j \in o..Len(data)-4 : BytesAt(data, j, <<0, 0, 1>>)}
        = {o} \cup {j \in o+1..Len(data)-4 : BytesAt(data, j, <<0, 0, 1>>)}
  BY <1>1
<1> QED BY <1>2 DEF FoundFrom

LEMMA FoundNone ==
  ASSUME NEW data, Len(data) \in Nat, NEW o \in Nat, o + 3 >= Len(data)
  PROVE  FoundFrom(data, o) = {}
<1>1. o..Len(data)-4 = {}
  OBVIOUS
<1> QED BY <1>1 DEF FoundFrom

(* Behind a start code there is none that begins in it or in the header,   *)
(* which is not zero.                                                      *)
LEMMA FoundBehind ==
  ASSUME NEW data, Len(data) \in Nat, NEW o \in Nat, BytesAt(data, o, <<0, 0, 1>>),
         o + 3 < Len(data), data[o + 4] # 0
  PROVE  FoundFrom(data, o) = {NalType(data[o + 4])} \cup FoundFrom(data, o + 4)
<1>1. data[o+3] = 1
  BY StartCodeBytes
<1>2. data[o+2] = 0
  BY StartCodeBytes
<1>3. ~BytesAt(data, o+1, <<0, 0, 1>>)
  <2>1. o + 1 \in Nat /\ o + 1 + 2 = o + 3
    OBVIOUS
  <2>2. BytesAt(data, o+1, <<0, 0, 1>>) => data[o+1+2] = 0
    BY <2>1, StartCodeBytes
  <2> QED BY <1>1, <2>1, <2>2
<1>4. ~BytesAt(data, o+2, <<0, 0, 1>>)
  <2>1. o + 2 \in Nat /\ o + 2 + 1 = o + 3
    OBVIOUS
  <2>2. BytesAt(data, o+2, <<0, 0, 1>>) => data[o+2+1] = 0
    BY <2>1, StartCodeBytes
  <2> QED BY <1>1, <2>1, <2>2
<1>5. ~BytesAt(data, o+3, <<0, 0, 1>>)
  <2>1. o + 3 \in Nat /\ o + 3 + 1 = o + 4
    OBVIOUS
  <2>2. BytesAt(data, o+3, <<0, 0, 1>>) => data[o+3+1] = 0
    BY <2>1, StartCodeBytes
  <2> QED BY <2>1, <2>2
<1>6. /\ o+1 \in Nat /\ o+2 \in Nat /\ o+3 \in Nat
      /\ o+1+1 = o+2 /\ o+2+1 = o+3 /\ o+3+1 = o+4
  OBVIOUS
<1>7. FoundFrom(data, o+1) = FoundFrom(data, o+1+1)
  BY <1>3, <1>6, FoundSkip
<1>8. FoundFrom(data, o+2) = FoundFrom(data, o+2+1)
  BY <1>4, <1>6, FoundSkip
<1>9. FoundFrom(data, o+3) = FoundFrom(data, o+3+1)
  BY <1>5, <1>6, FoundSkip
<1>10. FoundFrom(data, o+1) = FoundFrom(data, o+4)
  BY <1>6, <1>7, <1>8, <1>9
<1> QED BY <1>10, FoundHere

LEMMA ScanStepFinds ==
  ASSUME NEW data, Len(data) \in Nat, 0 \notin Headers(data), NEW f, NEW o \in Nat,
         \A i \in o+1..Len(data) : f[i] = FoundFrom(data, i)
  PROVE  ScanStep(data, f, o) = FoundFrom(data, o)
<1> DEFINE size == Len(data)
           short == BytesAt(data, o, <<0, 0, 1>>)
           long == BytesAt(data, o, <<0, 0, 0, 1>>)
<1>0. size \in Nat
  OBVIOUS
<1>1. \A i \in Nat : BytesAt(data, i, <<0, 0, 1>>) /\ i + 3 < size => data[i+4] # 0
  <2>1. \A i \in Nat : i + 3 < size => i \in 0..size-4
    OBVIOUS
  <2> QED BY <2>1 DEF Headers
<1>2. CASE o + 3 >= size
  BY <1>2, FoundNone DEF ScanStep
<1>3. CASE o + 3 < size /\ short
  <2>1. startCodeLength(data, o) = 3
    BY <1>3 DEF startCodeLength
  <2>2. ScanStep(data, f, o) = {NalType(data[o + 3 + 1])} \cup f[o + 3 + 1]
    BY <1>3, <2>1 DEF ScanStep
  <2>3. o + 3 + 1 = o + 4 /\ o + 4 \in o+1..size
    BY <1>3
  <2>4. f[o + 4] = FoundFrom(data, o + 4)
    BY <2>3
  <2>5. FoundFrom(data, o) = {NalType(data[o + 4])} \cup FoundFrom(data, o + 4)
    BY <1>1, <1>3, FoundBehind
  <2> QED BY <2>2, <2>3, <2>4, <2>5
<1>4. CASE o + 3 < size /\ ~short /\ long
  <2>1. startCodeLength(data, o) = 4
    BY <1>4 DEF startCodeLength
  <2>2. FoundFrom(data, o) = FoundFrom(data, o + 1)
    BY <1>4, FoundSkip
  <2>3. CASE o + 4 >= size
    <3>1. o + 1 \in Nat /\ o + 1 + 3 >= size
      BY <2>3
    <3>2. FoundFrom(data, o + 1) = {}
      BY <3>1, FoundNone
    <3> QED BY <1>4, <2>1, <2>2, <2>3, <3>2 DEF ScanStep
  <2>4. CASE o + 4 < size
    <3> DEFINE p == o + 1
    <3>1. p \in Nat /\ p + 3 < size /\ p + 4 = o + 5 /\ p + 1 = o + 2 /\ p + 2 = o + 3
          /\ p + 3 = o + 4
      BY <2>4
    <3>2. data[o+2] = 0 /\ data[o+3] = 0 /\ data[o+4] = 1
      BY <1>4, StartCodeBytes
    <3> HIDE DEF p
    <3>3. BytesAt(data, p, <<0, 0, 1>>)
      <4>1. p + 3 <= size /\ data[p+1] = 0 /\ data[p+2] = 0 /\ data[p+3] = 1
        BY <1>0, <3>1, <3>2
      <4> QED BY <3>1, <4>1, StartCodeBytes
    <3>4. FoundFrom(data, p) = {NalType(data[p + 4])} \cup FoundFrom(data, p + 4)
      BY <1>1, <3>1, <3>3, FoundBehind
    <3>5. ScanStep(data, f, o) = {NalType(data[o + 4 + 1])} \cup f[o + 4 + 1]
      BY <1>4, <2>1, <2>4 DEF ScanStep
    <3>6. o + 4 + 1 = o + 5 /\ o + 5 \in o+1..size
      BY <2>4
    <3>7. f[o + 5] = FoundFrom(data, o + 5)
      BY <3>6
    <3> QED BY <2>2, <3>1, <3>4, <3>5, <3>6, <3>7 DEF p
  <2> QED BY <1>0, <2>3, <2>4
<1>5. CASE o + 3 < size /\ ~short /\ ~long
  <2>1. startCodeLength(data, o) = 0
    BY <1>5 DEF startCodeLength
  <2>2. ScanStep(data, f, o) = f[o + 1] /\ o + 1 \in o+1..size
    BY <1>5, <2>1 DEF ScanStep
  <2> QED BY <1>5, <2>2, FoundSkip
<1> QED BY <1>0, <1>2, <1>3, <1>4, <1>5

LEMMA ScanFinds ==
  ASSUME NEW data, Len(data) \in Nat, 0 \notin Headers(data), NEW f, IsScan(f, data, 0)
  PROVE  f[0] = FoundFrom(data, 0)
<1> DEFINE size == Len(data)
           B == {d \in 0..size : f[size - d] # FoundFrom(data, size - d)}
<1> SUFFICES B = {}
  <2>1. size \in 0..size /\ size - size = 0
    OBVIOUS
  <2> QED BY <2>1
<1> SUFFICES ASSUME B # {} PROVE FALSE
  OBVIOUS
<1>1. B \in SUBSET Nat
  OBVIOUS
<1>2. PICK d \in B : \A e \in B : d <= e
  BY <1>1, LeastElement
<1> DEFINE o == size - d
<1>3. o \in 0..size /\ o \in Nat /\ d \in 0..size /\ f[o] # FoundFrom(data, o)
  BY <1>2
<1>4. ASSUME NEW i \in o+1..size PROVE f[i] = FoundFrom(data, i)
  <2>1. size - i \in 0..size /\ ~(d <= size - i) /\ size - (size - i) = i
    BY <1>3
  <2>2. size - i \notin B
    BY <1>2, <2>1
  <2> QED BY <2>1, <2>2
<1> HIDE DEF o
<1>5. ScanStep(data, f, o) = FoundFrom(data, o)
  BY <1>3, <1>4, ScanStepFinds
<1>6. f[o] = ScanStep(data, f, o)
  BY <1>3 DEF IsScan
<1> QED BY <1>3, <1>5, <1>6

LEMMA InspectIs ==
  ASSUME NEW data, Len(data) \in Nat, Len(data) >= 4
  PROVE  \E f : IsScan(f, data, 0) /\ inspectH264ByteStream(data) = Summary(f[0])
<1> DEFINE f == CHOOSE g : IsScan(g, data, 0)
<1>1. IsScan(f, data, 0)
  <2>1. \E g : IsScan(g, data, 0)
    BY ScanExists
  <2> QED BY <2>1, Zenon
<1>2. inspectH264ByteStream(data) = Summary(IF Len(data) < 4 THEN {} ELSE f[0])
  BY DEF inspectH264ByteStream, IsScan, ScanStep
<1>3. ~(Len(data) < 4)
  OBVIOUS
<1> HIDE DEF f
<1> QED BY <1>1, <1>2, <1>3

LEMMA ScanCorrect ==
  ASSUME NEW B, NEW n \in Nat
  PROVE  ScanFindsNalUnits(B, n)
<1> SUFFICES ASSUME NEW data \in ByteStreams(B, n)
             PROVE  inspectH264ByteStream(data) = Summary({NalType(h) : h \in Headers(data)})
  BY DEF ScanFindsNalUnits
<1>1. PICK k \in 4..n : data \in [1..k -> B]
  BY DEF ByteStreams
<1>2. Len(data) = k /\ k \in Nat /\ k >= 4 /\ 0 \notin Headers(data)
  BY <1>1 DEF ByteStreams
<1>3. PICK f : IsScan(f, data, 0) /\ inspectH264ByteStream(data) = Summary(f[0])
  BY <1>2, InspectIs
<1>4. f[0] = FoundFrom(data, 0)
  BY <1>2, <1>3, ScanFinds
<1>5. FoundFrom(data, 0) = {NalType(h) : h \in Headers(data)}
  BY DEF FoundFrom, Headers
<1> QED BY <1>3, <1>4, <1>5

(* inspectH264ByteStream() reports an IDR slice, an SPS or a PPS exactly   *)
(* when a start code of the byte stream introduces one: for streams of any *)
(* bytes and any length, with start codes of either length, back to back   *)
(* or at the very end, and so for the streams the instance checks.         *)
THEOREM ScanAlwaysMatchesHeaders ==
  /\ \A B : \A n \in Nat : ScanFindsNalUnits(B, n)
  /\ MCSpec => []ScanMatchesHeaders
<1>1. \A B : \A n \in Nat : ScanFindsNalUnits(B, n)
  BY ScanCorrect
<1>2. ScanMatchesHeaders
  BY <1>1, StreamBoundAssumption DEF ScanMatchesHeaders
<1>3. MCSpec => []ScanMatchesHeaders
  BY <1>2, PTL
<1> QED BY <1>1, <1>3
=============================================================================
