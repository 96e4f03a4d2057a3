----------------------------- MODULE H264Encoder -----------------------------
(***************************************************************************)
(* H264Encoder from submit() to the consumer it calls, and main() as far   *)
(* as it starts, watches, restarts and stops the encoder.  The leases      *)
(* that travel with the frames are module CameraPipeline's.                *)
(*                                                                         *)
(* Threads                                                                 *)
(*   camera   CameraSubmit: submit()                                       *)
(*   input    InputPush, InputExit: inputLoop()                            *)
(*   output   Pull, PullFails, Ready, then the consumer (module            *)
(*            RtspFeeder), then OutputExit: outputLoop()                   *)
(*   bus      BusError, BusHalt, BusClose, BusExit: busLoop()              *)
(*   main     everything else                                              *)
(*                                                                         *)
(* A frame is its sensor timestamp, never zero, and later or earlier than  *)
(* that of another frame.  A unit is a record                              *)
(*   [id, gen, sensor, frame, timed, dec]                                  *)
(* with its place in the order of output, generation, sensor timestamp,    *)
(* and (external) the frame it was encoded from and whether its sample had *)
(* a valid PTS; dec says that it is independentlyDecodable().              *)
(***************************************************************************)
EXTENDS Integers, Sequences

CONSTANTS
  SinkMax,    \* max-buffers of the appsink
  Period      \* GST_SECOND / fps

ASSUME EncoderAssumption == SinkMax \in Nat \ {0} /\ Period \in Nat

VARIABLES
  main,       \* where main() is
  exposed,    \* rtsp.start() has succeeded
  gen,        \* generation_
  running,    \* running_
  recovery,   \* recovery_requested_
  seen,       \* independent_frame_seen_
  base,       \* base_sensor_timestamp_ns_
  frames,     \* inputLoop()'s frame_index
  first,      \* history: the generation's first frame to reach inputLoop()
  latest,     \* latest_: <<>> or <<frame>>
  closed,     \* latest_ is closed
  captured,   \* how many frames were captured
  sink,       \* external: samples in the appsink, [pts, frame, dec]
  input, bus, \* where inputLoop() and busLoop() are
  output,     \* where outputLoop() is, and its unit: [at, unit]
  pulled,     \* how many units were pulled
  keyed       \* generations of which a decodable unit was pulled

flagVars == <<gen, running, recovery, seen>>
frameVars == <<latest, closed, captured>>
inputVars == <<base, frames, first>>
codecVars == <<inputVars, sink>>
encoderVars == <<main, exposed, flagVars, frameVars, codecVars, input, bus,
                 output, pulled, keyed>>

NoUnit == [id |-> 0, gen |-> 0, sensor |-> 0, frame |-> 0, timed |-> FALSE,
           dec |-> FALSE]
At(where) == [at |-> where, unit |-> NoUnit]

EncoderInit ==
  /\ main = "start" /\ exposed = FALSE
  /\ gen = 0 /\ running = FALSE /\ recovery = FALSE /\ seen = FALSE
  /\ base = 0 /\ frames = 0 /\ first = 0
  /\ latest = <<>> /\ closed = FALSE /\ captured = 0
  /\ sink = <<>>
  /\ input = "none" /\ bus = "none" /\ output = At("none")
  /\ pulled = 0 /\ keyed = {}

-----------------------------------------------------------------------------
(* submit(), on libcamera's thread.  Its test of running_ and its push are *)
(* one step: a frame pushed after running_ turned false is discarded by    *)
(* the close() that follows.  main() stops the camera before anything      *)
(* else.                                                                   *)

CameraUp == main \notin {"start", "exit", "exit_join", "exit_rtsp",
                         "exit_feeder", "over"}

CameraSubmit(frame) ==
  /\ CameraUp
  /\ captured' = captured + 1
  /\ latest' = IF running /\ ~closed THEN <<frame>> ELSE latest
  /\ UNCHANGED <<main, exposed, flagVars, closed, codecVars, input, bus,
                 output, pulled, keyed>>

-----------------------------------------------------------------------------
(* inputLoop() and the pipeline behind the appsrc.                         *)

(* Mutant: every frame sets the base. *)
BugBaseFollowsFrame(frame) == frame

(* The generation's first frame sets the base. *)
BaseFor(frame) == IF base = 0 THEN frame ELSE base

(* External: a raw frame may be lost in the leaky queues before the        *)
(* hardware encoder; the appsink drops its oldest sample when it is full.  *)
Encoded(sample) ==
  \/ sink' = sink
  \/ sink' = Append(IF Len(sink) = SinkMax THEN Tail(sink) ELSE sink, sample)

(* The PTS makeRawBuffer() gives the i-th frame: its distance from the     *)
(* base, or a guess for a frame that is earlier than the base.             *)
RawPts(frame, i) == IF frame >= base' THEN frame - base' ELSE i * Period

NoPts == -1  \* GST_CLOCK_TIME_NONE

(* makeRawBuffer(), which may make none, and the push into the pipeline,   *)
(* which (external) may lose the PTS.                                      *)
InputPush ==
  /\ input = "loop" /\ latest # <<>>
  /\ LET frame == latest[1]
         i == IF base = 0 THEN 0 ELSE frames
     IN /\ base' = BaseFor(frame)
        /\ frames' = i + 1
        /\ first' = IF first = 0 THEN frame ELSE first
        /\ \E dec, timed \in BOOLEAN :
             Encoded([pts |-> IF timed THEN RawPts(frame, i) ELSE NoPts,
                      frame |-> frame, dec |-> dec])
  /\ latest' = <<>>
  /\ UNCHANGED <<main, exposed, flagVars, closed, captured, input, bus,
                 output, pulled, keyed>>

(* running_ is false at the top of the loop, or waitPop() finds the queue  *)
(* closed.                                                                 *)
InputExit ==
  /\ input = "loop" /\ (~running \/ closed)
  /\ input' = "exited"
  /\ UNCHANGED <<main, exposed, flagVars, frameVars, codecVars, bus, output,
                 pulled, keyed>>

-----------------------------------------------------------------------------
(* outputLoop().                                                           *)

(* A sample without a valid PTS counts as one with PTS zero. *)
Pts(s) == IF s.pts = NoPts THEN 0 ELSE s.pts

(* try_pull_sample() returns a sample, and the unit is made from it.       *)
(* running_ may turn false while it waits.                                 *)
Pull ==
  /\ output.at = "loop" /\ sink # <<>>
  /\ LET s == Head(sink)
         u == [id |-> pulled + 1, gen |-> gen, sensor |-> base + Pts(s),
               frame |-> s.frame, timed |-> s.pts # NoPts, dec |-> s.dec]
     IN /\ output' = [at |-> "ready", unit |-> u]
        /\ keyed' = IF u.dec THEN keyed \cup {gen} ELSE keyed
  /\ sink' = Tail(sink)
  /\ pulled' = pulled + 1
  /\ UNCHANGED <<main, exposed, flagVars, frameVars, inputVars, input, bus>>

(* The sample's buffer cannot be mapped. *)
PullFails ==
  /\ output.at = "loop" /\ sink # <<>>
  /\ sink' = Tail(sink)
  /\ UNCHANGED <<main, exposed, flagVars, frameVars, inputVars, input, bus,
                 output, pulled, keyed>>

(* A decodable unit is announced, under ready_mutex_, before the consumer  *)
(* gets it.                                                                *)
Ready ==
  /\ output.at = "ready"
  /\ seen' = (seen \/ output.unit.dec)
  /\ output' = [output EXCEPT !.at = "deliver"]
  /\ UNCHANGED <<main, exposed, gen, running, recovery, frameVars, codecVars,
                 input, bus, pulled, keyed>>

OutputExit ==
  /\ output.at = "loop" /\ ~running
  /\ output' = At("exited")
  /\ UNCHANGED <<main, exposed, flagVars, frameVars, codecVars, input, bus,
                 pulled, keyed>>

-----------------------------------------------------------------------------
(* busLoop(): an error or an unexpected end of stream stores the request,  *)
(* then running_, then closes the queue, taking no mutex; so the notified  *)
(* waitForIndependentFrame() may miss it and sleep until its timeout.      *)

(* Mutant: the encoder stops, but asks for nothing. *)
BugBusAsksNothing ==
  /\ bus = "loop" /\ running
  /\ bus' = "halt"
  /\ UNCHANGED <<main, exposed, flagVars, frameVars, codecVars, input, output,
                 pulled, keyed>>

BusError ==
  /\ bus = "loop" /\ running
  /\ recovery' = TRUE /\ bus' = "halt"
  /\ UNCHANGED <<main, exposed, gen, running, seen, frameVars, codecVars, input,
                 output, pulled, keyed>>

BusHalt ==
  /\ bus = "halt"
  /\ running' = FALSE /\ bus' = "close"
  /\ UNCHANGED <<main, exposed, gen, recovery, seen, frameVars, codecVars,
                 input, output, pulled, keyed>>

BusClose ==
  /\ bus = "close"
  /\ closed' = TRUE /\ latest' = <<>> /\ bus' = "loop"
  /\ UNCHANGED <<main, exposed, flagVars, captured, codecVars, input,
                 output, pulled, keyed>>

BusExit ==
  /\ bus = "loop" /\ ~running
  /\ bus' = "exited"
  /\ UNCHANGED <<main, exposed, flagVars, frameVars, codecVars, input, output,
                 pulled, keyed>>

-----------------------------------------------------------------------------
(* main(): the encoder's start() and stop(), and what it does in between.  *)

(* Mutant: a new generation believes in the old one's keyframe. *)
BugResetKeepsSeen ==
  /\ latest' = <<>> /\ closed' = FALSE
  /\ base' = 0 /\ first' = 0 /\ recovery' = FALSE /\ gen' = gen + 1 /\ UNCHANGED seen

(* What start() resets before the pipeline plays, and the history with it. *)
ResetForStart ==
  /\ latest' = <<>> /\ closed' = FALSE
  /\ base' = 0 /\ first' = 0 /\ recovery' = FALSE /\ gen' = gen + 1 /\ seen' = FALSE

(* start(), at startup and in a recovery. *)
EncoderStart ==
  /\ main \in {"start", "restart"}
  /\ ResetForStart
  /\ running' = TRUE /\ frames' = 0
  /\ input' = "loop" /\ bus' = "loop" /\ output' = At("loop")
  /\ main' = "wait"
  /\ UNCHANGED <<exposed, captured, sink, pulled, keyed>>

(* In a recovery initialize() fails; or the pipeline does not play, or a   *)
(* thread cannot be created.  main() gives up.                             *)
EncoderStartFails ==
  /\ main \in {"start", "restart"}
  /\ \/ ResetForStart
     \/ main = "restart" /\ UNCHANGED <<latest, closed, base, first, recovery,
                                        gen, seen>>
  /\ main' = "exit"
  /\ UNCHANGED <<exposed, running, captured, frames, sink, input, bus,
                 output, pulled, keyed>>

(* waitForIndependentFrame() returns true, even if the encoder failed      *)
(* since ...                                                               *)
WaitReturns ==
  /\ main = "wait" /\ seen
  /\ main' = IF exposed THEN "serve" ELSE "expose"
  /\ UNCHANGED <<exposed, flagVars, frameVars, codecVars, input, bus, output,
                 pulled, keyed>>

(* ... or false, when the encoder failed or five seconds have passed. *)
WaitFails ==
  /\ main = "wait" /\ ~seen
  /\ main' = "exit"
  /\ UNCHANGED <<exposed, flagVars, frameVars, codecVars, input, bus, output,
                 pulled, keyed>>

(* stop() up to its joins: in the main loop, which finds a request every   *)
(* 100 ms, or at the end, once camera.stop() has returned.                 *)
StopBegin(from, to) ==
  /\ main = from /\ main' = to
  /\ running' = FALSE /\ closed' = TRUE /\ latest' = <<>>
  /\ UNCHANGED <<exposed, gen, recovery, seen, captured, codecVars, input,
                 bus, output, pulled, keyed>>

RecoveryBegins == recovery /\ StopBegin("serve", "join")
ExitStops == StopBegin("exit", "exit_join")

Joined ==
  /\ input # "loop" /\ bus \in {"none", "exited"}
  /\ output.at \in {"none", "exited"}

(* The joins, and releasePipeline(). *)
StopEnds(from, to) ==
  /\ main = from /\ main' = to
  /\ Joined
  /\ sink' = <<>>
  /\ UNCHANGED <<exposed, flagVars, frameVars, inputVars, input, bus, output,
                 pulled, keyed>>

RecoveryStopped == StopEnds("join", "restart")
ExitStopped == StopEnds("exit_join", "exit_rtsp")

(* A signal, or the configured duration. *)
ExitRequested ==
  /\ main = "serve"
  /\ main' = "exit"
  /\ UNCHANGED <<exposed, flagVars, frameVars, codecVars, input, bus, output,
                 pulled, keyed>>

-----------------------------------------------------------------------------
Input == InputPush \/ InputExit
Bus == BusHalt \/ BusClose \/ BusExit
Supervise ==
  \/ EncoderStart \/ WaitReturns \/ RecoveryBegins \/ RecoveryStopped
  \/ ExitStops \/ ExitStopped

Sample == [pts : Nat \cup {NoPts}, frame : Nat, dec : BOOLEAN]
Unit == [id : Nat, gen : Nat, sensor : Nat, frame : Nat, timed : BOOLEAN,
         dec : BOOLEAN]

EncoderTypeOK ==
  /\ main \in {"start", "wait", "expose", "serve", "join", "restart", "exit",
               "exit_join", "exit_rtsp", "exit_feeder", "over"}
  /\ exposed \in BOOLEAN
  /\ gen \in Nat /\ running \in BOOLEAN /\ recovery \in BOOLEAN
  /\ seen \in BOOLEAN
  /\ base \in Nat /\ frames \in Nat /\ first \in Nat /\ captured \in Nat
  /\ latest \in Seq(Nat \ {0}) /\ Len(latest) <= 1 /\ closed \in BOOLEAN
  /\ sink \in Seq(Sample) /\ Len(sink) <= SinkMax
  /\ input \in {"none", "loop", "exited"}
  /\ bus \in {"none", "loop", "halt", "close", "exited"}
  /\ output \in [at : {"none", "loop", "ready", "deliver", "push", "exited"},
                 unit : Unit]
  /\ pulled \in Nat /\ keyed \subseteq 1..gen
=============================================================================
