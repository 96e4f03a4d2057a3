----------------------------- MODULE RtspFeeder -----------------------------
(***************************************************************************)
(* The way of an encoded unit from H264Encoder's consumer to the appsrc of *)
(* the RTSP media: RtspServer::submit(), the one-place queue latest_, the  *)
(* signal handlers that replace the appsrc, and feederLoop().  Module      *)
(* RtspServer models when those handlers run; here they may run whenever   *)
(* the server is up.                                                       *)
(***************************************************************************)
EXTENDS H264Encoder

VARIABLES
  up,          \* RtspServer::running_
  source,      \* appsrc_, a number per appsrc, or 0
  sources,     \* how many appsrcs have been bound
  source_gen,  \* RtspServer::generation_
  clearing,    \* handlers about to call latest_.clear()
  queue,       \* RtspServer::latest_: <<>> or <<unit>>; of a unit the
               \* server uses [id, gen, dec]
  qclosed,     \* it is closed
  feeder,      \* where feederLoop() is, and its unit: [at, unit]
  gate,        \* feederLoop()'s observed_generation,
               \* observed_encoder_generation, frame_index and
               \* awaiting_keyframe: [source_gen, gen, index, awaiting]
  offered      \* what passed the gate, in order: [source, index, unit,
               \* made]; made says that there was a buffer, and it was pushed

sourceVars == <<up, source, sources, source_gen, clearing>>
queueVars == <<queue, qclosed>>
feederVars == <<feeder, gate, offered>>
vars == <<encoderVars, sourceVars, queueVars, feederVars>>

Payload(u) == [id |-> u.id, gen |-> u.gen, dec |-> u.dec]
FeederAt(where) == [at |-> where, unit |-> Payload(NoUnit)]

Init ==
  /\ EncoderInit
  /\ up = FALSE /\ source = 0 /\ sources = 0 /\ source_gen = 0 /\ clearing = 0
  /\ queue = <<>> /\ qclosed = FALSE
  /\ feeder = FeederAt("none")
  /\ gate = [source_gen |-> 0, gen |-> 0, index |-> 0, awaiting |-> TRUE]
  /\ offered = <<>>

(* A step of the encoder, its camera or main() alone. *)
Encoder(A) == A /\ UNCHANGED <<sourceVars, queueVars, feederVars>>

-----------------------------------------------------------------------------
(* submit(), on the encoder's output thread, as the last thing the         *)
(* consumer does: appsrc_ is tested under source_mutex_ ...                *)
SubmitTest ==
  /\ output.at = "deliver"
  /\ output' = IF up /\ source # 0 THEN [output EXCEPT !.at = "push"]
               ELSE At("loop")
  /\ UNCHANGED <<main, exposed, flagVars, frameVars, codecVars, input, bus,
                 pulled, keyed, sourceVars, queueVars, feederVars>>

(* ... and the unit pushed after it is released; an older unit the feeder  *)
(* has not taken is dropped.                                               *)
SubmitPush ==
  /\ output.at = "push"
  /\ output' = At("loop")
  /\ queue' = IF qclosed THEN queue ELSE <<Payload(output.unit)>>
  /\ UNCHANGED <<main, exposed, flagVars, frameVars, codecVars, input, bus,
                 pulled, keyed, sourceVars, qclosed, feederVars>>

-----------------------------------------------------------------------------
(* The handlers of the media's signals.                                    *)

(* bindMediaSource(): a new appsrc, a new generation_, and the queue is    *)
(* cleared once the mutex is released.                                     *)
Bind ==
  /\ up /\ source = 0
  /\ sources' = sources + 1 /\ source' = sources'
  /\ source_gen' = source_gen + 1
  /\ clearing' = clearing + 1
  /\ UNCHANGED <<encoderVars, up, queueVars, feederVars>>

(* onMediaConfigure(), onMediaUnprepared(), recoverMedia(): the appsrc is  *)
(* taken away.                                                             *)
Unbind ==
  /\ up /\ source # 0
  /\ source' = 0
  /\ source_gen' = source_gen + 1
  /\ clearing' = clearing + 1
  /\ UNCHANGED <<encoderVars, up, sources, queueVars, feederVars>>

(* latest_.clear() *)
Clear ==
  /\ clearing > 0
  /\ clearing' = clearing - 1
  /\ queue' = <<>>
  /\ UNCHANGED <<encoderVars, up, source, sources, source_gen, qclosed,
                 feederVars>>

-----------------------------------------------------------------------------
(* feederLoop().                                                           *)

(* Mutant: waitPop() leaves the unit in the queue. *)
BugPopKeepsUnit ==
  /\ feeder.at = "loop" /\ queue # <<>>
  /\ feeder' = [FeederAt("read") EXCEPT !.unit = queue[1]]
  /\ UNCHANGED <<encoderVars, sourceVars, queueVars, gate, offered>>

FeederPop ==
  /\ feeder.at = "loop" /\ queue # <<>>
  /\ feeder' = [FeederAt("read") EXCEPT !.unit = queue[1]]
  /\ queue' = <<>>
  /\ UNCHANGED <<encoderVars, sourceVars, qclosed, gate, offered>>

(* Mutant: the gate does not see a new appsrc. *)
BugGateIgnoresSource(u) == gate.gen # u.gen

(* The unit begins something new: another appsrc, another generation. *)
BeginsAnew(u) == gate.source_gen # source_gen \/ gate.gen # u.gen

(* The appsrc and generation_ are read together; then the gate decides;    *)
(* then the unit, numbered, is pushed into that appsrc, replaced since or  *)
(* not, and whatever gst_app_src_push_buffer() returns, the loop goes on.  *)
(* It also goes on if makeBuffer() makes no buffer, of an empty payload or *)
(* without memory: the gate stays open and the number is spent.            *)
FeederPush ==
  /\ feeder.at = "read"
  /\ feeder' = FeederAt("loop")
  /\ LET u == feeder.unit
         g == IF BeginsAnew(u)
                THEN [source_gen |-> source_gen, gen |-> u.gen, index |-> 0,
                      awaiting |-> TRUE]
                ELSE gate
     IN IF source = 0
          THEN UNCHANGED <<gate, offered>>
          ELSE IF g.awaiting /\ ~u.dec
            THEN gate' = g /\ UNCHANGED offered
            ELSE /\ gate' = [g EXCEPT !.index = @ + 1, !.awaiting = FALSE]
                 /\ \E made \in BOOLEAN :
                      offered' = Append(offered, [source |-> source,
                                                  index |-> g.index,
                                                  unit |-> u, made |-> made])
  /\ UNCHANGED <<encoderVars, sourceVars, queueVars>>

FeederExit ==
  /\ feeder.at = "loop" /\ (~up \/ qclosed)
  /\ feeder' = FeederAt("exited")
  /\ UNCHANGED <<encoderVars, sourceVars, queueVars, gate, offered>>

-----------------------------------------------------------------------------
(* main() starts and stops the server.                                     *)

RtspStart ==
  /\ main = "expose"
  /\ main' = "serve" /\ exposed' = TRUE
  /\ up' = TRUE /\ queue' = <<>> /\ qclosed' = FALSE
  /\ feeder' = FeederAt("loop")
  /\ gate' = [source_gen |-> source_gen, gen |-> 0, index |-> 0,
              awaiting |-> TRUE]
  /\ UNCHANGED <<flagVars, frameVars, codecVars, input, bus, output, pulled,
                 keyed, source, sources, source_gen, clearing, offered>>

RtspStartFails ==
  /\ main = "expose"
  /\ main' = "exit"
  /\ UNCHANGED <<exposed, flagVars, frameVars, codecVars, input, bus, output,
                 pulled, keyed, sourceVars, queueVars, feederVars>>

(* stop(): running_ is cleared and the queue closed ... *)
RtspStop ==
  /\ main = "exit_rtsp"
  /\ main' = IF up THEN "exit_feeder" ELSE "over"
  /\ up' = FALSE
  /\ IF up THEN qclosed' = TRUE /\ queue' = <<>> ELSE UNCHANGED queueVars
  /\ UNCHANGED <<exposed, flagVars, frameVars, codecVars, input, bus, output,
                 pulled, keyed, source, sources, source_gen, clearing,
                 feederVars>>

FeederJoined == feeder.at = "exited"

(* ... and the feeder joined; the rest of stop() waits for the handlers    *)
(* and releases the appsrc.                                                *)
RtspStopped ==
  /\ main = "exit_feeder" /\ FeederJoined /\ clearing = 0
  /\ main' = "over"
  /\ source' = 0 /\ source_gen' = source_gen + 1
  /\ UNCHANGED <<exposed, flagVars, frameVars, codecVars, input, bus, output,
                 pulled, keyed, up, sources, clearing, queueVars, feederVars>>

-----------------------------------------------------------------------------
Submit == SubmitTest \/ SubmitPush
Feed == FeederPop \/ FeederPush \/ FeederExit
Output ==
  \/ Encoder(Pull) \/ Encoder(PullFails) \/ Encoder(Ready) \/ Submit
  \/ Encoder(OutputExit)
Main == Encoder(Supervise) \/ RtspStart \/ RtspStop \/ RtspStopped

Next ==
  \/ \E frame \in Nat \ {0} : Encoder(CameraSubmit(frame))
  \/ Encoder(Input) \/ Output
  \/ Encoder(BusError) \/ Encoder(Bus)
  \/ Main \/ Encoder(EncoderStartFails) \/ Encoder(WaitFails)
  \/ RtspStartFails \/ Encoder(ExitRequested)
  \/ Bind \/ Unbind \/ Clear \/ Feed
  \/ main = "over" /\ UNCHANGED vars

Spec == Init /\ [][Next]_vars

(* Every thread is scheduled, and a wait for a frame returns: it is timed. *)
Fairness ==
  /\ WF_vars(Encoder(Input)) /\ WF_vars(Output) /\ WF_vars(Encoder(Bus))
  /\ WF_vars(Feed) /\ WF_vars(Clear)
  /\ WF_vars(Main \/ Encoder(WaitFails))

-----------------------------------------------------------------------------
QueuedUnit == [id : Nat, gen : Nat, dec : BOOLEAN]
Offer == [source : Nat, index : Nat, unit : QueuedUnit, made : BOOLEAN]

TypeOK ==
  /\ EncoderTypeOK
  /\ up \in BOOLEAN /\ sources \in Nat /\ source \in 0..sources
  /\ source_gen \in Nat /\ clearing \in Nat
  /\ queue \in Seq(QueuedUnit) /\ Len(queue) <= 1 /\ qclosed \in BOOLEAN
  /\ feeder \in [at : {"none", "loop", "read", "exited"}, unit : QueuedUnit]
  /\ gate \in [source_gen : 0..source_gen, gen : 0..gen, index : Nat,
               awaiting : BOOLEAN]
  /\ offered \in Seq(Offer)

(* waitForIndependentFrame() speaks of the generation it waits for: the    *)
(* listener is opened, and a recovery reported, only after that            *)
(* generation's own decodable unit, though the flag outlives a failed      *)
(* encoder.                                                                *)
ServesOnlyAfterKeyframe == main \in {"expose", "serve"} => gen \in keyed

(* outputLoop() gives a unit the sensor timestamp of the frame it was      *)
(* encoded from, whatever was dropped in between and however often the     *)
(* encoder was restarted: the base it adds is the one inputLoop()          *)
(* subtracted.  There are two exceptions.  A unit whose sample came        *)
(* without a PTS gets the timestamp of its generation's first frame, and   *)
(* one of a frame that is earlier than that first frame a guess behind it. *)
SensorTimestampExact ==
  output.at \in {"ready", "deliver", "push"} =>
    LET u == output.unit IN
    IF ~u.timed THEN u.sensor = first
    ELSE IF u.frame < first THEN u.sensor >= first
    ELSE u.sensor = u.frame

(* What passes the gate for one appsrc and one encoder generation begins   *)
(* with a decodable unit, numbered 0, and is numbered without gaps from    *)
(* there, whichever handlers replaced the appsrc or cleared the queue      *)
(* between submit()'s test and feederLoop()'s push.  All of it is pushed   *)
(* but the units that makeBuffer() makes no buffer of: their numbers are   *)
(* missing in the appsrc, and if one of them is the decodable unit itself, *)
(* the appsrc begins with what follows it.                                 *)
SourceStartsDecodable ==
  \A n \in 1..Len(offered) :
    LET o == offered[n]
        before == {p \in 1..n-1 : /\ offered[p].source = o.source
                                  /\ offered[p].unit.gen = o.unit.gen}
    IN IF before = {} THEN o.unit.dec /\ o.index = 0
       ELSE offered[n-1].source = o.source /\ offered[n-1].index = o.index - 1

(* Units are offered in the order of output, each at most once; so an old  *)
(* generation's unit never follows a new one's.                            *)
OfferedInOrder ==
  \A n \in 2..Len(offered) :
    /\ offered[n-1].unit.id < offered[n].unit.id
    /\ offered[n-1].unit.gen <= offered[n].unit.gen

(* An encoder that failed while main() serves is noticed: it is restarted, *)
(* or main() comes to its end.  So no thread it joins waits for ever,      *)
(* wherever busLoop() was when stop() began.                               *)
FailureHandled == (main = "serve" /\ ~running) ~> (running \/ main = "over")
=============================================================================
