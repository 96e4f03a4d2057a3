-------------------------- MODULE MCEventRecorder --------------------------
(***************************************************************************)
(* Model-checking instance of EventRecorder.  The encoder emits units      *)
(* whose timestamps move by a step of TsSteps, so that repeated and        *)
(* regressing timestamps occur; emitted remembers every unit, in order.    *)
(* A unit the ring rejects for its size is emitted as a keyframe only: its *)
(* idr flag is read by nothing.                                            *)
(* Frames reach trigger() in the order of their timestamps.                *)
(***************************************************************************)
EXTENDS EventRecorder, FiniteSets

CONSTANTS
  TsSteps,      \* how a unit's timestamp follows the previous one's:
                \* 0 one back, 1 repeated, 2 one ahead
  Sizes,        \* payload sizes
  TriggerTimes, \* sensor timestamps of frames with a detection
  MaxEmit,      \* bound on the units emitted
  MaxLate,      \* bound on those of them not later than the one before
  MaxOversize,  \* bound on those of them the ring rejects for their size
  MaxCalls,     \* bound on calls of trigger()
  MaxGen        \* bound on encoder generations

(* Units and detections are what the recorder's callers may hand to it. *)
ASSUME HistoryAssumption ==
  TsSteps \subseteq Nat /\ Sizes \subseteq Nat /\ TriggerTimes \subseteq Nat

VARIABLES emitted, detected

mcVars == <<vars, emitted, detected>>

MCInit == Init /\ emitted = <<>> /\ detected = 0

Late(es) == {i \in 2..Len(es) : es[i].ts <= es[i-1].ts}
Oversize(es) == {i \in 1..Len(es) : es[i].size > MaxBytes}

PreviousTs == IF emitted = <<>> THEN 0 ELSE emitted[Len(emitted)].ts

Emit ==
  /\ Len(emitted) < MaxEmit
  /\ \E step \in TsSteps, idr \in BOOLEAN, size \in Sizes :
       LET u == [ts |-> PreviousTs + step - 1, gen |-> encoder.gen, idr |-> idr,
                 size |-> size, id |-> Len(emitted) + 1]
       IN /\ u.ts > 0
          /\ size > MaxBytes => idr
          /\ EncoderPush(u)
          /\ emitted' = Append(emitted, u)
          /\ Cardinality(Late(emitted')) <= MaxLate
          /\ Cardinality(Oversize(emitted')) <= MaxOversize

Detect ==
  /\ triggered + suppressed < MaxCalls
  /\ \E ts \in TriggerTimes : /\ ts > detected
                              /\ trigger(ts)
                              /\ detected' = ts

MCNext ==
  \/ Emit /\ UNCHANGED detected
  \/ Detect /\ UNCHANGED emitted
  \/ /\ \/ Start \/ Stop \/ StopJoins
        \/ WorkerTake \/ WorkerStuck \/ WorkerDone \/ WorkerExit
        \/ EncoderObserve
        \/ encoder.gen < MaxGen /\ (EncoderStop \/ EncoderStart)
        \/ HistoryClear
     /\ UNCHANGED <<emitted, detected>>
  \/ (owner = "stopped" \/ worker = "stuck") /\ UNCHANGED mcVars

MCSpec == MCInit /\ [][MCNext]_mcVars
MCFairSpec == MCSpec /\ Fairness

-----------------------------------------------------------------------------
(* The events the recorder holds, oldest first. *)
Held == writing \o jobs \o active

(* A clip of generation g may lack the n-th unit of the history h: the     *)
(* ring may not hold it (invalid or oversize), it is of another            *)
(* generation, or its timestamp did not advance past every earlier unit of *)
(* the generation.                                                         *)
Excused(h, g, n) ==
  \/ Rejected(h[n])
  \/ h[n].gen # g
  \/ \E p \in 1..n-1 : h[p].gen = g /\ h[p].ts >= h[n].ts

(* From its first to its last unit a clip lacks only units that are        *)
(* excused, and no unit appears twice, though trigger() may run between    *)
(* push() and observeEncoded() of a unit, in either order with them.       *)
ClipContiguous ==
  \A h \in 1..Len(Held) :
    LET c == Held[h].units
    IN /\ \A i, j \in 1..Len(c) : i < j => c[i].id < c[j].id
       /\ c # <<>> => \A n \in c[1].id .. c[Len(c)].id :
                        \/ \E i \in 1..Len(c) : c[i].id = n
                        \/ Excused(emitted, Held[h].gen, n)

(* Of two events the recorder still holds, the later one was triggered no  *)
(* earlier than the last unit of the earlier one plus the cooldown, though *)
(* triggers, units and the end of the post-roll come from three threads.   *)
CooldownRespected ==
  \A g, h \in 1..Len(Held) :
    LET c == Held[g].units
        end == IF c = <<>> THEN Held[g].trigger ELSE c[Len(c)].ts
    IN g < h => Held[h].trigger >= SaturatingAdd(end, Cooldown)
=============================================================================
