------------------------ MODULE EventRecorderProofs ------------------------
(***************************************************************************)
(* TLAPS proofs about EventRecorder, for every retention, byte limit,      *)
(* pre-roll, post-roll, cooldown and queue capacity, and any number of     *)
(* units, detections and encoder generations.                              *)
(***************************************************************************)
EXTENDS MCEventRecorder, EncodedRingBufferProofs, SequenceTheorems

(* Before start() there is no worker thread. *)
NoWorkerBeforeStart == owner = "created" => worker = "none"

(* The inductive invariant.  A clip is well formed because the ring it is  *)
(* taken from is; the count balances because a finished event finds the    *)
(* gate's event in active; NoWorkerBeforeStart keeps start() from dropping *)
(* an event in the worker's hand.                                          *)
RecorderInv ==
  /\ RecorderTypeOK
  /\ RingOrdered
  /\ EventAccounting
  /\ GateMatchesActive
  /\ ClipsWellFormed
  /\ NoWorkerBeforeStart

LEMMA SaturatingAddNat ==
  ASSUME NEW a \in Nat, NEW b \in Nat
  PROVE  SaturatingAdd(a, b) \in Nat
BY RecorderAssumption DEF SaturatingAdd

LEMMA ActualEndNat ==
  ASSUME NEW e \in Event
  PROVE  ActualEnd(e) \in Nat
<1>1. e.trigger \in Nat /\ e.units \in Seq(AccessUnit)
  BY DEF Event
<1>2. CASE e.units = <<>>
  BY <1>1, <1>2 DEF ActualEnd
<1>3. CASE e.units # <<>>
  <2>1. e.units[Len(e.units)] \in AccessUnit
    BY <1>1, <1>3
  <2> QED BY <2>1, <1>3 DEF ActualEnd, AccessUnit
<1> QED BY <1>2, <1>3

(* Setting the post-roll flag changes neither the type of an event nor its *)
(* clip.                                                                   *)
LEMMA FlaggedEvent ==
  ASSUME NEW e \in Event, NEW flag \in BOOLEAN
  PROVE  /\ [e EXCEPT !.post_complete = flag] \in Event
         /\ [e EXCEPT !.post_complete = flag].units = e.units
         /\ [e EXCEPT !.post_complete = flag].gen = e.gen
BY DEF Event

(* finishLocked() moves exactly one event to the queue or to failed, opens *)
(* the gate, and keeps the queue within its capacity.                      *)
LEMMA FinishLockedFacts ==
  ASSUME RecorderInv, NEW e \in Event, ClipWellFormed(e),
         NEW flag \in BOOLEAN, FinishLocked(e, flag)
  PROVE  /\ collecting' = FALSE /\ cooldown_until' \in Nat /\ active' = <<>>
         /\ jobs' \in Seq(Event) /\ Len(jobs') <= WorkerQueueCapacity
         /\ failed' \in Nat
         /\ failed' + Len(jobs') = failed + Len(jobs) + 1
         /\ \A i \in 1..Len(jobs') : ClipWellFormed(jobs'[i])
<1> DEFINE f == [e EXCEPT !.post_complete = flag]
<1>1. /\ jobs \in Seq(Event) /\ Len(jobs) \in Nat /\ failed \in Nat
      /\ Len(jobs) <= WorkerQueueCapacity /\ WorkerQueueCapacity \in Nat
      /\ \A i \in 1..Len(jobs) : ClipWellFormed(jobs[i])
  BY RecorderAssumption DEF RecorderInv, RecorderTypeOK, ClipsWellFormed
<1>2. f \in Event /\ ClipWellFormed(f)
  BY FlaggedEvent DEF ClipWellFormed
<1>3. collecting' = FALSE /\ active' = <<>>
  BY DEF FinishLocked
<1>4. cooldown_until' \in Nat
  BY ActualEndNat, SaturatingAddNat, RecorderAssumption DEF FinishLocked
<1>5. CASE Len(jobs) >= WorkerQueueCapacity
  <2>1. failed' = failed + 1 /\ jobs' = jobs
    BY <1>5 DEF FinishLocked
  <2> QED BY <1>1, <1>3, <1>4, <2>1
<1>6. CASE ~(Len(jobs) >= WorkerQueueCapacity)
  <2>1. failed' = failed /\ jobs' = Append(jobs, f)
    BY <1>6 DEF FinishLocked
  <2> HIDE DEF f
  <2>2. /\ jobs' \in Seq(Event) /\ Len(jobs') = Len(jobs) + 1
        /\ \A i \in 1..Len(jobs) : jobs'[i] = jobs[i]
        /\ jobs'[Len(jobs) + 1] = f
    BY <1>1, <1>2, <2>1
  <2>3. \A i \in 1..Len(jobs') : ClipWellFormed(jobs'[i])
    BY <1>1, <1>2, <2>2
  <2>4. Len(jobs') <= WorkerQueueCapacity
    BY <1>1, <1>6, <2>2
  <2> QED BY <1>1, <1>3, <1>4, <2>1, <2>2, <2>3, <2>4
<1> QED BY <1>5, <1>6

(* The event in active, seen through the type invariant. *)
LEMMA ActiveFacts ==
  ASSUME RecorderInv, active # <<>>
  PROVE  /\ active[1] \in Event /\ ClipWellFormed(active[1])
         /\ active[1].units # <<>>
         /\ Len(active) = 1
<1>1. active \in Seq(Event)
  BY DEF RecorderInv, RecorderTypeOK
<1>2. Len(active) <= 1
  BY DEF RecorderInv, RecorderTypeOK
<1>3. Len(active) = 1
  <2> DEFINE n == Len(active)
  <2>1. n \in Nat \ {0}
    BY <1>1, EmptySeq
  <2>2. n <= 1
    BY <1>2
  <2> HIDE DEF n
  <2>3. n = 1
    BY <2>1, <2>2
  <2> QED BY <2>3 DEF n
<1> QED BY <1>1, <1>3 DEF RecorderInv, ClipsWellFormed

(* The first m units of a selection. *)
LEMMA PrefixFacts ==
  ASSUME NEW S, NEW s \in Seq(S), NEW m \in 0..Len(s)
  PROVE  /\ SubSeq(s, 1, m) \in Seq(S)
         /\ Len(SubSeq(s, 1, m)) = m
         /\ \A i \in 1..m : SubSeq(s, 1, m)[i] = s[i]
OBVIOUS

(* The clip that trigger() takes from the ring is well formed. *)
LEMMA SelectedClip ==
  ASSUME RecorderInv, NEW ts \in Nat, NEW k \in 1..Len(units)+1,
         SelectsFrom(ts, Pre, k), NEW m \in 0..Len(SelectedUnits(k)),
         NEW e \in Event, e.gen = generation,
         e.units = SubSeq(SelectedUnits(k), 1, m)
  PROVE  ClipWellFormed(e)
<1> DEFINE sel == SelectedUnits(k)
           c == SubSeq(sel, 1, m)
<1>1. /\ units \in Seq(AccessUnit) /\ Len(units) \in Nat
      /\ \A i \in 1..Len(units) : units[i].gen = generation
      /\ \A i, j \in 1..Len(units) : i <= j => units[i].ts <= units[j].ts
  BY DEF RecorderInv, RecorderTypeOK, RingTypeOK, RingOrdered, OneGeneration,
         TimeOrdered
<1>2. /\ sel \in Seq(AccessUnit)
      /\ Len(sel) = Len(units) - k + 1
      /\ \A i \in 1..Len(sel) : sel[i] = units[k + i - 1]
  BY <1>1, FromFacts DEF SelectedUnits
<1>3. /\ c \in Seq(AccessUnit) /\ Len(c) = m
      /\ \A i \in 1..m : c[i] = sel[i]
  BY <1>2, PrefixFacts
<1> HIDE DEF sel, c
<1>4. \A i \in 1..m : k + i - 1 \in 1..Len(units) /\ c[i] = units[k + i - 1]
  BY <1>1, <1>2, <1>3 DEF sel
<1>5. ASSUME c # <<>> PROVE c[1].idr
  <2>1. m >= 1
    BY <1>3, <1>5 DEF sel
  <2>2. k \in 1..Len(units) /\ c[1] = units[k]
    BY <1>1, <1>4, <2>1
  <2>3. \/ StartCandidate(RequestedStart(ts, Pre), k)
        \/ StartCandidate(ts, k)
    BY <1>1, <2>2 DEF SelectsFrom
  <2> QED BY <2>2, <2>3 DEF StartCandidate
<1>6. \A i \in 1..Len(c) : c[i].gen = e.gen
  BY <1>1, <1>3, <1>4
<1>7. \A i, j \in 1..Len(c) : i <= j => c[i].ts <= c[j].ts
  <2> SUFFICES ASSUME NEW i \in 1..Len(c), NEW j \in 1..Len(c), i <= j
               PROVE  c[i].ts <= c[j].ts
    OBVIOUS
  <2>1. c[i] = units[k + i - 1] /\ c[j] = units[k + j - 1]
    BY <1>3, <1>4
  <2>2. /\ k + i - 1 \in 1..Len(units) /\ k + j - 1 \in 1..Len(units)
        /\ k + i - 1 <= k + j - 1
    <3>1. i \in 1..m /\ j \in 1..m /\ i \in Int /\ j \in Int /\ k \in Int
      BY <1>3
    <3> QED BY <1>4, <3>1
  <2> QED BY <1>1, <2>1, <2>2
<1> QED BY <1>5, <1>6, <1>7 DEF ClipWellFormed, c, sel

(* Frame facts: what holds of unchanged variables keeps holding. *)
LEMMA RingFrame ==
  ASSUME RecorderInv, UNCHANGED ringVars
  PROVE  RingTypeOK' /\ RingOrdered'
BY DEF ringVars, RecorderInv, RecorderTypeOK, RingTypeOK, RingOrdered,
       StartsDecodable, OneGeneration, TimeOrdered

LEMMA ClipFrame ==
  ASSUME RecorderInv, UNCHANGED <<active, jobs, writing>>
  PROVE  ClipsWellFormed'
BY DEF RecorderInv, ClipsWellFormed

(* One event finished: it came from active, or trigger() just counted it.  *)
LEMMA FinishedAccounting ==
  ASSUME RecorderInv, active' = <<>>, UNCHANGED <<completed, writing>>,
         failed' + Len(jobs') = failed + Len(jobs) + 1,
         failed' \in Nat, Len(jobs') \in Nat,
         triggered' = triggered + 1 - Len(active)
  PROVE  EventAccounting'
<1>1. triggered = completed + failed + Len(active) + Len(jobs) + Len(writing)
  BY DEF RecorderInv, EventAccounting
<1>2. /\ triggered \in Nat /\ completed \in Nat /\ failed \in Nat
      /\ Len(active) \in Nat /\ Len(jobs) \in Nat /\ Len(writing) \in Nat
  BY DEF RecorderInv, RecorderTypeOK
<1>3. Len(active') = 0 /\ Len(writing') = Len(writing) /\ completed' = completed
  OBVIOUS
<1>4. triggered + 1 - Len(active) = completed + failed' + 0 + Len(jobs') + Len(writing)
  <2> DEFINE t == triggered  c == completed  f == failed  a == Len(active)
             j == Len(jobs)  w == Len(writing)  f2 == failed'  j2 == Len(jobs')
  <2>1. /\ t \in Int /\ c \in Int /\ f \in Int /\ a \in Int
        /\ j \in Int /\ w \in Int
    BY <1>2
  <2>2. f2 \in Int /\ j2 \in Int
    OBVIOUS
  <2>3. t = c + f + a + j + w
    BY <1>1
  <2>4. f2 + j2 = f + j + 1
    OBVIOUS
  <2> HIDE DEF t, c, f, a, j, w, f2, j2
  <2>5. t + 1 - a = c + f2 + 0 + j2 + w
    BY <2>1, <2>2, <2>3, <2>4
  <2> QED BY <2>5 DEF t, c, f, a, j, w, f2, j2
<1> QED BY <1>3, <1>4 DEF EventAccounting

LEMMA GateShut ==
  ASSUME RecorderInv, active' = <<>>, collecting' = FALSE,
         UNCHANGED <<worker, writing>>
  PROVE  GateMatchesActive'
BY DEF RecorderInv, GateMatchesActive

-----------------------------------------------------------------------------
LEMMA StartInv ==
  ASSUME RecorderInv, Start
  PROVE  RecorderInv'
<1>1. RingTypeOK' /\ RingOrdered'
  BY RingFrame DEF Start, ringVars
<1>2. ClipsWellFormed'
  BY ClipFrame DEF Start
<1>3. EventAccounting'
  BY DEF Start, RecorderInv, EventAccounting
<1>4. RecorderTypeOK' /\ NoWorkerBeforeStart'
  BY <1>1 DEF Start, RecorderInv, RecorderTypeOK, NoWorkerBeforeStart
<1>5. GateMatchesActive'
  BY DEF Start, RecorderInv, GateMatchesActive, NoWorkerBeforeStart
<1> QED BY <1>1, <1>2, <1>3, <1>4, <1>5 DEF RecorderInv

LEMMA TriggerSuppressedInv ==
  ASSUME RecorderInv, TriggerSuppressed
  PROVE  RecorderInv'
<1>1. RingTypeOK' /\ RingOrdered'
  BY RingFrame DEF TriggerSuppressed, ringVars
<1>2. ClipsWellFormed'
  BY ClipFrame DEF TriggerSuppressed
<1> QED BY <1>1, <1>2 DEF TriggerSuppressed, RecorderInv, RecorderTypeOK,
         EventAccounting, GateMatchesActive, NoWorkerBeforeStart

(* The event trigger() builds is an event with a well-formed clip. *)
LEMMA TriggerAcceptedInv ==
  ASSUME RecorderInv, NEW ts \in Nat, accepting, TryBegin(ts), TriggerAccepted(ts)
  PROVE  RecorderInv'
<1> DEFINE end == SaturatingAdd(ts, Post)
           clip(k, m) == SubSeq(SelectedUnits(k), 1, m)
           event(k, m) == [trigger |-> ts, end |-> end, gen |-> generation,
                           pre_complete |-> PreRollComplete(ts, Pre, k),
                           post_complete |-> FALSE, units |-> clip(k, m)]
<1>1. PICK k \in 1..Len(units)+1 : \E m \in 0..Len(SelectedUnits(k)) :
        /\ SelectsFrom(ts, Pre, k)
        /\ triggered' = triggered + 1
        /\ \/ FinishLocked(event(k, m), FALSE)
           \/ FinishLocked(event(k, m), TRUE)
           \/ /\ clip(k, m) # <<>>
              /\ active' = <<event(k, m)>> /\ collecting' = TRUE
              /\ UNCHANGED <<jobs, cooldown_until, failed>>
        /\ UNCHANGED <<ringVars, running, accepting, worker, writing, owner,
                       encoder, inflight, completed, suppressed>>
  BY DEF TriggerAccepted
<1>2. PICK m \in 0..Len(SelectedUnits(k)) :
        /\ SelectsFrom(ts, Pre, k)
        /\ triggered' = triggered + 1
        /\ \/ FinishLocked(event(k, m), FALSE)
           \/ FinishLocked(event(k, m), TRUE)
           \/ /\ clip(k, m) # <<>>
              /\ active' = <<event(k, m)>> /\ collecting' = TRUE
              /\ UNCHANGED <<jobs, cooldown_until, failed>>
        /\ UNCHANGED <<ringVars, running, accepting, worker, writing, owner,
                       encoder, inflight, completed, suppressed>>
  BY <1>1
<1> DEFINE e == event(k, m)
<1>3. e \in Event /\ e.gen = generation /\ e.units = clip(k, m)
  <2>1. end \in Nat /\ generation \in Nat /\ units \in Seq(AccessUnit)
    BY SaturatingAddNat, RecorderAssumption DEF RecorderInv, RecorderTypeOK, RingTypeOK
  <2>2. clip(k, m) \in Seq(AccessUnit)
    <3>1. SelectedUnits(k) \in Seq(AccessUnit)
      BY <2>1, FromFacts DEF SelectedUnits
    <3> QED BY <3>1, PrefixFacts
  <2>3. PreRollComplete(ts, Pre, k) \in BOOLEAN
    BY DEF PreRollComplete
  <2> HIDE DEF end, clip
  <2> QED BY <2>1, <2>2, <2>3 DEF Event
<1>4. ClipWellFormed(e)
  BY <1>2, <1>3, SelectedClip
<1> HIDE DEF event, clip, end
<1>5. ~collecting /\ active = <<>> /\ Len(active) = 0
  BY DEF TryBegin, RecorderInv, GateMatchesActive
<1>6. RingTypeOK' /\ RingOrdered'
  BY <1>2, RingFrame
<1>7. CASE \/ FinishLocked(event(k, m), FALSE)
           \/ FinishLocked(event(k, m), TRUE)
  <2>1. /\ collecting' = FALSE /\ cooldown_until' \in Nat /\ active' = <<>>
        /\ jobs' \in Seq(Event) /\ Len(jobs') <= WorkerQueueCapacity
        /\ failed' \in Nat
        /\ failed' + Len(jobs') = failed + Len(jobs) + 1
        /\ \A i \in 1..Len(jobs') : ClipWellFormed(jobs'[i])
    BY <1>3, <1>4, <1>7, FinishLockedFacts
  <2>2. RecorderTypeOK' /\ NoWorkerBeforeStart'
    <3>1. active' \in Seq(Event) /\ Len(active') <= 1
      BY <2>1
    <3>2. triggered' \in Nat
      BY <1>2 DEF RecorderInv, RecorderTypeOK
    <3>3. collecting' \in BOOLEAN
      BY <2>1
    <3> QED BY <1>2, <1>6, <2>1, <3>1, <3>2, <3>3
            DEF RecorderInv, RecorderTypeOK, NoWorkerBeforeStart
  <2>3. EventAccounting'
    <3>1. UNCHANGED <<completed, writing>> /\ triggered' = triggered + 1 - Len(active)
      BY <1>2, <1>5 DEF RecorderInv, RecorderTypeOK
    <3> QED BY <2>1, <3>1, FinishedAccounting
  <2>4. ClipsWellFormed'
    BY <1>2, <2>1 DEF RecorderInv, ClipsWellFormed
  <2>5. GateMatchesActive'
    BY <1>2, <2>1, GateShut
  <2> QED BY <1>6, <2>2, <2>3, <2>4, <2>5 DEF RecorderInv
<1>8. CASE /\ clip(k, m) # <<>>
           /\ active' = <<event(k, m)>> /\ collecting' = TRUE
           /\ UNCHANGED <<jobs, cooldown_until, failed>>
  <2>1. active' \in Seq(Event) /\ Len(active') = 1 /\ active'[1] = e /\ active' # <<>>
    BY <1>3, <1>8
  <2>2. RecorderTypeOK' /\ NoWorkerBeforeStart'
    BY <1>2, <1>6, <1>8, <2>1 DEF RecorderInv, RecorderTypeOK, NoWorkerBeforeStart
  <2>3. EventAccounting'
    <3>1. triggered = completed + failed + 0 + Len(jobs) + Len(writing)
      BY <1>5 DEF RecorderInv, EventAccounting
    <3>2. /\ triggered \in Nat /\ completed \in Nat /\ failed \in Nat
          /\ Len(jobs) \in Nat /\ Len(writing) \in Nat
      BY DEF RecorderInv, RecorderTypeOK
    <3>3. /\ triggered' = triggered + 1 /\ completed' = completed /\ failed' = failed
          /\ jobs' = jobs /\ writing' = writing
      BY <1>2, <1>8
    <3> QED BY <2>1, <3>1, <3>2, <3>3 DEF EventAccounting
  <2>5. GateMatchesActive'
    <3>1. (worker \in {"writing", "stuck"}) <=> (writing # <<>>)
      BY DEF RecorderInv, GateMatchesActive
    <3>2. worker' = worker /\ writing' = writing /\ accepting' = accepting
      BY <1>2
    <3> QED BY <1>8, <2>1, <3>1, <3>2 DEF GateMatchesActive
  <2>4. ClipsWellFormed'
    BY <1>2, <1>3, <1>4, <1>8, <2>1 DEF RecorderInv, ClipsWellFormed
  <2> QED BY <1>6, <2>2, <2>3, <2>4, <2>5 DEF RecorderInv
<1> QED BY <1>2, <1>7, <1>8

-----------------------------------------------------------------------------
(* Appending a later unit of the same generation keeps a clip well formed. *)
LEMMA LongerClip ==
  ASSUME NEW e \in Event, ClipWellFormed(e), e.units # <<>>,
         NEW u \in AccessUnit, u.gen = e.gen, Extends(e, u)
  PROVE  /\ [e EXCEPT !.units = Append(e.units, u)] \in Event
         /\ ClipWellFormed([e EXCEPT !.units = Append(e.units, u)])
         /\ [e EXCEPT !.units = Append(e.units, u)].units # <<>>
<1> DEFINE c == e.units
           l == Append(c, u)
           f == [e EXCEPT !.units = Append(e.units, u)]
<1>1. c \in Seq(AccessUnit) /\ Len(c) \in Nat \ {0}
  BY EmptySeq DEF Event
<1>2. f \in Event /\ f.units = l /\ f.gen = e.gen
  BY <1>1 DEF Event
<1>3. /\ c[1].idr
      /\ \A i \in 1..Len(c) : c[i].gen = e.gen
      /\ \A i, j \in 1..Len(c) : i <= j => c[i].ts <= c[j].ts
  BY DEF ClipWellFormed
<1>4. u.ts > c[Len(c)].ts
  BY DEF Extends
<1> HIDE DEF c
<1>5. /\ l \in Seq(AccessUnit) /\ Len(l) = Len(c) + 1
      /\ \A i \in 1..Len(c) : l[i] = c[i]
      /\ l[Len(c) + 1] = u
  BY <1>1
<1> HIDE DEF l
<1>6. l # <<>> /\ l[1].idr
  BY <1>1, <1>3, <1>5
<1>7. \A i \in 1..Len(l) : l[i].gen = e.gen
  BY <1>1, <1>3, <1>5
<1>8. \A i, j \in 1..Len(l) : i <= j => l[i].ts <= l[j].ts
  <2> SUFFICES ASSUME NEW i \in 1..Len(l), NEW j \in 1..Len(l), i <= j
               PROVE  l[i].ts <= l[j].ts
    OBVIOUS
  <2>1. CASE j \in 1..Len(c)
    BY <1>1, <1>3, <1>5, <2>1
  <2>2. CASE j = Len(c) + 1 /\ i \in 1..Len(c)
    <3>1. c[i].ts <= c[Len(c)].ts
      BY <1>1, <1>3, <2>2
    <3>2. c[i] \in AccessUnit /\ c[Len(c)] \in AccessUnit
      BY <1>1, <2>2
    <3>3. c[i].ts \in Nat /\ c[Len(c)].ts \in Nat /\ u.ts \in Nat
      BY <3>2 DEF AccessUnit
    <3>4. c[i].ts <= u.ts
      BY <1>4, <3>1, <3>3
    <3> QED BY <1>5, <2>2, <3>4
  <2>3. CASE j = Len(c) + 1 /\ i = Len(c) + 1
    <3>1. u.ts \in Nat
      BY DEF AccessUnit
    <3> QED BY <1>5, <2>3, <3>1
  <2> QED BY <1>1, <1>5, <2>1, <2>2, <2>3
<1> HIDE DEF f
<1>9. ClipWellFormed(f)
  BY <1>2, <1>6, <1>7, <1>8 DEF ClipWellFormed
<1> QED BY <1>2, <1>6, <1>9 DEF f

(* A step that finishes an event taken from active, and touches nothing    *)
(* but the recorder's queue, gate and flags.                               *)
LEMMA FinishActiveInv ==
  ASSUME RecorderInv, active # <<>>,
         NEW e \in Event, ClipWellFormed(e), NEW flag \in BOOLEAN,
         FinishLocked(e, flag),
         UNCHANGED <<ringVars, worker, writing, encoder, triggered, completed,
                     suppressed>>,
         inflight' \in Seq(AccessUnit), Len(inflight') <= 1,
         running' \in BOOLEAN, accepting' \in BOOLEAN,
         owner' \in {"started", "joining", "stopped"} \/ owner' = owner
  PROVE  RecorderInv'
<1>1. /\ collecting' = FALSE /\ cooldown_until' \in Nat /\ active' = <<>>
      /\ jobs' \in Seq(Event) /\ Len(jobs') <= WorkerQueueCapacity
      /\ failed' \in Nat
      /\ failed' + Len(jobs') = failed + Len(jobs) + 1
      /\ \A i \in 1..Len(jobs') : ClipWellFormed(jobs'[i])
  BY FinishLockedFacts
<1>2. RingTypeOK' /\ RingOrdered'
  BY RingFrame
<1>3. RecorderTypeOK'
  <2>1. active' \in Seq(Event) /\ Len(active') <= 1
    BY <1>1
  <2>3. collecting' \in BOOLEAN
    BY <1>1
  <2>2. owner' \in {"created", "started", "joining", "stopped"}
    BY DEF RecorderInv, RecorderTypeOK
  <2> QED BY <1>1, <1>2, <2>1, <2>2, <2>3 DEF RecorderInv, RecorderTypeOK
<1>4. EventAccounting'
  <2>1. triggered' = triggered + 1 - Len(active)
    BY ActiveFacts DEF RecorderInv, RecorderTypeOK
  <2>2. Len(jobs') \in Nat
    BY <1>1
  <2> QED BY <1>1, <2>1, <2>2, FinishedAccounting
<1>5. ClipsWellFormed'
  BY <1>1 DEF RecorderInv, ClipsWellFormed
<1>6. GateMatchesActive'
  BY <1>1, GateShut
<1>7. NoWorkerBeforeStart'
  BY DEF RecorderInv, NoWorkerBeforeStart
<1> QED BY <1>2, <1>3, <1>4, <1>5, <1>6, <1>7 DEF RecorderInv

LEMMA StopInv ==
  ASSUME RecorderInv, Stop
  PROVE  RecorderInv'
<1>1. CASE active = <<>>
  <2>1. RingTypeOK' /\ RingOrdered'
    BY RingFrame DEF Stop, ringVars
  <2>2. ClipsWellFormed'
    BY <1>1, ClipFrame DEF Stop
  <2>3. RecorderTypeOK' /\ EventAccounting' /\ NoWorkerBeforeStart'
    BY <1>1, <2>1 DEF Stop, RecorderInv, RecorderTypeOK, EventAccounting,
       NoWorkerBeforeStart
  <2>4. GateMatchesActive'
    BY <1>1 DEF Stop, RecorderInv, GateMatchesActive
  <2> QED BY <2>1, <2>2, <2>3, <2>4 DEF RecorderInv
<1>2. CASE active # <<>>
  <2>1. active[1] \in Event /\ ClipWellFormed(active[1])
    BY <1>2, ActiveFacts
  <2>2. /\ FinishLocked(active[1], FALSE)
        /\ UNCHANGED <<ringVars, worker, writing, encoder, triggered,
                       completed, suppressed>>
        /\ inflight' = inflight /\ running' = FALSE /\ accepting' = FALSE
        /\ owner' = "joining"
    BY <1>2 DEF Stop
  <2>3. inflight' \in Seq(AccessUnit) /\ Len(inflight') <= 1
    BY <2>2 DEF RecorderInv, RecorderTypeOK
  <2> QED BY <1>2, <2>1, <2>2, <2>3, FinishActiveInv
<1> QED BY <1>1, <1>2

LEMMA ObserveInv ==
  ASSUME RecorderInv, EncoderObserve
  PROVE  RecorderInv'
<1> DEFINE e == active[1]
           u == inflight[1]
<1>1. /\ inflight' = <<>>
      /\ UNCHANGED <<ringVars, running, accepting, worker, writing, owner,
                     encoder, triggered, completed, suppressed>>
  BY DEF EncoderObserve
<1>2. inflight' \in Seq(AccessUnit) /\ Len(inflight') <= 1
  BY <1>1
<1>3. running' \in BOOLEAN /\ accepting' \in BOOLEAN /\ owner' = owner
  BY <1>1 DEF RecorderInv, RecorderTypeOK
<1>4. RingTypeOK' /\ RingOrdered'
  BY <1>1, RingFrame
<1>5. ASSUME UNCHANGED <<active, jobs, collecting, cooldown_until, failed>>
      PROVE  RecorderInv'
  <2>1. ClipsWellFormed'
    BY <1>1, <1>5, ClipFrame
  <2>2. RecorderTypeOK' /\ EventAccounting' /\ NoWorkerBeforeStart'
    BY <1>1, <1>2, <1>4, <1>5 DEF RecorderInv, RecorderTypeOK, EventAccounting,
       NoWorkerBeforeStart
  <2>3. GateMatchesActive'
    BY <1>1, <1>5 DEF RecorderInv, GateMatchesActive
  <2> QED BY <1>4, <2>1, <2>2, <2>3 DEF RecorderInv
<1>6. CASE active = <<>>
  BY <1>5, <1>6 DEF EncoderObserve
<1>7. CASE active # <<>>
  <2>1. /\ e \in Event /\ ClipWellFormed(e) /\ e.units # <<>> /\ Len(active) = 1
    BY <1>7, ActiveFacts
  <2>2. u \in AccessUnit
    <3>1. inflight \in Seq(AccessUnit) /\ inflight # <<>>
      BY DEF RecorderInv, RecorderTypeOK, EncoderObserve
    <3>2. Len(inflight) \in Nat \ {0}
      BY <3>1, EmptySeq
    <3> QED BY <3>1, <3>2
  <2> DEFINE longer == [e EXCEPT !.units = Append(e.units, u)]
  <2>3. ObserveActive(e, u)
    BY <1>7 DEF EncoderObserve
  <2> HIDE DEF e, u
  <2>4. CASE EndsEvent(e, u) /\ FinishLocked(e, FALSE)
    BY <1>1, <1>2, <1>3, <1>7, <2>1, <2>4, FinishActiveInv
  <2>5. CASE ~EndsEvent(e, u) /\ Extends(e, u) /\ FinishLocked(longer, TRUE)
    <3>1. longer \in Event /\ ClipWellFormed(longer)
      BY <2>1, <2>2, <2>5, LongerClip DEF EndsEvent
    <3> HIDE DEF longer
    <3> QED BY <1>1, <1>2, <1>3, <1>7, <2>5, <3>1, FinishActiveInv
  <2>6. CASE /\ ~EndsEvent(e, u) /\ Extends(e, u)
             /\ active' = <<longer>>
             /\ UNCHANGED <<jobs, collecting, cooldown_until, failed>>
    <3>1. longer \in Event /\ ClipWellFormed(longer) /\ longer.units # <<>>
      BY <2>1, <2>2, <2>6, LongerClip DEF EndsEvent
    <3> HIDE DEF longer
    <3>2. active' \in Seq(Event) /\ Len(active') = 1 /\ active'[1] = longer
          /\ active' # <<>>
      BY <2>6, <3>1
    <3>3. RecorderTypeOK' /\ NoWorkerBeforeStart'
      BY <1>1, <1>2, <1>4, <2>6, <3>2 DEF RecorderInv, RecorderTypeOK,
         NoWorkerBeforeStart
    <3>4. EventAccounting'
      BY <1>1, <2>1, <2>6, <3>2 DEF RecorderInv, EventAccounting
    <3>5. GateMatchesActive'
      BY <1>1, <1>7, <2>6, <3>2 DEF RecorderInv, GateMatchesActive
    <3>6. ClipsWellFormed'
      BY <1>1, <2>6, <3>1, <3>2 DEF RecorderInv, ClipsWellFormed
    <3> QED BY <1>4, <3>3, <3>4, <3>5, <3>6 DEF RecorderInv
  <2>7. CASE UNCHANGED <<active, jobs, collecting, cooldown_until, failed>>
    BY <1>5, <2>7
  <2> QED BY <2>3, <2>4, <2>5, <2>6, <2>7 DEF ObserveActive
<1> QED BY <1>6, <1>7

-----------------------------------------------------------------------------
LEMMA WorkerTakeInv ==
  ASSUME RecorderInv, WorkerTake
  PROVE  RecorderInv'
<1>1. RingTypeOK' /\ RingOrdered'
  BY RingFrame DEF WorkerTake, ringVars
<1>2. jobs \in Seq(Event) /\ Len(jobs) \in Nat \ {0} /\ writing = <<>>
  BY EmptySeq DEF WorkerTake, RecorderInv, RecorderTypeOK, GateMatchesActive
<1>3. /\ Head(jobs) \in Event /\ Head(jobs) = jobs[1]
      /\ Tail(jobs) \in Seq(Event) /\ Len(Tail(jobs)) = Len(jobs) - 1
      /\ \A i \in 1..Len(Tail(jobs)) : Tail(jobs)[i] = jobs[i + 1]
  BY <1>2
<1>4. /\ writing' = <<Head(jobs)>> /\ jobs' = Tail(jobs) /\ active' = active
      /\ worker' = "writing"
      /\ UNCHANGED <<collecting, accepting, triggered, completed, failed>>
  BY DEF WorkerTake
<1>5. /\ writing' \in Seq(Event) /\ Len(writing') = 1 /\ writing'[1] = jobs[1]
      /\ writing' # <<>> /\ Len(writing) = 0
  BY <1>2, <1>3, <1>4
<1>6. RecorderTypeOK' /\ NoWorkerBeforeStart'
  <2>1. jobs' \in Seq(Event) /\ Len(jobs') <= WorkerQueueCapacity
    BY <1>2, <1>3, <1>4, RecorderAssumption DEF RecorderInv, RecorderTypeOK
  <2> QED BY <1>1, <1>5, <2>1 DEF WorkerTake, RecorderInv, RecorderTypeOK,
             NoWorkerBeforeStart
<1>7. EventAccounting'
  <2>1. Len(active) \in Nat /\ completed \in Nat /\ failed \in Nat
    BY DEF RecorderInv, RecorderTypeOK
  <2>2. triggered = completed + failed + Len(active) + Len(jobs) + 0
    BY <1>5 DEF RecorderInv, EventAccounting
  <2> QED BY <1>2, <1>3, <1>4, <1>5, <2>1, <2>2 DEF EventAccounting
<1>8. GateMatchesActive'
  BY <1>4, <1>5 DEF RecorderInv, GateMatchesActive
<1>9. ClipsWellFormed'
  <2>1. \A i \in 1..Len(jobs) : ClipWellFormed(jobs[i])
    BY DEF RecorderInv, ClipsWellFormed
  <2>2. \A i \in 1..Len(jobs') : ClipWellFormed(jobs'[i])
    BY <1>2, <1>3, <1>4, <2>1
  <2>3. \A i \in 1..Len(writing') : ClipWellFormed(writing'[i])
    BY <1>2, <1>5, <2>1
  <2> QED BY <1>4, <2>2, <2>3 DEF RecorderInv, ClipsWellFormed
<1> QED BY <1>1, <1>6, <1>7, <1>8, <1>9 DEF RecorderInv

LEMMA WorkerDoneInv ==
  ASSUME RecorderInv, WorkerDone
  PROVE  RecorderInv'
<1>1. RingTypeOK' /\ RingOrdered'
  BY RingFrame DEF WorkerDone, ringVars
<1>2. writing # <<>> /\ writing \in Seq(Event) /\ Len(writing) <= 1
  BY DEF WorkerDone, RecorderInv, RecorderTypeOK, GateMatchesActive
<1>3. Len(writing) = 1
  <2> DEFINE n == Len(writing)
  <2>1. n \in Nat \ {0} /\ n <= 1
    BY <1>2, EmptySeq
  <2> HIDE DEF n
  <2>2. n = 1
    BY <2>1
  <2> QED BY <2>2 DEF n
<1>4. writing' = <<>> /\ Len(writing') = 0 /\ writing' \in Seq(Event)
  BY DEF WorkerDone
<1>5. RecorderTypeOK' /\ NoWorkerBeforeStart'
  BY <1>1, <1>4 DEF WorkerDone, RecorderInv, RecorderTypeOK, NoWorkerBeforeStart
<1>6. EventAccounting'
  <2>1. /\ Len(active) \in Nat /\ completed \in Nat /\ failed \in Nat
        /\ Len(jobs) \in Nat
    BY DEF RecorderInv, RecorderTypeOK
  <2>2. triggered = completed + failed + Len(active) + Len(jobs) + 1
    BY <1>3 DEF RecorderInv, EventAccounting
  <2> QED BY <1>4, <2>1, <2>2 DEF WorkerDone, EventAccounting
<1>7. GateMatchesActive'
  BY <1>4 DEF WorkerDone, RecorderInv, GateMatchesActive
<1>8. ClipsWellFormed'
  BY <1>4 DEF WorkerDone, RecorderInv, ClipsWellFormed
<1> QED BY <1>1, <1>5, <1>6, <1>7, <1>8 DEF RecorderInv

LEMMA ThreadEndInv ==
  ASSUME RecorderInv, WorkerExit \/ WorkerStuck \/ StopJoins
  PROVE  RecorderInv'
<1>1. RingTypeOK' /\ RingOrdered'
  BY RingFrame DEF WorkerExit, WorkerStuck, StopJoins, ringVars
<1>2. ClipsWellFormed'
  BY ClipFrame DEF WorkerExit, WorkerStuck, StopJoins
<1>3. RecorderTypeOK' /\ EventAccounting'
  BY <1>1 DEF WorkerExit, WorkerStuck, StopJoins, RecorderInv, RecorderTypeOK, EventAccounting
<1>4. GateMatchesActive' /\ NoWorkerBeforeStart'
  BY DEF WorkerExit, WorkerStuck, MayExit, StopJoins, RecorderInv, GateMatchesActive,
         NoWorkerBeforeStart
<1> QED BY <1>1, <1>2, <1>3, <1>4 DEF RecorderInv

(* Steps of the encoder change the recorder's part not at all. *)
LEMMA EncoderStepInv ==
  ASSUME RecorderInv, RingTypeOK', RingOrdered', UNCHANGED recorderVars,
         encoder' \in [gen : Nat, phase : {"up", "down", "cleared"}],
         inflight' \in Seq(AccessUnit), Len(inflight') <= 1
  PROVE  RecorderInv'
<1>1. UNCHANGED <<collecting, cooldown_until, active, jobs, running, accepting,
                  worker, writing, owner, triggered, completed, failed,
                  suppressed>>
  BY DEF recorderVars
<1>2. ClipsWellFormed'
  BY <1>1, ClipFrame
<1>3. RecorderTypeOK' /\ EventAccounting'
  BY <1>1 DEF RecorderInv, RecorderTypeOK, EventAccounting
<1>4. GateMatchesActive' /\ NoWorkerBeforeStart'
  BY <1>1 DEF RecorderInv, GateMatchesActive, NoWorkerBeforeStart
<1> QED BY <1>2, <1>3, <1>4 DEF RecorderInv

LEMMA EncoderPushInv ==
  ASSUME RecorderInv, NEW u \in AccessUnit, EncoderPush(u)
  PROVE  RecorderInv'
<1>1. RingInv
  BY DEF RecorderInv, RecorderTypeOK, RingInv
<1>2. RingTypeOK' /\ RingOrdered'
  BY <1>1, PushInv DEF EncoderPush, RingInv
<1>3. inflight' \in Seq(AccessUnit) /\ Len(inflight') <= 1
  BY DEF EncoderPush
<1>4. UNCHANGED recorderVars /\ encoder' = encoder
  BY DEF EncoderPush
<1>5. encoder' \in [gen : Nat, phase : {"up", "down", "cleared"}]
  BY <1>4 DEF RecorderInv, RecorderTypeOK
<1> QED BY <1>2, <1>3, <1>4, <1>5, EncoderStepInv

LEMMA EncoderLifecycleInv ==
  ASSUME RecorderInv, EncoderStop \/ HistoryClear \/ EncoderStart
  PROVE  RecorderInv'
<1>1. RingInv
  BY DEF RecorderInv, RecorderTypeOK, RingInv
<1>2. RingTypeOK' /\ RingOrdered'
  BY <1>1, ClearInv, RingFrame DEF EncoderStop, HistoryClear, EncoderStart, RingInv
<1>3. inflight' \in Seq(AccessUnit) /\ Len(inflight') <= 1
  BY DEF EncoderStop, HistoryClear, EncoderStart, RecorderInv, RecorderTypeOK
<1>4. encoder' \in [gen : Nat, phase : {"up", "down", "cleared"}]
  BY DEF EncoderStop, HistoryClear, EncoderStart, RecorderInv, RecorderTypeOK
<1>5. UNCHANGED recorderVars
  BY DEF EncoderStop, HistoryClear, EncoderStart
<1> QED BY <1>2, <1>3, <1>4, <1>5, EncoderStepInv

-----------------------------------------------------------------------------
LEMMA RecorderInvInductive == RecorderInv /\ [Next]_vars => RecorderInv'
<1> SUFFICES ASSUME RecorderInv, [Next]_vars
             PROVE  RecorderInv'
  OBVIOUS
<1>1. CASE Internal
  BY <1>1, StartInv, StopInv, ThreadEndInv, WorkerTakeInv, WorkerDoneInv,
     ObserveInv, EncoderLifecycleInv DEF Internal
<1>2. CASE \E ts \in Nat : trigger(ts)
  BY <1>2, TriggerSuppressedInv, TriggerAcceptedInv DEF trigger
<1>3. CASE \E u \in AccessUnit : EncoderPush(u)
  BY <1>3, EncoderPushInv
<1>4. CASE UNCHANGED vars
  <2>1. UNCHANGED ringVars /\ UNCHANGED recorderVars /\ UNCHANGED <<encoder, inflight>>
    BY <1>4 DEF vars
  <2>2. RingTypeOK' /\ RingOrdered'
    BY <2>1, RingFrame
  <2>3. /\ encoder' \in [gen : Nat, phase : {"up", "down", "cleared"}]
        /\ inflight' \in Seq(AccessUnit) /\ Len(inflight') <= 1
    BY <2>1 DEF RecorderInv, RecorderTypeOK
  <2> QED BY <2>1, <2>2, <2>3, EncoderStepInv
<1> QED BY <1>1, <1>2, <1>3, <1>4 DEF Next

LEMMA RecorderInvInitially == Init => RecorderInv
<1> SUFFICES ASSUME Init PROVE RecorderInv
  OBVIOUS
<1>1. RingTypeOK /\ RingOrdered
  BY DEF Init, RingInit, RingTypeOK, RingOrdered, StartsDecodable, OneGeneration,
         TimeOrdered
<1>2. RecorderTypeOK
  <2>1. collecting \in BOOLEAN /\ running \in BOOLEAN /\ accepting \in BOOLEAN
    BY DEF Init
  <2>2. encoder \in [gen : Nat, phase : {"up", "down", "cleared"}]
    BY DEF Init
  <2>3. /\ active = <<>> /\ jobs = <<>> /\ writing = <<>> /\ inflight = <<>>
        /\ cooldown_until \in Nat
        /\ triggered \in Nat /\ completed \in Nat /\ failed \in Nat
        /\ suppressed \in Nat
        /\ worker = "none" /\ owner = "created"
    BY DEF Init
  <2>4. Len(<<>>) = 0 /\ <<>> \in Seq(Event) /\ <<>> \in Seq(AccessUnit)
    OBVIOUS
  <2>5. 0 <= WorkerQueueCapacity
    BY RecorderAssumption
  <2> QED BY <1>1, <2>1, <2>2, <2>3, <2>4, <2>5 DEF RecorderTypeOK
<1>4. EventAccounting
  BY DEF Init, EventAccounting
<1>3. GateMatchesActive /\ NoWorkerBeforeStart /\ ClipsWellFormed
  BY DEF Init, GateMatchesActive, NoWorkerBeforeStart, ClipsWellFormed
<1> QED BY <1>1, <1>2, <1>3, <1>4 DEF RecorderInv

(* RecorderInv is an invariant. *)
THEOREM RecorderInvAlways == Spec => []RecorderInv
BY RecorderInvInitially, RecorderInvInductive, PTL DEF Spec

(* The recorder's state keeps its shape; in particular the queue never     *)
(* exceeds kWorkerQueueCapacity.                                           *)
THEOREM RecorderTypeCorrect == Spec => []RecorderTypeOK
<1>1. RecorderInv => RecorderTypeOK
  BY DEF RecorderInv
<1> QED BY <1>1, RecorderInvAlways, PTL

(* trigger(), observeEncoded(), finishLocked(), stop() and the worker lose *)
(* no event and count none twice.                                          *)
THEOREM EventsAccounted == Spec => []EventAccounting
<1>1. RecorderInv => EventAccounting
  BY DEF RecorderInv
<1> QED BY <1>1, RecorderInvAlways, PTL

(* EventGate and the optional active event never disagree. *)
THEOREM GateNeverStuck == Spec => []GateMatchesActive
<1>1. RecorderInv => GateMatchesActive
  BY DEF RecorderInv
<1> QED BY <1>1, RecorderInvAlways, PTL

(* Every clip handed to muxVideo() starts decodable, is of one encoder     *)
(* generation and in time order: its checks for that never fail.           *)
THEOREM ClipsAlwaysWellFormed == Spec => []ClipsWellFormed
<1>1. RecorderInv => ClipsWellFormed
  BY DEF RecorderInv
<1> QED BY <1>1, RecorderInvAlways, PTL

-----------------------------------------------------------------------------
(* The event that still collects has not been marked complete, so that all *)
(* of its units, the last one too, lie before the requested end.           *)
ActiveOpen == \A i \in 1..Len(active) : ~active[i].post_complete

SpanInv == ClipSpansRequest /\ ActiveOpen

(* finishLocked() with a flag that is true of the clip. *)
LEMMA FinishSpans ==
  ASSUME RecorderInv, SpanInv, NEW e \in Event, NEW flag \in BOOLEAN,
         SpansRequest([e EXCEPT !.post_complete = flag]),
         FinishLocked(e, flag), writing' = writing
  PROVE  SpanInv'
<1> DEFINE f == [e EXCEPT !.post_complete = flag]
<1>1. f \in Event /\ jobs \in Seq(Event) /\ Len(jobs) \in Nat
  BY FlaggedEvent DEF RecorderInv, RecorderTypeOK
<1>2. active' = <<>> /\ (jobs' = jobs \/ jobs' = Append(jobs, f))
  BY DEF FinishLocked
<1>3. SpansRequest(f)
  OBVIOUS
<1> HIDE DEF f
<1>4. \A i \in 1..Len(jobs') : jobs'[i] = f \/ (i \in 1..Len(jobs) /\ jobs'[i] = jobs[i])
  BY <1>1, <1>2
<1>5. \A i \in 1..Len(jobs') : SpansRequest(jobs'[i])
  BY <1>3, <1>4 DEF SpanInv, ClipSpansRequest
<1>6. \A i \in 1..Len(writing') : SpansRequest(writing'[i])
  BY DEF SpanInv, ClipSpansRequest
<1> QED BY <1>2, <1>5, <1>6 DEF SpanInv, ClipSpansRequest, ActiveOpen

LEMMA SpanFrame ==
  ASSUME SpanInv, UNCHANGED <<active, jobs, writing>>
  PROVE  SpanInv'
BY DEF SpanInv, ClipSpansRequest, ActiveOpen

(* An event that goes on collecting. *)
LEMMA CollectingSpans ==
  ASSUME SpanInv, NEW e, SpansRequest(e), ~e.post_complete, active' = <<e>>,
         UNCHANGED <<jobs, writing>>
  PROVE  SpanInv'
<1>1. Len(active') = 1 /\ active'[1] = e
  OBVIOUS
<1>2. \A i \in 1..Len(active') : SpansRequest(active'[i]) /\ ~active'[i].post_complete
  BY <1>1
<1> QED BY <1>2 DEF SpanInv, ClipSpansRequest, ActiveOpen

(* The units of the event that collects, and what they are short of. *)
LEMMA ActiveSpan ==
  ASSUME RecorderInv, SpanInv, active # <<>>
  PROVE  /\ SpansRequest(active[1]) /\ ~active[1].post_complete
         /\ \A i \in 1..Len(active[1].units) : active[1].units[i].ts < active[1].end
<1> DEFINE e == active[1]
           c == e.units
<1>1. e \in Event /\ c # <<>> /\ Len(active) = 1
  BY ActiveFacts
<1>2. SpansRequest(e) /\ ~e.post_complete
  BY <1>1 DEF SpanInv, ClipSpansRequest, ActiveOpen
<1>3. /\ ~(c[Len(c)].ts >= e.end)
      /\ \A i \in 1..Len(c)-1 : c[i].ts < e.end
  BY <1>1, <1>2 DEF SpansRequest
<1>4. c \in Seq(AccessUnit) /\ Len(c) \in Nat \ {0} /\ e.end \in Nat
  BY <1>1, EmptySeq DEF Event
<1>5. c[Len(c)].ts < e.end
  <2>1. c[Len(c)] \in AccessUnit
    BY <1>4
  <2>2. c[Len(c)].ts \in Nat
    BY <2>1 DEF AccessUnit
  <2> QED BY <1>3, <1>4, <2>2
<1>6. \A i \in 1..Len(c) : i \in 1..Len(c)-1 \/ i = Len(c)
  BY <1>4
<1> HIDE DEF c
<1>7. \A i \in 1..Len(c) : c[i].ts < e.end
  BY <1>3, <1>5, <1>6
<1> QED BY <1>2, <1>7 DEF c

(* The clip trigger() takes from the ring, for each of the three ways it   *)
(* goes on: nothing selected, the end already reached, more to come.       *)
LEMMA TriggeredSpan ==
  ASSUME RecorderInv, NEW ts \in Nat, NEW k \in 1..Len(units)+1,
         NEW m \in 0..Len(SelectedUnits(k)), NEW e \in Event,
         NEW flag \in BOOLEAN,
         TakesFirst(SelectedUnits(k), e.end, m), e.trigger = ts,
         e.pre_complete = PreRollComplete(ts, Pre, k),
         e.units = SubSeq(SelectedUnits(k), 1, m),
         flag <=> e.units # <<>> /\ e.units[m].ts >= e.end
  PROVE  SpansRequest([e EXCEPT !.post_complete = flag])
<1> DEFINE sel == SelectedUnits(k)
           c == e.units
           f == [e EXCEPT !.post_complete = flag]
<1>1. units \in Seq(AccessUnit) /\ Len(units) \in Nat
  BY DEF RecorderInv, RecorderTypeOK, RingTypeOK
<1>2. /\ sel \in Seq(AccessUnit) /\ Len(sel) = Len(units) - k + 1
      /\ \A i \in 1..Len(sel) : sel[i] = units[k + i - 1]
  BY <1>1, FromFacts DEF SelectedUnits
<1>3. /\ c \in Seq(AccessUnit) /\ Len(c) = m
      /\ \A i \in 1..m : c[i] = sel[i]
  BY <1>2, PrefixFacts
<1>4. /\ f.units = c /\ f.end = e.end /\ f.trigger = ts
      /\ f.pre_complete = PreRollComplete(ts, Pre, k)
      /\ f.post_complete = flag
  BY DEF Event
<1>5. /\ \A i \in 1..m-1 : sel[i].ts < e.end
      /\ m < Len(sel) => m > 0
  BY DEF TakesFirst
<1>6. \A i \in 1..Len(c)-1 : c[i].ts < e.end
  BY <1>2, <1>3, <1>5
<1>7. (c # <<>>) <=> (m > 0)
  BY <1>3
<1>8. (m > 0) <=> (k <= Len(units))
  BY <1>1, <1>2, <1>5
<1>9. m > 0 => c[1] = units[k]
  BY <1>1, <1>2, <1>3
<1>10. PreRollComplete(ts, Pre, k) <=> c # <<>> /\ c[1].ts <= RequestedStart(ts, Pre)
  BY <1>7, <1>8, <1>9 DEF PreRollComplete
<1>11. flag <=> c # <<>> /\ c[Len(c)].ts >= e.end
  BY <1>3
<1> HIDE DEF c, f, sel
<1> QED BY <1>4, <1>6, <1>10, <1>11 DEF SpansRequest, f

LEMMA TriggerSpans ==
  ASSUME RecorderInv, SpanInv, NEW ts \in Nat, TryBegin(ts), TriggerAccepted(ts)
  PROVE  SpanInv'
<1> DEFINE end == SaturatingAdd(ts, Post)
           clip(k, m) == SubSeq(SelectedUnits(k), 1, m)
           event(k, m) == [trigger |-> ts, end |-> end, gen |-> generation,
                           pre_complete |-> PreRollComplete(ts, Pre, k),
                           post_complete |-> FALSE, units |-> clip(k, m)]
           Way(k, m) ==
             /\ TakesFirst(SelectedUnits(k), end, m)
             /\ \/ clip(k, m) = <<>> /\ FinishLocked(event(k, m), FALSE)
                \/ /\ clip(k, m) # <<>> /\ clip(k, m)[m].ts >= end
                   /\ FinishLocked(event(k, m), TRUE)
                \/ /\ clip(k, m) # <<>> /\ ~(clip(k, m)[m].ts >= end)
                   /\ active' = <<event(k, m)>> /\ jobs' = jobs
             /\ writing' = writing
<1>1. PICK k \in 1..Len(units)+1 : \E m \in 0..Len(SelectedUnits(k)) : Way(k, m)
  BY DEF TriggerAccepted
<1>2. PICK m \in 0..Len(SelectedUnits(k)) : Way(k, m)
  BY <1>1
<1> DEFINE e == event(k, m)
<1>3. /\ e \in Event /\ e.units = clip(k, m) /\ e.end = end /\ e.trigger = ts
      /\ e.pre_complete = PreRollComplete(ts, Pre, k)
      /\ e.post_complete = FALSE
  <2>1. end \in Nat /\ generation \in Nat /\ units \in Seq(AccessUnit)
    BY SaturatingAddNat, RecorderAssumption DEF RecorderInv, RecorderTypeOK, RingTypeOK
  <2>2. clip(k, m) \in Seq(AccessUnit)
    <3>1. SelectedUnits(k) \in Seq(AccessUnit)
      BY <2>1, FromFacts DEF SelectedUnits
    <3> QED BY <3>1, PrefixFacts
  <2>3. PreRollComplete(ts, Pre, k) \in BOOLEAN
    BY DEF PreRollComplete
  <2> HIDE DEF end, clip
  <2> QED BY <2>1, <2>2, <2>3 DEF Event
<1>4. TakesFirst(SelectedUnits(k), e.end, m) /\ e.units = SubSeq(SelectedUnits(k), 1, m)
  BY <1>2, <1>3
<1>5. Way(k, m)
  BY <1>2
<1> USE DEF Way
<1> HIDE DEF event, clip, end
<1>6. CASE clip(k, m) = <<>> /\ FinishLocked(event(k, m), FALSE)
  <2>1. SpansRequest([e EXCEPT !.post_complete = FALSE])
    BY <1>3, <1>4, <1>6, TriggeredSpan
  <2> QED BY <1>3, <1>5, <1>6, <2>1, FinishSpans
<1>7. CASE /\ clip(k, m) # <<>> /\ clip(k, m)[m].ts >= end
           /\ FinishLocked(event(k, m), TRUE)
  <2>1. SpansRequest([e EXCEPT !.post_complete = TRUE])
    BY <1>3, <1>4, <1>7, TriggeredSpan
  <2> QED BY <1>3, <1>5, <1>7, <2>1, FinishSpans
<1>8. CASE /\ clip(k, m) # <<>> /\ ~(clip(k, m)[m].ts >= end)
           /\ active' = <<event(k, m)>> /\ jobs' = jobs
  <2>1. SpansRequest([e EXCEPT !.post_complete = FALSE])
    BY <1>3, <1>4, <1>8, TriggeredSpan
  <2>2. [e EXCEPT !.post_complete = FALSE] = e
    BY <1>3 DEF Event
  <2> QED BY <1>3, <1>5, <1>8, <2>1, <2>2, CollectingSpans
<1> QED BY <1>5, <1>6, <1>7, <1>8

(* Cutting the event short, by stop() or by a unit of a new generation. *)
LEMMA CutShortSpans ==
  ASSUME RecorderInv, SpanInv, active # <<>>, FinishLocked(active[1], FALSE),
         writing' = writing
  PROVE  SpanInv'
<1>1. active[1] \in Event /\ SpansRequest(active[1]) /\ ~active[1].post_complete
  BY ActiveFacts, ActiveSpan
<1>2. active[1].post_complete = FALSE
  BY <1>1 DEF Event
<1>3. [active[1] EXCEPT !.post_complete = FALSE] = active[1]
  BY <1>1, <1>2 DEF Event
<1> QED BY <1>1, <1>3, FinishSpans

LEMMA ObserveSpans ==
  ASSUME RecorderInv, SpanInv, EncoderObserve
  PROVE  SpanInv'
<1> DEFINE e == active[1]
           u == inflight[1]
           c == e.units
           longer == [e EXCEPT !.units = Append(e.units, u)]
<1>1. writing' = writing
  BY DEF EncoderObserve
<1>2. CASE active = <<>>
  BY <1>1, <1>2, SpanFrame DEF EncoderObserve
<1>3. CASE active # <<>>
  <2>1. /\ e \in Event /\ c # <<>> /\ SpansRequest(e) /\ ~e.post_complete
        /\ \A i \in 1..Len(c) : c[i].ts < e.end
    BY <1>3, ActiveFacts, ActiveSpan
  <2>2. u \in AccessUnit
    <3>1. inflight \in Seq(AccessUnit) /\ inflight # <<>>
      BY DEF RecorderInv, RecorderTypeOK, EncoderObserve
    <3>2. Len(inflight) \in Nat \ {0}
      BY <3>1, EmptySeq
    <3> QED BY <3>1, <3>2
  <2>3. ObserveActive(e, u)
    BY <1>3 DEF EncoderObserve
  <2> HIDE DEF u
  <2>4. c \in Seq(AccessUnit) /\ Len(c) \in Nat \ {0} /\ e.end \in Nat
    BY <2>1, EmptySeq DEF Event
  <2>5. /\ longer \in Event /\ longer.end = e.end /\ longer.trigger = e.trigger
        /\ longer.pre_complete = e.pre_complete /\ longer.post_complete = FALSE
        /\ longer.units = Append(c, u)
    <3>1. Append(c, u) \in Seq(AccessUnit)
      BY <2>2, <2>4
    <3>2. e.post_complete = FALSE
      BY <2>1 DEF Event
    <3> HIDE DEF e
    <3> QED BY <2>1, <3>1, <3>2 DEF Event
  <2>6. /\ Len(Append(c, u)) = Len(c) + 1 /\ Append(c, u)[Len(c) + 1] = u
        /\ Append(c, u) # <<>> /\ Append(c, u)[1] = c[1]
        /\ \A i \in 1..Len(c) : Append(c, u)[i] = c[i]
    BY <2>2, <2>4
  <2>7. ASSUME NEW flag \in BOOLEAN, flag <=> u.ts >= e.end
        PROVE  SpansRequest([longer EXCEPT !.post_complete = flag])
    <3> DEFINE f == [longer EXCEPT !.post_complete = flag]
               d == Append(c, u)
    <3>1. /\ f.end = e.end /\ f.trigger = e.trigger /\ f.units = d
          /\ f.pre_complete = e.pre_complete /\ f.post_complete = flag
      BY <2>5 DEF Event
    <3>2. e.pre_complete <=> c[1].ts <= RequestedStart(e.trigger, Pre)
      BY <2>1 DEF SpansRequest
    <3>3. d # <<>> /\ d[1] = c[1] /\ d[Len(d)] = u
      BY <2>6
    <3>4. \A i \in 1..Len(d)-1 : d[i].ts < e.end
      <4>1. \A i \in 1..Len(d)-1 : i \in 1..Len(c)
        BY <2>4, <2>6
      <4> QED BY <2>1, <2>6, <4>1
    <3> HIDE DEF f, d
    <3>5. SpansRequest(f)
      BY <2>7, <3>1, <3>2, <3>3, <3>4 DEF SpansRequest
    <3> QED BY <3>5 DEF f
  <2>8. CASE EndsEvent(e, u) /\ FinishLocked(e, FALSE)
    BY <1>1, <1>3, <2>8, CutShortSpans
  <2>9. CASE u.ts >= e.end /\ FinishLocked(longer, TRUE)
    <3>1. SpansRequest([longer EXCEPT !.post_complete = TRUE])
      BY <2>7, <2>9
    <3> HIDE DEF longer
    <3> QED BY <1>1, <2>5, <2>9, <3>1, FinishSpans
  <2>10. CASE ~(u.ts >= e.end) /\ active' = <<longer>> /\ jobs' = jobs
    <3>1. SpansRequest([longer EXCEPT !.post_complete = FALSE])
      BY <2>7, <2>10
    <3> HIDE DEF longer
    <3>2. [longer EXCEPT !.post_complete = FALSE] = longer
      BY <2>5 DEF Event
    <3> QED BY <1>1, <2>5, <2>10, <3>1, <3>2, CollectingSpans
  <2>11. CASE UNCHANGED <<active, jobs, collecting, cooldown_until, failed>>
    BY <1>1, <2>11, SpanFrame
  <2> HIDE DEF e, longer
  <2> QED BY <2>3, <2>8, <2>9, <2>10, <2>11 DEF ObserveActive, longer
<1> QED BY <1>2, <1>3

LEMMA WorkerSpans ==
  ASSUME RecorderInv, SpanInv, WorkerTake \/ WorkerDone
  PROVE  SpanInv'
<1>1. CASE WorkerTake
  <2>1. jobs \in Seq(Event) /\ Len(jobs) \in Nat \ {0}
    BY <1>1, EmptySeq DEF WorkerTake, RecorderInv, RecorderTypeOK
  <2>2. /\ Head(jobs) = jobs[1] /\ Len(Tail(jobs)) = Len(jobs) - 1
        /\ \A i \in 1..Len(Tail(jobs)) : Tail(jobs)[i] = jobs[i + 1]
    BY <2>1
  <2>3. writing' = <<Head(jobs)>> /\ jobs' = Tail(jobs) /\ active' = active
    BY <1>1 DEF WorkerTake
  <2>4. \A i \in 1..Len(jobs') : SpansRequest(jobs'[i])
    BY <2>1, <2>2, <2>3 DEF SpanInv, ClipSpansRequest
  <2>5. \A i \in 1..Len(writing') : SpansRequest(writing'[i])
    <3>1. SpansRequest(jobs[1])
      BY <2>1 DEF SpanInv, ClipSpansRequest
    <3> QED BY <2>2, <2>3, <3>1
  <2> QED BY <2>3, <2>4, <2>5 DEF SpanInv, ClipSpansRequest, ActiveOpen
<1>2. CASE WorkerDone
  BY <1>2 DEF WorkerDone, SpanInv, ClipSpansRequest, ActiveOpen
<1> QED BY <1>1, <1>2

LEMMA SpanInvInductive == RecorderInv /\ SpanInv /\ [Next]_vars => SpanInv'
<1> SUFFICES ASSUME RecorderInv, SpanInv, [Next]_vars
             PROVE  SpanInv'
  OBVIOUS
<1>1. CASE Stop
  BY <1>1, SpanFrame, CutShortSpans DEF Stop
<1>2. CASE Start \/ StopJoins \/ WorkerStuck \/ WorkerExit
  BY <1>2, SpanFrame DEF Start, StopJoins, WorkerStuck, WorkerExit
<1>3. CASE EncoderStop \/ HistoryClear \/ EncoderStart
  BY <1>3, SpanFrame DEF EncoderStop, HistoryClear, EncoderStart, recorderVars
<1>4. CASE \E ts \in Nat : trigger(ts)
  BY <1>4, SpanFrame, TriggerSpans DEF trigger, TriggerSuppressed
<1>5. CASE \E u \in AccessUnit : EncoderPush(u)
  BY <1>5, SpanFrame DEF EncoderPush, recorderVars
<1>6. CASE UNCHANGED vars
  BY <1>6, SpanFrame DEF vars, recorderVars
<1> QED BY <1>1, <1>2, <1>3, <1>4, <1>5, <1>6, ObserveSpans, WorkerSpans
        DEF Next, Internal

(* pre_roll_complete and post_roll_complete, which the event's metadata    *)
(* reports, are true of the clip, and the clip ends with the first unit    *)
(* that reaches the end trigger() asked for.                               *)
THEOREM FlagsTellTheTruth == Spec => []ClipSpansRequest
<1>1. Init => SpanInv
  BY DEF Init, SpanInv, ClipSpansRequest, ActiveOpen
<1>2. SpanInv => ClipSpansRequest
  BY DEF SpanInv
<1> QED BY <1>1, <1>2, RecorderInvAlways, SpanInvInductive, PTL DEF Spec

-----------------------------------------------------------------------------
(* The recorder with its history: emitted and detected.  Bounds and        *)
(* choices of MCEventRecorder are constants like the others, so what is    *)
(* proved of MCSpec holds of any number of units and detections.           *)

(* The history is one: units carry their position, and the unit between    *)
(* push() and observeEncoded() is the last one.                            *)
HistoryOK ==
  /\ emitted \in Seq(AccessUnit) /\ detected \in Nat
  /\ \A n \in 1..Len(emitted) : emitted[n].id = n
  /\ inflight # <<>> => emitted # <<>> /\ inflight[1] = emitted[Len(emitted)]

(* h was triggered no earlier than the end of g plus the cooldown. *)
Spaced(g, h) == h.trigger >= SaturatingAdd(ActualEnd(g), Cooldown)

(* So will be every later event: either the gate still knows of g, or a    *)
(* detection that late has been seen.  An interrupted event can turn the   *)
(* gate's cooldown back, which is why the gate alone is not enough.        *)
Behind(g) ==
  \/ cooldown_until >= SaturatingAdd(ActualEnd(g), Cooldown)
  \/ detected >= SaturatingAdd(ActualEnd(g), Cooldown)

CooldownInv ==
  /\ \A i, j \in 1..Len(jobs) : i < j => Spaced(jobs[i], jobs[j])
  /\ \A i \in 1..Len(writing) : \A j \in 1..Len(jobs) : Spaced(writing[i], jobs[j])
  /\ \A i \in 1..Len(writing) : \A j \in 1..Len(active) : Spaced(writing[i], active[j])
  /\ \A i \in 1..Len(jobs) : \A j \in 1..Len(active) : Spaced(jobs[i], active[j])
  /\ \A i \in 1..Len(writing) : Behind(writing[i])
  /\ \A i \in 1..Len(jobs) : Behind(jobs[i])
  /\ \A j \in 1..Len(active) : active[j].trigger <= detected

(* s consists of units of the history h, each once and in order. *)
DrawnFrom(h, s) ==
  /\ \A i \in 1..Len(s) : s[i].id \in 1..Len(h) /\ s[i] = h[s[i].id]
  /\ \A i, j \in 1..Len(s) : i < j => s[i].id < s[j].id

HasUnit(s, n) == \E i \in 1..Len(s) : s[i].id = n

(* From its first unit to the end of h, s lacks only what push() rejects. *)
RunOf(h, s) ==
  /\ DrawnFrom(h, s)
  /\ s # <<>> => \A n \in s[1].id .. Len(h) : HasUnit(s, n) \/ Rejected(h[n])

Contiguous(h, e) ==
  LET c == e.units IN
  /\ DrawnFrom(h, c)
  /\ c # <<>> => \A n \in c[1].id .. c[Len(c)].id :
                   HasUnit(c, n) \/ Excused(h, e.gen, n)

(* What was observed of h after the last unit of the clip is excused. *)
CaughtUp(h, observed, e) ==
  \A n \in e.units[Len(e.units)].id + 1 .. observed : Excused(h, e.gen, n)

(* The number of units observeEncoded() has returned from. *)
Observed == Len(emitted) - Len(inflight)

ContiguityInv ==
  /\ RunOf(emitted, units)
  /\ \A i \in 1..Len(active) : /\ Contiguous(emitted, active[i])
                               /\ CaughtUp(emitted, Observed, active[i])
  /\ \A i \in 1..Len(jobs) : Contiguous(emitted, jobs[i])
  /\ \A i \in 1..Len(writing) : Contiguous(emitted, writing[i])

HistoryInv == RecorderInv /\ HistoryOK /\ CooldownInv /\ ContiguityInv

-----------------------------------------------------------------------------
(* The three kinds of step of the recorder with its history. *)
Pushes(u) ==
  /\ EncoderPush(u) /\ u.id = Len(emitted) + 1
  /\ emitted' = Append(emitted, u) /\ detected' = detected

Triggers(ts) ==
  /\ trigger(ts) /\ ts > detected
  /\ detected' = ts /\ emitted' = emitted

LEMMA HistorySteps ==
  ASSUME RecorderInv, HistoryOK, [MCNext]_mcVars
  PROVE  \/ \E u \in AccessUnit : Pushes(u)
         \/ \E ts \in Nat : Triggers(ts)
         \/ Internal /\ UNCHANGED <<emitted, detected>>
         \/ UNCHANGED mcVars
<1>1. CASE Emit /\ UNCHANGED detected
  <2>1. PICK step \in TsSteps, idr \in BOOLEAN, size \in Sizes :
          LET u == [ts |-> PreviousTs + step - 1, gen |-> encoder.gen, idr |-> idr,
                    size |-> size, id |-> Len(emitted) + 1]
          IN /\ u.ts > 0 /\ EncoderPush(u) /\ emitted' = Append(emitted, u)
    BY <1>1 DEF Emit
  <2> DEFINE u == [ts |-> PreviousTs + step - 1, gen |-> encoder.gen, idr |-> idr,
                   size |-> size, id |-> Len(emitted) + 1]
  <2>2. PreviousTs \in Nat /\ Len(emitted) \in Nat
    <3>1. CASE emitted = <<>>
      BY <3>1 DEF PreviousTs
    <3>2. CASE emitted # <<>>
      <4>1. emitted[Len(emitted)] \in AccessUnit
        BY <3>2 DEF HistoryOK
      <4> QED BY <3>2, <4>1 DEF PreviousTs, HistoryOK, AccessUnit
    <3> QED BY <3>1, <3>2
  <2>3. u.ts > 0 /\ EncoderPush(u) /\ emitted' = Append(emitted, u)
    BY <2>1
  <2>4. u.ts \in Nat /\ size \in Nat
    BY <2>2, <2>3, HistoryAssumption
  <2>5. encoder.gen \in Nat
    BY DEF RecorderInv, RecorderTypeOK
  <2>6. u \in AccessUnit /\ u.id = Len(emitted) + 1
    BY <2>2, <2>4, <2>5 DEF AccessUnit
  <2> HIDE DEF u
  <2> QED BY <1>1, <2>3, <2>6 DEF Pushes
<1>2. CASE Detect /\ UNCHANGED emitted
  BY <1>2, HistoryAssumption DEF Detect, Triggers
<1>3. CASE /\ \/ Start \/ Stop \/ StopJoins
              \/ WorkerTake \/ WorkerStuck \/ WorkerDone \/ WorkerExit
              \/ EncoderObserve
              \/ encoder.gen < MaxGen /\ (EncoderStop \/ EncoderStart)
              \/ HistoryClear
           /\ UNCHANGED <<emitted, detected>>
  BY <1>3 DEF Internal
<1> QED BY <1>1, <1>2, <1>3 DEF MCNext

(* The event trigger() builds from the selection at k, cut after m units. *)
Begins(ts, k, m, e) ==
  /\ SelectsFrom(ts, Pre, k)
  /\ TakesFirst(SelectedUnits(k), e.end, m)
  /\ e.trigger = ts /\ e.gen = generation
  /\ e.units = SubSeq(SelectedUnits(k), 1, m)
  /\ \/ \E flag \in BOOLEAN : FinishLocked(e, flag)
     \/ /\ e.units # <<>> /\ ~(e.units[m].ts >= e.end)
        /\ active' = <<e>> /\ UNCHANGED <<jobs, cooldown_until>>
  /\ UNCHANGED <<ringVars, writing, inflight>>

LEMMA TriggerBegins ==
  ASSUME RecorderInv, NEW ts \in Nat, TriggerAccepted(ts)
  PROVE  \E k \in 1..Len(units)+1 : \E m \in 0..Len(SelectedUnits(k)) :
           \E e \in Event : Begins(ts, k, m, e)
<1> DEFINE end == SaturatingAdd(ts, Post)
           clip(k, m) == SubSeq(SelectedUnits(k), 1, m)
           event(k, m) == [trigger |-> ts, end |-> end, gen |-> generation,
                           pre_complete |-> PreRollComplete(ts, Pre, k),
                           post_complete |-> FALSE, units |-> clip(k, m)]
           Way(k, m) ==
             /\ SelectsFrom(ts, Pre, k)
             /\ TakesFirst(SelectedUnits(k), end, m)
             /\ \/ \E flag \in BOOLEAN : FinishLocked(event(k, m), flag)
                \/ /\ clip(k, m) # <<>> /\ ~(clip(k, m)[m].ts >= end)
                   /\ active' = <<event(k, m)>> /\ UNCHANGED <<jobs, cooldown_until>>
             /\ UNCHANGED <<ringVars, writing, inflight>>
<1>1. PICK k \in 1..Len(units)+1 : \E m \in 0..Len(SelectedUnits(k)) : Way(k, m)
  BY DEF TriggerAccepted
<1>2. PICK m \in 0..Len(SelectedUnits(k)) : Way(k, m)
  BY <1>1
<1> DEFINE e == event(k, m)
<1>3. /\ e \in Event /\ e.units = clip(k, m) /\ e.end = end /\ e.trigger = ts
      /\ e.gen = generation
  <2>1. end \in Nat /\ generation \in Nat /\ units \in Seq(AccessUnit)
    BY SaturatingAddNat, RecorderAssumption DEF RecorderInv, RecorderTypeOK, RingTypeOK
  <2>2. clip(k, m) \in Seq(AccessUnit)
    <3>1. SelectedUnits(k) \in Seq(AccessUnit)
      BY <2>1, FromFacts DEF SelectedUnits
    <3> QED BY <3>1, PrefixFacts
  <2>3. PreRollComplete(ts, Pre, k) \in BOOLEAN
    BY DEF PreRollComplete
  <2> HIDE DEF end, clip
  <2> QED BY <2>1, <2>2, <2>3 DEF Event
<1>4. Begins(ts, k, m, e)
  <2> HIDE DEF end, event
  <2> QED BY <1>2, <1>3 DEF Begins
<1> QED BY <1>3, <1>4

-----------------------------------------------------------------------------
(* finishLocked() on an event later than all that are held. *)
LEMMA FinishCooldown ==
  ASSUME RecorderInv, CooldownInv, NEW e \in Event, NEW flag \in BOOLEAN,
         FinishLocked(e, flag), writing' = writing,
         detected' \in Nat, e.trigger <= detected',
         \A i \in 1..Len(writing) : Spaced(writing[i], e),
         \A i \in 1..Len(jobs) : Spaced(jobs[i], e)
  PROVE  CooldownInv'
<1> DEFINE f == [e EXCEPT !.post_complete = flag]
           After(g) == SaturatingAdd(ActualEnd(g), Cooldown)
<1>1. /\ jobs \in Seq(Event) /\ Len(jobs) \in Nat /\ writing \in Seq(Event)
      /\ e.trigger \in Nat
  BY DEF RecorderInv, RecorderTypeOK, Event
<1>2. f.trigger = e.trigger /\ ActualEnd(f) = ActualEnd(e)
  BY DEF Event, ActualEnd
<1>3. /\ active' = <<>> /\ cooldown_until' = After(e)
      /\ jobs' = jobs \/ jobs' = Append(jobs, f)
  BY DEF FinishLocked
<1>4. \A g \in Event : After(g) \in Nat
  BY ActualEndNat, SaturatingAddNat, RecorderAssumption
<1>5. \A g \in Event : Spaced(g, e) => Spaced(g, f) /\ detected' >= After(g)
  <2> SUFFICES ASSUME NEW g \in Event, Spaced(g, e)
               PROVE  Spaced(g, f) /\ detected' >= After(g)
    OBVIOUS
  <2>1. e.trigger >= After(g) /\ f.trigger >= After(g) /\ After(g) \in Nat
    BY <1>2, <1>4 DEF Spaced
  <2> HIDE DEF After, f
  <2>2. detected' >= After(g)
    BY <1>1, <2>1
  <2> QED BY <2>1, <2>2 DEF Spaced, After
<1>6. cooldown_until' >= After(f)
  BY <1>2, <1>3, <1>4
<1> HIDE DEF f
<1>7. /\ \A i \in 1..Len(jobs) : jobs[i] \in Event
      /\ \A i \in 1..Len(writing) : writing[i] \in Event
  BY <1>1
<1>8. \A i \in 1..Len(jobs') : \/ i \in 1..Len(jobs) /\ jobs'[i] = jobs[i]
                               \/ i = Len(jobs) + 1 /\ jobs'[i] = f
  BY <1>1, <1>3, SMTT(30)
<1>9. \A i, j \in 1..Len(jobs') : i < j => Spaced(jobs'[i], jobs'[j])
  <2> SUFFICES ASSUME NEW i \in 1..Len(jobs'), NEW j \in 1..Len(jobs'), i < j
               PROVE  Spaced(jobs'[i], jobs'[j])
    OBVIOUS
  <2>1. i \in 1..Len(jobs) /\ jobs'[i] = jobs[i]
    BY <1>1, <1>8
  <2>2. CASE j \in 1..Len(jobs) /\ jobs'[j] = jobs[j]
    BY <2>1, <2>2 DEF CooldownInv
  <2>3. CASE jobs'[j] = f
    BY <1>5, <1>7, <2>1, <2>3
  <2> QED BY <1>8, <2>2, <2>3
<1>10. \A i \in 1..Len(writing) : \A j \in 1..Len(jobs') : Spaced(writing[i], jobs'[j])
  <2> SUFFICES ASSUME NEW i \in 1..Len(writing), NEW j \in 1..Len(jobs')
               PROVE  Spaced(writing[i], jobs'[j])
    OBVIOUS
  <2>1. CASE j \in 1..Len(jobs) /\ jobs'[j] = jobs[j]
    BY <2>1 DEF CooldownInv
  <2>2. CASE jobs'[j] = f
    BY <1>5, <1>7, <2>2
  <2> QED BY <1>8, <2>1, <2>2
<1>11. \A i \in 1..Len(writing) : detected' >= After(writing[i])
  BY <1>5, <1>7
<1>12. \A i \in 1..Len(jobs') :
         cooldown_until' >= After(jobs'[i]) \/ detected' >= After(jobs'[i])
  BY <1>5, <1>6, <1>7, <1>8
<1>13. \A i \in 1..Len(active') : FALSE
  BY <1>3
<1> QED BY <1>9, <1>10, <1>11, <1>12, <1>13 DEF CooldownInv, Behind

(* The gate as it was, and no detection earlier than the last one. *)
LEMMA CooldownFrame ==
  ASSUME RecorderInv, HistoryOK, CooldownInv, detected' \in Nat, detected <= detected',
         UNCHANGED <<cooldown_until, active, jobs, writing>>
  PROVE  CooldownInv'
<1> DEFINE After(g) == SaturatingAdd(ActualEnd(g), Cooldown)
<1>1. \A g \in Event : After(g) \in Nat
  BY ActualEndNat, SaturatingAddNat, RecorderAssumption
<1>2. /\ \A i \in 1..Len(jobs) : jobs[i] \in Event
      /\ \A i \in 1..Len(writing) : writing[i] \in Event
      /\ \A i \in 1..Len(active) : active[i] \in Event
  BY DEF RecorderInv, RecorderTypeOK
<1>3. detected \in Nat
  BY DEF HistoryOK
<1>4. \A g \in Event : detected >= After(g) => detected' >= After(g)
  <2> HIDE DEF After
  <2> QED BY <1>1, <1>3
<1>5. /\ \A i \in 1..Len(jobs) : cooldown_until >= After(jobs[i]) \/ detected' >= After(jobs[i])
      /\ \A i \in 1..Len(writing) :
           cooldown_until >= After(writing[i]) \/ detected' >= After(writing[i])
  BY <1>2, <1>4 DEF CooldownInv, Behind
<1>6. \A i \in 1..Len(active) : active[i].trigger <= detected'
  <2> SUFFICES ASSUME NEW i \in 1..Len(active) PROVE active[i].trigger <= detected'
    OBVIOUS
  <2>1. active[i].trigger \in Nat /\ active[i].trigger <= detected
    BY <1>2 DEF Event, CooldownInv
  <2> QED BY <1>3, <2>1
<1> QED BY <1>5, <1>6 DEF CooldownInv, Behind

LEMMA TriggerCooldown ==
  ASSUME RecorderInv, HistoryOK, CooldownInv, NEW ts \in Nat, TryBegin(ts),
         TriggerAccepted(ts), ts > detected, detected' = ts
  PROVE  CooldownInv'
<1> DEFINE After(g) == SaturatingAdd(ActualEnd(g), Cooldown)
<1>0. PICK k \in 1..Len(units)+1 : \E m \in 0..Len(SelectedUnits(k)) :
        \E e \in Event : Begins(ts, k, m, e)
  BY TriggerBegins
<1>1. PICK m \in 0..Len(SelectedUnits(k)), e \in Event : Begins(ts, k, m, e)
  BY <1>0
<1>2. ts >= cooldown_until /\ cooldown_until \in Nat /\ detected \in Nat
  BY DEF TryBegin, RecorderInv, RecorderTypeOK, HistoryOK
<1>3. \A g \in Event : After(g) \in Nat
  BY ActualEndNat, SaturatingAddNat, RecorderAssumption
<1>4. /\ \A i \in 1..Len(jobs) : jobs[i] \in Event
      /\ \A i \in 1..Len(writing) : writing[i] \in Event
  BY SMTT(30) DEF RecorderInv, RecorderTypeOK
<1>5. \A g \in Event : Behind(g) => Spaced(g, e) /\ detected' >= After(g)
  <2> SUFFICES ASSUME NEW g \in Event, Behind(g)
               PROVE  Spaced(g, e) /\ detected' >= After(g)
    OBVIOUS
  <2>1. cooldown_until >= After(g) \/ detected >= After(g)
    BY DEF Behind
  <2>2. After(g) \in Nat
    BY <1>3
  <2>3. e.trigger = ts
    BY <1>1 DEF Begins
  <2> HIDE DEF After
  <2>4. ts >= After(g)
    BY <1>2, <2>1, <2>2
  <2> QED BY <2>3, <2>4 DEF Spaced, After
<1>6. /\ \A i \in 1..Len(writing) : Spaced(writing[i], e) /\ detected' >= After(writing[i])
      /\ \A i \in 1..Len(jobs) : Spaced(jobs[i], e) /\ detected' >= After(jobs[i])
  BY <1>4, <1>5 DEF CooldownInv
<1>7. e.trigger <= detected' /\ writing' = writing /\ detected' \in Nat
  BY <1>1 DEF Begins
<1>8. CASE \E flag \in BOOLEAN : FinishLocked(e, flag)
  BY <1>6, <1>7, <1>8, FinishCooldown
<1>9. CASE active' = <<e>> /\ UNCHANGED <<jobs, cooldown_until>>
  <2>1. Len(active') = 1 /\ active'[1] = e
    BY <1>9
  <2>2. \A j \in 1..Len(active') : active'[j] = e
    BY <2>1
  <2> QED BY <1>6, <1>7, <1>9, <2>2 DEF CooldownInv, Behind
<1> QED BY <1>1, <1>8, <1>9 DEF Begins

(* The active event, when it is finished or goes on collecting. *)
LEMMA ActiveCooldown ==
  ASSUME RecorderInv, HistoryOK, CooldownInv, active # <<>>, detected' = detected,
         writing' = writing, NEW e \in Event, e.trigger = active[1].trigger,
         \/ \E flag \in BOOLEAN : FinishLocked(e, flag)
         \/ active' = <<e>> /\ UNCHANGED <<jobs, cooldown_until>>
  PROVE  CooldownInv'
<1>1. Len(active) = 1
  BY ActiveFacts
<1>2. detected' \in Nat /\ e.trigger <= detected'
  BY <1>1 DEF HistoryOK, CooldownInv
<1>3. /\ \A i \in 1..Len(writing) : Spaced(writing[i], e)
      /\ \A i \in 1..Len(jobs) : Spaced(jobs[i], e)
  BY <1>1 DEF CooldownInv, Spaced
<1>4. CASE \E flag \in BOOLEAN : FinishLocked(e, flag)
  BY <1>2, <1>3, <1>4, FinishCooldown
<1>5. CASE active' = <<e>> /\ UNCHANGED <<jobs, cooldown_until>>
  <2>1. Len(active') = 1 /\ active'[1] = e
    BY <1>5
  <2>2. \A j \in 1..Len(active') : active'[j] = e
    BY <2>1
  <2> QED BY <1>2, <1>3, <1>5, <2>2 DEF CooldownInv, Behind
<1> QED BY <1>4, <1>5

(* What observeEncoded() does to the active event, whichever branch. *)
LEMMA ObserveCases ==
  ASSUME RecorderInv, EncoderObserve, active # <<>>
  PROVE  LET e == active[1]
             u == inflight[1]
             longer == [e EXCEPT !.units = Append(e.units, u)]
         IN /\ e \in Event /\ u \in AccessUnit /\ e.units # <<>>
            /\ longer \in Event /\ longer.trigger = e.trigger /\ longer.end = e.end
            /\ longer.gen = e.gen /\ longer.units = Append(e.units, u)
            /\ writing' = writing
            /\ \/ u.gen # e.gen /\ FinishLocked(e, FALSE)
               \/ /\ u.gen = e.gen /\ Extends(e, u)
                  /\ \/ FinishLocked(longer, TRUE)
                     \/ active' = <<longer>> /\ UNCHANGED <<jobs, cooldown_until>>
               \/ /\ u.gen = e.gen /\ ~Extends(e, u)
                  /\ UNCHANGED <<active, jobs, cooldown_until>>
<1> DEFINE e == active[1]
           u == inflight[1]
           longer == [e EXCEPT !.units = Append(e.units, u)]
<1>1. e \in Event /\ e.units # <<>>
  BY ActiveFacts
<1>2. u \in AccessUnit
  <2>1. inflight \in Seq(AccessUnit) /\ inflight # <<>>
    BY DEF RecorderInv, RecorderTypeOK, EncoderObserve
  <2>2. Len(inflight) \in Nat \ {0}
    BY <2>1, EmptySeq
  <2> QED BY <2>1, <2>2
<1>3. ObserveActive(e, u) /\ writing' = writing
  BY DEF EncoderObserve
<1> HIDE DEF e, u
<1>4. /\ longer \in Event /\ longer.trigger = e.trigger /\ longer.end = e.end
      /\ longer.gen = e.gen /\ longer.units = Append(e.units, u)
  <2>1. Append(e.units, u) \in Seq(AccessUnit)
    BY <1>1, <1>2 DEF Event
  <2> QED BY <1>1, <2>1 DEF Event
<1>5. \/ u.gen # e.gen /\ FinishLocked(e, FALSE)
      \/ /\ u.gen = e.gen /\ Extends(e, u)
         /\ \/ FinishLocked(longer, TRUE)
            \/ active' = <<longer>> /\ UNCHANGED <<jobs, cooldown_until>>
      \/ /\ u.gen = e.gen /\ ~Extends(e, u)
         /\ UNCHANGED <<active, jobs, cooldown_until>>
  BY <1>3 DEF ObserveActive, EndsEvent
<1> HIDE DEF longer
<1> QED BY <1>1, <1>2, <1>3, <1>4, <1>5 DEF e, u, longer

LEMMA WorkerTakesOldest ==
  ASSUME RecorderInv, WorkerTake
  PROVE  /\ Len(jobs) \in Nat \ {0} /\ Len(jobs') = Len(jobs) - 1
         /\ \A i \in 1..Len(jobs') : i + 1 \in 1..Len(jobs) /\ jobs'[i] = jobs[i + 1]
         /\ Len(writing') = 1 /\ writing'[1] = jobs[1]
         /\ UNCHANGED <<active, cooldown_until, inflight, ringVars>>
<1>1. jobs \in Seq(Event) /\ Len(jobs) \in Nat \ {0}
  BY EmptySeq DEF WorkerTake, RecorderInv, RecorderTypeOK
<1>2. /\ Head(jobs) = jobs[1] /\ Len(Tail(jobs)) = Len(jobs) - 1
      /\ \A i \in 1..Len(Tail(jobs)) : Tail(jobs)[i] = jobs[i + 1]
  BY <1>1
<1> QED BY <1>1, <1>2 DEF WorkerTake

LEMMA WorkerCooldown ==
  ASSUME RecorderInv, HistoryOK, CooldownInv, WorkerTake \/ WorkerDone,
         detected' = detected
  PROVE  CooldownInv'
<1>1. CASE WorkerTake
  <2>1. /\ Len(jobs) \in Nat \ {0} /\ Len(jobs') = Len(jobs) - 1
        /\ \A i \in 1..Len(jobs') : i + 1 \in 1..Len(jobs) /\ jobs'[i] = jobs[i + 1]
        /\ Len(writing') = 1 /\ writing'[1] = jobs[1]
        /\ UNCHANGED <<active, cooldown_until>>
    BY <1>1, WorkerTakesOldest
  <2>2. \A i \in 1..Len(writing') : writing'[i] = jobs[1] /\ 1 \in 1..Len(jobs)
    BY <2>1
  <2>3. \A i, j \in 1..Len(jobs') : i < j => Spaced(jobs'[i], jobs'[j])
    <3> SUFFICES ASSUME NEW i \in 1..Len(jobs'), NEW j \in 1..Len(jobs'), i < j
                 PROVE  Spaced(jobs'[i], jobs'[j])
      OBVIOUS
    <3>1. i + 1 < j + 1
      BY <2>1
    <3> QED BY <2>1, <3>1 DEF CooldownInv
  <2>4. \A i \in 1..Len(writing') : \A j \in 1..Len(jobs') : Spaced(writing'[i], jobs'[j])
    <3> SUFFICES ASSUME NEW i \in 1..Len(writing'), NEW j \in 1..Len(jobs')
                 PROVE  Spaced(writing'[i], jobs'[j])
      OBVIOUS
    <3>1. 1 < j + 1
      BY <2>1
    <3> QED BY <2>1, <2>2, <3>1 DEF CooldownInv
  <2>5. /\ \A i \in 1..Len(writing') : \A j \in 1..Len(active) : Spaced(writing'[i], active[j])
        /\ \A i \in 1..Len(jobs') : \A j \in 1..Len(active) : Spaced(jobs'[i], active[j])
        /\ \A i \in 1..Len(writing') : Behind(writing'[i])
        /\ \A i \in 1..Len(jobs') : Behind(jobs'[i])
    BY <2>1, <2>2 DEF CooldownInv
  <2> QED BY <2>1, <2>3, <2>4, <2>5 DEF CooldownInv, Behind
<1>2. CASE WorkerDone
  <2>1. writing' = <<>> /\ UNCHANGED <<active, jobs, cooldown_until>>
    BY <1>2 DEF WorkerDone
  <2>2. \A i \in 1..Len(writing') : FALSE
    BY <2>1
  <2> QED BY <2>1, <2>2 DEF CooldownInv, Behind
<1> QED BY <1>1, <1>2

LEMMA CooldownInvInductive ==
  ASSUME RecorderInv, HistoryOK, CooldownInv, [MCNext]_mcVars
  PROVE  CooldownInv'
<1>1. detected \in Nat /\ detected <= detected
  BY DEF HistoryOK
<1>2. CASE \E u \in AccessUnit : Pushes(u)
  BY <1>1, <1>2, CooldownFrame DEF Pushes, EncoderPush, recorderVars
<1>3. CASE \E ts \in Nat : Triggers(ts)
  <2>1. PICK ts \in Nat : Triggers(ts)
    BY <1>3
  <2>2. ts > detected /\ detected' = ts /\ detected <= detected' /\ detected' \in Nat
    BY <1>1, <2>1 DEF Triggers
  <2>3. CASE TriggerSuppressed
    BY <2>2, <2>3, CooldownFrame DEF TriggerSuppressed
  <2>4. CASE TryBegin(ts) /\ TriggerAccepted(ts)
    BY <2>2, <2>4, TriggerCooldown
  <2> QED BY <2>1, <2>3, <2>4 DEF Triggers, trigger
<1>4. CASE Internal /\ UNCHANGED <<emitted, detected>>
  <2>1. CASE Stop
    <3>1. CASE active = <<>>
      BY <1>1, <1>4, <2>1, <3>1, CooldownFrame DEF Stop
    <3>2. CASE active # <<>>
      BY <1>4, <2>1, <3>2, ActiveFacts, ActiveCooldown DEF Stop
    <3> QED BY <3>1, <3>2
  <2>2. CASE Start \/ StopJoins \/ WorkerStuck \/ WorkerExit
    BY <1>1, <1>4, <2>2, CooldownFrame DEF Start, StopJoins, WorkerStuck, WorkerExit
  <2>3. CASE EncoderStop \/ HistoryClear \/ EncoderStart
    BY <1>1, <1>4, <2>3, CooldownFrame
       DEF EncoderStop, HistoryClear, EncoderStart, recorderVars
  <2>4. CASE EncoderObserve
    <3>1. CASE active = <<>>
      BY <1>1, <1>4, <2>4, <3>1, CooldownFrame DEF EncoderObserve
    <3>2. CASE active # <<>>
      <4> DEFINE e == active[1]
                 u == inflight[1]
                 longer == [e EXCEPT !.units = Append(e.units, u)]
      <4>1. /\ e \in Event /\ longer \in Event /\ longer.trigger = e.trigger
            /\ writing' = writing
            /\ \/ FinishLocked(e, FALSE)
               \/ FinishLocked(longer, TRUE)
               \/ active' = <<longer>> /\ UNCHANGED <<jobs, cooldown_until>>
               \/ UNCHANGED <<active, jobs, cooldown_until>>
        BY <2>4, <3>2, ObserveCases
      <4> HIDE DEF longer
      <4> QED BY <1>1, <1>4, <3>2, <4>1, ActiveCooldown, CooldownFrame
    <3> QED BY <3>1, <3>2
  <2> QED BY <1>4, <2>1, <2>2, <2>3, <2>4, WorkerCooldown DEF Internal
<1>5. CASE UNCHANGED mcVars
  BY <1>1, <1>5, CooldownFrame DEF mcVars, vars, recorderVars
<1> QED BY <1>2, <1>3, <1>4, <1>5, HistorySteps

-----------------------------------------------------------------------------
(* Runs of the history: what push() and selectPreRoll() do to them. *)
LEMMA SuffixRun ==
  ASSUME NEW h \in Seq(AccessUnit), NEW s \in Seq(AccessUnit), RunOf(h, s),
         NEW k \in 1..Len(s)+1
  PROVE  RunOf(h, From(s, k))
<1> DEFINE t == From(s, k)
<1>1. /\ t \in Seq(AccessUnit) /\ Len(t) = Len(s) - k + 1
      /\ \A i \in 1..Len(t) : t[i] = s[k + i - 1]
  BY FromFacts
<1> HIDE DEF t
<1>2. Len(s) \in Nat /\ Len(t) \in Nat /\ Len(h) \in Nat
  BY <1>1
<1>3. \A i \in 1..Len(t) : k + i - 1 \in 1..Len(s)
  BY <1>1, <1>2
<1>4. /\ \A i \in 1..Len(s) : s[i].id \in 1..Len(h) /\ s[i] = h[s[i].id]
      /\ \A i, j \in 1..Len(s) : i < j => s[i].id < s[j].id
  BY DEF RunOf, DrawnFrom
<1>5. \A i \in 1..Len(t) : t[i].id \in 1..Len(h) /\ t[i] = h[t[i].id]
  BY <1>1, <1>3, <1>4
<1>6. ASSUME NEW i \in 1..Len(t), NEW j \in 1..Len(t), i < j
      PROVE  t[i].id < t[j].id
  <2>1. k + i - 1 < k + j - 1
    BY <1>2, <1>6
  <2> QED BY <1>1, <1>3, <1>4, <2>1
<1>7. ASSUME t # <<>>, NEW n \in t[1].id .. Len(h)
      PROVE  HasUnit(t, n) \/ Rejected(h[n])
  <2>1. Len(t) >= 1 /\ t[1] = s[k] /\ k \in 1..Len(s) /\ s # <<>>
    <3>1. Len(t) \in Nat \ {0}
      BY <1>1, <1>7, EmptySeq
    <3> QED BY <1>1, <1>2, <3>1
  <2>2. /\ s[1].id \in Int /\ s[k].id \in Int /\ n \in Int /\ s[k].id <= n /\ n <= Len(h)
        /\ 1 \in 1..Len(s)
    BY <1>2, <1>4, <1>7, <2>1
  <2>3. s[1].id <= s[k].id
    <3>1. CASE k = 1
      BY <2>2, <3>1
    <3>2. CASE k # 1
      <4>1. 1 < k
        BY <2>1, <3>2
      <4>2. s[1].id < s[k].id
        BY <1>4, <2>1, <2>2, <4>1
      <4> QED BY <2>2, <4>2
    <3> QED BY <3>1, <3>2
  <2>4. n \in s[1].id .. Len(h)
    BY <1>2, <2>2, <2>3
  <2>5. HasUnit(s, n) \/ Rejected(h[n])
    BY <2>1, <2>4 DEF RunOf
  <2>6. ASSUME NEW i \in 1..Len(s), s[i].id = n
        PROVE  HasUnit(t, n)
    <3>1. ~(i < k)
      <4> SUFFICES ASSUME i < k PROVE FALSE
        OBVIOUS
      <4>1. s[i].id < s[k].id
        BY <1>4, <2>1
      <4> QED BY <2>2, <2>6, <4>1
    <3> DEFINE j == i - k + 1
    <3>2. j \in 1..Len(t) /\ k + j - 1 = i
      BY <1>1, <1>2, <2>1, <3>1
    <3> HIDE DEF j
    <3>3. t[j] = s[i]
      BY <1>1, <3>2
    <3> QED BY <2>6, <3>2, <3>3 DEF HasUnit
  <2> QED BY <2>5, <2>6 DEF HasUnit
<1>8. RunOf(h, t)
  BY <1>5, <1>6, <1>7 DEF RunOf, DrawnFrom
<1> QED BY <1>8 DEF t

(* push() of the next unit, stored or rejected. *)
LEMMA AppendRun ==
  ASSUME NEW h \in Seq(AccessUnit), NEW s \in Seq(AccessUnit), RunOf(h, s),
         NEW u \in AccessUnit, u.id = Len(h) + 1
  PROVE  /\ RunOf(Append(h, u), Append(s, u))
         /\ Rejected(u) => RunOf(Append(h, u), s)
<1> DEFINE g == Append(h, u)
           t == Append(s, u)
<1>1. /\ Len(g) = Len(h) + 1 /\ g[Len(h) + 1] = u /\ Len(h) \in Nat
      /\ \A i \in 1..Len(h) : g[i] = h[i]
      /\ Len(t) = Len(s) + 1 /\ t[Len(s) + 1] = u /\ Len(s) \in Nat
      /\ \A i \in 1..Len(s) : t[i] = s[i]
      /\ t # <<>>
  OBVIOUS
<1> HIDE DEF g, t
<1>2. /\ \A i \in 1..Len(s) : s[i].id \in 1..Len(h) /\ s[i] = h[s[i].id]
      /\ \A i, j \in 1..Len(s) : i < j => s[i].id < s[j].id
  BY DEF RunOf, DrawnFrom
<1>3. \A i \in 1..Len(s) : s[i].id \in 1..Len(g) /\ s[i] = g[s[i].id]
  BY <1>1, <1>2
<1>4. \A i \in 1..Len(t) : (i \in 1..Len(s) /\ t[i] = s[i]) \/ (i = Len(s) + 1 /\ t[i] = u)
  BY <1>1
<1>5. \A i \in 1..Len(t) : t[i].id \in 1..Len(g) /\ t[i] = g[t[i].id]
  BY <1>1, <1>3, <1>4
<1>6. ASSUME NEW i \in 1..Len(t), NEW j \in 1..Len(t), i < j
      PROVE  t[i].id < t[j].id
  <2>1. i \in 1..Len(s) /\ t[i] = s[i]
    BY <1>1, <1>4, <1>6
  <2>2. CASE j \in 1..Len(s) /\ t[j] = s[j]
    BY <1>2, <1>6, <2>1, <2>2
  <2>3. CASE t[j] = u
    BY <1>1, <1>2, <2>1, <2>3
  <2> QED BY <1>4, <2>2, <2>3
<1>7. ASSUME s # <<>>, NEW n \in s[1].id .. Len(g), n # Len(h) + 1
      PROVE  HasUnit(s, n) \/ Rejected(g[n])
  <2>1. 1 \in 1..Len(s)
    <3>1. Len(s) \in Nat \ {0}
      BY <1>7, EmptySeq
    <3> QED BY <3>1
  <2>2. s[1].id \in 1..Len(h)
    BY <1>2, <2>1
  <2>3. n \in s[1].id .. Len(h) /\ n \in 1..Len(h)
    BY <1>1, <1>7, <2>2
  <2>4. g[n] = h[n]
    BY <1>1, <2>3
  <2> QED BY <1>7, <2>3, <2>4 DEF RunOf
<1>8. ASSUME NEW n \in t[1].id .. Len(g)
      PROVE  HasUnit(t, n) \/ Rejected(g[n])
  <2>1. CASE n = Len(h) + 1
    <3>1. Len(s) + 1 \in 1..Len(t) /\ t[Len(s) + 1].id = n
      BY <1>1, <2>1
    <3> QED BY <3>1 DEF HasUnit
  <2>2. CASE n # Len(h) + 1 /\ s # <<>>
    <3>1. Len(s) \in Nat \ {0}
      BY <2>2, EmptySeq
    <3>2. t[1] = s[1]
      BY <1>1, <3>1
    <3>3. HasUnit(s, n) \/ Rejected(g[n])
      BY <1>7, <1>8, <2>2, <3>2
    <3>4. HasUnit(s, n) => HasUnit(t, n)
      BY <1>1 DEF HasUnit
    <3> QED BY <3>3, <3>4
  <2>3. CASE n # Len(h) + 1 /\ s = <<>>
    <3>1. t[1] = u
      BY <1>1, <2>3
    <3> QED BY <1>1, <1>8, <2>3, <3>1
  <2> QED BY <2>1, <2>2, <2>3
<1>9. RunOf(g, t)
  BY <1>5, <1>6, <1>8 DEF RunOf, DrawnFrom
<1>10. ASSUME Rejected(u) PROVE RunOf(g, s)
  <2>1. \A n \in s[1].id .. Len(g) : n = Len(h) + 1 => Rejected(g[n])
    BY <1>1, <1>10
  <2> QED BY <1>2, <1>3, <1>7, <2>1 DEF RunOf, DrawnFrom
<1> QED BY <1>9, <1>10 DEF g, t

LEMMA EmptyRun ==
  ASSUME NEW h
  PROVE  RunOf(h, <<>>)
BY DEF RunOf, DrawnFrom

LEMMA PruneRun ==
  ASSUME NEW h \in Seq(AccessUnit), NEW s \in Seq(AccessUnit), RunOf(h, s),
         NEW b, NEW u, Prune(s, b, u)
  PROVE  RunOf(h, units')
<1>1. PICK k \in 1..Len(s) : \E m \in 1..Len(From(s, k))+1 : units' = From(From(s, k), m)
  BY DEF Prune
<1>2. PICK m \in 1..Len(From(s, k))+1 : units' = From(From(s, k), m)
  BY <1>1
<1>3. k \in 1..Len(s)+1
  OBVIOUS
<1>4. From(s, k) \in Seq(AccessUnit) /\ RunOf(h, From(s, k))
  BY <1>3, FromFacts, SuffixRun
<1> QED BY <1>2, <1>4, SuffixRun

LEMMA PushRun ==
  ASSUME NEW u \in AccessUnit, push(u), units \in Seq(AccessUnit),
         NEW h \in Seq(AccessUnit), u.id = Len(h) + 1, RunOf(h, units)
  PROVE  RunOf(Append(h, u), units')
<1> DEFINE g == Append(h, u)
<1>1. g \in Seq(AccessUnit)
  OBVIOUS
<1>2. CASE Rejected(u) /\ UNCHANGED ringVars
  BY <1>2, AppendRun DEF ringVars
<1>3. CASE ~Rejected(u) /\ Store(u)
  <2>1. CASE ResetsRing(u)
    <3>1. Prune(<<u>>, u.size, u)
      BY <1>3, <2>1 DEF Store
    <3>2. <<u>> = Append(<<>>, u) /\ <<>> \in Seq(AccessUnit) /\ <<u>> \in Seq(AccessUnit)
      OBVIOUS
    <3>3. RunOf(g, <<u>>)
      BY <3>2, EmptyRun, AppendRun
    <3> QED BY <1>1, <3>1, <3>2, <3>3, PruneRun
  <2>2. CASE ~ResetsRing(u)
    <3>1. Prune(Append(units, u), bytes + u.size, u)
      BY <1>3, <2>2 DEF Store
    <3>2. RunOf(g, Append(units, u)) /\ Append(units, u) \in Seq(AccessUnit)
      BY AppendRun
    <3> QED BY <1>1, <3>1, <3>2, PruneRun
  <2> QED BY <2>1, <2>2
<1> QED BY <1>2, <1>3 DEF push

(* The clip trigger() cuts out of the ring is contiguous, and when it is   *)
(* the whole selection nothing emitted since is missing without excuse.    *)
LEMMA SelectionContiguous ==
  ASSUME NEW h \in Seq(AccessUnit), NEW s \in Seq(AccessUnit), RunOf(h, s),
         NEW m \in 0..Len(s), NEW e, e.units = SubSeq(s, 1, m)
  PROVE  /\ Contiguous(h, e)
         /\ m = Len(s) /\ m > 0 => CaughtUp(h, Len(h), e)
<1> DEFINE c == e.units
<1>1. /\ c \in Seq(AccessUnit) /\ Len(c) = m /\ Len(s) \in Nat /\ Len(h) \in Nat
      /\ \A i \in 1..m : c[i] = s[i] /\ i \in 1..Len(s)
  BY PrefixFacts
<1> HIDE DEF c
<1>2. /\ \A i \in 1..Len(s) : s[i].id \in 1..Len(h) /\ s[i] = h[s[i].id]
      /\ \A i, j \in 1..Len(s) : i < j => s[i].id < s[j].id
  BY DEF RunOf, DrawnFrom
<1>3. DrawnFrom(h, c)
  BY <1>1, <1>2 DEF DrawnFrom
<1>4. ASSUME m > 0, NEW n \in c[1].id .. Len(h)
      PROVE  HasUnit(s, n) \/ Excused(h, e.gen, n)
  <2>1. s # <<>> /\ c[1] = s[1]
    BY <1>1, <1>4
  <2> QED BY <1>4, <2>1 DEF RunOf, Excused
<1>5. ASSUME m > 0 PROVE m \in 1..Len(s) /\ c[m] = s[m] /\ c[m].id \in 1..Len(h)
  BY <1>1, <1>2, <1>5
<1>6. ASSUME c # <<>>, NEW n \in c[1].id .. c[Len(c)].id
      PROVE  HasUnit(c, n) \/ Excused(h, e.gen, n)
  <2>1. m > 0
    BY <1>1, <1>6
  <2>2. c[1].id \in Int /\ c[m].id \in Int /\ n \in Int /\ n <= c[m].id
    <3>1. 1 \in 1..m
      BY <2>1
    <3>2. c[1].id \in 1..Len(h)
      BY <1>1, <1>2, <3>1
    <3> QED BY <1>1, <1>5, <1>6, <2>1, <3>2
  <2>3. n \in c[1].id .. Len(h)
    BY <1>1, <1>5, <1>6, <2>1, <2>2
  <2>4. ASSUME NEW i \in 1..Len(s), s[i].id = n
        PROVE  HasUnit(c, n)
    <3>1. ~(m < i)
      <4> SUFFICES ASSUME m < i PROVE FALSE
        OBVIOUS
      <4>1. s[m].id < s[i].id
        BY <1>2, <1>5, <2>1
      <4> QED BY <1>5, <2>1, <2>2, <2>4, <4>1
    <3>2. i \in 1..m
      BY <1>1, <3>1
    <3> QED BY <1>1, <2>4, <3>2 DEF HasUnit
  <2> QED BY <1>4, <2>1, <2>3, <2>4 DEF HasUnit
<1>7. ASSUME m = Len(s), m > 0, NEW n \in c[Len(c)].id + 1 .. Len(h)
      PROVE  Excused(h, e.gen, n)
  <2>1. /\ c[1].id \in Int /\ c[m].id \in Int /\ n \in Int /\ c[m].id < n
        /\ c[1].id <= c[m].id
    <3>1. 1 \in 1..m
      BY <1>7
    <3>2. c[1].id \in 1..Len(h) /\ c[1] = s[1]
      BY <1>1, <1>2, <3>1
    <3>3. c[1].id <= c[m].id
      <4>1. CASE m = 1
        BY <3>2, <4>1
      <4>2. CASE 1 < m
        <5>1. s[1].id < s[m].id
          BY <1>1, <1>2, <1>5, <3>1, <4>2
        <5>2. c[m].id \in Int
          BY <1>5, <1>7
        <5> QED BY <1>5, <1>7, <3>2, <5>1, <5>2
      <4> QED BY <1>7, <4>1, <4>2
    <3> QED BY <1>1, <1>5, <1>7, <3>2, <3>3
  <2>2. n \in c[1].id .. Len(h)
    BY <1>1, <1>7, <2>1
  <2>3. ASSUME NEW i \in 1..Len(s), s[i].id = n
        PROVE  FALSE
    <3>1. CASE i = m
      BY <1>5, <1>7, <2>1, <2>3, <3>1
    <3>2. CASE i < m
      <4>1. s[i].id < s[m].id
        BY <1>2, <1>5, <1>7, <3>2
      <4> QED BY <1>5, <1>7, <2>1, <2>3, <4>1
    <3> QED BY <1>1, <1>7, <3>1, <3>2
  <2> QED BY <1>4, <1>7, <2>2, <2>3 DEF HasUnit
<1> QED BY <1>1, <1>3, <1>6, <1>7 DEF Contiguous, CaughtUp, c

(* A new unit in the history excuses no earlier one and accuses none. *)
LEMMA GrowthContiguous ==
  ASSUME NEW h \in Seq(AccessUnit), NEW u \in AccessUnit, NEW e \in Event,
         Contiguous(h, e)
  PROVE  /\ Contiguous(Append(h, u), e)
         /\ \A o \in 0..Len(h) : e.units # <<>> /\ CaughtUp(h, o, e)
                                   => CaughtUp(Append(h, u), o, e)
<1> DEFINE g == Append(h, u)
           c == e.units
<1>1. /\ Len(g) = Len(h) + 1 /\ Len(h) \in Nat
      /\ \A i \in 1..Len(h) : g[i] = h[i]
  OBVIOUS
<1> HIDE DEF g
<1>2. c \in Seq(AccessUnit) /\ Len(c) \in Nat
  BY DEF Event
<1>3. DrawnFrom(h, c)
  BY DEF Contiguous
<1>4. DrawnFrom(g, c)
  BY <1>1, <1>3 DEF DrawnFrom
<1>5. ASSUME NEW n \in 1..Len(h), Excused(h, e.gen, n)
      PROVE  Excused(g, e.gen, n)
  <2>1. g[n] = h[n] /\ \A p \in 1..n-1 : g[p] = h[p]
    BY <1>1
  <2> QED BY <1>5, <2>1 DEF Excused
<1>6. ASSUME c # <<>> PROVE 1 \in 1..Len(c) /\ Len(c) \in 1..Len(c)
  <2>1. Len(c) \in Nat \ {0}
    BY <1>2, <1>6, EmptySeq
  <2> QED BY <2>1
<1>7. ASSUME c # <<>> PROVE c[1].id \in 1..Len(h) /\ c[Len(c)].id \in 1..Len(h)
  BY <1>3, <1>6, <1>7 DEF DrawnFrom
<1>8. ASSUME c # <<>>, NEW n \in c[1].id .. c[Len(c)].id
      PROVE  HasUnit(c, n) \/ Excused(g, e.gen, n)
  <2>1. n \in 1..Len(h)
    BY <1>1, <1>7, <1>8
  <2> QED BY <1>5, <1>8, <2>1 DEF Contiguous
<1>9. ASSUME NEW o \in 0..Len(h), c # <<>>, CaughtUp(h, o, e)
      PROVE  CaughtUp(g, o, e)
  <2> SUFFICES ASSUME NEW n \in c[Len(c)].id + 1 .. o
               PROVE  Excused(g, e.gen, n)
    BY DEF CaughtUp
  <2>1. n \in 1..Len(h)
    BY <1>1, <1>7, <1>9
  <2> QED BY <1>5, <1>9, <2>1 DEF CaughtUp
<1> QED BY <1>4, <1>8, <1>9 DEF Contiguous, g

(* The event that observeEncoded() extends or leaves as it is. *)
LEMMA ObservedContiguous ==
  ASSUME NEW h \in Seq(AccessUnit), Len(h) > 0,
         \A n \in 1..Len(h) : h[n].id = n,
         NEW e \in Event, ClipWellFormed(e), e.units # <<>>,
         Contiguous(h, e), CaughtUp(h, Len(h) - 1, e),
         NEW u, u = h[Len(h)], u.gen = e.gen,
         NEW l \in Event, l.gen = e.gen, l.units = Append(e.units, u)
  PROVE  /\ Extends(e, u) => Contiguous(h, l) /\ CaughtUp(h, Len(h), l)
         /\ ~Extends(e, u) => CaughtUp(h, Len(h), e)
<1> DEFINE c == e.units
           N == Len(h)
           z == c[Len(c)]
<1>1. c \in Seq(AccessUnit) /\ Len(c) \in Nat \ {0} /\ N \in Nat \ {0}
  BY EmptySeq DEF Event
<1>2. u \in AccessUnit /\ u.id = N /\ u.ts \in Nat
  <2>1. h[N] \in AccessUnit /\ N \in 1..N
    BY <1>1
  <2> QED BY <2>1 DEF AccessUnit
<1>3. /\ \A i \in 1..Len(c) : c[i].id \in 1..N /\ c[i] = h[c[i].id]
      /\ \A i, j \in 1..Len(c) : i < j => c[i].id < c[j].id
  BY DEF Contiguous, DrawnFrom
<1>4. z.id \in 1..N /\ z = h[z.id] /\ z.gen = e.gen /\ z.ts \in Nat
  <2>1. Len(c) \in 1..Len(c) /\ z \in AccessUnit
    BY <1>1
  <2> QED BY <1>3, <2>1 DEF AccessUnit, ClipWellFormed
<1>5. \A n \in z.id + 1 .. N - 1 : Excused(h, e.gen, n)
  BY DEF CaughtUp
<1>6. ASSUME ~Extends(e, u) PROVE CaughtUp(h, N, e)
  <2>1. u.ts <= z.ts
    BY <1>2, <1>4, <1>6 DEF Extends
  <2> SUFFICES ASSUME NEW n \in z.id + 1 .. N
               PROVE  Excused(h, e.gen, n)
    BY DEF CaughtUp
  <2>2. CASE n \in z.id + 1 .. N - 1
    BY <1>5, <2>2
  <2>3. CASE n = N
    <3>1. z.id \in 1 .. n - 1 /\ h[n] = u
      BY <1>1, <1>4, <2>3
    <3>2. h[z.id].gen = e.gen /\ h[z.id].ts >= h[n].ts
      BY <1>2, <1>4, <2>1, <3>1
    <3> QED BY <3>1, <3>2 DEF Excused
  <2> HIDE DEF z, N
  <2> QED BY <1>1, <1>4, <2>2, <2>3
<1>7. ASSUME Extends(e, u) PROVE Contiguous(h, l) /\ CaughtUp(h, N, l)
  <2> DEFINE d == Append(c, u)
  <2>1. /\ d \in Seq(AccessUnit) /\ Len(d) = Len(c) + 1 /\ d[Len(c) + 1] = u
        /\ \A i \in 1..Len(c) : d[i] = c[i]
    BY <1>1, <1>2
  <2>2. l.units = d
    OBVIOUS
  <2> HIDE DEF d
  <2>3. z.id < N
    <3>1. z.id = N => z = u
      BY <1>4
    <3>2. u.ts > z.ts
      BY <1>7 DEF Extends
    <3>3. z.id # N
      BY <1>2, <3>1, <3>2
    <3> HIDE DEF z, N
    <3> QED BY <1>1, <1>4, <3>3
  <2>4. \A i \in 1..Len(c) : c[i].id <= z.id
    <3> SUFFICES ASSUME NEW i \in 1..Len(c) PROVE c[i].id <= z.id
      OBVIOUS
    <3>1. CASE i = Len(c)
      BY <1>4, <3>1
    <3>2. CASE i < Len(c)
      <4>1. c[i].id < c[Len(c)].id
        BY <1>1, <1>3, <3>2
      <4>2. c[i].id \in 1..N
        BY <1>3
      <4> HIDE DEF N
      <4> QED BY <1>1, <1>4, <4>1, <4>2, SMTT(30)
    <3> QED BY <1>1, <3>1, <3>2
  <2>5. \A i \in 1..Len(d) : (i \in 1..Len(c) /\ d[i] = c[i]) \/ (i = Len(c) + 1 /\ d[i] = u)
    BY <1>1, <2>1
  <2> HIDE DEF z, N, c
  <2>6. N \in 1..N /\ u = h[N]
    BY <1>1 DEF N
  <2>7. \A i \in 1..Len(d) : d[i].id \in 1..N /\ d[i] = h[d[i].id]
    BY <1>2, <1>3, <2>5, <2>6
  <2>8. ASSUME NEW i \in 1..Len(d), NEW j \in 1..Len(d), i < j
        PROVE  d[i].id < d[j].id
    <3>1. i \in 1..Len(c) /\ d[i] = c[i]
      BY <1>1, <2>1, <2>5, <2>8
    <3>2. CASE j \in 1..Len(c) /\ d[j] = c[j]
      BY <1>3, <2>8, <3>1, <3>2
    <3>3. CASE d[j] = u
      <4>1. c[i].id \in 1..N /\ c[i].id <= z.id
        BY <1>3, <2>4, <3>1
      <4> QED BY <1>1, <1>2, <1>4, <2>3, <3>1, <3>3, <4>1, SMTT(30)
    <3> QED BY <2>5, <3>2, <3>3
  <2>9. ASSUME NEW n \in d[1].id .. d[Len(d)].id
        PROVE  HasUnit(d, n) \/ Excused(h, l.gen, n)
    <3>0. 1 \in 1..Len(c)
      BY <1>1
    <3>1. d[1] = c[1] /\ d[Len(d)] = u /\ c[1].id \in 1..N
      BY <1>1, <1>3, <2>1, <3>0
    <3>2. n \in Int /\ c[1].id <= n /\ n <= N
      BY <1>1, <1>2, <2>9, <3>1
    <3>3. CASE n <= z.id
      <4>1. n \in c[1].id .. z.id
        BY <1>1, <1>4, <3>1, <3>2, <3>3
      <4>2. HasUnit(c, n) \/ Excused(h, e.gen, n)
        BY <1>1, <4>1 DEF Contiguous, z, c
      <4>3. HasUnit(c, n) => HasUnit(d, n)
        BY <1>1, <2>1 DEF HasUnit
      <4> QED BY <4>2, <4>3
    <3>4. CASE ~(n <= z.id) /\ n # N
      <4>1. n \in z.id + 1 .. N - 1
        BY <1>1, <1>4, <3>2, <3>4
      <4> QED BY <1>5, <4>1
    <3>5. CASE n = N
      <4>1. Len(c) + 1 \in 1..Len(d) /\ d[Len(c) + 1].id = n
        BY <1>1, <1>2, <2>1, <3>5
      <4> QED BY <4>1 DEF HasUnit
    <3> QED BY <3>3, <3>4, <3>5
  <2>10. Contiguous(h, l)
    BY <2>2, <2>7, <2>8, <2>9 DEF Contiguous, DrawnFrom, N
  <2>11. CaughtUp(h, N, l)
    <3>1. d[Len(d)].id = N
      BY <1>2, <2>1
    <3>2. N + 1 .. N = {}
      BY <1>1
    <3> QED BY <2>2, <3>1, <3>2 DEF CaughtUp
  <2> QED BY <2>10, <2>11
<1> QED BY <1>6, <1>7 DEF N

-----------------------------------------------------------------------------
(* The clips the recorder holds, once the ring's part has been seen to.    *)
LEMMA ContiguityFrame ==
  ASSUME ContiguityInv, RunOf(emitted, units'),
         UNCHANGED <<active, jobs, writing, emitted, inflight>>
  PROVE  ContiguityInv'
BY DEF ContiguityInv, Observed

LEMMA FinishContiguity ==
  ASSUME RecorderInv, ContiguityInv, NEW e \in Event, Contiguous(emitted, e),
         NEW flag \in BOOLEAN, FinishLocked(e, flag),
         UNCHANGED <<units, writing, emitted>>
  PROVE  ContiguityInv'
<1> DEFINE f == [e EXCEPT !.post_complete = flag]
<1>1. f.units = e.units /\ f.gen = e.gen /\ jobs \in Seq(Event)
  BY FlaggedEvent DEF RecorderInv, RecorderTypeOK
<1>2. active' = <<>> /\ (jobs' = jobs \/ jobs' = Append(jobs, f))
  BY DEF FinishLocked
<1> HIDE DEF f
<1>3. Contiguous(emitted, f)
  BY <1>1 DEF Contiguous
<1>4. \A i \in 1..Len(jobs') : jobs'[i] = f \/ (i \in 1..Len(jobs) /\ jobs'[i] = jobs[i])
  BY <1>1, <1>2
<1>5. \A i \in 1..Len(jobs') : Contiguous(emitted, jobs'[i])
  BY <1>3, <1>4 DEF ContiguityInv
<1>6. \A i \in 1..Len(active') : FALSE
  BY <1>2
<1> QED BY <1>5, <1>6 DEF ContiguityInv

LEMMA CollectingContiguity ==
  ASSUME ContiguityInv, NEW e, Contiguous(emitted, e), active' = <<e>>,
         CaughtUp(emitted, Observed', e), UNCHANGED <<units, jobs, writing, emitted>>
  PROVE  ContiguityInv'
<1>1. Len(active') = 1 /\ active'[1] = e
  OBVIOUS
<1>2. \A i \in 1..Len(active') : active'[i] = e
  BY <1>1
<1> QED BY <1>2 DEF ContiguityInv

LEMMA PushContiguity ==
  ASSUME RecorderInv, HistoryOK, ContiguityInv, NEW u \in AccessUnit, Pushes(u)
  PROVE  ContiguityInv'
<1>1. /\ emitted \in Seq(AccessUnit) /\ Len(emitted) \in Nat
      /\ units \in Seq(AccessUnit) /\ RunOf(emitted, units)
  BY DEF HistoryOK, RecorderInv, RecorderTypeOK, RingTypeOK, ContiguityInv
<1>2. /\ push(u) /\ u.id = Len(emitted) + 1 /\ emitted' = Append(emitted, u)
      /\ inflight = <<>> /\ inflight' = <<u>> /\ UNCHANGED <<active, jobs, writing>>
  BY DEF Pushes, EncoderPush, recorderVars
<1>3. RunOf(emitted', units')
  BY <1>1, <1>2, PushRun
<1>4. Observed = Len(emitted) /\ Observed' = Len(emitted)
  BY <1>1, <1>2 DEF Observed
<1>5. /\ \A i \in 1..Len(jobs) : jobs[i] \in Event
      /\ \A i \in 1..Len(writing) : writing[i] \in Event
      /\ \A i \in 1..Len(active) : active[i] \in Event /\ active[i].units # <<>>
  BY DEF RecorderInv, RecorderTypeOK, ClipsWellFormed
<1>6. Len(emitted) \in 0..Len(emitted)
  BY <1>1
<1>7. \A e \in Event : Contiguous(emitted, e) =>
        /\ Contiguous(Append(emitted, u), e)
        /\ e.units # <<>> /\ CaughtUp(emitted, Len(emitted), e)
             => CaughtUp(Append(emitted, u), Len(emitted), e)
  BY <1>1, <1>6, GrowthContiguous
<1>8. /\ \A i \in 1..Len(jobs) : Contiguous(Append(emitted, u), jobs[i])
      /\ \A i \in 1..Len(writing) : Contiguous(Append(emitted, u), writing[i])
      /\ \A i \in 1..Len(active) :
           /\ Contiguous(Append(emitted, u), active[i])
           /\ CaughtUp(Append(emitted, u), Len(emitted), active[i])
  BY <1>4, <1>5, <1>7 DEF ContiguityInv
<1> QED BY <1>2, <1>3, <1>4, <1>8 DEF ContiguityInv

LEMMA TriggerContiguity ==
  ASSUME RecorderInv, HistoryOK, ContiguityInv, NEW ts \in Nat,
         TriggerAccepted(ts), emitted' = emitted
  PROVE  ContiguityInv'
<1>1. PICK k \in 1..Len(units)+1 : \E m \in 0..Len(SelectedUnits(k)) :
        \E e \in Event : Begins(ts, k, m, e)
  BY TriggerBegins
<1>2. PICK m \in 0..Len(SelectedUnits(k)), e \in Event : Begins(ts, k, m, e)
  BY <1>1
<1> DEFINE sel == SelectedUnits(k)
<1>3. /\ emitted \in Seq(AccessUnit) /\ units \in Seq(AccessUnit)
      /\ Len(emitted) \in Nat /\ Len(inflight) \in Nat
  BY SMTT(30) DEF HistoryOK, RecorderInv, RecorderTypeOK, RingTypeOK
<1>4. sel \in Seq(AccessUnit) /\ RunOf(emitted, sel)
  BY <1>3, FromFacts, SuffixRun DEF SelectedUnits, ContiguityInv
<1>5. /\ TakesFirst(sel, e.end, m) /\ e.units = SubSeq(sel, 1, m)
      /\ UNCHANGED <<units, writing, inflight>>
  BY <1>2 DEF Begins, ringVars
<1> HIDE DEF sel
<1>6. /\ Contiguous(emitted, e)
      /\ m = Len(sel) /\ m > 0 => CaughtUp(emitted, Len(emitted), e)
  BY <1>3, <1>4, <1>5, SelectionContiguous DEF sel
<1>7. CASE \E flag \in BOOLEAN : FinishLocked(e, flag)
  BY <1>5, <1>6, <1>7, FinishContiguity
<1>8. CASE /\ e.units # <<>> /\ ~(e.units[m].ts >= e.end)
           /\ active' = <<e>> /\ UNCHANGED <<jobs, cooldown_until>>
  <2>1. m \in 0..Len(sel) /\ Len(sel) \in Nat
    BY <1>4 DEF sel
  <2>2. Len(e.units) = m /\ \A i \in 1..m : e.units[i] = sel[i]
    BY <1>4, <1>5, <2>1, PrefixFacts
  <2>3. m > 0
    <3>1. e.units \in Seq(AccessUnit)
      BY DEF Event
    <3> QED BY <1>8, <2>1, <2>2, <3>1, EmptySeq
  <2>4. m = Len(sel)
    <3>1. m < Len(sel) => sel[m].ts >= e.end
      BY <1>5 DEF TakesFirst
    <3>2. e.units[m] = sel[m]
      BY <2>1, <2>2, <2>3
    <3> QED BY <1>8, <2>1, <3>1, <3>2
  <2>5. CaughtUp(emitted, Len(emitted), e)
    BY <1>6, <2>3, <2>4
  <2>6. Observed' \in Int /\ Observed' <= Len(emitted)
    BY <1>3, <1>5 DEF Observed
  <2>7. CaughtUp(emitted, Observed', e)
    <3> DEFINE o == Observed'
               z == e.units[Len(e.units)].id
    <3>1. o \in Int /\ o <= Len(emitted)
      BY <2>6
    <3> HIDE DEF o
    <3>2. z \in Int
      <4>1. e.units \in Seq(AccessUnit) /\ Len(e.units) \in 1..Len(e.units)
        BY <2>1, <2>2, <2>3 DEF Event
      <4>2. e.units[Len(e.units)] \in AccessUnit
        BY <4>1
      <4> QED BY <4>2 DEF AccessUnit
    <3> HIDE DEF z
    <3>3. \A n \in z + 1 .. o : n \in z + 1 .. Len(emitted)
      BY <1>3, <3>1, <3>2
    <3> QED BY <2>5, <3>3 DEF CaughtUp, z, o
  <2> QED BY <1>5, <1>6, <1>8, <2>7, CollectingContiguity
<1> QED BY <1>2, <1>7, <1>8 DEF Begins

LEMMA ObserveContiguity ==
  ASSUME RecorderInv, HistoryOK, ContiguityInv, EncoderObserve, emitted' = emitted
  PROVE  ContiguityInv'
<1>1. /\ emitted \in Seq(AccessUnit) /\ Len(emitted) \in Nat
      /\ \A n \in 1..Len(emitted) : emitted[n].id = n
  BY DEF HistoryOK
<1>2. UNCHANGED <<units, writing>> /\ inflight # <<>> /\ inflight' = <<>>
  BY DEF EncoderObserve, ringVars
<1>3. inflight[1] = emitted[Len(emitted)] /\ Len(emitted) > 0
  <2>1. emitted # <<>> /\ inflight[1] = emitted[Len(emitted)]
    BY <1>2 DEF HistoryOK
  <2> QED BY <1>1, <2>1, EmptySeq
<1>4. Len(inflight) = 1
  <2> DEFINE n == Len(inflight)
  <2>1. inflight \in Seq(AccessUnit) /\ n <= 1
    BY DEF RecorderInv, RecorderTypeOK
  <2>2. n \in Nat \ {0}
    BY <1>2, <2>1, EmptySeq
  <2> HIDE DEF n
  <2>3. n = 1
    BY <2>1, <2>2
  <2> QED BY <2>3 DEF n
<1>5. Observed = Len(emitted) - 1 /\ Observed' = Len(emitted)
  BY <1>1, <1>2, <1>4 DEF Observed
<1>6. CASE active = <<>>
  <2>1. UNCHANGED <<active, jobs>>
    BY <1>6 DEF EncoderObserve
  <2>2. \A i \in 1..Len(active') : FALSE
    BY <1>6, <2>1
  <2> QED BY <1>2, <2>1, <2>2 DEF ContiguityInv
<1>7. CASE active # <<>>
  <2> DEFINE e == active[1]
             u == inflight[1]
             longer == [e EXCEPT !.units = Append(e.units, u)]
  <2>1. /\ e \in Event /\ u \in AccessUnit /\ e.units # <<>>
        /\ longer \in Event /\ longer.gen = e.gen /\ longer.units = Append(e.units, u)
        /\ \/ u.gen # e.gen /\ FinishLocked(e, FALSE)
           \/ /\ u.gen = e.gen /\ Extends(e, u)
              /\ \/ FinishLocked(longer, TRUE)
                 \/ active' = <<longer>> /\ UNCHANGED <<jobs, cooldown_until>>
           \/ /\ u.gen = e.gen /\ ~Extends(e, u)
              /\ UNCHANGED <<active, jobs, cooldown_until>>
    BY <1>7, ObserveCases
  <2>2. ClipWellFormed(e) /\ Len(active) = 1
    BY <1>7, ActiveFacts
  <2>3. Contiguous(emitted, e) /\ CaughtUp(emitted, Len(emitted) - 1, e)
    BY <1>5, <2>2 DEF ContiguityInv
  <2>4. u = emitted[Len(emitted)]
    BY <1>3
  <2>8. active = <<e>>
    BY <2>2 DEF RecorderInv, RecorderTypeOK
  <2> HIDE DEF e, u, longer
  <2>5. ASSUME u.gen = e.gen
        PROVE  /\ Extends(e, u) => /\ Contiguous(emitted, longer)
                                   /\ CaughtUp(emitted, Len(emitted), longer)
               /\ ~Extends(e, u) => CaughtUp(emitted, Len(emitted), e)
    BY <1>1, <1>3, <2>1, <2>2, <2>3, <2>4, <2>5, ObservedContiguous
  <2>6. CASE u.gen # e.gen /\ FinishLocked(e, FALSE)
    BY <1>2, <2>1, <2>3, <2>6, FinishContiguity
  <2>7. CASE u.gen = e.gen /\ Extends(e, u)
    BY <1>2, <1>5, <2>1, <2>5, <2>7, FinishContiguity, CollectingContiguity
  <2>9. CASE u.gen = e.gen /\ ~Extends(e, u)
    <3>1. active' = <<e>> /\ UNCHANGED jobs
      BY <2>1, <2>8, <2>9
    <3> QED BY <1>2, <1>5, <2>3, <2>5, <2>9, <3>1, CollectingContiguity
  <2> QED BY <2>1, <2>6, <2>7, <2>9
<1> QED BY <1>6, <1>7

LEMMA WorkerContiguity ==
  ASSUME RecorderInv, ContiguityInv, WorkerTake \/ WorkerDone, emitted' = emitted
  PROVE  ContiguityInv'
<1>1. CASE WorkerTake
  <2>1. /\ Len(jobs) \in Nat \ {0}
        /\ \A i \in 1..Len(jobs') : i + 1 \in 1..Len(jobs) /\ jobs'[i] = jobs[i + 1]
        /\ Len(writing') = 1 /\ writing'[1] = jobs[1]
        /\ UNCHANGED <<active, inflight, units>>
    BY <1>1, WorkerTakesOldest DEF ringVars
  <2>2. \A i \in 1..Len(writing') : writing'[i] = jobs[1] /\ 1 \in 1..Len(jobs)
    BY <2>1
  <2> QED BY <2>1, <2>2 DEF ContiguityInv, Observed
<1>2. CASE WorkerDone
  <2>1. writing' = <<>> /\ UNCHANGED <<active, jobs, inflight, units>>
    BY <1>2 DEF WorkerDone, ringVars
  <2>2. \A i \in 1..Len(writing') : FALSE
    BY <2>1
  <2> QED BY <2>1, <2>2 DEF ContiguityInv, Observed
<1> QED BY <1>1, <1>2

LEMMA ContiguityInvInductive ==
  ASSUME RecorderInv, HistoryOK, ContiguityInv, [MCNext]_mcVars
  PROVE  ContiguityInv'
<1>1. RunOf(emitted, units) /\ RunOf(emitted, <<>>)
  BY EmptyRun DEF ContiguityInv
<1>2. CASE \E u \in AccessUnit : Pushes(u)
  BY <1>2, PushContiguity
<1>3. CASE \E ts \in Nat : Triggers(ts)
  <2>1. PICK ts \in Nat : Triggers(ts)
    BY <1>3
  <2>2. CASE TriggerSuppressed
    BY <1>1, <2>1, <2>2, ContiguityFrame DEF TriggerSuppressed, ringVars, Triggers
  <2>3. CASE TriggerAccepted(ts)
    BY <2>1, <2>3, TriggerContiguity DEF Triggers
  <2> QED BY <2>1, <2>2, <2>3 DEF Triggers, trigger
<1>4. CASE Internal /\ UNCHANGED <<emitted, detected>>
  <2>1. CASE Stop
    <3>1. CASE active = <<>>
      BY <1>1, <1>4, <2>1, <3>1, ContiguityFrame DEF Stop, ringVars
    <3>2. CASE active # <<>>
      <4>1. active[1] \in Event /\ Contiguous(emitted, active[1])
        BY <3>2, ActiveFacts DEF ContiguityInv
      <4> QED BY <1>4, <2>1, <3>2, <4>1, FinishContiguity DEF Stop, ringVars
    <3> QED BY <3>1, <3>2
  <2>2. CASE Start \/ StopJoins \/ WorkerStuck \/ WorkerExit
    BY <1>1, <1>4, <2>2, ContiguityFrame DEF Start, StopJoins, WorkerStuck, WorkerExit, ringVars
  <2>3. CASE EncoderStop \/ HistoryClear \/ EncoderStart
    BY <1>1, <1>4, <2>3, ContiguityFrame
       DEF EncoderStop, HistoryClear, clear, EncoderStart, recorderVars, ringVars
  <2> QED BY <1>4, <2>1, <2>2, <2>3, ObserveContiguity, WorkerContiguity DEF Internal
<1>5. CASE UNCHANGED mcVars
  BY <1>1, <1>5, ContiguityFrame DEF mcVars, vars, ringVars, recorderVars
<1> QED BY <1>2, <1>3, <1>4, <1>5, HistorySteps

-----------------------------------------------------------------------------
LEMMA HistoryOKInductive ==
  ASSUME RecorderInv, HistoryOK, [MCNext]_mcVars
  PROVE  HistoryOK'
<1>1. CASE \E u \in AccessUnit : Pushes(u)
  <2>1. PICK u \in AccessUnit : Pushes(u)
    BY <1>1
  <2>2. /\ emitted' = Append(emitted, u) /\ inflight' = <<u>> /\ detected' = detected
        /\ u.id = Len(emitted) + 1
        /\ emitted \in Seq(AccessUnit)
        /\ \A n \in 1..Len(emitted) : emitted[n].id = n
    BY <2>1 DEF Pushes, EncoderPush, HistoryOK
  <2>3. /\ emitted' \in Seq(AccessUnit) /\ Len(emitted') = Len(emitted) + 1
        /\ emitted'[Len(emitted')] = u /\ emitted' # <<>> /\ inflight'[1] = u
        /\ \A n \in 1..Len(emitted) : emitted'[n] = emitted[n]
    BY <2>2
  <2>4. \A n \in 1..Len(emitted') : emitted'[n].id = n
    BY <2>2, <2>3
  <2> QED BY <2>2, <2>3, <2>4 DEF HistoryOK
<1>2. CASE \E ts \in Nat : Triggers(ts)
  <2>1. PICK ts \in Nat : Triggers(ts)
    BY <1>2
  <2>2. inflight' = inflight
    BY <2>1 DEF Triggers, trigger, TriggerSuppressed, TriggerAccepted
  <2> QED BY <2>1, <2>2 DEF Triggers, HistoryOK
<1>3. CASE Internal /\ UNCHANGED <<emitted, detected>>
  <2>1. inflight' = inflight \/ inflight' = <<>>
    BY <1>3 DEF Internal, Start, Stop, StopJoins, WorkerTake, WorkerStuck, WorkerDone,
       WorkerExit,
       EncoderObserve, EncoderStop, HistoryClear, EncoderStart
  <2> QED BY <1>3, <2>1 DEF HistoryOK
<1>4. CASE UNCHANGED mcVars
  BY <1>4 DEF mcVars, vars, HistoryOK
<1> QED BY <1>1, <1>2, <1>3, <1>4, HistorySteps

LEMMA HistoryInvInductive == HistoryInv /\ [MCNext]_mcVars => HistoryInv'
<1> SUFFICES ASSUME HistoryInv, [MCNext]_mcVars
             PROVE  HistoryInv'
  OBVIOUS
<1>1. RecorderInv /\ HistoryOK /\ CooldownInv /\ ContiguityInv
  BY DEF HistoryInv
<1>2. [Next]_vars
  BY <1>1, HistorySteps DEF Pushes, Triggers, Next, mcVars
<1>3. RecorderInv'
  BY <1>1, <1>2, RecorderInvInductive
<1> QED BY <1>1, <1>3, HistoryOKInductive, CooldownInvInductive, ContiguityInvInductive
        DEF HistoryInv

LEMMA HistoryInvInitially == MCInit => HistoryInv
<1> SUFFICES ASSUME MCInit PROVE HistoryInv
  OBVIOUS
<1>1. RecorderInv
  BY RecorderInvInitially DEF MCInit
<1>2. /\ emitted = <<>> /\ detected = 0 /\ inflight = <<>> /\ units = <<>>
      /\ active = <<>> /\ jobs = <<>> /\ writing = <<>>
  BY DEF MCInit, Init, RingInit
<1>3. RunOf(emitted, units)
  BY <1>2, EmptyRun
<1> QED BY <1>1, <1>2, <1>3 DEF HistoryInv, HistoryOK, CooldownInv, ContiguityInv

(* Held, by the sequence an event is in. *)
LEMMA HeldFacts ==
  ASSUME RecorderInv
  PROVE  /\ Len(writing) \in Nat /\ Len(jobs) \in Nat /\ Len(active) \in Nat
         /\ Len(Held) = Len(writing) + Len(jobs) + Len(active)
         /\ \A i \in 1..Len(Held) :
              Held[i] = IF i <= Len(writing) THEN writing[i]
                        ELSE IF i <= Len(writing) + Len(jobs)
                          THEN jobs[i - Len(writing)]
                          ELSE active[i - Len(writing) - Len(jobs)]
<1>1. writing \in Seq(Event) /\ jobs \in Seq(Event) /\ active \in Seq(Event)
  BY DEF RecorderInv, RecorderTypeOK
<1> QED BY <1>1 DEF Held

LEMMA HeldPlaces ==
  ASSUME RecorderInv, NEW i \in 1..Len(Held)
  PROVE  \/ i \in 1..Len(writing) /\ Held[i] = writing[i]
         \/ /\ i - Len(writing) \in 1..Len(jobs)
            /\ Held[i] = jobs[i - Len(writing)]
         \/ /\ i - Len(writing) - Len(jobs) \in 1..Len(active)
            /\ Held[i] = active[i - Len(writing) - Len(jobs)]
BY HeldFacts

(* Of all events the recorder holds the later ones respect the cooldown of *)
(* the earlier ones, for any cooldown, saturated or not, any queue and any *)
(* interleaving of triggers, units, restarts and stop(), as long as        *)
(* detections come in the order of their frames.                           *)
THEOREM CooldownAlwaysRespected == MCSpec => []CooldownRespected
<1>1. ASSUME HistoryInv PROVE CooldownRespected
  <2>1. RecorderInv /\ CooldownInv
    BY <1>1 DEF HistoryInv
  <2> SUFFICES ASSUME NEW g \in 1..Len(Held), NEW h \in 1..Len(Held), g < h
               PROVE  Spaced(Held[g], Held[h])
    BY DEF CooldownRespected, Spaced, ActualEnd
  <2> DEFINE w == Len(writing)
             j == Len(jobs)
  <2>2. w \in Nat /\ j \in Nat /\ Len(active) \in Nat /\ Len(active) <= 1
    BY <2>1, HeldFacts DEF RecorderInv, RecorderTypeOK
  <2>3. w <= 1
    BY <2>1 DEF RecorderInv, RecorderTypeOK
  <2>4. \/ g \in 1..w /\ Held[g] = writing[g]
        \/ g - w \in 1..j /\ Held[g] = jobs[g - w]
        \/ g - w - j \in 1..Len(active) /\ Held[g] = active[g - w - j]
    BY <2>1, HeldPlaces
  <2>5. \/ h \in 1..w /\ Held[h] = writing[h]
        \/ h - w \in 1..j /\ Held[h] = jobs[h - w]
        \/ h - w - j \in 1..Len(active) /\ Held[h] = active[h - w - j]
    BY <2>1, HeldPlaces
  <2> HIDE DEF w, j
  <2>6. CASE g \in 1..w /\ Held[g] = writing[g]
    <3>1. ~(h \in 1..w)
      BY <2>2, <2>3, <2>6
    <3> QED BY <2>1, <2>5, <2>6, <3>1 DEF CooldownInv, w, j
  <2>7. CASE g - w \in 1..j /\ Held[g] = jobs[g - w]
    <3>1. ~(h \in 1..w) /\ g - w < h - w
      BY <2>2, <2>7
    <3> QED BY <2>1, <2>5, <2>7, <3>1 DEF CooldownInv, w, j
  <2>8. CASE g - w - j \in 1..Len(active) /\ Held[g] = active[g - w - j]
    <3>1. g = w + j + 1 /\ h > w + j + 1
      BY <2>2, <2>8
    <3> QED BY <2>2, <2>5, <3>1
  <2> QED BY <2>4, <2>6, <2>7, <2>8
<1> QED BY <1>1, HistoryInvInitially, HistoryInvInductive, PTL DEF MCSpec

(* From its first to its last unit every clip has every unit of its        *)
(* generation that is usable, once, wherever trigger() fell between push() *)
(* and observeEncoded() and whatever the ring evicted, reset or rejected.  *)
THEOREM ClipsAlwaysContiguous == MCSpec => []ClipContiguous
<1>1. ASSUME HistoryInv PROVE ClipContiguous
  <2>1. RecorderInv /\ ContiguityInv
    BY <1>1 DEF HistoryInv
  <2>2. \A h \in 1..Len(Held) : Contiguous(emitted, Held[h])
    BY <2>1, HeldPlaces DEF ContiguityInv
  <2> QED BY <2>2 DEF ClipContiguous, Contiguous, DrawnFrom, HasUnit
<1> QED BY <1>1, HistoryInvInitially, HistoryInvInductive, PTL DEF MCSpec
=============================================================================
