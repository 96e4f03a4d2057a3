--------------------------- MODULE EventRecorder ---------------------------
(***************************************************************************)
(* EventRecorder with its EventGate, composed with the EncodedRingBuffer   *)
(* it reads and with the wiring of main(): a detection takes a pre-roll    *)
(* from the ring, the encoder's output thread extends it until the         *)
(* post-roll is reached, and a worker thread writes the finished event.    *)
(*                                                                         *)
(* Threads and what they run, each step under one mutex:                   *)
(*   encoder output   EncoderPush then EncoderObserve, for each unit       *)
(*   inference        trigger                                              *)
(*   event worker     WorkerTake, WorkerStuck, WorkerDone, WorkerExit      *)
(*   main             Start, EncoderStop/HistoryClear/EncoderStart, Stop   *)
(* What happens on disk while the worker is writing is module EventWriter. *)
(***************************************************************************)
EXTENDS EncodedRingBuffer

CONSTANTS
  Pre, Post,             \* event_pre_seconds, event_post_seconds
  Cooldown,              \* event_cooldown_seconds
  U64Max,                \* largest std::uint64_t
  WorkerQueueCapacity    \* kWorkerQueueCapacity

(* main() refuses a non-positive pre- or post-roll; cooldown may be zero. *)
ASSUME RecorderAssumption ==
  /\ Pre \in Nat \ {0} /\ Post \in Nat \ {0} /\ Cooldown \in Nat
  /\ U64Max \in Nat
  /\ WorkerQueueCapacity \in Nat \ {0}

VARIABLES
  collecting,      \* EventGate::collecting_
  cooldown_until,  \* EventGate::cooldown_until_ns_
  active,          \* <<event>> while post-roll is collected, else <<>>
  jobs,            \* finished events waiting for the worker
  running,         \* the worker may wait for more jobs
  accepting,       \* trigger() may begin an event
  worker,          \* the worker thread: none, idle, writing, stuck, exited
  writing,         \* <<event>> the worker holds, else <<>>
  owner,           \* main: created, started, joining, stopped
  encoder,         \* [gen, phase]: up, down (stopped), cleared (ring too)
  inflight,        \* <<unit>> pushed to the ring and not yet observed
  triggered, completed, failed, suppressed   \* Metrics

recorderVars ==
  <<collecting, cooldown_until, active, jobs, running, accepting, worker,
    writing, owner, triggered, completed, failed, suppressed>>
vars == <<ringVars, recorderVars, encoder, inflight>>

Init ==
  /\ RingInit
  /\ collecting = FALSE
  /\ cooldown_until = 0
  /\ active = <<>>
  /\ jobs = <<>>
  /\ running = FALSE
  /\ accepting = FALSE
  /\ worker = "none"
  /\ writing = <<>>
  /\ owner = "created"
  /\ encoder = [gen |-> 0, phase |-> "cleared"]
  /\ inflight = <<>>
  /\ triggered = 0 /\ completed = 0 /\ failed = 0 /\ suppressed = 0

-----------------------------------------------------------------------------
SaturatingAdd(a, b) == IF b > U64Max - a THEN U64Max ELSE a + b

(* EventGate::tryBegin, its condition. *)
TryBegin(ts) == ~collecting /\ ts >= cooldown_until

(* Mutant: the cooldown is counted from the trigger. *)
BugCooldownFromTrigger(e) == e.trigger

(* actual_end_sensor_timestamp_ns: the last unit, or the trigger without   *)
(* any.                                                                    *)
ActualEnd(e) ==
  IF e.units = <<>> THEN e.trigger ELSE e.units[Len(e.units)].ts

(* Mutant: finishLocked forgets to reopen the gate when the queue is full. *)
BugFinishKeepsGate(e, post_complete) ==
  /\ active' = <<>>
  /\ IF Len(jobs) >= WorkerQueueCapacity
       THEN failed' = failed + 1 /\ UNCHANGED <<jobs, collecting, cooldown_until>>
       ELSE /\ jobs' = Append(jobs, [e EXCEPT !.post_complete = post_complete])
            /\ collecting' = FALSE
            /\ cooldown_until' = SaturatingAdd(ActualEnd(e), Cooldown)
            /\ UNCHANGED failed

(* Mutant: an event that finds the queue full is dropped uncounted. *)
BugFinishDropsSilently(e, post_complete) ==
  /\ collecting' = FALSE
  /\ cooldown_until' = SaturatingAdd(ActualEnd(e), Cooldown)
  /\ active' = <<>>
  /\ jobs' = IF Len(jobs) >= WorkerQueueCapacity THEN jobs
             ELSE Append(jobs, [e EXCEPT !.post_complete = post_complete])
  /\ UNCHANGED failed

(* Mutant: the queue holds one event more than its capacity. *)
BugQueueOffByOne(e, post_complete) ==
  /\ collecting' = FALSE
  /\ cooldown_until' = SaturatingAdd(ActualEnd(e), Cooldown)
  /\ active' = <<>>
  /\ IF Len(jobs) > WorkerQueueCapacity
       THEN failed' = failed + 1 /\ UNCHANGED jobs
       ELSE /\ jobs' = Append(jobs, [e EXCEPT !.post_complete = post_complete])
            /\ UNCHANGED failed

(* finishLocked(post_complete) applied to the event e: the gate completes  *)
(* first, then a full queue fails the event, otherwise it is queued.       *)
FinishLocked(e, post_complete) ==
  /\ collecting' = FALSE
  /\ cooldown_until' = SaturatingAdd(ActualEnd(e), Cooldown)
  /\ active' = <<>>
  /\ IF Len(jobs) >= WorkerQueueCapacity
       THEN failed' = failed + 1 /\ UNCHANGED jobs
       ELSE /\ jobs' = Append(jobs, [e EXCEPT !.post_complete = post_complete])
            /\ UNCHANGED failed

-----------------------------------------------------------------------------
(* start(): the thread may fail to start, which leaves everything closed.  *)
Start ==
  /\ owner = "created"
  /\ \/ /\ running' = TRUE /\ accepting' = TRUE
        /\ worker' = "idle"
        /\ owner' = "started"
     \/ owner' = "stopped" /\ UNCHANGED <<running, accepting, worker>>
  /\ UNCHANGED <<ringVars, collecting, cooldown_until, active, jobs, writing,
                 encoder, inflight, triggered, completed, failed, suppressed>>

(* trigger() turned away: by the storage reserve, which may be short at    *)
(* any time, by accepting, or by the gate.                                 *)
TriggerSuppressed ==
  /\ suppressed' = suppressed + 1
  /\ UNCHANGED <<ringVars, collecting, cooldown_until, active, jobs, running,
                 accepting, worker, writing, owner, encoder, inflight,
                 triggered, completed, failed>>

(* Mutant: trigger() takes the whole selection. *)
BugTakesAll(s, end, m) == m = Len(s)

(* Of the selected pre-roll s, trigger() takes the first m units: up to    *)
(* the first one that already reaches the requested end, else all.         *)
TakesFirst(s, end, m) ==
  /\ \A i \in 1..m-1 : s[i].ts < end
  /\ m < Len(s) => m > 0 /\ s[m].ts >= end

(* trigger() past the gate. The ring is read under the recorder's mutex,   *)
(* so the selection and the registration of the event are one step.        *)
TriggerAccepted(ts) ==
  LET end == SaturatingAdd(ts, Post) IN
  \E k \in 1..Len(units)+1 : \E m \in 0..Len(SelectedUnits(k)) :
    LET clip == SubSeq(SelectedUnits(k), 1, m)
        event == [trigger |-> ts, end |-> end,
                  gen |-> generation,
                  pre_complete |-> PreRollComplete(ts, Pre, k),
                  post_complete |-> FALSE,
                  units |-> clip]
    IN /\ SelectsFrom(ts, Pre, k)
       /\ TakesFirst(SelectedUnits(k), end, m)
       /\ triggered' = triggered + 1
       /\ IF clip = <<>>
            THEN FinishLocked(event, FALSE)
            ELSE IF clip[m].ts >= end
              THEN FinishLocked(event, TRUE)
              ELSE /\ active' = <<event>> /\ collecting' = TRUE
                   /\ UNCHANGED <<jobs, cooldown_until, failed>>
       /\ UNCHANGED <<ringVars, running, accepting, worker, writing, owner,
                      encoder, inflight, completed, suppressed>>

trigger(ts) ==
  \/ TriggerSuppressed
  \/ accepting /\ TryBegin(ts) /\ TriggerAccepted(ts)

-----------------------------------------------------------------------------
(* Mutant: units up to the trigger are assumed to come from the ring. *)
BugObserveSkipsLag(e, u) == u.ts > e.units[Len(e.units)].ts /\ u.ts > e.trigger

(* observeEncoded() appends u to the active event e: it is later than      *)
(* anything the clip already has.                                          *)
Extends(e, u) == u.ts > e.units[Len(e.units)].ts

(* Mutant: a generation change does not end the event. *)
BugObserveIgnoresGeneration(e, u) == FALSE

(* observeEncoded() gives the active event up: its generation is over. *)
EndsEvent(e, u) == u.gen # e.gen

ObserveActive(e, u) ==
  \/ EndsEvent(e, u) /\ FinishLocked(e, FALSE)
  \/ /\ ~EndsEvent(e, u) /\ Extends(e, u)
     /\ LET longer == [e EXCEPT !.units = Append(e.units, u)]
        IN IF u.ts >= e.end
             THEN FinishLocked(longer, TRUE)
             ELSE /\ active' = <<longer>>
                  /\ UNCHANGED <<jobs, collecting, cooldown_until, failed>>
  \/ /\ ~EndsEvent(e, u) /\ ~Extends(e, u)
     /\ UNCHANGED <<active, jobs, collecting, cooldown_until, failed>>

(* The encoder's consumer, first half: the unit goes into the ring. *)
EncoderPush(u) ==
  /\ encoder.phase = "up" /\ inflight = <<>>
  /\ u.gen = encoder.gen
  /\ push(u)
  /\ inflight' = <<u>>
  /\ UNCHANGED <<recorderVars, encoder>>

(* The encoder's consumer, second half: the recorder observes the unit. *)
EncoderObserve ==
  /\ inflight # <<>>
  /\ IF active = <<>>
       THEN UNCHANGED <<active, jobs, collecting, cooldown_until, failed>>
       ELSE ObserveActive(active[1], inflight[1])
  /\ inflight' = <<>>
  /\ UNCHANGED <<ringVars, running, accepting, worker, writing, owner, encoder,
                 triggered, completed, suppressed>>

(* Encoder recovery in main's loop: stop() joins the output thread, so no  *)
(* unit is in flight; then the ring is cleared; then a new generation.     *)
EncoderStop ==
  /\ encoder.phase = "up" /\ inflight = <<>>
  /\ encoder' = [encoder EXCEPT !.phase = "down"]
  /\ UNCHANGED <<ringVars, recorderVars, inflight>>

HistoryClear ==
  /\ encoder.phase = "down"
  /\ clear
  /\ encoder' = [encoder EXCEPT !.phase = "cleared"]
  /\ UNCHANGED <<recorderVars, inflight>>

EncoderStart ==
  /\ encoder.phase = "cleared"
  /\ encoder' = [gen |-> encoder.gen + 1, phase |-> "up"]
  /\ UNCHANGED <<ringVars, recorderVars, inflight>>

-----------------------------------------------------------------------------
(* The worker waits until there is a job or running is false. *)
WorkerTake ==
  /\ worker = "idle" /\ jobs # <<>>
  /\ writing' = <<Head(jobs)>>
  /\ jobs' = Tail(jobs)
  /\ worker' = "writing"
  /\ UNCHANGED <<ringVars, collecting, cooldown_until, active, running,
                 accepting, owner, encoder, inflight, triggered, completed,
                 failed, suppressed>>

(* Mutant: the worker leaves as soon as running is false. *)
BugExitsWithJobs == worker = "idle" /\ ~running

MayExit == worker = "idle" /\ ~running /\ jobs = <<>>

WorkerExit ==
  /\ MayExit
  /\ worker' = "exited"
  /\ UNCHANGED <<ringVars, collecting, cooldown_until, active, jobs, running,
                 accepting, writing, owner, encoder, inflight, triggered,
                 completed, failed, suppressed>>

(* muxVideo() pushes the clip into an appsrc with block=true.  External:   *)
(* when the muxer or the filesink behind it has failed, nothing takes from *)
(* the queue of the appsrc any more, and a push that finds the queue full  *)
(* waits for ever.  The first push finds it empty.                         *)
WorkerStuck ==
  /\ worker = "writing" /\ Len(writing[1].units) > 1
  /\ worker' = "stuck"
  /\ UNCHANGED <<ringVars, collecting, cooldown_until, active, jobs, running,
                 accepting, writing, owner, encoder, inflight, triggered,
                 completed, failed, suppressed>>

(* writeEvent() returns, having published the event or counted it failed. *)
WorkerDone ==
  /\ worker = "writing"
  /\ \/ completed' = completed + 1 /\ UNCHANGED failed
     \/ failed' = failed + 1 /\ UNCHANGED completed
  /\ writing' = <<>>
  /\ worker' = "idle"
  /\ UNCHANGED <<ringVars, collecting, cooldown_until, active, jobs, running,
                 accepting, owner, encoder, inflight, triggered, suppressed>>

(* stop(), the locked part: the active event is cut short and queued. *)
Stop ==
  /\ owner = "started"
  /\ accepting' = FALSE
  /\ IF active = <<>>
       THEN UNCHANGED <<active, jobs, collecting, cooldown_until, failed>>
       ELSE FinishLocked(active[1], FALSE)
  /\ running' = FALSE
  /\ owner' = "joining"
  /\ UNCHANGED <<ringVars, worker, writing, encoder, inflight, triggered,
                 completed, suppressed>>

(* stop() returns once the worker has been joined. *)
StopJoins ==
  /\ owner = "joining" /\ worker = "exited"
  /\ owner' = "stopped"
  /\ UNCHANGED <<ringVars, collecting, cooldown_until, active, jobs, running,
                 accepting, worker, writing, encoder, inflight, triggered,
                 completed, failed, suppressed>>

-----------------------------------------------------------------------------
(* Everything the recorder does that needs no new unit or detection. *)
Internal ==
  \/ Start \/ Stop \/ StopJoins
  \/ WorkerTake \/ WorkerStuck \/ WorkerDone \/ WorkerExit
  \/ EncoderObserve \/ EncoderStop \/ HistoryClear \/ EncoderStart

Next ==
  \/ Internal
  \/ \E ts \in Nat : trigger(ts)
  \/ \E u \in AccessUnit : EncoderPush(u)

Spec == Init /\ [][Next]_vars

(* The worker is a thread of its own that the operating system schedules,  *)
(* so writeEvent() ends or gets stuck: its wait for the muxer to finish is *)
(* timed, its pushes into the appsrc are not.  stop() waits for nothing    *)
(* but the worker.                                                         *)
Fairness ==
  /\ WF_vars(WorkerTake) /\ WF_vars(WorkerDone) /\ WF_vars(WorkerExit)
  /\ WF_vars(StopJoins)

-----------------------------------------------------------------------------
Event == [trigger : Nat, end : Nat, gen : Nat, pre_complete : BOOLEAN,
          post_complete : BOOLEAN, units : Seq(AccessUnit)]

(* The shape of the recorder's state. *)
RecorderTypeOK ==
  /\ RingTypeOK
  /\ collecting \in BOOLEAN /\ cooldown_until \in Nat
  /\ active \in Seq(Event) /\ Len(active) <= 1
  /\ jobs \in Seq(Event) /\ Len(jobs) <= WorkerQueueCapacity
  /\ writing \in Seq(Event) /\ Len(writing) <= 1
  /\ running \in BOOLEAN /\ accepting \in BOOLEAN
  /\ worker \in {"none", "idle", "writing", "stuck", "exited"}
  /\ owner \in {"created", "started", "joining", "stopped"}
  /\ encoder \in [gen : Nat, phase : {"up", "down", "cleared"}]
  /\ inflight \in Seq(AccessUnit) /\ Len(inflight) <= 1
  /\ triggered \in Nat /\ completed \in Nat /\ failed \in Nat
  /\ suppressed \in Nat

(* No event is lost or counted twice: every event that trigger() accepted  *)
(* is completed, failed, or still held, whatever the queue, a generation   *)
(* change or stop() did to it.                                             *)
EventAccounting ==
  triggered = completed + failed + Len(active) + Len(jobs) + Len(writing)

(* The gate is shut exactly while an event collects, so a detection is     *)
(* never suppressed for an event that is already gone, and the worker has  *)
(* an event in hand exactly while it writes.                               *)
GateMatchesActive ==
  /\ collecting <=> (active # <<>>)
  /\ (worker \in {"writing", "stuck"}) <=> (writing # <<>>)
  /\ active # <<>> => accepting

(* A clip muxVideo() will accept: it starts with an independently          *)
(* decodable unit, all units are of the event's generation, and their      *)
(* timestamps never decrease.                                              *)
ClipWellFormed(e) ==
  LET c == e.units IN
  c # <<>> => /\ c[1].idr
              /\ \A i \in 1..Len(c) : c[i].gen = e.gen
              /\ \A i, j \in 1..Len(c) : i <= j => c[i].ts <= c[j].ts

(* Every clip the recorder holds is one, across trigger() reading the ring *)
(* between the two halves of the encoder's callback.                       *)
ClipsWellFormed ==
  /\ \A i \in 1..Len(active) : ClipWellFormed(active[i]) /\ active[i].units # <<>>
  /\ \A i \in 1..Len(jobs) : ClipWellFormed(jobs[i])
  /\ \A i \in 1..Len(writing) : ClipWellFormed(writing[i])

(* The flags of the event tell the truth about its clip, which stops at    *)
(* the first unit that reaches the requested end.                          *)
SpansRequest(e) ==
  LET c == e.units IN
  /\ e.pre_complete <=> c # <<>> /\ c[1].ts <= RequestedStart(e.trigger, Pre)
  /\ e.post_complete <=> c # <<>> /\ c[Len(c)].ts >= e.end
  /\ \A i \in 1..Len(c)-1 : c[i].ts < e.end

(* What pre_roll_complete and post_roll_complete say of an event holds     *)
(* while it collects, waits and is written, whether its post-roll was      *)
(* found in the ring, observed, or cut short by stop() or by a generation. *)
ClipSpansRequest ==
  /\ \A i \in 1..Len(active) : SpansRequest(active[i])
  /\ \A i \in 1..Len(jobs) : SpansRequest(jobs[i])
  /\ \A i \in 1..Len(writing) : SpansRequest(writing[i])

(* stop() returns, and by then every event accepted before it has been     *)
(* written or counted as failed, for the worker drains the queue first;    *)
(* nothing but a worker stuck in a push to the muxer can keep stop() from  *)
(* that.                                                                   *)
StopDrains ==
  (owner = "joining") ~>
    \/ owner = "stopped" /\ triggered = completed + failed
    \/ worker = "stuck"
=============================================================================
