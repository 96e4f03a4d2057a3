------------------------ MODULE CameraPipelineProofs ------------------------
(***************************************************************************)
(* TLAPS proofs about CameraPipeline: for any number of requests and any   *)
(* buffer_count.                                                           *)
(***************************************************************************)
EXTENDS CameraPipeline, FunctionTheorems, FiniteSetTheorems, TLAPS

(* Requests whose release function has still to count them off. *)
Counting == {x.req : x \in {y \in releasing : y.at = "count"}}

(* At most one request has reference h. *)
HeldOnce(h) == \A r, s \in HeldBy(h) : r = s

(* outstanding_leases as the size of one set, which dropping a reference   *)
(* leaves alone: the request moves from Live to Counting.                  *)
LeasesCounted == outstanding = Cardinality(Live \cup Counting)

(* Each place that keeps one frame keeps one, and none when it is empty by *)
(* the state of its thread or queue.                                       *)
FrameInCallback ==
  HeldOnce("callback") /\ (callback = "idle" => HeldBy("callback") = {})
FrameInHand(c) ==
  HeldOnce(HandOf[c]) /\ (thread[c] # "frame" => HeldBy(HandOf[c]) = {})
FrameInQueue(c) ==
  HeldOnce(QueueOf[c]) /\ (closed[c] => HeldBy(QueueOf[c]) = {})
FramesInHand ==
  FrameInCallback /\ \A c \in Consumers : FrameInHand(c) /\ FrameInQueue(c)

(* The recycler queues only a request it took. *)
RecyclerHolds == recycler = "requeue" => recycled # <<>>

(* A thread that has ended, or main() outside the calls that drop a        *)
(* reference, is in no release function.                                   *)
ThreadsQuiet ==
  /\ \A c \in Consumers : thread[c] = "exited" => ~Busy(c)
  /\ bus = "exited" => ~Busy("bus")
  /\ main \notin {"start_pipeline", "join_inference", "join_encoder",
                  "release_pipeline"} => ~Busy("main")

(* The order of shutdown: what each step of main() has put an end to. *)
InferenceGone ==
  main = "done" \/ (exiting /\ main \in {"stop_encoder", "close_encoder",
                                         "join_encoder", "release_pipeline"})
CameraGone ==
  InferenceGone \/ main \in {"start", "join_recycler", "stop_inference",
                             "close_inference", "join_inference"}
ShutdownOrder ==
  /\ main \in {"stop_camera", "stop_recycler", "notify_recycler",
               "stop_libcamera", "join_recycler", "stop_inference",
               "close_inference", "join_inference", "done"} => exiting
  /\ main \in {"start", "queue", "run", "restart_encoder", "reopen_queue",
               "start_pipeline", "wait_frame"} => ~exiting
  /\ CameraGone => camera = "stopped" /\ callback = "idle" /\ ~Busy("camera")
  /\ main = "join_inference" \/ InferenceGone => closed["inference"]
  /\ InferenceGone => thread["inference"] = "exited"
  /\ main \in {"join_encoder", "release_pipeline", "done"} => closed["encoder"]
  /\ main \in {"release_pipeline", "restart_encoder", "reopen_queue",
               "start_pipeline", "done"} =>
       thread["encoder"] = "exited" /\ bus = "exited"
  /\ main = "done" => HeldBy("pipeline") = {} /\ ~Busy("pipeline")

(* What submit() tested still holds when it pushes: only the camera's own  *)
(* thread makes leases.  So the encoder never has more than that.          *)
EncoderHeld == {r \in Requests : holders[r] \cap EncoderHolders # {}}
ReserveKept ==
  /\ callback = "push_encoder" => outstanding <= BufferCount - 3
  /\ Cardinality(EncoderHeld) <= BufferCount - 3

PipelineInv ==
  /\ TypeOK /\ RequestInOnePlace /\ LeasesCounted /\ FramesInHand
  /\ RecyclerHolds /\ ThreadsQuiet /\ ShutdownOrder /\ ReserveKept

-----------------------------------------------------------------------------
(* The steps of the system by what they do to leases.                      *)

(* A lease is made, or a release function proceeds. *)
LeaseStep ==
  \/ \E r \in Requests : CompleteOk(r) \/ CompleteError(r)
  \/ \E x \in releasing : ReleaseCount(x) \/ ReleasePush(x)

(* References are moved or dropped. *)
ReferenceStep ==
  \/ \E c \in Consumers : SubmitPush(c) \/ ConsumerPop(c) \/ ConsumerDone(c)
  \/ CallbackReturn \/ EncoderFeed \/ PipelineDone \/ BusClose
  \/ EncoderReopen \/ CloseConsumer \/ ReleasePipeline

(* Leases are left alone, while a request moves ... *)
RequestStep ==
  \/ \E r \in Requests : CompleteStopping(r)
  \/ RecyclerTest \/ RecyclerRequeue \/ RecyclerLoses
  \/ CameraQueue \/ StopLibcamera \/ JoinRecycler

(* ... and while none does. *)
ControlStep ==
  \/ \E c \in Consumers : Submit(c) \/ ConsumerStops(c) \/ ConsumerClosed(c)
  \/ RecyclerBlock \/ SpuriousWake \/ BusError \/ BusExit
  \/ CameraStart \/ CameraStartFails \/ Exit \/ Recover
  \/ EncoderRestart \/ EncoderPlaying \/ EncoderRecovered
  \/ StopFlag \/ StopRecycler \/ NotifyRecycler
  \/ StopConsumer \/ JoinInference \/ JoinEncoder \/ EncoderStopped
  \/ UNCHANGED vars

LEMMA StepKinds ==
  [Next]_vars => LeaseStep \/ ReferenceStep \/ RequestStep \/ ControlStep
BY Zenon DEF Next, Callback, Recycle, Release, Consume, UseFrame, Bus, MainStep,
      LeaseStep, ReferenceStep, RequestStep, ControlStep

(* Thread t drops the last reference to the leases of S, and no others. *)
Unref(t, S) ==
  /\ holders' \in [Requests -> SUBSET Holders]
  /\ S \subseteq Live
  /\ Live' = Live \ S
  /\ releasing' = releasing \cup Releasing(t, S)

LEMMA DropUnrefs ==
  ASSUME holders \in [Requests -> SUBSET Holders],
         NEW t, NEW h, NEW r \in HeldBy(h), Drop(t, h, r)
  PROVE  \E S : Unref(t, S)
<1> DEFINE S == {x \in {r} : holders[x] = {h}}
<1>1. S \subseteq Live
  BY DEF Live, HeldBy
<1>2. Live' = Live \ S
  BY DEF Live, HeldBy, Drop
<1>3. holders' \in [Requests -> SUBSET Holders]
  BY DEF Drop, HeldBy
<1>4. releasing' = releasing \cup Releasing(t, S)
  BY DEF Drop
<1> QED
  BY <1>1, <1>2, <1>3, <1>4 DEF Unref

LEMMA PushUnrefs ==
  ASSUME holders \in [Requests -> SUBSET Holders],
         NEW t, NEW c \in Consumers, NEW r \in HeldBy("callback"), Push(t, c, r)
  PROVE  \E S : Unref(t, S)
<1>1. CASE closed[c]
  <2>1. Unref(t, {})
    BY <1>1 DEF Push, Unref, Live, Releasing
  <2> QED
    BY <2>1
<1>2. CASE ~closed[c]
  <2> DEFINE q == QueueOf[c]
             S == {x \in Requests \ {r} : holders[x] = {q}}
  <2>0. q \in Holders
    BY DEF QueueOf, Consumers, Holders, EncoderHolders, InferenceHolders
  <2>1. holders' = [x \in Requests |-> IF x = r THEN holders[x] \cup {q}
                                       ELSE holders[x] \ {q}]
    BY <1>2 DEF Push
  <2> HIDE DEF q
  <2>2. S \subseteq Live
    BY DEF Live
  <2>3. Live' = Live \ S
    BY <2>1 DEF Live, HeldBy
  <2>4. holders' \in [Requests -> SUBSET Holders]
    BY <2>0, <2>1
  <2>5. releasing' = releasing \cup Releasing(t, S)
    BY <1>2 DEF Push, q
  <2> QED
    BY <2>2, <2>3, <2>4, <2>5 DEF Unref
<1> QED
  BY <1>1, <1>2

LEMMA ClearUnrefs ==
  ASSUME holders \in [Requests -> SUBSET Holders],
         NEW t, NEW c \in Consumers, ClearQueue(t, c)
  PROVE  \E S : Unref(t, S)
<1> DEFINE q == QueueOf[c]
           S == {x \in Requests : holders[x] = {q}}
<1>1. holders' = [x \in Requests |-> holders[x] \ {q}]
  BY DEF ClearQueue
<1>2. releasing' = releasing \cup Releasing(t, S)
  BY DEF ClearQueue
<1> HIDE DEF q
<1>3. S \subseteq Live
  BY DEF Live
<1>4. Live' = Live \ S
  BY <1>1 DEF Live
<1>5. holders' \in [Requests -> SUBSET Holders]
  BY <1>1
<1> QED
  BY <1>2, <1>3, <1>4, <1>5 DEF Unref

LEMMA MoveUnrefs ==
  ASSUME holders \in [Requests -> SUBSET Holders],
         NEW g, NEW h \in Holders, NEW r \in HeldBy(g),
         holders' = [holders EXCEPT ![r] = (@ \ {g}) \cup {h}],
         UNCHANGED releasing, NEW t
  PROVE  \E S : Unref(t, S)
<1>1. Unref(t, {})
  <2>1. Live' = Live
    BY DEF Live, HeldBy
  <2>2. holders' \in [Requests -> SUBSET Holders]
    BY DEF HeldBy
  <2>3. Releasing(t, {}) = {}
    BY DEF Releasing
  <2> QED
    BY <2>1, <2>2, <2>3 DEF Unref
<1> QED
  BY <1>1

(* Every step that moves or drops references is of this form. *)
LEMMA ReferenceStepUnrefs ==
  ASSUME holders \in [Requests -> SUBSET Holders], ReferenceStep
  PROVE  \E t \in Threads : \E S : Unref(t, S)
<1> USE DEF Threads, Consumers, HandOf, QueueOf, Holders, EncoderHolders,
            InferenceHolders
<1>1. ASSUME NEW c \in Consumers, SubmitPush(c)
      PROVE  \E S : Unref("camera", S)
  BY <1>1, PushUnrefs DEF SubmitPush
<1>2. ASSUME NEW c \in Consumers, ConsumerPop(c)
      PROVE  \E S : Unref(c, S)
  <2>1. HandOf[c] \in Holders
    OBVIOUS
  <2> USE DEF ConsumerPop
  <2>2. PICK r \in HeldBy(QueueOf[c]) :
          holders' = [holders EXCEPT ![r] = (@ \ {QueueOf[c]}) \cup {HandOf[c]}]
    BY <1>2
  <2>3. UNCHANGED releasing
    BY <1>2
  <2> HIDE DEF ConsumerPop, HandOf, QueueOf
  <2> QED
    BY <2>1, <2>2, <2>3, MoveUnrefs
<1>3. ASSUME NEW c \in Consumers, ConsumerDone(c)
      PROVE  \E S : Unref(c, S)
  BY <1>3, DropUnrefs DEF ConsumerDone
<1>4. ASSUME CallbackReturn PROVE \E S : Unref("camera", S)
  BY <1>4, DropUnrefs DEF CallbackReturn
<1>5. ASSUME EncoderFeed PROVE \E S : Unref("encoder", S)
  BY <1>5, MoveUnrefs DEF EncoderFeed
<1>6. ASSUME PipelineDone PROVE \E S : Unref("pipeline", S)
  BY <1>6, DropUnrefs DEF PipelineDone
<1>7. ASSUME BusClose PROVE \E S : Unref("bus", S)
  BY <1>7, ClearUnrefs DEF BusClose, Close
<1>8. ASSUME EncoderReopen PROVE \E S : Unref("main", S)
  BY <1>8, ClearUnrefs DEF EncoderReopen, Reopen
<1>9. ASSUME CloseConsumer PROVE \E S : Unref("main", S)
  BY <1>9, ClearUnrefs DEF CloseConsumer, Close, Closing
<1>10. ASSUME ReleasePipeline PROVE \E S : Unref("main", S)
  BY <1>10, DropUnrefs DEF ReleasePipeline
<1> QED
  BY <1>1, <1>2, <1>3, <1>4, <1>5, <1>6, <1>7, <1>8, <1>9, <1>10
     DEF ReferenceStep

-----------------------------------------------------------------------------
(* Where a request is.                                                     *)

(* No request is in two of six sets. *)
Apart(f, q, l, b, e, y) ==
  \A r : /\ r \in f => r \notin q /\ r \notin l /\ r \notin b /\ r \notin e /\ r \notin y
         /\ r \in q => r \notin l /\ r \notin b /\ r \notin e /\ r \notin y
         /\ r \in l => r \notin b /\ r \notin e /\ r \notin y
         /\ r \in b => r \notin e /\ r \notin y
         /\ r \in e => r \notin y

PlacesApart == Apart(fresh, queued, Live, BeingReleased, Elements(returned),
                     Elements(recycled))
ReturnedOnce == \A i, j \in DOMAIN returned : returned[i] = returned[j] => i = j
ReleasedOnce == \A x, y \in releasing : x.req = y.req => x = y

LEMMA OnePlace == RequestInOnePlace <=> PlacesApart /\ ReturnedOnce /\ ReleasedOnce
<1> DEFINE P(i) == Places[i]
           D(i, j) == P(i) \cap P(j) = {}
<1>1. /\ P(1) = fresh /\ P(2) = queued /\ P(3) = Live
      /\ P(4) = BeingReleased /\ P(5) = Elements(returned)
      /\ P(6) = Elements(recycled)
  BY DEF Places
<1>2. (\A i, j \in 1..6 : i < j => D(i, j)) <=> PlacesApart
  BY <1>1 DEF PlacesApart, Apart
<1> QED
  BY <1>2 DEF RequestInOnePlace, ReturnedOnce, ReleasedOnce

LEMMA OnePlaceNext ==
  RequestInOnePlace' <=> PlacesApart' /\ ReturnedOnce' /\ ReleasedOnce'
BY OnePlace, PTL

LEMMA ReleasingRequests ==
  ASSUME NEW t, NEW S PROVE {y.req : y \in Releasing(t, S)} = S
<1> DEFINE R == {y.req : y \in Releasing(t, S)}
<1>1. ASSUME NEW r \in S PROVE r \in R
  <2> DEFINE x == [by |-> t, req |-> r, at |-> "count"]
  <2>1. x \in Releasing(t, S) /\ x.req = r
    BY DEF Releasing
  <2> HIDE DEF x
  <2> QED
    BY <2>1
<1>2. \A y \in Releasing(t, S) : y.req \in S
  BY DEF Releasing
<1> QED
  BY <1>1, <1>2

LEMMA UnrefReleases ==
  ASSUME NEW t, NEW S, Unref(t, S)
  PROVE  BeingReleased' = BeingReleased \cup S
BY ReleasingRequests DEF BeingReleased, Unref

LEMMA UnrefOnePlace ==
  ASSUME RequestInOnePlace, NEW t, NEW S, Unref(t, S),
         UNCHANGED <<fresh, queued, returned, recycled>>
  PROVE  RequestInOnePlace'
<1>1. PlacesApart /\ ReturnedOnce /\ ReleasedOnce
  BY OnePlace
<1>2. PlacesApart'
  <2>1. S \subseteq Live /\ Live' = Live \ S /\ BeingReleased' = BeingReleased \cup S
    BY UnrefReleases DEF Unref
  <2>2. Elements(returned)' = Elements(returned) /\ Elements(recycled)' = Elements(recycled)
    BY DEF Elements
  <2> QED
    BY <1>1, <2>1, <2>2 DEF PlacesApart, Apart
<1>3. ReleasedOnce'
  <2> SUFFICES ASSUME NEW x \in releasing', NEW y \in releasing', x.req = y.req
               PROVE  x = y
    BY DEF ReleasedOnce
  <2>1. \A r \in S : r \notin BeingReleased
    BY <1>1 DEF PlacesApart, Apart, Unref
  <2>2. CASE x \in releasing /\ y \in releasing
    BY <1>1, <2>2 DEF ReleasedOnce
  <2>3. \A z \in releasing' :
          z \in releasing \/ \E r \in S : z = [by |-> t, req |-> r, at |-> "count"]
    BY DEF Unref, Releasing
  <2>4. \A z \in releasing : z.req \notin S
    BY <2>1 DEF BeingReleased
  <2> QED
    BY <2>2, <2>3, <2>4
<1>4. ReturnedOnce'
  BY <1>1 DEF ReturnedOnce
<1> QED
  BY <1>2, <1>3, <1>4, OnePlaceNext

(* The sequence of returned requests, at its two ends. *)
LEMMA AppendElements ==
  ASSUME NEW S, NEW s \in Seq(S), NEW e \in S,
         \A i, j \in DOMAIN s : s[i] = s[j] => i = j
  PROVE  /\ Append(s, e) \in Seq(S)
         /\ Elements(Append(s, e)) = Elements(s) \cup {e}
         /\ e \notin Elements(s) =>
              \A i, j \in DOMAIN Append(s, e) :
                Append(s, e)[i] = Append(s, e)[j] => i = j
<1> DEFINE t == Append(s, e)
<1>1. /\ t \in Seq(S) /\ Len(s) \in Nat /\ DOMAIN s = 1..Len(s)
      /\ DOMAIN t = 1..Len(s)+1
      /\ t[Len(s) + 1] = e /\ \A i \in 1..Len(s) : t[i] = s[i]
  OBVIOUS
<1> HIDE DEF t
<1>2. \A i \in 1..Len(s)+1 : i = Len(s) + 1 \/ i \in 1..Len(s)
  BY <1>1
<1>3. Elements(t) = Elements(s) \cup {e}
  BY <1>1, <1>2 DEF Elements
<1>4. ASSUME e \notin Elements(s), NEW i \in DOMAIN t, NEW j \in DOMAIN t, t[i] = t[j]
      PROVE  i = j
  BY <1>1, <1>2, <1>4 DEF Elements
<1> QED
  BY <1>1, <1>3, <1>4 DEF t

LEMMA TailElements ==
  ASSUME NEW S, NEW s \in Seq(S), s # <<>>,
         \A i, j \in DOMAIN s : s[i] = s[j] => i = j
  PROVE  /\ Tail(s) \in Seq(S) /\ Head(s) \in S
         /\ Head(s) \in Elements(s) /\ Elements(Tail(s)) \subseteq Elements(s) \ {Head(s)}
         /\ \A i, j \in DOMAIN Tail(s) : Tail(s)[i] = Tail(s)[j] => i = j
<1> DEFINE t == Tail(s)
<1>1. /\ t \in Seq(S) /\ Len(s) \in Nat \ {0} /\ DOMAIN s = 1..Len(s)
      /\ DOMAIN t = 1..Len(s)-1
      /\ Head(s) = s[1] /\ \A i \in 1..Len(s)-1 : t[i] = s[i + 1]
  OBVIOUS
<1> HIDE DEF t
<1>2. Head(s) \in Elements(s) /\ Head(s) \in S
  BY <1>1 DEF Elements
<1>3. Elements(t) \subseteq Elements(s) \ {Head(s)}
  BY <1>1, SMTT(30) DEF Elements
<1>4. ASSUME NEW i \in DOMAIN t, NEW j \in DOMAIN t, t[i] = t[j]
      PROVE  i = j
  <2>1. i \in 1..Len(s)-1 /\ j \in 1..Len(s)-1
    BY <1>1
  <2>2. i + 1 \in DOMAIN s /\ j + 1 \in DOMAIN s
    BY <1>1, <2>1
  <2>3. s[i + 1] = s[j + 1]
    BY <1>1, <1>4, <2>1
  <2>4. i + 1 = j + 1
    BY <2>2, <2>3
  <2> QED
    BY <2>1, <2>4
<1> QED
  BY <1>1, <1>2, <1>3, <1>4 DEF t

LEMMA LeaseStepOnePlace ==
  ASSUME TypeOK, RequestInOnePlace, LeaseStep
  PROVE  RequestInOnePlace'
<1>0. PlacesApart /\ ReturnedOnce /\ ReleasedOnce
  BY OnePlace
<1>1. ASSUME NEW r \in Requests, CompleteOk(r) PROVE RequestInOnePlace'
  <2>1. Live' = Live \cup {r}
    BY <1>1 DEF CompleteOk, Live, TypeOK
  <2>2. /\ r \in queued /\ queued' = queued \ {r} /\ fresh' = fresh
        /\ returned' = returned /\ recycled' = recycled /\ releasing' = releasing
    BY <1>1 DEF CompleteOk, recVars
  <2>3. PlacesApart'
    BY <1>0, <2>1, <2>2 DEF PlacesApart, Apart, BeingReleased, Elements
  <2> QED
    BY <1>0, <2>2, <2>3, OnePlaceNext DEF ReturnedOnce, ReleasedOnce
<1>2. ASSUME NEW r \in Requests, CompleteError(r) PROVE RequestInOnePlace'
  <2> DEFINE x == [by |-> "camera", req |-> r, at |-> "push"]
  <2>1. /\ r \in queued /\ queued' = queued \ {r} /\ fresh' = fresh
        /\ returned' = returned /\ recycled' = recycled /\ Live' = Live
    BY <1>2 DEF CompleteError, recVars, Live
  <2>2. releasing' \subseteq releasing \cup {x}
    BY <1>2 DEF CompleteError
  <2>3. x.req = r
    OBVIOUS
  <2> HIDE DEF x
  <2>4. BeingReleased' \subseteq BeingReleased \cup {r}
    BY <2>2, <2>3 DEF BeingReleased
  <2>5. PlacesApart'
    BY <1>0, <2>1, <2>4 DEF PlacesApart, Apart, Elements
  <2>6. r \notin BeingReleased
    BY <1>0, <2>1 DEF PlacesApart, Apart
  <2>7. ReleasedOnce'
    BY <1>0, <2>2, <2>3, <2>6 DEF ReleasedOnce, BeingReleased
  <2> QED
    BY <1>0, <2>1, <2>5, <2>7, OnePlaceNext DEF ReturnedOnce
<1>3. ASSUME NEW x \in releasing, ReleaseCount(x) PROVE RequestInOnePlace'
  <2> DEFINE y == [x EXCEPT !.at = "push"]
  <2>1. /\ queued' = queued /\ fresh' = fresh
        /\ returned' = returned /\ recycled' = recycled /\ Live' = Live
    BY <1>3 DEF ReleaseCount, camVars, recVars, Live
  <2>2. releasing' \subseteq (releasing \ {x}) \cup {y}
    BY <1>3 DEF ReleaseCount
  <2>3. y.req = x.req
    BY DEF TypeOK
  <2> HIDE DEF y
  <2>4. BeingReleased' \subseteq BeingReleased
    BY <2>2, <2>3 DEF BeingReleased
  <2>5. PlacesApart'
    BY <1>0, <2>1, <2>4 DEF PlacesApart, Apart, Elements
  <2>6. ReleasedOnce'
    BY <1>0, <2>2, <2>3 DEF ReleasedOnce
  <2> QED
    BY <1>0, <2>1, <2>5, <2>6, OnePlaceNext DEF ReturnedOnce
<1>4. ASSUME NEW x \in releasing, ReleasePush(x) PROVE RequestInOnePlace'
  <2>1. /\ queued' = queued /\ fresh' = fresh
        /\ recycled' = recycled /\ Live' = Live
        /\ returned' = Append(returned, x.req) /\ releasing' = releasing \ {x}
    BY <1>4 DEF ReleasePush, camVars, Live
  <2>2. x.req \in Requests /\ x.req \in BeingReleased
    BY DEF TypeOK, BeingReleased
  <2>3. BeingReleased' \subseteq BeingReleased \ {x.req}
    BY <1>0, <2>1 DEF BeingReleased, ReleasedOnce
  <2>4. x.req \notin Elements(returned)
    BY <1>0, <2>2 DEF PlacesApart, Apart
  <2>5. ReturnedOnce' /\ Elements(returned)' = Elements(returned) \cup {x.req}
    BY <1>0, <2>1, <2>2, <2>4, AppendElements DEF ReturnedOnce, TypeOK
  <2>6. PlacesApart'
    BY <1>0, <2>1, <2>2, <2>3, <2>5 DEF PlacesApart, Apart, Elements
  <2>7. ReleasedOnce'
    BY <1>0, <2>1 DEF ReleasedOnce
  <2> QED
    BY <2>5, <2>6, <2>7, OnePlaceNext
<1> QED
  BY <1>1, <1>2, <1>3, <1>4 DEF LeaseStep

LEMMA RequestStepOnePlace ==
  ASSUME TypeOK, RequestInOnePlace, RecyclerHolds, RequestStep
  PROVE  RequestInOnePlace'
<1>0. PlacesApart /\ ReturnedOnce /\ ReleasedOnce
  BY OnePlace
<1>1. UNCHANGED leaseVars
  BY DEF RequestStep, CompleteStopping, RecyclerTest, RecyclerRequeue,
         RecyclerLoses, CameraQueue, StopLibcamera, JoinRecycler
<1>2. Live' = Live /\ BeingReleased' = BeingReleased /\ ReleasedOnce'
  BY <1>0, <1>1 DEF leaseVars, Live, BeingReleased, ReleasedOnce
<1>3. ASSUME fresh' \subseteq fresh, queued' \subseteq queued \cup (fresh \ fresh'),
             UNCHANGED <<returned, recycled>>
      PROVE  RequestInOnePlace'
  <2>1. PlacesApart'
    BY <1>0, <1>2, <1>3 DEF PlacesApart, Apart, Elements
  <2> QED
    BY <1>0, <1>2, <1>3, <2>1, OnePlaceNext DEF ReturnedOnce
<1>4. ASSUME NEW r \in Requests, CompleteStopping(r) PROVE RequestInOnePlace'
  BY <1>3, <1>4 DEF CompleteStopping, recVars
<1>5. ASSUME CameraQueue PROVE RequestInOnePlace'
  BY <1>3, <1>5 DEF CameraQueue, recVars
<1>6. ASSUME StopLibcamera PROVE RequestInOnePlace'
  BY <1>3, <1>6 DEF StopLibcamera, recVars
<1>7. ASSUME RecyclerTest PROVE RequestInOnePlace'
  <2>1. CASE UNCHANGED <<returned, recycled>>
    BY <1>3, <1>7, <2>1 DEF RecyclerTest, camVars
  <2>2. CASE /\ returned # <<>> /\ recycled' = <<Head(returned)>>
             /\ returned' = Tail(returned)
    <3>1. /\ Head(returned) \in Elements(returned)
          /\ Elements(returned)' \subseteq Elements(returned) \ {Head(returned)}
          /\ ReturnedOnce'
      BY <1>0, <2>2, TailElements DEF TypeOK, ReturnedOnce
    <3>2. Elements(recycled)' = {Head(returned)}
      BY <2>2 DEF Elements
    <3>3. fresh' = fresh /\ queued' = queued
      BY <1>7 DEF RecyclerTest, camVars
    <3>4. PlacesApart'
      BY <1>0, <1>2, <3>1, <3>2, <3>3 DEF PlacesApart, Apart
    <3> QED
      BY <1>2, <3>1, <3>4, OnePlaceNext
  <2> QED
    BY <1>7, <2>1, <2>2 DEF RecyclerTest
<1>8. Elements(<<>>) = {}
  BY DEF Elements
<1>9. ASSUME RecyclerRequeue PROVE RequestInOnePlace'
  <2>1. /\ queued' = queued \cup {recycled[1]} /\ recycled' = <<>>
        /\ fresh' = fresh /\ returned' = returned
    BY <1>9 DEF RecyclerRequeue
  <2>2. recycled[1] \in Elements(recycled)
    BY <1>9 DEF TypeOK, Elements, RecyclerHolds, RecyclerRequeue
  <2>3. Elements(recycled)' = {} /\ Elements(returned)' = Elements(returned)
    BY <1>8, <2>1 DEF Elements
  <2> QED
    BY <1>0, <1>2, <2>1, <2>2, <2>3, OnePlaceNext
       DEF PlacesApart, Apart, ReturnedOnce
<1>10. ASSUME RecyclerLoses PROVE RequestInOnePlace'
  <2>1. /\ queued' = queued /\ recycled' = <<>>
        /\ fresh' = fresh /\ returned' = returned
    BY <1>10 DEF RecyclerLoses, camVars
  <2>2. Elements(recycled)' = {} /\ Elements(returned)' = Elements(returned)
    BY <1>8, <2>1 DEF Elements
  <2> QED
    BY <1>0, <1>2, <2>1, <2>2, OnePlaceNext
       DEF PlacesApart, Apart, ReturnedOnce
<1>11. ASSUME JoinRecycler PROVE RequestInOnePlace'
  <2>1. /\ queued' = queued /\ recycled' = recycled
        /\ fresh' = fresh /\ returned' = <<>>
    BY <1>11 DEF JoinRecycler, camVars
  <2>2. Elements(returned)' = {} /\ Elements(recycled)' = Elements(recycled)
    BY <1>8, <2>1 DEF Elements
  <2>3. ReturnedOnce'
    BY <2>1 DEF ReturnedOnce
  <2> QED
    BY <1>0, <1>2, <2>1, <2>2, <2>3, OnePlaceNext DEF PlacesApart, Apart
<1> QED
  BY <1>4, <1>5, <1>6, <1>7, <1>9, <1>10, <1>11 DEF RequestStep

(* What the steps that are not about leases, or only about references,     *)
(* leave alone.                                                            *)
LEMMA ControlStepKeeps ==
  ASSUME ControlStep
  PROVE  UNCHANGED <<leaseVars, fresh, queued, returned, recycled>>
BY DEF ControlStep, Submit, ConsumerStops, ConsumerClosed, RecyclerBlock,
       SpuriousWake, BusError, BusExit, CameraStart, CameraStartFails, Exit,
       Recover, EncoderRestart, EncoderPlaying, EncoderRecovered, StopFlag,
       StopRecycler, NotifyRecycler, StopConsumer, JoinInference, JoinEncoder,
       EncoderStopped, vars, camVars, recVars

LEMMA ReferenceStepKeeps ==
  ASSUME ReferenceStep
  PROVE  UNCHANGED <<outstanding, fresh, queued, camera, stopping, recVars>>
BY DEF ReferenceStep, SubmitPush, ConsumerPop, ConsumerDone, CallbackReturn,
       EncoderFeed, PipelineDone, BusClose, EncoderReopen, CloseConsumer,
       ReleasePipeline, camVars

LEMMA OnePlaceStep ==
  ASSUME TypeOK, RequestInOnePlace, RecyclerHolds, [Next]_vars
  PROVE  RequestInOnePlace'
<1>1. CASE LeaseStep
  BY <1>1, LeaseStepOnePlace
<1>2. CASE ReferenceStep
  <2>1. UNCHANGED <<fresh, queued, returned, recycled>>
    BY <1>2, ReferenceStepKeeps DEF recVars
  <2>2. PICK t, S : Unref(t, S)
    BY <1>2, ReferenceStepUnrefs DEF TypeOK
  <2> QED
    BY <2>1, <2>2, UnrefOnePlace
<1>3. CASE RequestStep
  BY <1>3, RequestStepOnePlace
<1>4. CASE ControlStep
  BY <1>4, ControlStepKeeps DEF leaseVars, RequestInOnePlace, Places, Live,
                                BeingReleased, Elements
<1> QED
  BY <1>1, <1>2, <1>3, <1>4, StepKinds

-----------------------------------------------------------------------------
(* outstanding_leases.                                                     *)

LeaseTypes ==
  /\ holders \in [Requests -> SUBSET Holders]
  /\ releasing \subseteq [by: Threads, req: Requests, at: {"count", "push"}]

LEMMA CountedFinite ==
  ASSUME LeaseTypes
  PROVE  /\ Live \cup Counting \subseteq Requests
         /\ IsFiniteSet(Live) /\ IsFiniteSet(Counting)
         /\ IsFiniteSet(Live \cup Counting)
<1>1. Live \subseteq Requests /\ Counting \subseteq Requests
  BY DEF Live, Counting, LeaseTypes
<1> QED
  BY <1>1, FS_Subset, PipelineAssumption

LEMMA CountedBounded ==
  ASSUME LeaseTypes, LeasesCounted
  PROVE  outstanding \in 0 .. Cardinality(Requests)
BY CountedFinite, FS_Subset, FS_CardinalityType, PipelineAssumption
   DEF LeasesCounted

LEMMA LeasesCountedStep ==
  ASSUME TypeOK, RequestInOnePlace, LeasesCounted, [Next]_vars
  PROVE  LeasesCounted'
<1> DEFINE U == Live \cup Counting
<1>0. IsFiniteSet(U) /\ outstanding = Cardinality(U)
  BY CountedFinite DEF LeasesCounted, TypeOK, LeaseTypes
<1>a. PlacesApart /\ ReleasedOnce
  BY OnePlace
<1>b. Counting \subseteq BeingReleased
  BY DEF Counting, BeingReleased
<1>1. ASSUME NEW r \in Requests, CompleteOk(r) PROVE LeasesCounted'
  <2>1. Live' = Live \cup {r} /\ Counting' = Counting /\ outstanding' = outstanding + 1
    BY <1>1 DEF CompleteOk, Live, Counting, TypeOK
  <2>2. r \notin U
    BY <1>1, <1>a, <1>b DEF CompleteOk, PlacesApart, Apart
  <2>3. U' = U \cup {r}
    BY <2>1
  <2> HIDE DEF U
  <2>4. Cardinality(U \cup {r}) = Cardinality(U) + 1
    BY <1>0, <2>2, FS_AddElement
  <2> QED
    BY <1>0, <2>1, <2>3, <2>4 DEF LeasesCounted, U
<1>2. ASSUME NEW r \in Requests, CompleteError(r) PROVE LeasesCounted'
  <2>1. Live' = Live /\ outstanding' = outstanding
    BY <1>2 DEF CompleteError, Live
  <2>2. {y \in releasing' : y.at = "count"} = {y \in releasing : y.at = "count"}
    BY <1>2 DEF CompleteError
  <2> QED
    BY <2>1, <2>2 DEF LeasesCounted, Counting
<1>3. ASSUME NEW x \in releasing, ReleaseCount(x) PROVE LeasesCounted'
  <2>1. Live' = Live /\ outstanding' = outstanding - 1
    BY <1>3 DEF ReleaseCount, Live
  <2>2. {y \in releasing' : y.at = "count"} = {y \in releasing : y.at = "count"} \ {x}
    BY <1>3 DEF ReleaseCount, TypeOK
  <2>3. Counting' = Counting \ {x.req}
    BY <1>a, <2>2 DEF Counting, ReleasedOnce
  <2>4. x.req \in Counting
    BY <1>3 DEF Counting, ReleaseCount
  <2>5. U' = U \ {x.req} /\ x.req \in U
    BY <1>a, <1>b, <2>1, <2>3, <2>4 DEF PlacesApart, Apart
  <2> HIDE DEF U
  <2>6. Cardinality(U \ {x.req}) = Cardinality(U) - 1
    BY <1>0, <2>5, FS_RemoveElement
  <2> QED
    BY <1>0, <2>1, <2>5, <2>6 DEF LeasesCounted, U
<1>4. ASSUME NEW x \in releasing, ReleasePush(x) PROVE LeasesCounted'
  <2>1. Live' = Live /\ outstanding' = outstanding
    BY <1>4 DEF ReleasePush, Live
  <2>2. {y \in releasing' : y.at = "count"} = {y \in releasing : y.at = "count"}
    BY <1>4 DEF ReleasePush
  <2> QED
    BY <2>1, <2>2 DEF LeasesCounted, Counting
<1>5. CASE ReferenceStep
  <2>1. PICK t, S : Unref(t, S)
    BY <1>5, ReferenceStepUnrefs DEF TypeOK
  <2>2. outstanding' = outstanding
    BY <1>5, ReferenceStepKeeps
  <2>3. {y \in releasing' : y.at = "count"} =
          {y \in releasing : y.at = "count"} \cup Releasing(t, S)
    BY <2>1 DEF Unref, Releasing
  <2>4. Counting' = Counting \cup S
    <3>1. {y.req : y \in Releasing(t, S)} = S
      BY ReleasingRequests
    <3> QED
      BY <2>3, <3>1 DEF Counting
  <2>5. U' = U
    BY <2>1, <2>4 DEF Unref
  <2> QED
    BY <2>2, <2>5 DEF LeasesCounted
<1>6. CASE RequestStep \/ ControlStep
  <2>1. UNCHANGED leaseVars
    BY <1>6, ControlStepKeeps
       DEF RequestStep, CompleteStopping, RecyclerTest, RecyclerRequeue,
           RecyclerLoses, CameraQueue, StopLibcamera, JoinRecycler
  <2> QED
    BY <2>1 DEF leaseVars, LeasesCounted, Live, Counting
<1> QED
  BY <1>1, <1>2, <1>3, <1>4, <1>5, <1>6, StepKinds DEF LeaseStep

-----------------------------------------------------------------------------
(* Types.                                                                  *)

LEMMA LeaseTypesStep ==
  ASSUME TypeOK, [Next]_vars PROVE LeaseTypes'
<1> USE DEF LeaseTypes
<1>0. LeaseTypes
  BY DEF TypeOK
<1>1. ASSUME NEW r \in Requests, CompleteOk(r) PROVE LeaseTypes'
  BY <1>0, <1>1 DEF CompleteOk, Holders
<1>2. ASSUME NEW r \in Requests, CompleteError(r) PROVE LeaseTypes'
  BY <1>0, <1>2 DEF CompleteError, Threads
<1>3. ASSUME NEW x \in releasing, ReleaseCount(x) \/ ReleasePush(x)
      PROVE  LeaseTypes'
  BY <1>0, <1>3 DEF ReleaseCount, ReleasePush
<1>4. CASE ReferenceStep
  <2>0. PICK t \in Threads : \E S : Unref(t, S)
    BY <1>0, <1>4, ReferenceStepUnrefs
  <2>1. PICK S : Unref(t, S)
    BY <2>0
  <2>2. S \subseteq Requests
    BY <2>1 DEF Unref, Live
  <2> QED
    BY <1>0, <2>1, <2>2 DEF Unref, Releasing
<1>5. CASE RequestStep \/ ControlStep
  <2>1. UNCHANGED leaseVars
    BY <1>5, ControlStepKeeps
       DEF RequestStep, CompleteStopping, RecyclerTest, RecyclerRequeue,
           RecyclerLoses, CameraQueue, StopLibcamera, JoinRecycler
  <2> QED
    BY <1>0, <2>1 DEF leaseVars
<1> QED
  BY <1>1, <1>2, <1>3, <1>4, <1>5, StepKinds DEF LeaseStep

(* The rest of TypeOK. *)
OtherTypes ==
  /\ camera \in {"stopped", "running"}
  /\ queued \subseteq Requests /\ fresh \subseteq Requests
  /\ callback \in {"idle", "submit_encoder", "push_encoder",
                   "submit_inference", "push_inference", "return"}
  /\ stopping \in BOOLEAN /\ rstopping \in BOOLEAN
  /\ returned \in Seq(Requests)
  /\ recycler \in {"none", "test", "blocking", "waiting", "requeue",
                   "exited"}
  /\ recycled \in {<<>>} \cup {<<r>> : r \in Requests}
  /\ running \in [Consumers -> BOOLEAN] /\ closed \in [Consumers -> BOOLEAN]
  /\ thread \in [Consumers -> {"wait", "frame", "exited"}]
  /\ bus \in {"watch", "close", "exited"} /\ recovery \in BOOLEAN
  /\ main \in {"start", "queue", "run", "restart_encoder", "reopen_queue",
               "start_pipeline", "wait_frame", "stop_camera", "stop_recycler",
               "notify_recycler", "stop_libcamera", "join_recycler",
               "stop_inference", "close_inference", "join_inference",
               "stop_encoder", "close_encoder", "join_encoder",
               "release_pipeline", "done"}
  /\ exiting \in BOOLEAN

LEMMA OtherTypesStep ==
  ASSUME TypeOK, RecyclerHolds, [Next]_vars PROVE OtherTypes'
<1>0. OtherTypes
  BY DEF TypeOK, OtherTypes
<1>1. CASE LeaseStep
  <2>1. ASSUME NEW r \in Requests, CompleteOk(r) \/ CompleteError(r)
        PROVE  OtherTypes'
    BY <1>0, <2>1 DEF OtherTypes, CompleteOk, CompleteError, recVars, conVars, mainVars
  <2>2. ASSUME NEW x \in releasing, ReleaseCount(x) PROVE OtherTypes'
    BY <1>0, <2>2 DEF OtherTypes, ReleaseCount, camVars, recVars, conVars, mainVars
  <2>3. ASSUME NEW x \in releasing, ReleasePush(x) PROVE OtherTypes'
    <3>1. x.req \in Requests
      BY DEF TypeOK
    <3> QED
      BY <1>0, <2>3, <3>1 DEF OtherTypes, ReleasePush, Notified, camVars, conVars, mainVars
  <2> QED
    BY <1>1, <2>1, <2>2, <2>3 DEF LeaseStep
<1>2. CASE ReferenceStep
  <2>1. UNCHANGED <<fresh, queued, camera, stopping, recVars, outstanding>>
    BY <1>2, ReferenceStepKeeps
  <2>2. /\ callback' \in {callback, "submit_inference", "return", "idle"}
        /\ bus' \in {bus, "watch"}
        /\ main' \in {main, "start_pipeline", "join_inference", "join_encoder"}
        /\ UNCHANGED <<running, exiting>>
        /\ recovery' \in {recovery, FALSE}
    BY <1>2 DEF ReferenceStep, SubmitPush, ConsumerPop, ConsumerDone,
          CallbackReturn, EncoderFeed, PipelineDone, BusClose, EncoderReopen,
          CloseConsumer, ReleasePipeline, camVars, conVars, mainVars, Close
  <2>3. closed' \in [Consumers -> BOOLEAN] /\ thread' \in [Consumers -> {"wait", "frame", "exited"}]
    BY <1>0, <1>2 DEF OtherTypes, ReferenceStep, SubmitPush, ConsumerPop,
          ConsumerDone, CallbackReturn, EncoderFeed, PipelineDone, BusClose,
          EncoderReopen, CloseConsumer, ReleasePipeline, conVars, Close, Reopen
  <2>4. stopping' \in BOOLEAN /\ rstopping' \in BOOLEAN /\ recovery' \in BOOLEAN
        /\ exiting' \in BOOLEAN
    BY <1>0, <2>1, <2>2, Zenon DEF OtherTypes, recVars
  <2>5. callback' \in {"idle", "submit_encoder", "push_encoder",
                       "submit_inference", "push_inference", "return"}
    BY <1>0, <2>2 DEF OtherTypes
  <2> QED
    BY <1>0, <2>1, <2>2, <2>3, <2>4, <2>5 DEF OtherTypes, recVars
<1>3. CASE RequestStep
  <2>1. UNCHANGED conVars /\ stopping' = stopping /\ rstopping' = rstopping
        /\ exiting' = exiting /\ callback' = callback
        /\ camera' \in {camera, "stopped"}
        /\ recycler' \in {recycler, "exited", "requeue", "blocking", "test"}
        /\ main' \in {main, "run", "join_recycler", "stop_inference"}
        /\ fresh' \subseteq fresh
    BY <1>3 DEF RequestStep, CompleteStopping, RecyclerTest, RecyclerRequeue,
          RecyclerLoses, CameraQueue, StopLibcamera, JoinRecycler, camVars,
          recVars, mainVars
  <2>2. returned' \in Seq(Requests)
    <3>1. <<>> \in Seq(Requests)
      OBVIOUS
    <3>2. returned \in Seq(Requests) /\ (returned # <<>> => Tail(returned) \in Seq(Requests))
      BY <1>0 DEF OtherTypes
    <3> QED
      BY <1>3, <3>1, <3>2 DEF RequestStep, CompleteStopping, RecyclerTest,
          RecyclerRequeue, RecyclerLoses, CameraQueue, StopLibcamera,
          JoinRecycler, recVars
  <2>3. recycled' \in {<<>>} \cup {<<r>> : r \in Requests}
    <3>1. returned # <<>> => Head(returned) \in Requests
      BY <1>0 DEF OtherTypes
    <3> QED
      BY <1>0, <1>3, <3>1 DEF OtherTypes, RequestStep, CompleteStopping,
          RecyclerTest, RecyclerRequeue, RecyclerLoses, CameraQueue,
          StopLibcamera, JoinRecycler, recVars
  <2>4. queued' \subseteq Requests
    <3>1. recycler = "requeue" => recycled[1] \in Requests
      BY <1>0 DEF OtherTypes, RecyclerHolds
    <3> QED
      BY <1>0, <1>3, <3>1 DEF OtherTypes, RequestStep, CompleteStopping,
          RecyclerTest, RecyclerRequeue, RecyclerLoses, CameraQueue,
          StopLibcamera, JoinRecycler, camVars
  <2> QED
    BY <1>0, <2>1, <2>2, <2>3, <2>4 DEF OtherTypes, conVars
<1>4. CASE ControlStep
  <2>1. UNCHANGED <<fresh, queued, returned, recycled>>
    BY <1>4, ControlStepKeeps
  <2> USE DEF ControlStep, Submit, ConsumerStops, ConsumerClosed, RecyclerBlock,
       SpuriousWake, BusError, BusExit, CameraStart, CameraStartFails, Exit,
       Recover, EncoderRestart, EncoderPlaying, EncoderRecovered, StopFlag,
       StopRecycler, NotifyRecycler, StopConsumer, JoinInference, JoinEncoder,
       EncoderStopped, Notified, vars, camVars, recVars, conVars, mainVars
  <2>2. /\ camera' \in {camera, "running"} /\ bus' \in {bus, "exited", "close", "watch"}
        /\ callback' \in {callback, "push_encoder", "push_inference",
                          "submit_inference", "return"}
        /\ stopping' \in {stopping, TRUE} /\ rstopping' \in {rstopping, TRUE}
        /\ recovery' \in {recovery, TRUE} /\ exiting' \in {exiting, TRUE}
        /\ recycler' \in {recycler, "test", "waiting"}
        /\ UNCHANGED closed
    BY <1>4
  <2>3. main' \in {main, "queue", "stop_inference", "stop_camera", "stop_encoder",
                   "reopen_queue", "wait_frame", "run", "stop_recycler",
                   "notify_recycler", "stop_libcamera", "close_inference",
                   "close_encoder", "release_pipeline", "done", "restart_encoder"}
    BY <1>4
  <2>4. /\ running' \in [Consumers -> BOOLEAN]
        /\ thread' \in [Consumers -> {"wait", "frame", "exited"}]
    BY <1>0, <1>4 DEF OtherTypes
  <2>5. stopping' \in BOOLEAN /\ rstopping' \in BOOLEAN /\ recovery' \in BOOLEAN
        /\ exiting' \in BOOLEAN
    BY <1>0, <2>2, Zenon DEF OtherTypes
  <2> QED
    BY <1>0, <2>1, <2>2, <2>3, <2>4, <2>5 DEF OtherTypes
<1> QED
  BY <1>1, <1>2, <1>3, <1>4, StepKinds

LEMMA TypeStep ==
  ASSUME TypeOK, RecyclerHolds, LeasesCounted', [Next]_vars PROVE TypeOK'
<1>1. OtherTypes' /\ LeaseTypes'
  BY OtherTypesStep, LeaseTypesStep
<1>2. (LeaseTypes /\ LeasesCounted => outstanding \in 0 .. Cardinality(Requests))'
  BY CountedBounded, PTL
<1> QED
  BY <1>1, <1>2 DEF TypeOK, OtherTypes, LeaseTypes

LEMMA RecyclerHoldsStep ==
  ASSUME TypeOK, RecyclerHolds, [Next]_vars PROVE RecyclerHolds'
<1>1. CASE LeaseStep
  BY <1>1 DEF LeaseStep, CompleteOk, CompleteError, ReleaseCount, ReleasePush,
              Notified, recVars, RecyclerHolds
<1>2. CASE ReferenceStep
  BY <1>2, ReferenceStepKeeps DEF recVars, RecyclerHolds
<1>3. CASE RequestStep
  <2>1. <<Head(returned)>> # <<>>
    OBVIOUS
  <2>2. \/ recycler' # "requeue" \/ recycled' = <<Head(returned)>>
        \/ UNCHANGED <<recycler, recycled>>
    BY <1>3 DEF RequestStep, CompleteStopping, RecyclerTest, RecyclerRequeue,
        RecyclerLoses, CameraQueue, StopLibcamera, JoinRecycler, recVars
  <2> QED
    BY <2>1, <2>2, Zenon DEF RecyclerHolds
<1>4. CASE ControlStep
  <2>1. recycled' = recycled
    BY <1>4, ControlStepKeeps
  <2>2. recycler' \in {recycler, "test", "waiting"}
    BY <1>4 DEF ControlStep, Submit, ConsumerStops, ConsumerClosed,
         RecyclerBlock, SpuriousWake, BusError, BusExit, CameraStart,
         CameraStartFails, Exit, Recover, EncoderRestart, EncoderPlaying,
         EncoderRecovered, StopFlag, StopRecycler, NotifyRecycler, StopConsumer,
         JoinInference, JoinEncoder, EncoderStopped, Notified, vars, recVars
  <2> QED
    BY <2>1, <2>2 DEF RecyclerHolds
<1> QED
  BY <1>1, <1>2, <1>3, <1>4, StepKinds

-----------------------------------------------------------------------------
(* Who holds what, after each operation on references.                     *)

LEMMA DropHolds ==
  ASSUME holders \in [Requests -> SUBSET Holders],
         NEW t, NEW g, NEW r \in HeldBy(g), Drop(t, g, r)
  PROVE  /\ HeldBy(g)' = HeldBy(g) \ {r}
         /\ \A h : h # g => HeldBy(h)' = HeldBy(h)
BY DEF Drop, HeldBy

LEMMA PushHolds ==
  ASSUME holders \in [Requests -> SUBSET Holders],
         NEW t, NEW c \in Consumers, NEW r \in Requests, Push(t, c, r)
  PROVE  /\ HeldBy(QueueOf[c])' = IF closed[c] THEN HeldBy(QueueOf[c]) ELSE {r}
         /\ \A h : h # QueueOf[c] => HeldBy(h)' = HeldBy(h)
<1> DEFINE q == QueueOf[c]
<1>1. CASE closed[c]
  BY <1>1 DEF Push, HeldBy
<1>2. CASE ~closed[c]
  <2>1. holders' = [x \in Requests |-> IF x = r THEN holders[x] \cup {q}
                                       ELSE holders[x] \ {q}]
    BY <1>2 DEF Push
  <2> HIDE DEF q
  <2>2. HeldBy(q)' = {r} /\ \A h : h # q => HeldBy(h)' = HeldBy(h)
    BY <2>1 DEF HeldBy
  <2> QED
    BY <1>2, <2>2 DEF q
<1> QED
  BY <1>1, <1>2

LEMMA ClearHolds ==
  ASSUME holders \in [Requests -> SUBSET Holders],
         NEW t, NEW c \in Consumers, ClearQueue(t, c)
  PROVE  /\ HeldBy(QueueOf[c])' = {}
         /\ \A h : h # QueueOf[c] => HeldBy(h)' = HeldBy(h)
<1> DEFINE q == QueueOf[c]
<1>1. holders' = [x \in Requests |-> holders[x] \ {q}]
  BY DEF ClearQueue
<1> HIDE DEF q
<1>2. HeldBy(q)' = {} /\ \A h : h # q => HeldBy(h)' = HeldBy(h)
  BY <1>1 DEF HeldBy
<1> QED
  BY <1>2 DEF q

LEMMA MoveHolds ==
  ASSUME holders \in [Requests -> SUBSET Holders],
         NEW g, NEW k, g # k, NEW r \in HeldBy(g),
         holders' = [holders EXCEPT ![r] = (@ \ {g}) \cup {k}]
  PROVE  /\ HeldBy(g)' = HeldBy(g) \ {r}
         /\ HeldBy(k)' = HeldBy(k) \cup {r}
         /\ \A h : h \notin {g, k} => HeldBy(h)' = HeldBy(h)
BY DEF HeldBy

LEMMA CompleteHolds ==
  ASSUME TypeOK, RequestInOnePlace, NEW r \in Requests, CompleteOk(r)
  PROVE  /\ HeldBy("callback")' = HeldBy("callback") \cup {r}
         /\ \A h : h # "callback" => HeldBy(h)' = HeldBy(h)
<1>1. holders[r] = {}
  BY OnePlace DEF CompleteOk, PlacesApart, Apart, Live
<1>2. holders' = [holders EXCEPT ![r] = {"callback"}] /\ holders \in [Requests -> SUBSET Holders]
  BY DEF CompleteOk, TypeOK
<1> QED
  BY <1>1, <1>2 DEF HeldBy

(* The references have different names. *)
LEMMA HolderNames ==
  ASSUME NEW c \in Consumers, NEW d \in Consumers
  PROVE  /\ HandOf[c] # QueueOf[d] /\ HandOf[c] # "callback" /\ QueueOf[c] # "callback"
         /\ HandOf[c] # "pipeline" /\ QueueOf[c] # "pipeline"
         /\ c # d => HandOf[c] # HandOf[d] /\ QueueOf[c] # QueueOf[d]
BY DEF Consumers, HandOf, QueueOf

(* Steps that leave the references and the queues alone, and no thread     *)
(* without the frame in its hand.                                          *)
LEMMA NoFrameMoves ==
  ASSUME FramesInHand, UNCHANGED <<holders, closed>>,
         callback' = "idle" => callback = "idle",
         \A c \in Consumers : thread'[c] # "frame" => thread[c] # "frame"
  PROVE  FramesInHand'
<1>1. \A h : HeldBy(h)' = HeldBy(h)
  BY DEF HeldBy
<1> QED
  BY <1>1 DEF FramesInHand, FrameInCallback, FrameInHand, FrameInQueue, HeldOnce

(* A place that no reference was added to, and one that got its only one. *)
LEMMA KeepsOnce ==
  ASSUME NEW h, HeldOnce(h), HeldBy(h)' \subseteq HeldBy(h) PROVE HeldOnce(h)'
BY DEF HeldOnce

LEMMA GetsOnce ==
  ASSUME NEW h, NEW r, HeldBy(h)' \subseteq {r} PROVE HeldOnce(h)'
BY DEF HeldOnce

LEMMA DropsLast ==
  ASSUME NEW h, HeldOnce(h), NEW r \in HeldBy(h), HeldBy(h)' = HeldBy(h) \ {r}
  PROVE  HeldBy(h)' = {}
BY DEF HeldOnce

LEMMA ReferenceStepFrames ==
  ASSUME TypeOK, FramesInHand, ReferenceStep PROVE FramesInHand'
<1>0. holders \in [Requests -> SUBSET Holders] /\ "encoder" \in Consumers
      /\ closed \in [Consumers -> BOOLEAN]
      /\ thread \in [Consumers -> {"wait", "frame", "exited"}]
      /\ HandOf["encoder"] = "encoder_hand"
  BY DEF TypeOK, Consumers, HandOf
<1> SUFFICES ASSUME NEW d \in Consumers
             PROVE  FrameInCallback' /\ FrameInHand(d)' /\ FrameInQueue(d)'
  BY <1>0 DEF FramesInHand
<1>a. FrameInCallback /\ FrameInHand(d) /\ FrameInQueue(d)
  BY DEF FramesInHand
<1> DEFINE Goal == FrameInCallback' /\ FrameInHand(d)' /\ FrameInQueue(d)'
<1>b. ASSUME UNCHANGED callback, HeldBy("callback")' = HeldBy("callback")
      PROVE  FrameInCallback'
  BY <1>a, <1>b, KeepsOnce DEF FrameInCallback
<1>c. ASSUME thread'[d] = thread[d], HeldBy(HandOf[d])' = HeldBy(HandOf[d])
      PROVE  FrameInHand(d)'
  BY <1>a, <1>c, KeepsOnce DEF FrameInHand
<1>d. ASSUME closed'[d] = closed[d], HeldBy(QueueOf[d])' = HeldBy(QueueOf[d])
      PROVE  FrameInQueue(d)'
  BY <1>a, <1>d, KeepsOnce DEF FrameInQueue
<1>1. ASSUME NEW c \in Consumers, SubmitPush(c) PROVE Goal
  <2>1. PICK r \in HeldBy("callback") : Push("camera", c, r)
    BY <1>1 DEF SubmitPush
  <2>2. r \in Requests
    BY DEF HeldBy
  <2>3. callback' # "idle" /\ UNCHANGED <<closed, thread>>
    BY <1>1 DEF SubmitPush, conVars
  <2>4. /\ HeldBy("callback")' = HeldBy("callback")
        /\ HeldBy(HandOf[d])' = HeldBy(HandOf[d])
        /\ d # c => HeldBy(QueueOf[d])' = HeldBy(QueueOf[d])
        /\ HeldBy(QueueOf[c])' = IF closed[c] THEN HeldBy(QueueOf[c]) ELSE {r}
    BY <1>0, <2>1, <2>2, PushHolds, HolderNames
  <2>5. FrameInCallback'
    BY <1>a, <2>3, <2>4, KeepsOnce DEF FrameInCallback
  <2>6. CASE c = d /\ ~closed[c]
    <3>1. HeldBy(QueueOf[d])' \subseteq {r} /\ ~closed'[d]
      BY <2>3, <2>4, <2>6
    <3>2. FrameInQueue(d)'
      BY <3>1, GetsOnce DEF FrameInQueue
    <3> QED
      BY <1>c, <2>3, <2>4, <2>5, <3>2
  <2> QED
    BY <1>c, <1>d, <2>3, <2>4, <2>5, <2>6
<1>2. ASSUME NEW c \in Consumers, ConsumerPop(c) PROVE Goal
  <2>1. PICK r \in HeldBy(QueueOf[c]) :
          holders' = [holders EXCEPT ![r] = (@ \ {QueueOf[c]}) \cup {HandOf[c]}]
    BY <1>2 DEF ConsumerPop
  <2>2. /\ thread[c] = "wait" /\ thread' = [thread EXCEPT ![c] = "frame"]
        /\ UNCHANGED <<callback, closed>>
    BY <1>2 DEF ConsumerPop, camVars
  <2>3. /\ HeldBy("callback")' = HeldBy("callback")
        /\ d # c => /\ HeldBy(QueueOf[d])' = HeldBy(QueueOf[d])
                    /\ HeldBy(HandOf[d])' = HeldBy(HandOf[d])
        /\ HeldBy(QueueOf[c])' = HeldBy(QueueOf[c]) \ {r}
        /\ HeldBy(HandOf[c])' = HeldBy(HandOf[c]) \cup {r}
    <3>1. /\ HeldBy(QueueOf[c])' = HeldBy(QueueOf[c]) \ {r}
          /\ HeldBy(HandOf[c])' = HeldBy(HandOf[c]) \cup {r}
          /\ \A h : h \notin {QueueOf[c], HandOf[c]} => HeldBy(h)' = HeldBy(h)
      <4>1. QueueOf[c] # HandOf[c]
        BY HolderNames
      <4> QED
        BY <1>0, <2>1, <4>1, MoveHolds
    <3> QED
      BY <3>1, HolderNames
  <2>4. thread'[d] = IF d = c THEN "frame" ELSE thread[d]
    BY <1>0, <2>2
  <2>5. CASE c = d
    <3>1. HeldBy(HandOf[d])' \subseteq {r}
      BY <1>a, <2>2, <2>3, <2>5 DEF FrameInHand
    <3>2. FrameInHand(d)'
      BY <2>4, <2>5, <3>1, GetsOnce DEF FrameInHand
    <3>3. FrameInQueue(d)'
      BY <1>a, <2>2, <2>3, <2>5, KeepsOnce DEF FrameInQueue
    <3> QED
      BY <1>b, <2>2, <2>3, <3>2, <3>3
  <2> QED
    BY <1>b, <1>c, <1>d, <2>2, <2>3, <2>4, <2>5
<1>3. ASSUME NEW c \in Consumers, NEW r \in HeldBy(HandOf[c]),
             HeldBy(HandOf[c])' = HeldBy(HandOf[c]) \ {r},
             HeldBy("callback")' = HeldBy("callback"),
             HeldBy(QueueOf[d])' = HeldBy(QueueOf[d]),
             d # c => HeldBy(HandOf[d])' = HeldBy(HandOf[d]),
             thread' = [thread EXCEPT ![c] = "wait"], UNCHANGED <<callback, closed>>
      PROVE  Goal
  <2>1. thread'[d] = IF d = c THEN "wait" ELSE thread[d]
    BY <1>0, <1>3
  <2>2. CASE c = d
    <3>1. HeldBy(HandOf[d])' = {}
      BY <1>a, <1>3, <2>2, DropsLast DEF FrameInHand
    <3>2. FrameInHand(d)'
      BY <3>1, GetsOnce DEF FrameInHand
    <3> QED
      BY <1>b, <1>d, <1>3, <3>2
  <2> QED
    BY <1>b, <1>c, <1>d, <1>3, <2>1, <2>2
<1>4. ASSUME NEW c \in Consumers, ConsumerDone(c) PROVE Goal
  <2>1. PICK r \in HeldBy(HandOf[c]) : Drop(c, HandOf[c], r)
    BY <1>4 DEF ConsumerDone
  <2>2. thread' = [thread EXCEPT ![c] = "wait"] /\ UNCHANGED <<callback, closed>>
    BY <1>4 DEF ConsumerDone, camVars
  <2>3. /\ HeldBy("callback")' = HeldBy("callback")
        /\ HeldBy(QueueOf[d])' = HeldBy(QueueOf[d])
        /\ d # c => HeldBy(HandOf[d])' = HeldBy(HandOf[d])
        /\ HeldBy(HandOf[c])' = HeldBy(HandOf[c]) \ {r}
    BY <1>0, <2>1, DropHolds, HolderNames
  <2> QED
    BY <1>3, <2>1, <2>2, <2>3
<1>5. ASSUME EncoderFeed PROVE Goal
  <2>1. PICK r \in HeldBy(HandOf["encoder"]) :
          holders' = [holders EXCEPT ![r] = (@ \ {HandOf["encoder"]}) \cup {"pipeline"}]
    BY <1>0, <1>5 DEF EncoderFeed
  <2>2. thread' = [thread EXCEPT !["encoder"] = "wait"] /\ UNCHANGED <<callback, closed>>
    BY <1>5 DEF EncoderFeed, camVars
  <2>3. /\ HeldBy("callback")' = HeldBy("callback")
        /\ HeldBy(QueueOf[d])' = HeldBy(QueueOf[d])
        /\ d # "encoder" => HeldBy(HandOf[d])' = HeldBy(HandOf[d])
        /\ HeldBy(HandOf["encoder"])' = HeldBy(HandOf["encoder"]) \ {r}
    <3>1. /\ HeldBy(HandOf["encoder"])' = HeldBy(HandOf["encoder"]) \ {r}
          /\ \A h : h \notin {HandOf["encoder"], "pipeline"} => HeldBy(h)' = HeldBy(h)
      <4>1. HandOf["encoder"] # "pipeline"
        BY <1>0
      <4> QED
        BY <1>0, <2>1, <4>1, MoveHolds
    <3> QED
      BY <1>0, <3>1, HolderNames
  <2> QED
    BY <1>0, <1>3, <2>1, <2>2, <2>3
<1>6. ASSUME CallbackReturn PROVE Goal
  <2>1. PICK r \in HeldBy("callback") : Drop("camera", "callback", r)
    BY <1>6 DEF CallbackReturn
  <2>2. UNCHANGED <<closed, thread>>
    BY <1>6 DEF CallbackReturn, conVars
  <2>3. /\ HeldBy("callback")' = HeldBy("callback") \ {r}
        /\ HeldBy(QueueOf[d])' = HeldBy(QueueOf[d])
        /\ HeldBy(HandOf[d])' = HeldBy(HandOf[d])
    BY <1>0, <2>1, DropHolds, HolderNames
  <2>4. HeldBy("callback")' = {}
    BY <1>a, <2>3, DropsLast DEF FrameInCallback
  <2>5. FrameInCallback'
    BY <2>4, GetsOnce DEF FrameInCallback
  <2> QED
    BY <1>c, <1>d, <2>2, <2>3, <2>5
<1>7. ASSUME PipelineDone \/ ReleasePipeline PROVE Goal
  <2>1. PICK t : \E r \in HeldBy("pipeline") : Drop(t, "pipeline", r)
    BY <1>7 DEF PipelineDone, ReleasePipeline
  <2>2. UNCHANGED <<callback, closed, thread>>
    BY <1>7 DEF PipelineDone, ReleasePipeline, camVars, conVars
  <2>3. /\ HeldBy("callback")' = HeldBy("callback")
        /\ HeldBy(QueueOf[d])' = HeldBy(QueueOf[d])
        /\ HeldBy(HandOf[d])' = HeldBy(HandOf[d])
    BY <1>0, <2>1, DropHolds, HolderNames
  <2> QED
    BY <1>b, <1>c, <1>d, <2>2, <2>3
<1>8. ASSUME NEW t, NEW c \in Consumers, ClearQueue(t, c),
             UNCHANGED <<callback, thread>>, d # c => closed'[d] = closed[d]
      PROVE  Goal
  <2>1. /\ HeldBy("callback")' = HeldBy("callback")
        /\ d # c => HeldBy(QueueOf[d])' = HeldBy(QueueOf[d])
        /\ HeldBy(QueueOf[c])' = {}
        /\ HeldBy(HandOf[d])' = HeldBy(HandOf[d])
    BY <1>0, <1>8, ClearHolds, HolderNames
  <2>2. CASE d = c
    <3>1. FrameInQueue(d)'
      BY <2>1, <2>2, GetsOnce DEF FrameInQueue
    <3> QED
      BY <1>b, <1>c, <1>8, <2>1, <3>1
  <2> QED
    BY <1>b, <1>c, <1>d, <1>8, <2>1, <2>2
<1>9. ASSUME BusClose \/ EncoderReopen PROVE Goal
  <2>1. PICK t : ClearQueue(t, "encoder")
    BY <1>9 DEF BusClose, EncoderReopen, Close, Reopen
  <2>2. UNCHANGED <<callback, thread>>
    BY <1>9 DEF BusClose, EncoderReopen, camVars
  <2>3. d # "encoder" => closed'[d] = closed[d]
    BY <1>0, <1>9 DEF BusClose, EncoderReopen, Close, Reopen
  <2> QED
    BY <1>0, <1>8, <2>1, <2>2, <2>3
<1>10. ASSUME CloseConsumer PROVE Goal
  <2> DEFINE c == Closing[main]
  <2>1. c \in Consumers
    BY <1>10 DEF CloseConsumer, Closing, Consumers
  <2>2. ClearQueue("main", c) /\ closed' = [closed EXCEPT ![c] = TRUE]
    BY <1>10 DEF CloseConsumer, Close
  <2>3. UNCHANGED <<callback, thread>>
    BY <1>10 DEF CloseConsumer, camVars
  <2> HIDE DEF c
  <2>4. d # c => closed'[d] = closed[d]
    BY <1>0, <2>2
  <2> QED
    BY <1>8, <2>1, <2>2, <2>3, <2>4
<1> QED
  BY <1>1, <1>2, <1>4, <1>5, <1>6, <1>7, <1>9, <1>10 DEF ReferenceStep

LEMMA FramesStep ==
  ASSUME TypeOK, RequestInOnePlace, FramesInHand, ShutdownOrder, [Next]_vars
  PROVE  FramesInHand'
<1>0. thread \in [Consumers -> {"wait", "frame", "exited"}]
  BY DEF TypeOK
<1>1. ASSUME NEW r \in Requests, CompleteOk(r) PROVE FramesInHand'
  <2>1. /\ callback = "idle" /\ callback' # "idle" /\ UNCHANGED <<closed, thread>>
    BY <1>1 DEF CompleteOk, CameraFree, conVars
  <2> QED
    BY <1>1, <2>1, CompleteHolds, HolderNames
       DEF FramesInHand, FrameInCallback, FrameInHand, FrameInQueue, HeldOnce
<1>2. CASE /\ LeaseStep
           /\ ~\E r \in Requests : CompleteOk(r)
  <2>1. UNCHANGED <<holders, closed, callback, thread>>
    BY <1>2 DEF LeaseStep, CompleteError, ReleaseCount, ReleasePush, camVars, conVars
  <2> QED
    BY <2>1, NoFrameMoves
<1>3. CASE ReferenceStep
  BY <1>3, ReferenceStepFrames
<1>4. CASE RequestStep
  <2>1. UNCHANGED <<holders, closed, callback, thread>>
    BY <1>4 DEF RequestStep, CompleteStopping, RecyclerTest, RecyclerRequeue,
       RecyclerLoses, CameraQueue, StopLibcamera, JoinRecycler, camVars,
       leaseVars, conVars
  <2> QED
    BY <2>1, NoFrameMoves
<1>5. CASE ControlStep
  <2> USE DEF ControlStep, Submit, ConsumerStops, ConsumerClosed, RecyclerBlock,
       SpuriousWake, BusError, BusExit, CameraStart, CameraStartFails, Exit,
       Recover, EncoderRestart, EncoderPlaying, EncoderRecovered, StopFlag,
       StopRecycler, NotifyRecycler, StopConsumer, JoinInference, JoinEncoder,
       EncoderStopped, vars, camVars, leaseVars, recVars, conVars, mainVars
  <2>1. UNCHANGED <<holders, closed>> /\ (callback' = "idle" => callback = "idle")
    BY <1>5
  <2>2. \A c \in Consumers : thread'[c] # "frame" => thread[c] # "frame"
    <3>1. main = "start_pipeline" => thread["encoder"] = "exited"
      BY DEF ShutdownOrder
    <3> QED
      BY <1>0, <1>5, <3>1
  <2> HIDE DEF ControlStep
  <2> QED
    BY <2>1, <2>2, NoFrameMoves
<1> QED
  BY <1>1, <1>2, <1>3, <1>4, <1>5, StepKinds

-----------------------------------------------------------------------------
(* The threads, and the order in which main() ends them.                   *)

LEMMA UnrefBusy ==
  ASSUME NEW t, NEW S, Unref(t, S), NEW u, u # t, Busy(u)'
  PROVE  Busy(u)
BY DEF Unref, Releasing, Busy

LEMMA DropBusy ==
  ASSUME TypeOK, NEW t, NEW h, NEW r \in HeldBy(h), Drop(t, h, r)
  PROVE  \A u : u # t /\ Busy(u)' => Busy(u)
<1>1. PICK S : Unref(t, S)
  BY DropUnrefs DEF TypeOK
<1> QED
  BY <1>1, UnrefBusy

LEMMA ClearBusy ==
  ASSUME TypeOK, NEW t, NEW c \in Consumers, ClearQueue(t, c)
  PROVE  \A u : u # t /\ Busy(u)' => Busy(u)
<1>1. PICK S : Unref(t, S)
  BY ClearUnrefs DEF TypeOK
<1> QED
  BY <1>1, UnrefBusy

LEMMA PushBusy ==
  ASSUME TypeOK, NEW t, NEW c \in Consumers, NEW r \in HeldBy("callback"),
         Push(t, c, r)
  PROVE  \A u : u # t /\ Busy(u)' => Busy(u)
<1>1. PICK S : Unref(t, S)
  BY PushUnrefs DEF TypeOK
<1> QED
  BY <1>1, UnrefBusy

(* Once main() is done, nobody has a reference to move or drop. *)
LEMMA DoneMovesNothing ==
  ASSUME TypeOK, ShutdownOrder, main = "done" PROVE ~ReferenceStep
<1>1. /\ callback = "idle" /\ HeldBy("pipeline") = {} /\ bus = "exited"
      /\ \A c \in Consumers : thread[c] = "exited"
  BY DEF ShutdownOrder, CameraGone, InferenceGone, Consumers
<1> QED
  BY <1>1 DEF ReferenceStep, SubmitPush, ConsumerPop, ConsumerDone,
       CallbackReturn, EncoderFeed, PipelineDone, BusClose, EncoderReopen,
       CloseConsumer, ReleasePipeline, Consumers, Closing

LEMMA ReferenceStepOrder ==
  ASSUME TypeOK, ThreadsQuiet, ShutdownOrder, ReferenceStep
  PROVE  ThreadsQuiet' /\ ShutdownOrder'
<1>0. main # "done" /\ "encoder" \in Consumers /\ "inference" \in Consumers
      /\ closed \in [Consumers -> BOOLEAN]
      /\ thread \in [Consumers -> {"wait", "frame", "exited"}]
  BY DoneMovesNothing DEF TypeOK, Consumers
<1>a. UNCHANGED <<camera>>
  BY ReferenceStepKeeps
<1> USE DEF ThreadsQuiet, ShutdownOrder, CameraGone, InferenceGone
<1>1. ASSUME NEW c \in Consumers, SubmitPush(c)
      PROVE  ThreadsQuiet' /\ ShutdownOrder'
  <2>1. \A u : u # "camera" /\ Busy(u)' => Busy(u)
    BY <1>1, PushBusy DEF SubmitPush
  <2>2. callback # "idle" /\ UNCHANGED <<thread, closed, bus, main, exiting>>
    BY <1>1 DEF SubmitPush, conVars, mainVars
  <2> QED
    BY <1>0, <1>a, <2>1, <2>2 DEF Consumers
<1>2. ASSUME CallbackReturn PROVE ThreadsQuiet' /\ ShutdownOrder'
  <2>1. \A u : u # "camera" /\ Busy(u)' => Busy(u)
    BY <1>2, DropBusy DEF CallbackReturn
  <2>2. callback # "idle" /\ UNCHANGED <<thread, closed, bus, main, exiting>>
    BY <1>2 DEF CallbackReturn, conVars, mainVars
  <2> QED
    BY <1>0, <1>a, <2>1, <2>2 DEF Consumers
<1>3. ASSUME NEW c \in Consumers, ConsumerPop(c)
      PROVE  ThreadsQuiet' /\ ShutdownOrder'
  <2>1. \A u : Busy(u)' => Busy(u)
    BY <1>3 DEF ConsumerPop, Busy
  <2>2. /\ thread[c] = "wait" /\ thread' = [thread EXCEPT ![c] = "frame"]
        /\ UNCHANGED <<callback, closed, bus, main, exiting>>
    BY <1>3 DEF ConsumerPop, camVars, mainVars
  <2>3. \A d \in Consumers : thread'[d] = "exited" <=> thread[d] = "exited"
    BY <1>0, <2>2
  <2> QED
    BY <1>0, <1>a, <2>1, <2>2, <2>3
<1>4. ASSUME NEW c \in Consumers, ConsumerDone(c)
      PROVE  ThreadsQuiet' /\ ShutdownOrder'
  <2>1. \A u : u # c /\ Busy(u)' => Busy(u)
    BY <1>4, DropBusy DEF ConsumerDone
  <2>2. /\ thread[c] = "frame" /\ thread' = [thread EXCEPT ![c] = "wait"]
        /\ UNCHANGED <<callback, closed, bus, main, exiting>>
    BY <1>4 DEF ConsumerDone, camVars, mainVars
  <2>3. /\ \A d \in Consumers : thread'[d] = "exited" <=> thread[d] = "exited"
        /\ thread'[c] # "exited"
    BY <1>0, <2>2
  <2>4. c \notin {"bus", "main", "camera", "pipeline"}
    BY DEF Consumers
  <2> QED
    BY <1>0, <1>a, <2>1, <2>2, <2>3, <2>4
<1>5. ASSUME EncoderFeed PROVE ThreadsQuiet' /\ ShutdownOrder'
  <2>1. \A u : Busy(u)' => Busy(u)
    BY <1>5 DEF EncoderFeed, Busy
  <2>2. /\ thread["encoder"] = "frame" /\ thread' = [thread EXCEPT !["encoder"] = "wait"]
        /\ UNCHANGED <<callback, closed, bus, main, exiting>>
    BY <1>5 DEF EncoderFeed, camVars, mainVars
  <2>3. \A d \in Consumers : thread'[d] = "exited" <=> thread[d] = "exited"
    BY <1>0, <2>2
  <2> QED
    BY <1>0, <1>a, <2>1, <2>2, <2>3
<1>6. ASSUME PipelineDone PROVE ThreadsQuiet' /\ ShutdownOrder'
  <2>1. \A u : u # "pipeline" /\ Busy(u)' => Busy(u)
    BY <1>6, DropBusy DEF PipelineDone
  <2>2. UNCHANGED <<callback, thread, closed, bus, main, exiting>>
    BY <1>6 DEF PipelineDone, camVars, conVars, mainVars
  <2> QED
    BY <1>0, <1>a, <2>1, <2>2 DEF Consumers
<1>7. ASSUME BusClose PROVE ThreadsQuiet' /\ ShutdownOrder'
  <2>1. \A u : u # "bus" /\ Busy(u)' => Busy(u)
    BY <1>0, <1>7, ClearBusy DEF BusClose, Close
  <2>2. bus = "close" /\ bus' = "watch" /\ UNCHANGED <<callback, thread, main, exiting>>
    BY <1>7 DEF BusClose, camVars, mainVars
  <2>3. closed'["encoder"] /\ closed'["inference"] = closed["inference"]
    BY <1>0, <1>7 DEF BusClose, Close
  <2> QED
    BY <1>0, <1>a, <2>1, <2>2, <2>3 DEF Consumers
<1>8. ASSUME EncoderReopen PROVE ThreadsQuiet' /\ ShutdownOrder'
  <2>1. \A u : u # "main" /\ Busy(u)' => Busy(u)
    BY <1>0, <1>8, ClearBusy DEF EncoderReopen, Reopen
  <2>2. /\ main = "reopen_queue" /\ main' = "start_pipeline"
        /\ UNCHANGED <<callback, thread, bus, exiting>>
    BY <1>8 DEF EncoderReopen, camVars
  <2> QED
    BY <1>0, <1>a, <2>1, <2>2 DEF Consumers
<1>9. ASSUME CloseConsumer PROVE ThreadsQuiet' /\ ShutdownOrder'
  <2>1. \A u : u # "main" /\ Busy(u)' => Busy(u)
    BY <1>0, <1>9, ClearBusy DEF CloseConsumer, Close, Closing
  <2>2. UNCHANGED <<callback, thread, bus, exiting>>
    BY <1>9 DEF CloseConsumer, camVars
  <2>3. \/ /\ main = "close_inference" /\ main' = "join_inference"
           /\ closed' = [closed EXCEPT !["inference"] = TRUE]
        \/ /\ main = "close_encoder" /\ main' = "join_encoder"
           /\ closed' = [closed EXCEPT !["encoder"] = TRUE]
    <3>1. main \in {"close_inference", "close_encoder"}
      BY <1>9 DEF CloseConsumer, Closing
    <3>2. /\ Closing["close_inference"] = "inference"
          /\ Closing["close_encoder"] = "encoder"
      BY DEF Closing
    <3>3. /\ closed' = [closed EXCEPT ![Closing[main]] = TRUE]
          /\ main' = IF main = "close_inference" THEN "join_inference"
                     ELSE "join_encoder"
      BY <1>9 DEF CloseConsumer, Close
    <3> QED
      BY <3>1, <3>2, <3>3
  <2>4. CASE main = "close_inference"
    BY <1>0, <1>a, <2>1, <2>2, <2>3, <2>4 DEF Consumers
  <2>5. CASE main = "close_encoder"
    <3>1. closed'["encoder"] /\ closed'["inference"] = closed["inference"]
      BY <1>0, <2>3, <2>5
    <3> QED
      BY <1>0, <1>a, <2>1, <2>2, <2>3, <2>5, <3>1 DEF Consumers
  <2> QED
    BY <2>3, <2>4, <2>5
<1>10. ASSUME ReleasePipeline PROVE ThreadsQuiet' /\ ShutdownOrder'
  <2>1. \A u : u # "main" /\ Busy(u)' => Busy(u)
    BY <1>10, DropBusy DEF ReleasePipeline
  <2>2. main = "release_pipeline" /\ UNCHANGED <<callback, thread, closed, bus, main, exiting>>
    BY <1>10 DEF ReleasePipeline, camVars, conVars, mainVars
  <2> QED
    BY <1>0, <1>a, <2>1, <2>2 DEF Consumers
<1> QED
  BY <1>1, <1>2, <1>3, <1>4, <1>5, <1>6, <1>7, <1>8, <1>9, <1>10
     DEF ReferenceStep

LEMMA LeaseStepOrder ==
  ASSUME TypeOK, ThreadsQuiet, ShutdownOrder, LeaseStep
  PROVE  ThreadsQuiet' /\ ShutdownOrder'
<1> USE DEF ThreadsQuiet, ShutdownOrder, CameraGone, InferenceGone
<1>1. ASSUME NEW r \in Requests, CompleteOk(r) \/ CompleteError(r)
      PROVE  ThreadsQuiet' /\ ShutdownOrder'
  <2>1. /\ camera = "running" /\ UNCHANGED <<camera, thread, closed, bus, main, exiting>>
    BY <1>1 DEF CompleteOk, CompleteError, conVars, mainVars
  <2>2. \A u : u # "camera" /\ Busy(u)' => Busy(u)
    BY <1>1 DEF CompleteOk, CompleteError, Busy
  <2> QED
    BY <2>1, <2>2 DEF Consumers
<1>2. ASSUME NEW x \in releasing, ReleaseCount(x) \/ ReleasePush(x)
      PROVE  ThreadsQuiet' /\ ShutdownOrder'
  <2>1. UNCHANGED <<camera, callback, holders, thread, closed, bus, main, exiting>>
    BY <1>2 DEF ReleaseCount, ReleasePush, camVars, conVars, mainVars
  <2>2. [x EXCEPT !.at = "push"].by = x.by
    BY DEF TypeOK
  <2>3. \A u : Busy(u)' => Busy(u)
    <3> DEFINE y == [x EXCEPT !.at = "push"]
    <3>1. releasing' \subseteq releasing \cup {y}
      BY <1>2 DEF ReleaseCount, ReleasePush
    <3>2. y.by = x.by
      BY <2>2
    <3> HIDE DEF y
    <3> QED
      BY <3>1, <3>2 DEF Busy
  <2>4. HeldBy("pipeline")' = HeldBy("pipeline")
    BY <2>1 DEF HeldBy
  <2> QED
    BY <2>1, <2>3, <2>4
<1> QED
  BY <1>1, <1>2 DEF LeaseStep

(* The steps of main() and of the threads that leave leases alone. *)
LEMMA ControlStepOrder ==
  ASSUME TypeOK, ThreadsQuiet, ShutdownOrder, RequestStep \/ ControlStep
  PROVE  ThreadsQuiet' /\ ShutdownOrder'
<1>0. /\ thread \in [Consumers -> {"wait", "frame", "exited"}]
      /\ "encoder" \in Consumers /\ "inference" \in Consumers
      /\ exiting \in BOOLEAN
  BY DEF TypeOK, Consumers
<1>a. UNCHANGED <<holders, releasing, closed>>
  BY ControlStepKeeps
     DEF RequestStep, CompleteStopping, RecyclerTest, RecyclerRequeue,
         RecyclerLoses, CameraQueue, StopLibcamera, JoinRecycler,
         ControlStep, Submit, ConsumerStops, ConsumerClosed, RecyclerBlock,
         SpuriousWake, BusError, BusExit, CameraStart, CameraStartFails, Exit,
         Recover, EncoderRestart, EncoderPlaying, EncoderRecovered, StopFlag,
         StopRecycler, NotifyRecycler, StopConsumer, JoinInference, JoinEncoder,
         EncoderStopped, vars, leaseVars, conVars
<1>b. (\A u : Busy(u)' <=> Busy(u)) /\ HeldBy("pipeline")' = HeldBy("pipeline")
  BY <1>a DEF Busy, HeldBy
<1> USE DEF ThreadsQuiet, ShutdownOrder, CameraGone, InferenceGone
<1>1. ASSUME UNCHANGED <<camera, callback, thread, bus, main, exiting>>
      PROVE  ThreadsQuiet' /\ ShutdownOrder'
  BY <1>a, <1>b, <1>1
<1>2. ASSUME \/ \E r \in Requests : CompleteStopping(r)
             \/ RecyclerTest \/ RecyclerRequeue \/ RecyclerLoses
             \/ RecyclerBlock \/ SpuriousWake \/ UNCHANGED vars
      PROVE  ThreadsQuiet' /\ ShutdownOrder'
  BY <1>1, <1>2 DEF CompleteStopping, RecyclerTest, RecyclerRequeue,
       RecyclerLoses, RecyclerBlock, SpuriousWake, camVars, conVars, mainVars, vars
<1>3. ASSUME NEW c \in Consumers, Submit(c) PROVE ThreadsQuiet' /\ ShutdownOrder'
  <2>1. callback # "idle" /\ UNCHANGED <<camera, thread, bus, main, exiting>>
    BY <1>3 DEF Submit, conVars, mainVars
  <2> QED
    BY <1>a, <1>b, <2>1
<1>4. ASSUME NEW c \in Consumers, ConsumerStops(c) \/ ConsumerClosed(c)
      PROVE  ThreadsQuiet' /\ ShutdownOrder'
  <2>1. /\ thread' = [thread EXCEPT ![c] = "exited"] /\ ~Busy(c)
        /\ UNCHANGED <<camera, callback, bus, main, exiting>>
    BY <1>4 DEF ConsumerStops, ConsumerClosed, camVars, mainVars
  <2>2. \A d \in Consumers : thread'[d] = IF d = c THEN "exited" ELSE thread[d]
    BY <1>0, <2>1
  <2> QED
    BY <1>0, <1>a, <1>b, <2>1, <2>2
<1>5. ASSUME BusError \/ BusExit PROVE ThreadsQuiet' /\ ShutdownOrder'
  <2>1. /\ bus = "watch" /\ (bus' = "close" \/ (bus' = "exited" /\ ~Busy("bus")))
        /\ UNCHANGED <<camera, callback, thread, main, exiting>>
    <3>1. CASE BusError
      BY <3>1 DEF BusError, camVars, mainVars
    <3>2. CASE BusExit
      BY <3>2, Zenon DEF BusExit, camVars, mainVars
    <3> QED
      BY <1>5, <3>1, <3>2
  <2> QED
    BY <1>a, <1>b, <2>1
<1>6. ASSUME CameraStart \/ CameraQueue PROVE ThreadsQuiet' /\ ShutdownOrder'
  <2>1. /\ \/ main = "start" /\ main' = "queue"
           \/ main = "queue" /\ main' \in {"queue", "run"} /\ UNCHANGED camera
        /\ UNCHANGED <<callback, thread, bus, exiting>>
    BY <1>6 DEF CameraStart, CameraQueue, conVars
  <2> QED
    BY <1>a, <1>b, <2>1
<1>7. ASSUME CameraStartFails \/ Exit PROVE ThreadsQuiet' /\ ShutdownOrder'
  <2>1. /\ \/ main = "start" /\ main' = "stop_inference"
           \/ main \in {"queue", "run"} /\ main' = "stop_camera"
        /\ exiting' = TRUE /\ UNCHANGED <<camera, callback, thread, bus>>
    BY <1>7 DEF CameraStartFails, Exit, camVars, conVars
  <2> QED
    BY <1>a, <1>b, <2>1
<1>8. ASSUME Recover \/ EncoderRecovered PROVE ThreadsQuiet' /\ ShutdownOrder'
  <2>1. /\ \/ main = "run" /\ main' = "stop_encoder" /\ UNCHANGED exiting
           \/ main = "wait_frame" /\ main' = "run" /\ UNCHANGED exiting
           \/ main = "wait_frame" /\ main' = "stop_camera" /\ exiting' = TRUE
        /\ UNCHANGED <<camera, callback, thread, bus>>
    BY <1>8 DEF Recover, EncoderRecovered, camVars, conVars
  <2> QED
    BY <1>a, <1>b, <2>1
<1>9. ASSUME EncoderRestart PROVE ThreadsQuiet' /\ ShutdownOrder'
  <2>1. /\ main = "restart_encoder"
        /\ \/ main' = "reopen_queue" /\ UNCHANGED exiting
           \/ main' = "stop_camera" /\ exiting' = TRUE
        /\ UNCHANGED <<camera, callback, thread, bus>>
    BY <1>9 DEF EncoderRestart, camVars
  <2> QED
    BY <1>a, <1>b, <2>1
<1>10. ASSUME EncoderPlaying PROVE ThreadsQuiet' /\ ShutdownOrder'
  <2>1. /\ main = "start_pipeline" /\ ~Busy("main") /\ UNCHANGED <<camera, callback>>
        /\ \/ /\ thread' = [thread EXCEPT !["encoder"] = "wait"]
              /\ bus' = "watch" /\ main' = "wait_frame" /\ UNCHANGED exiting
           \/ main' = "stop_camera" /\ exiting' = TRUE /\ UNCHANGED <<thread, bus>>
    BY <1>10 DEF EncoderPlaying, camVars
  <2>2. \A d \in Consumers : thread'[d] = "exited" => thread[d] = "exited"
    BY <1>0, <2>1
  <2> QED
    BY <1>a, <1>b, <2>1, <2>2
<1>11. ASSUME StopFlag \/ StopRecycler \/ NotifyRecycler
       PROVE  ThreadsQuiet' /\ ShutdownOrder'
  <2>1. /\ main \in {"stop_camera", "stop_recycler", "notify_recycler"}
        /\ main' \in {"stop_recycler", "notify_recycler", "stop_libcamera"}
        /\ UNCHANGED <<camera, callback, thread, bus, exiting>>
    BY <1>11 DEF StopFlag, StopRecycler, NotifyRecycler, camVars, conVars
  <2> QED
    BY <1>a, <1>b, <2>1
<1>12. ASSUME StopLibcamera PROVE ThreadsQuiet' /\ ShutdownOrder'
  <2>1. /\ main = "stop_libcamera" /\ main' = "join_recycler"
        /\ camera' = "stopped" /\ callback = "idle" /\ ~Busy("camera")
        /\ UNCHANGED <<callback, thread, bus, exiting>>
    BY <1>12 DEF StopLibcamera, CameraFree, conVars
  <2> QED
    BY <1>a, <1>b, <2>1
<1>13. ASSUME JoinRecycler PROVE ThreadsQuiet' /\ ShutdownOrder'
  <2>1. /\ main = "join_recycler" /\ main' = "stop_inference"
        /\ UNCHANGED <<camera, callback, thread, bus, exiting>>
    BY <1>13 DEF JoinRecycler, camVars, conVars
  <2> QED
    BY <1>a, <1>b, <2>1
<1>14. ASSUME StopConsumer PROVE ThreadsQuiet' /\ ShutdownOrder'
  <2>1. /\ \/ main = "stop_inference" /\ main' = "close_inference"
           \/ main = "stop_encoder" /\ main' = "close_encoder"
        /\ UNCHANGED <<camera, callback, thread, bus, exiting>>
    BY <1>14 DEF StopConsumer, Stopping, camVars
  <2> QED
    BY <1>a, <1>b, <2>1
<1>15. ASSUME JoinInference PROVE ThreadsQuiet' /\ ShutdownOrder'
  <2>1. /\ main = "join_inference" /\ main' = "stop_encoder" /\ ~Busy("main")
        /\ thread["inference"] = "exited"
        /\ UNCHANGED <<camera, callback, thread, bus, exiting>>
    BY <1>15 DEF JoinInference, camVars, conVars
  <2> QED
    BY <1>a, <1>b, <2>1
<1>16. ASSUME JoinEncoder PROVE ThreadsQuiet' /\ ShutdownOrder'
  <2>1. /\ main = "join_encoder" /\ main' = "release_pipeline"
        /\ thread["encoder"] = "exited" /\ bus = "exited"
        /\ UNCHANGED <<camera, callback, thread, bus, exiting>>
    BY <1>16 DEF JoinEncoder, camVars, conVars
  <2> QED
    BY <1>a, <1>b, <2>1
<1>17. ASSUME EncoderStopped PROVE ThreadsQuiet' /\ ShutdownOrder'
  <2>1. /\ main = "release_pipeline" /\ ~Busy("main") /\ ~Busy("pipeline")
        /\ HeldBy("pipeline") = {}
        /\ main' = IF exiting THEN "done" ELSE "restart_encoder"
        /\ UNCHANGED <<camera, callback, thread, bus, exiting>>
    BY <1>17 DEF EncoderStopped, camVars, conVars
  <2>2. CASE exiting
    BY <1>a, <1>b, <2>1, <2>2
  <2>3. CASE ~exiting
    BY <1>a, <1>b, <2>1, <2>3
  <2> QED
    BY <2>2, <2>3
<1> QED
  BY <1>2, <1>3, <1>4, <1>5, <1>6, <1>7, <1>8, <1>9, <1>10, <1>11, <1>12,
     <1>13, <1>14, <1>15, <1>16, <1>17 DEF RequestStep, ControlStep

-----------------------------------------------------------------------------
(* The reserve.                                                            *)

LEMMA EncoderHeldBy ==
  EncoderHeld = HeldBy("encoder_queue") \cup HeldBy("encoder_hand") \cup HeldBy("pipeline")
BY DEF EncoderHeld, EncoderHolders, HeldBy

LEMMA EncoderHeldByNext ==
  EncoderHeld' = HeldBy("encoder_queue")' \cup HeldBy("encoder_hand")' \cup HeldBy("pipeline")'
BY DEF EncoderHeld, EncoderHolders, HeldBy

(* Only submit() gives the encoder one more. *)
LEMMA EncoderHeldStep ==
  ASSUME TypeOK, RequestInOnePlace, [Next]_vars, ~SubmitPush("encoder")
  PROVE  EncoderHeld' \subseteq EncoderHeld
<1>0. holders \in [Requests -> SUBSET Holders] /\ "encoder" \in Consumers
      /\ HandOf["encoder"] = "encoder_hand" /\ QueueOf["encoder"] = "encoder_queue"
      /\ HandOf["inference"] = "inference_hand" /\ QueueOf["inference"] = "inference_queue"
  BY DEF TypeOK, Consumers, HandOf, QueueOf
<1> DEFINE Goal == EncoderHeld' \subseteq EncoderHeld
<1>a. ASSUME \A h : h \in EncoderHolders => HeldBy(h)' \subseteq HeldBy(h)
      PROVE  Goal
  BY <1>a, EncoderHeldBy, EncoderHeldByNext DEF EncoderHolders
<1>1. ASSUME NEW r \in Requests, CompleteOk(r) PROVE Goal
  BY <1>1, <1>a, CompleteHolds DEF EncoderHolders
<1>2. CASE /\ LeaseStep
           /\ ~\E r \in Requests : CompleteOk(r)
  <2>1. UNCHANGED holders
    BY <1>2 DEF LeaseStep, CompleteError, ReleaseCount, ReleasePush
  <2> QED
    BY <2>1 DEF EncoderHeld
<1>3. ASSUME NEW c \in Consumers, SubmitPush(c) PROVE Goal
  <2>1. c = "inference"
    BY <1>3 DEF Consumers
  <2>2. PICK r \in HeldBy("callback") : Push("camera", "inference", r)
    BY <1>3, <2>1 DEF SubmitPush
  <2>3. r \in Requests
    BY DEF HeldBy
  <2>4. \A h : h # "inference_queue" => HeldBy(h)' = HeldBy(h)
    BY <1>0, <2>1, <2>2, <2>3, PushHolds
  <2> QED
    BY <1>a, <2>4 DEF EncoderHolders
<1>4. ASSUME NEW c \in Consumers, ConsumerPop(c) PROVE Goal
  <2>1. PICK r \in HeldBy(QueueOf[c]) :
          holders' = [holders EXCEPT ![r] = (@ \ {QueueOf[c]}) \cup {HandOf[c]}]
    BY <1>4 DEF ConsumerPop
  <2>2. QueueOf[c] # HandOf[c]
    BY HolderNames
  <2>3. /\ HeldBy(QueueOf[c])' = HeldBy(QueueOf[c]) \ {r}
        /\ HeldBy(HandOf[c])' = HeldBy(HandOf[c]) \cup {r}
        /\ \A h : h \notin {QueueOf[c], HandOf[c]} => HeldBy(h)' = HeldBy(h)
    BY <1>0, <2>1, <2>2, MoveHolds
  <2>4. CASE c = "encoder"
    BY <1>0, <2>1, <2>3, <2>4, EncoderHeldBy, EncoderHeldByNext
  <2>5. CASE c = "inference"
    BY <1>0, <1>a, <2>3, <2>5 DEF EncoderHolders
  <2> QED
    BY <2>4, <2>5 DEF Consumers
<1>5. ASSUME EncoderFeed PROVE Goal
  <2>1. PICK r \in HeldBy("encoder_hand") :
          holders' = [holders EXCEPT ![r] = (@ \ {"encoder_hand"}) \cup {"pipeline"}]
    BY <1>5 DEF EncoderFeed
  <2>2. /\ HeldBy("encoder_hand")' = HeldBy("encoder_hand") \ {r}
        /\ HeldBy("pipeline")' = HeldBy("pipeline") \cup {r}
        /\ \A h : h \notin {"encoder_hand", "pipeline"} => HeldBy(h)' = HeldBy(h)
    BY <1>0, <2>1, MoveHolds
  <2> QED
    BY <2>1, <2>2, EncoderHeldBy, EncoderHeldByNext
<1>6. ASSUME NEW t, NEW h, NEW r \in HeldBy(h), Drop(t, h, r) PROVE Goal
  BY <1>0, <1>6, <1>a, DropHolds
<1>7. ASSUME NEW t, NEW c \in Consumers, ClearQueue(t, c) PROVE Goal
  BY <1>0, <1>7, <1>a, ClearHolds
<1>8. CASE ReferenceStep
  <2>1. ASSUME NEW c \in Consumers, ConsumerDone(c) PROVE Goal
    BY <1>6, <2>1 DEF ConsumerDone
  <2>2. CASE CallbackReturn \/ PipelineDone \/ ReleasePipeline
    BY <1>6, <2>2 DEF CallbackReturn, PipelineDone, ReleasePipeline
  <2>3. CASE BusClose \/ EncoderReopen
    BY <1>0, <1>7, <2>3 DEF BusClose, EncoderReopen, Close, Reopen
  <2>4. CASE CloseConsumer
    BY <1>7, <2>4 DEF CloseConsumer, Close, Closing, Consumers
  <2> QED
    BY <1>3, <1>4, <1>5, <1>8, <2>1, <2>2, <2>3, <2>4 DEF ReferenceStep
<1>9. CASE RequestStep \/ ControlStep
  <2>1. UNCHANGED holders
    BY <1>9, ControlStepKeeps
       DEF RequestStep, CompleteStopping, RecyclerTest, RecyclerRequeue,
           RecyclerLoses, CameraQueue, StopLibcamera, JoinRecycler, leaseVars
  <2> QED
    BY <2>1 DEF EncoderHeld
<1> QED
  BY <1>1, <1>2, <1>8, <1>9, StepKinds

(* The lease that is pushed was counted when submit() tested the reserve.  *)
LEMMA ReserveStep ==
  ASSUME TypeOK, TypeOK', RequestInOnePlace, LeasesCounted', ReserveKept, [Next]_vars
  PROVE  ReserveKept'
<1>0. /\ outstanding \in Nat /\ BufferCount \in Nat /\ BufferCount >= 4
      /\ IsFiniteSet(Requests)
  BY PipelineAssumption, FS_CardinalityType DEF TypeOK
<1>1. callback' = "push_encoder" => outstanding' <= BufferCount - 3
  <2>1. CASE LeaseStep
    <3>1. \/ callback' = "submit_encoder"
          \/ callback' = callback /\ outstanding' \in {outstanding, outstanding - 1}
      BY <2>1 DEF LeaseStep, CompleteOk, CompleteError, ReleaseCount, ReleasePush, camVars
    <3> QED
      BY <1>0, <3>1 DEF ReserveKept
  <2>2. CASE ReferenceStep
    <3>1. outstanding' = outstanding
      BY <2>2, ReferenceStepKeeps
    <3>2. callback' # "push_encoder" \/ callback' = callback
      BY <2>2 DEF ReferenceStep, SubmitPush, ConsumerPop, ConsumerDone,
           CallbackReturn, EncoderFeed, PipelineDone, BusClose, EncoderReopen,
           CloseConsumer, ReleasePipeline, camVars
    <3> QED
      BY <3>1, <3>2 DEF ReserveKept
  <2>3. CASE RequestStep
    BY <2>3 DEF RequestStep, CompleteStopping, RecyclerTest, RecyclerRequeue,
         RecyclerLoses, CameraQueue, StopLibcamera, JoinRecycler, camVars,
         leaseVars, ReserveKept
  <2>4. CASE ControlStep
    <3>1. outstanding' = outstanding
      BY <2>4, ControlStepKeeps DEF leaseVars
    <3>2. callback' = callback \/ \E c \in Consumers : Submit(c)
      BY <2>4 DEF ControlStep, ConsumerStops, ConsumerClosed, RecyclerBlock,
           SpuriousWake, BusError, BusExit, CameraStart, CameraStartFails, Exit,
           Recover, EncoderRestart, EncoderPlaying, EncoderRecovered, StopFlag,
           StopRecycler, NotifyRecycler, StopConsumer, JoinInference,
           JoinEncoder, EncoderStopped, vars, camVars
    <3>3. ASSUME NEW c \in Consumers, Submit(c)
          PROVE  callback' = "push_encoder" => outstanding < BufferCount - 2
      <4>1. Reserve = 2
        BY <1>0 DEF Reserve
      <4> QED
        BY <1>0, <3>3, <4>1 DEF Submit, ReserveReached, Consumers
    <3> QED
      BY <1>0, <3>1, <3>2, <3>3 DEF ReserveKept
  <2> QED
    BY <2>1, <2>2, <2>3, <2>4, StepKinds
<1>2. EncoderHeld \subseteq Requests /\ IsFiniteSet(EncoderHeld)
  BY <1>0, FS_Subset DEF EncoderHeld
<1>3. CASE SubmitPush("encoder")
  <2>1. outstanding' <= BufferCount - 3
    BY <1>3, ReferenceStepKeeps DEF SubmitPush, ReserveKept
  <2>2. /\ LeaseTypes'
        /\ (LeaseTypes => IsFiniteSet(Live \cup Counting))'
    BY CountedFinite, PTL DEF TypeOK, LeaseTypes
  <2>3. EncoderHeld' \subseteq (Live \cup Counting)'
    BY DEF EncoderHeld, Live
  <2>4. Cardinality(EncoderHeld)' <= outstanding'
    BY <2>2, <2>3, FS_Subset DEF LeasesCounted
  <2>5. Cardinality(EncoderHeld)' \in Nat /\ outstanding' \in Nat
    BY <1>0, <2>2, <2>3, FS_Subset, FS_CardinalityType DEF TypeOK
  <2> QED
    BY <1>0, <1>1, <2>1, <2>4, <2>5 DEF ReserveKept
<1>4. CASE ~SubmitPush("encoder")
  <2>1. EncoderHeld' \subseteq EncoderHeld
    BY <1>4, EncoderHeldStep
  <2>2. /\ Cardinality(EncoderHeld)' <= Cardinality(EncoderHeld)
        /\ Cardinality(EncoderHeld)' \in Nat /\ Cardinality(EncoderHeld) \in Nat
    BY <1>2, <2>1, FS_Subset, FS_CardinalityType
  <2> QED
    BY <1>0, <1>1, <2>2 DEF ReserveKept
<1> QED
  BY <1>3, <1>4

-----------------------------------------------------------------------------
(* The inductive invariant.                                                *)

LEMMA InitInv == Init => PipelineInv
<1> SUFFICES ASSUME Init PROVE PipelineInv
  OBVIOUS
<1>0. Live = {} /\ Counting = {} /\ BeingReleased = {} /\ EncoderHeld = {}
  BY DEF Init, Live, Counting, BeingReleased, EncoderHeld
<1>a. Cardinality({}) = 0 /\ Cardinality(Requests) \in Nat
  BY FS_EmptySet, FS_CardinalityType, PipelineAssumption
<1>b. \A h : HeldBy(h) = {}
  BY DEF Init, HeldBy
<1>c. \A t : ~Busy(t)
  BY DEF Init, Busy
<1>1. OtherTypes
  <2>1. <<>> \in Seq(Requests)
    OBVIOUS
  <2> QED
    BY <2>1 DEF Init, OtherTypes
<1>2. TypeOK
  BY <1>1, <1>a DEF Init, TypeOK, OtherTypes
<1>3. RequestInOnePlace
  <2>1. Elements(returned) = {} /\ Elements(recycled) = {}
    BY DEF Init, Elements
  <2>2. PlacesApart
    BY <1>0, <2>1 DEF Init, PlacesApart, Apart
  <2>3. ReturnedOnce /\ ReleasedOnce
    BY DEF Init, ReturnedOnce, ReleasedOnce
  <2> QED
    BY <2>2, <2>3, OnePlace
<1>4. LeasesCounted
  BY <1>0, <1>a DEF Init, LeasesCounted
<1>5. FramesInHand
  BY <1>b DEF FramesInHand, FrameInCallback, FrameInHand, FrameInQueue, HeldOnce
<1>6. RecyclerHolds /\ ThreadsQuiet
  BY <1>c DEF Init, RecyclerHolds, ThreadsQuiet
<1>7. ShutdownOrder
  BY <1>c DEF Init, ShutdownOrder, CameraGone, InferenceGone
<1>8. ReserveKept
  BY <1>0, <1>a, PipelineAssumption DEF Init, ReserveKept
<1> QED
  BY <1>2, <1>3, <1>4, <1>5, <1>6, <1>7, <1>8 DEF PipelineInv

LEMMA NextInv == PipelineInv /\ [Next]_vars => PipelineInv'
<1> SUFFICES ASSUME PipelineInv, [Next]_vars PROVE PipelineInv'
  OBVIOUS
<1> USE DEF PipelineInv
<1>1. RequestInOnePlace'
  BY OnePlaceStep
<1>2. LeasesCounted'
  BY LeasesCountedStep
<1>3. RecyclerHolds'
  BY RecyclerHoldsStep
<1>4. TypeOK'
  BY <1>2, TypeStep
<1>5. FramesInHand'
  BY FramesStep
<1>6. ThreadsQuiet' /\ ShutdownOrder'
  BY LeaseStepOrder, ReferenceStepOrder, ControlStepOrder, StepKinds
<1>7. ReserveKept'
  BY <1>2, <1>4, ReserveStep
<1> QED
  BY <1>1, <1>2, <1>3, <1>4, <1>5, <1>6, <1>7

LEMMA PipelineInvariant == Spec => []PipelineInv
BY InitInv, NextInv, PTL DEF Spec

-----------------------------------------------------------------------------
(* A request is in one place: the release function gives it back once,     *)
(* after the last reference to its lease, and the recycler queues it once. *)
THEOREM RequestsNeverShared == Spec => []RequestInOnePlace
<1>1. PipelineInv => RequestInOnePlace
  BY DEF PipelineInv
<1> QED
  BY <1>1, PipelineInvariant, PTL

(* As many release functions count a lease off as there are requests.      *)
LEMMA CountingExact ==
  ASSUME LeaseTypes, ReleasedOnce
  PROVE  /\ IsFiniteSet({x \in releasing : x.at = "count"})
         /\ Cardinality({x \in releasing : x.at = "count"}) = Cardinality(Counting)
<1> DEFINE C == {x \in releasing : x.at = "count"}
           f == [x \in C |-> x.req]
<1>1. IsFiniteSet(Counting)
  BY CountedFinite
<1>2. Counting = {x.req : x \in C}
  BY DEF Counting
<1>3. \A x, y \in C : x.req = y.req => x = y
  BY DEF ReleasedOnce
<1> HIDE DEF C
<1>4. f \in [C -> Counting]
  BY <1>2
<1>5. f \in Injection(C, Counting)
  BY <1>3, <1>4 DEF Injection, IsInjective
<1>6. f \in Surjection(C, Counting)
  BY <1>2, <1>4 DEF Surjection
<1> HIDE DEF f
<1>7. IsFiniteSet(C) /\ Cardinality(C) <= Cardinality(Counting)
  BY <1>1, <1>5, FS_Injection
<1>8. Cardinality(Counting) <= Cardinality(C)
  BY <1>6, <1>7, FS_Surjection
<1>9. Cardinality(C) \in Nat /\ Cardinality(Counting) \in Nat
  BY <1>1, <1>7, FS_CardinalityType
<1> QED
  BY <1>7, <1>8, <1>9 DEF C

(* outstanding_leases is the number of leases, though it is counted up by  *)
(* the camera's thread and down by whichever thread drops the last         *)
(* reference; submit() tests it without a lock.                            *)
THEOREM OutstandingAlwaysExact == Spec => []OutstandingExact
<1>1. PipelineInv => OutstandingExact
  <2> SUFFICES ASSUME PipelineInv PROVE OutstandingExact
    OBVIOUS
  <2>1. LeaseTypes /\ ReleasedOnce /\ PlacesApart /\ LeasesCounted
    BY OnePlace DEF PipelineInv, TypeOK, LeaseTypes
  <2>2. Live \cap Counting = {}
    BY <2>1 DEF PlacesApart, Apart, Counting, BeingReleased
  <2>3. IsFiniteSet(Live) /\ IsFiniteSet(Counting)
    BY <2>1, CountedFinite
  <2>4. Cardinality(Live \cup Counting) = Cardinality(Live) + Cardinality(Counting)
                                          - Cardinality(Live \cap Counting)
    BY <2>3, FS_Union
  <2>5. Cardinality(Live) \in Nat /\ Cardinality(Counting) \in Nat
    BY <2>3, FS_CardinalityType
  <2>6. Cardinality({x \in releasing : x.at = "count"}) = Cardinality(Counting)
    BY <2>1, CountingExact
  <2>7. outstanding = Cardinality(Live) + Cardinality(Counting)
    <3>1. Cardinality(Live \cap Counting) = 0
      BY <2>2, FS_EmptySet, Zenon
    <3>2. outstanding = Cardinality(Live \cup Counting)
      BY <2>1 DEF LeasesCounted
    <3> QED
      BY <2>4, <2>5, <3>1, <3>2
  <2> QED
    BY <2>6, <2>7 DEF OutstandingExact
<1> QED
  BY <1>1, PipelineInvariant, PTL

(* When main() is done no lease, and no release function, is left, on      *)
(* every path through startup failure, encoder recovery and shutdown.      *)
THEOREM LeasesReturned == Spec => []DoneReturnsLeases
<1>1. PipelineInv => DoneReturnsLeases
  <2> SUFFICES ASSUME PipelineInv, main = "done"
               PROVE  outstanding = 0 /\ Live = {} /\ releasing = {}
    BY DEF DoneReturnsLeases
  <2> USE DEF PipelineInv
  <2>1. /\ callback = "idle" /\ ~Busy("camera") /\ ~Busy("pipeline") /\ ~Busy("main")
        /\ HeldBy("pipeline") = {} /\ bus = "exited"
        /\ \A c \in Consumers : thread[c] = "exited" /\ closed[c]
    BY DEF ShutdownOrder, CameraGone, InferenceGone, ThreadsQuiet, Consumers
  <2>2. ~Busy("bus") /\ \A c \in Consumers : ~Busy(c)
    BY <2>1 DEF ThreadsQuiet
  <2>3. releasing = {}
    BY <2>1, <2>2 DEF TypeOK, Threads, Consumers, Busy
  <2>4. /\ HeldBy("callback") = {}
        /\ \A c \in Consumers : HeldBy(HandOf[c]) = {} /\ HeldBy(QueueOf[c]) = {}
    BY <2>1 DEF FramesInHand, FrameInCallback, FrameInHand, FrameInQueue
  <2>5. \A h \in Holders : HeldBy(h) = {}
    BY <2>1, <2>4 DEF Holders, EncoderHolders, InferenceHolders, Consumers,
                      HandOf, QueueOf
  <2>6. Live = {}
    BY <2>5 DEF Live, HeldBy, TypeOK
  <2>7. Counting = {}
    BY <2>3 DEF Counting
  <2>8. outstanding = 0
    BY <2>6, <2>7, FS_EmptySet DEF LeasesCounted
  <2> QED
    BY <2>3, <2>6, <2>8
<1> QED
  BY <1>1, PipelineInvariant, PTL

(* The reserve of H264Encoder::submit() does its work when libcamera       *)
(* allocated as many buffers as were asked for, however many that is and   *)
(* however slow the consumers are; with fewer, MCCameraScarce shows that   *)
(* it does not.                                                            *)
THEOREM ReserveSuffices ==
  ASSUME Cardinality(Requests) >= BufferCount
  PROVE  Spec => []CameraNeverExhausted
<1>1. PipelineInv => CameraNeverExhausted
  <2> SUFFICES ASSUME PipelineInv PROVE CameraNeverExhausted
    OBVIOUS
  <2> USE DEF PipelineInv
  <2> DEFINE Q == HeldBy("inference_queue")
             H == HeldBy("inference_hand")
             All == {r \in Requests :
                       holders[r] \cap (EncoderHolders \cup InferenceHolders) # {}}
  <2>1. All = EncoderHeld \cup (Q \cup H)
    BY DEF EncoderHeld, HeldBy, InferenceHolders
  <2>2. IsFiniteSet(EncoderHeld) /\ IsFiniteSet(Q) /\ IsFiniteSet(H)
    BY FS_Subset, PipelineAssumption DEF EncoderHeld, HeldBy
  <2>3. (\A r, s \in Q : r = s) /\ (\A r, s \in H : r = s)
    BY DEF FramesInHand, FrameInHand, FrameInQueue, HeldOnce, Consumers, HandOf, QueueOf
  <2> HIDE DEF Q, H, All
  <2>4. ASSUME NEW S, IsFiniteSet(S), \A r, s \in S : r = s
        PROVE  Cardinality(S) <= 1 /\ Cardinality(S) \in Nat
    <3>1. CASE S = {}
      BY <3>1, FS_EmptySet
    <3>2. CASE \E x : S = {x}
      <4>1. PICK x : S = {x}
        BY <3>2
      <4>2. Cardinality({x}) = 1
        BY FS_Singleton, Zenon
      <4>3. Cardinality(S) = 1
        BY <4>1, <4>2, Zenon
      <4> QED
        BY <4>3
    <3> QED
      BY <2>4, <3>1, <3>2
  <2>5. IsFiniteSet(Q \cup H) /\ Cardinality(Q \cup H) <= 2
    <3>1. Cardinality(Q \cup H) = Cardinality(Q) + Cardinality(H) - Cardinality(Q \cap H)
      BY <2>2, FS_Union
    <3>2. IsFiniteSet(Q \cup H) /\ Cardinality(Q \cap H) \in Nat
      BY <2>2, FS_Union, FS_Intersection, FS_CardinalityType
    <3> QED
      BY <2>2, <2>3, <2>4, <3>1, <3>2
  <2>6. Cardinality(All) < BufferCount
    <3> DEFINE I == EncoderHeld \cap (Q \cup H)
    <3>1. Cardinality(All) = Cardinality(EncoderHeld) + Cardinality(Q \cup H)
                             - Cardinality(I)
      BY <2>1, <2>2, <2>5, FS_Union
    <3>2. /\ Cardinality(I) \in Nat /\ Cardinality(EncoderHeld) \in Nat
          /\ Cardinality(Q \cup H) \in Nat
      BY <2>2, <2>5, FS_Intersection, FS_CardinalityType
    <3>3. Cardinality(EncoderHeld) <= BufferCount - 3
      BY DEF ReserveKept
    <3> HIDE DEF I
    <3> QED
      BY <2>5, <3>1, <3>2, <3>3, PipelineAssumption
  <2>7. All # Requests
    BY <2>6, FS_CardinalityType, PipelineAssumption
  <2> QED
    BY <2>7 DEF All, CameraNeverExhausted
<1> QED
  BY <1>1, PipelineInvariant, PTL
=============================================================================
