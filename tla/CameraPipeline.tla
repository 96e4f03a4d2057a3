--------------------------- MODULE CameraPipeline ---------------------------
(***************************************************************************)
(* The life of a libcamera request: CameraCapture completes it, wraps it   *)
(* in a FrameLease shared by the H264Encoder and the InferenceWorker, and  *)
(* its recycler thread queues it again once the last reference is gone.    *)
(* main() starts the camera, restarts a failed encoder, and shuts down.    *)
(*                                                                         *)
(* Threads                                                                 *)
(*   camera     libcamera's thread, which runs onRequestCompleted()        *)
(*   recycler   recyclerLoop()                                             *)
(*   encoder    H264Encoder::inputLoop()                                   *)
(*   inference  InferenceWorker::workerLoop()                              *)
(*   pipeline   GStreamer's streaming threads, which own queued buffers    *)
(*   bus        H264Encoder::busLoop()                                     *)
(*   main       main() and the start() and stop() it calls                 *)
(*                                                                         *)
(* A reference to a lease is a member of holders[r]; dropping the last one *)
(* runs the release function on the thread that dropped it.                *)
(***************************************************************************)
EXTENDS Integers, Sequences, FiniteSets

CONSTANTS
  Requests,      \* requests_, one per paired buffer that was allocated
  BufferCount    \* Config::buffer_count, what was asked for

(* createRequests() refuses fewer than four paired buffers.  Nothing in    *)
(* the code relates their number to buffer_count.                          *)
ASSUME PipelineAssumption ==
  /\ IsFiniteSet(Requests)
  /\ Cardinality(Requests) >= 4
  /\ BufferCount \in Nat /\ BufferCount >= 4

Consumers == {"encoder", "inference"}
QueueOf == [encoder |-> "encoder_queue", inference |-> "inference_queue"]
HandOf == [encoder |-> "encoder_hand", inference |-> "inference_hand"]
EncoderHolders == {"encoder_queue", "encoder_hand", "pipeline"}
InferenceHolders == {"inference_queue", "inference_hand"}
Holders == {"callback"} \cup EncoderHolders \cup InferenceHolders
Threads == {"camera", "encoder", "inference", "pipeline", "bus", "main"}

VARIABLES
  camera,       \* libcamera: stopped or running
  queued,       \* requests libcamera holds
  fresh,        \* requests start() has still to queue
  holders,      \* who holds a reference to the lease of each request
  outstanding,  \* metrics.outstanding_leases
  releasing,    \* release functions under way: [by, req, at]
  callback,     \* the camera thread: where onRequestCompleted() is
  stopping,     \* CameraCapture::stopping_
  rstopping,    \* RecyclerState::stopping
  returned,     \* RecyclerState::requests
  recycler,     \* the recycler thread
  recycled,     \* <<the request it took>>, or <<>>
  running,      \* running_ of each consumer
  closed,       \* closed_ of each consumer's LatestFrameQueue
  thread,       \* the thread of each consumer
  bus,          \* the encoder's bus thread
  recovery,     \* H264Encoder::recovery_requested_
  main,         \* where main() is
  exiting       \* main() is past its loop, or startup failed

camVars == <<camera, queued, fresh, callback, stopping>>
leaseVars == <<holders, outstanding, releasing>>
recVars == <<rstopping, returned, recycler, recycled>>
conVars == <<running, closed, thread, bus, recovery>>
mainVars == <<main, exiting>>
vars == <<camVars, leaseVars, recVars, conVars, mainVars>>

(* The encoder and the inference worker are started before the camera. *)
Init ==
  /\ camera = "stopped" /\ queued = {} /\ fresh = Requests
  /\ callback = "idle" /\ stopping = FALSE
  /\ holders = [r \in Requests |-> {}]
  /\ outstanding = 0 /\ releasing = {}
  /\ rstopping = FALSE /\ returned = <<>>
  /\ recycler = "none" /\ recycled = <<>>
  /\ running = [c \in Consumers |-> TRUE]
  /\ closed = [c \in Consumers |-> FALSE]
  /\ thread = [c \in Consumers |-> "wait"]
  /\ bus = "watch" /\ recovery = FALSE
  /\ main = "start" /\ exiting = FALSE

-----------------------------------------------------------------------------
(* References to leases, LatestFrameQueue and the release function.        *)

Live == {r \in Requests : holders[r] # {}}
HeldBy(h) == {r \in Requests : h \in holders[r]}
Busy(t) == \E x \in releasing : x.by = t
Releasing(t, rs) == {[by |-> t, req |-> r, at |-> "count"] : r \in rs}

(* Mutant: the release function runs although others hold the lease. *)
BugReleaseWhileShared(t, h, r) ==
  /\ holders' = [holders EXCEPT ![r] = @ \ {h}]
  /\ releasing' = releasing \cup Releasing(t, {r})

(* Thread t drops reference h to the lease of r: ~FrameLease() runs on t   *)
(* if it was the last one.                                                 *)
Drop(t, h, r) ==
  /\ holders' = [holders EXCEPT ![r] = @ \ {h}]
  /\ releasing' = releasing \cup
                    Releasing(t, {x \in {r} : holders[x] = {h}})

(* push(): a closed queue ignores the frame; otherwise the frame replaces  *)
(* an older one, whose reference is dropped.                               *)
Push(t, c, r) ==
  LET q == QueueOf[c] IN
  IF closed[c]
    THEN UNCHANGED <<holders, releasing>>
    ELSE /\ holders' = [x \in Requests |-> IF x = r THEN holders[x] \cup {q}
                                           ELSE holders[x] \ {q}]
         /\ releasing' = releasing \cup
              Releasing(t, {x \in Requests \ {r} : holders[x] = {q}})

(* Mutant: close() leaves the waiting frame in the queue. *)
BugCloseKeepsValue(t, c) ==
  closed' = [closed EXCEPT ![c] = TRUE] /\ UNCHANGED <<holders, releasing>>

(* Thread t empties the queue of c, dropping the waiting reference. *)
ClearQueue(t, c) ==
  LET q == QueueOf[c] IN
  /\ holders' = [x \in Requests |-> holders[x] \ {q}]
  /\ releasing' = releasing \cup
                    Releasing(t, {x \in Requests : holders[x] = {q}})

(* close() *)
Close(t, c) ==
  closed' = [closed EXCEPT ![c] = TRUE] /\ ClearQueue(t, c)

(* reopen() *)
Reopen(t, c) ==
  closed' = [closed EXCEPT ![c] = FALSE] /\ ClearQueue(t, c)

(* Mutant: the release function forgets the counter. *)
BugReleaseNotCounted(x) ==
  /\ x.at = "count"
  /\ releasing' = (releasing \ {x}) \cup
                    (IF rstopping THEN {} ELSE {[x EXCEPT !.at = "push"]})
  /\ UNCHANGED <<camVars, holders, outstanding, recVars, conVars, mainVars>>

(* The release function up to its test of stopping ... *)
ReleaseCount(x) ==
  /\ x.at = "count"
  /\ outstanding' = outstanding - 1
  /\ releasing' = (releasing \ {x}) \cup
                    (IF rstopping THEN {} ELSE {[x EXCEPT !.at = "push"]})
  /\ UNCHANGED <<camVars, holders, recVars, conVars, mainVars>>

(* A thread blocked on the condition variable wakes to test again. *)
Notified == IF recycler = "waiting" THEN "test" ELSE recycler

(* Mutant: the request is returned without notifying the recycler. *)
BugReleaseSilently(x) ==
  /\ x.at = "push"
  /\ recycler # "blocking"
  /\ releasing' = releasing \ {x}
  /\ returned' = Append(returned, x.req)
  /\ UNCHANGED <<camVars, holders, outstanding, rstopping, recycler, recycled,
                 conVars, mainVars>>

(* ... and the rest of it, under the recycler's mutex; stop() may have run *)
(* in between.                                                             *)
ReleasePush(x) ==
  /\ x.at = "push"
  /\ recycler # "blocking"
  /\ releasing' = releasing \ {x}
  /\ returned' = Append(returned, x.req)
  /\ recycler' = Notified
  /\ UNCHANGED <<camVars, holders, outstanding, rstopping, recycled,
                 conVars, mainVars>>

-----------------------------------------------------------------------------
(* onRequestCompleted(), on the camera thread.                             *)

CameraFree == callback = "idle" /\ ~Busy("camera")

(* libcamera completes r and the request is neither cancelled nor in       *)
(* error: a lease is made, held by the callback.                           *)
CompleteOk(r) ==
  /\ camera = "running" /\ CameraFree /\ r \in queued /\ ~stopping
  /\ queued' = queued \ {r}
  /\ outstanding' = outstanding + 1
  /\ holders' = [holders EXCEPT ![r] = {"callback"}]
  /\ callback' = "submit_encoder"
  /\ UNCHANGED <<camera, fresh, stopping, releasing, recVars, conVars, mainVars>>

(* r completes with an error, or without its buffers: releaseRequest(). *)
CompleteError(r) ==
  /\ camera = "running" /\ CameraFree /\ r \in queued /\ ~stopping
  /\ queued' = queued \ {r}
  /\ releasing' = releasing \cup
       (IF rstopping THEN {} ELSE {[by |-> "camera", req |-> r, at |-> "push"]})
  /\ UNCHANGED <<camera, fresh, callback, stopping, holders, outstanding,
                 recVars, conVars, mainVars>>

(* r completes while stop() is under way: the callback returns at once. *)
CompleteStopping(r) ==
  /\ camera = "running" /\ CameraFree /\ r \in queued /\ stopping
  /\ queued' = queued \ {r}
  /\ UNCHANGED <<camera, fresh, callback, stopping, leaseVars, recVars, conVars,
                 mainVars>>

(* Mutant: the reserve is one request short. *)
BugReserveOffByOne == outstanding > BufferCount - 2

Reserve == IF BufferCount \div 2 < 2 THEN BufferCount \div 2 ELSE 2

(* submit() refuses a frame that would eat into the reserve. *)
ReserveReached == outstanding >= BufferCount - Reserve

(* H264Encoder::submit() and InferenceWorker::submit() up to the push. *)
Submit(c) ==
  /\ callback = (IF c = "encoder" THEN "submit_encoder" ELSE "submit_inference")
  /\ ~Busy("camera")
  /\ callback' =
       IF running[c] /\ (c = "encoder" => ~ReserveReached)
         THEN (IF c = "encoder" THEN "push_encoder" ELSE "push_inference")
         ELSE (IF c = "encoder" THEN "submit_inference" ELSE "return")
  /\ UNCHANGED <<camera, queued, fresh, stopping, leaseVars, recVars, conVars,
                 mainVars>>

SubmitPush(c) ==
  /\ callback = (IF c = "encoder" THEN "push_encoder" ELSE "push_inference")
  /\ ~Busy("camera")
  /\ \E r \in HeldBy("callback") : Push("camera", c, r)
  /\ callback' = IF c = "encoder" THEN "submit_inference" ELSE "return"
  /\ UNCHANGED <<camera, queued, fresh, stopping, outstanding, recVars, conVars,
                 mainVars>>

(* The callback's own reference goes out of scope. *)
CallbackReturn ==
  /\ callback = "return" /\ ~Busy("camera")
  /\ \E r \in HeldBy("callback") : Drop("camera", "callback", r)
  /\ callback' = "idle"
  /\ UNCHANGED <<camera, queued, fresh, stopping, outstanding, recVars, conVars,
                 mainVars>>

-----------------------------------------------------------------------------
(* recyclerLoop().  "test" is the wait's predicate, evaluated with the     *)
(* mutex held, and the loop's own test of stopping, which it repeats;      *)
(* "blocking" still holds the mutex, between a predicate that was false    *)
(* and the block that releases it.                                         *)

RecyclerTest ==
  /\ recycler = "test"
  /\ \/ rstopping /\ recycler' = "exited" /\ UNCHANGED <<returned, recycled>>
     \/ /\ ~rstopping /\ returned # <<>>
        /\ recycler' = "requeue"
        /\ recycled' = <<Head(returned)>>
        /\ returned' = Tail(returned)
     \/ /\ ~rstopping /\ returned = <<>>
        /\ recycler' = "blocking"
        /\ UNCHANGED <<returned, recycled>>
  /\ UNCHANGED <<camVars, leaseVars, rstopping, conVars, mainVars>>

RecyclerBlock ==
  /\ recycler = "blocking"
  /\ recycler' = "waiting"
  /\ UNCHANGED <<camVars, leaseVars, rstopping, returned, recycled, conVars,
                 mainVars>>

(* A condition variable may wake for no reason. *)
SpuriousWake ==
  /\ recycler = "waiting"
  /\ recycler' = "test"
  /\ UNCHANGED <<camVars, leaseVars, rstopping, returned, recycled, conVars,
                 mainVars>>

(* queueRequest() accepted: only a running camera takes requests. *)
RecyclerRequeue ==
  /\ recycler = "requeue" /\ camera = "running"
  /\ queued' = queued \cup {recycled[1]}
  /\ recycled' = <<>> /\ recycler' = "test"
  /\ UNCHANGED <<camera, fresh, callback, stopping, leaseVars, rstopping,
                 returned, conVars, mainVars>>

(* queueRequest() refused: the error is counted and the request is lost. *)
RecyclerLoses ==
  /\ recycler = "requeue"
  /\ recycled' = <<>> /\ recycler' = "test"
  /\ UNCHANGED <<camVars, leaseVars, rstopping, returned, conVars, mainVars>>

-----------------------------------------------------------------------------
(* inputLoop() and workerLoop(): waitPop() and use the frame, while        *)
(* running_.  A test of running_ that succeeds has no step of its own: it  *)
(* is as if made just before waitPop() returns.                            *)

ConsumerStops(c) ==
  /\ thread[c] = "wait" /\ ~Busy(c) /\ ~running[c]
  /\ thread' = [thread EXCEPT ![c] = "exited"]
  /\ UNCHANGED <<camVars, leaseVars, recVars, running, closed, bus, recovery,
                 mainVars>>

(* waitPop() returns a frame, moving the queue's reference. *)
ConsumerPop(c) ==
  /\ thread[c] = "wait" /\ ~Busy(c)
  /\ \E r \in HeldBy(QueueOf[c]) :
       holders' = [holders EXCEPT ![r] = (@ \ {QueueOf[c]}) \cup {HandOf[c]}]
  /\ thread' = [thread EXCEPT ![c] = "frame"]
  /\ UNCHANGED <<camVars, outstanding, releasing, recVars, running, closed, bus,
                 recovery, mainVars>>

(* waitPop() returns false: closed, and nothing is waiting. *)
ConsumerClosed(c) ==
  /\ thread[c] = "wait" /\ ~Busy(c)
  /\ closed[c] /\ HeldBy(QueueOf[c]) = {}
  /\ thread' = [thread EXCEPT ![c] = "exited"]
  /\ UNCHANGED <<camVars, leaseVars, recVars, running, closed, bus, recovery,
                 mainVars>>

(* The frame goes out of scope: inference is done with it or has failed,   *)
(* or the encoder could not wrap it or appsrc did not take it.             *)
ConsumerDone(c) ==
  /\ thread[c] = "frame"
  /\ \E r \in HeldBy(HandOf[c]) : Drop(c, HandOf[c], r)
  /\ thread' = [thread EXCEPT ![c] = "wait"]
  /\ UNCHANGED <<camVars, outstanding, recVars, running, closed, bus, recovery,
                 mainVars>>

(* makeRawBuffer() moves the reference into a GstBuffer, and appsrc takes  *)
(* the buffer.                                                             *)
EncoderFeed ==
  /\ thread["encoder"] = "frame"
  /\ \E r \in HeldBy("encoder_hand") :
       holders' = [holders EXCEPT ![r] = (@ \ {"encoder_hand"}) \cup {"pipeline"}]
  /\ thread' = [thread EXCEPT !["encoder"] = "wait"]
  /\ UNCHANGED <<camVars, outstanding, releasing, recVars, running, closed, bus,
                 recovery, mainVars>>

(* A streaming thread destroys a raw buffer: encoded, or leaked by a full  *)
(* appsrc or queue.  destroyLease() drops the reference.                   *)
PipelineDone ==
  /\ \E r \in HeldBy("pipeline") : Drop("pipeline", "pipeline", r)
  /\ UNCHANGED <<camVars, outstanding, recVars, conVars, mainVars>>

(* busLoop() receives an error or an unexpected EOS ... *)
BusError ==
  /\ bus = "watch" /\ running["encoder"]
  /\ recovery' = TRUE
  /\ running' = [running EXCEPT !["encoder"] = FALSE]
  /\ bus' = "close"
  /\ UNCHANGED <<camVars, leaseVars, recVars, closed, thread, mainVars>>

(* ... and closes the queue. *)
BusClose ==
  /\ bus = "close"
  /\ Close("bus", "encoder")
  /\ bus' = "watch"
  /\ UNCHANGED <<camVars, outstanding, recVars, running, thread, recovery,
                 mainVars>>

BusExit ==
  /\ bus = "watch" /\ ~running["encoder"] /\ ~Busy("bus")
  /\ bus' = "exited"
  /\ UNCHANGED <<camVars, leaseVars, recVars, running, closed, thread, recovery,
                 mainVars>>

-----------------------------------------------------------------------------
(* main().                                                                 *)

(* CameraCapture::start() up to the recycler thread ... *)
CameraStart ==
  /\ main = "start"
  /\ camera' = "running" /\ recycler' = "test"
  /\ main' = "queue"
  /\ UNCHANGED <<queued, fresh, callback, stopping, leaseVars, rstopping,
                 returned, recycled, conVars, exiting>>

(* ... and its loop, which queues the requests while frames arrive. *)
CameraQueue ==
  /\ main = "queue"
  /\ \/ \E r \in fresh :
          fresh' = fresh \ {r} /\ queued' = queued \cup {r} /\ UNCHANGED main
     \/ fresh = {} /\ main' = "run" /\ UNCHANGED <<fresh, queued>>
  /\ UNCHANGED <<camera, callback, stopping, leaseVars, recVars, conVars, exiting>>

(* start() fails: if libcamera does not start there is nothing for         *)
(* camera.stop() to do, and if it refuses a request start() itself stops.  *)
CameraStartFails ==
  /\ \/ main = "start" /\ main' = "stop_inference"
     \/ main = "queue" /\ fresh # {} /\ main' = "stop_camera"
  /\ exiting' = TRUE
  /\ UNCHANGED <<camVars, leaseVars, recVars, conVars>>

(* The main loop ends: a signal, the configured duration, or a startup     *)
(* step after the camera failed.                                           *)
Exit ==
  /\ main = "run"
  /\ main' = "stop_camera" /\ exiting' = TRUE
  /\ UNCHANGED <<camVars, leaseVars, recVars, conVars>>

(* The main loop sees recoveryRequested() and stops the encoder. *)
Recover ==
  /\ main = "run" /\ recovery
  /\ main' = "stop_encoder" /\ UNCHANGED exiting
  /\ UNCHANGED <<camVars, leaseVars, recVars, conVars>>

(* H264Encoder::initialize() and start(): running_ is set before the queue *)
(* is reopened.                                                            *)
EncoderRestart ==
  /\ main = "restart_encoder"
  /\ \/ /\ running' = [running EXCEPT !["encoder"] = TRUE]
        /\ main' = "reopen_queue" /\ UNCHANGED exiting
     \/ main' = "stop_camera" /\ exiting' = TRUE /\ UNCHANGED running
  /\ UNCHANGED <<camVars, leaseVars, recVars, closed, thread, bus, recovery>>

EncoderReopen ==
  /\ main = "reopen_queue"
  /\ Reopen("main", "encoder")
  /\ recovery' = FALSE
  /\ main' = "start_pipeline"
  /\ UNCHANGED <<camVars, outstanding, recVars, running, thread, bus, exiting>>

(* The pipeline enters PLAYING and the threads start, or running_ is taken *)
(* back, with the queue still open.                                        *)
EncoderPlaying ==
  /\ main = "start_pipeline" /\ ~Busy("main")
  /\ \/ /\ thread' = [thread EXCEPT !["encoder"] = "wait"]
        /\ bus' = "watch" /\ main' = "wait_frame"
        /\ UNCHANGED <<running, exiting>>
     \/ /\ running' = [running EXCEPT !["encoder"] = FALSE]
        /\ main' = "stop_camera" /\ exiting' = TRUE
        /\ UNCHANGED <<thread, bus>>
  /\ UNCHANGED <<camVars, leaseVars, recVars, closed, recovery>>

(* waitForIndependentFrame() *)
EncoderRecovered ==
  /\ main = "wait_frame"
  /\ \/ main' = "run" /\ UNCHANGED exiting
     \/ main' = "stop_camera" /\ exiting' = TRUE
  /\ UNCHANGED <<camVars, leaseVars, recVars, conVars>>

(* CameraCapture::stop(): the two flags, then the notification, none of    *)
(* them under the recycler's mutex ...                                     *)
StopFlag ==
  /\ main = "stop_camera"
  /\ stopping' = TRUE
  /\ main' = "stop_recycler"
  /\ UNCHANGED <<camera, queued, fresh, callback, leaseVars, recVars, conVars,
                 exiting>>

StopRecycler ==
  /\ main = "stop_recycler"
  /\ rstopping' = TRUE
  /\ main' = "notify_recycler"
  /\ UNCHANGED <<camVars, leaseVars, returned, recycler, recycled, conVars,
                 exiting>>

NotifyRecycler ==
  /\ main = "notify_recycler"
  /\ recycler' = Notified
  /\ main' = "stop_libcamera"
  /\ UNCHANGED <<camVars, leaseVars, rstopping, returned, recycled, conVars,
                 exiting>>

(* ... libcamera stops once no callback runs, cancelling what it holds ... *)
StopLibcamera ==
  /\ main = "stop_libcamera" /\ CameraFree
  /\ camera' = "stopped" /\ queued' = {}
  /\ main' = "join_recycler"
  /\ UNCHANGED <<fresh, callback, stopping, leaseVars, recVars, conVars, exiting>>

(* ... and the recycler's queue is cleared once its thread has ended. *)
JoinRecycler ==
  /\ main = "join_recycler" /\ recycler = "exited"
  /\ returned' = <<>>
  /\ main' = "stop_inference"
  /\ UNCHANGED <<camVars, leaseVars, rstopping, recycler, recycled, conVars,
                 exiting>>

Stopping == [stop_inference |-> "inference", stop_encoder |-> "encoder"]
Closing == [close_inference |-> "inference", close_encoder |-> "encoder"]

(* InferenceWorker::stop() and H264Encoder::stop(), up to close(). *)
StopConsumer ==
  /\ main \in DOMAIN Stopping
  /\ running' = [running EXCEPT ![Stopping[main]] = FALSE]
  /\ main' = IF main = "stop_inference" THEN "close_inference"
             ELSE "close_encoder"
  /\ UNCHANGED <<camVars, leaseVars, recVars, closed, thread, bus, recovery,
                 exiting>>

CloseConsumer ==
  /\ main \in DOMAIN Closing
  /\ Close("main", Closing[main])
  /\ main' = IF main = "close_inference" THEN "join_inference"
             ELSE "join_encoder"
  /\ UNCHANGED <<camVars, outstanding, recVars, running, thread, bus, recovery,
                 exiting>>

JoinInference ==
  /\ main = "join_inference" /\ ~Busy("main")
  /\ thread["inference"] = "exited"
  /\ main' = "stop_encoder"
  /\ UNCHANGED <<camVars, leaseVars, recVars, conVars, exiting>>

(* The input and bus threads end ... *)
JoinEncoder ==
  /\ main = "join_encoder" /\ ~Busy("main")
  /\ thread["encoder"] = "exited" /\ bus = "exited"
  /\ main' = "release_pipeline"
  /\ UNCHANGED <<camVars, leaseVars, recVars, conVars, exiting>>

(* ... and releasePipeline() destroys the buffers still in the pipeline. *)
ReleasePipeline ==
  /\ main = "release_pipeline" /\ ~Busy("main")
  /\ \E r \in HeldBy("pipeline") : Drop("main", "pipeline", r)
  /\ UNCHANGED <<camVars, outstanding, recVars, conVars, mainVars>>

EncoderStopped ==
  /\ main = "release_pipeline" /\ ~Busy("main") /\ ~Busy("pipeline")
  /\ HeldBy("pipeline") = {}
  /\ main' = IF exiting THEN "done" ELSE "restart_encoder"
  /\ UNCHANGED <<camVars, leaseVars, recVars, conVars, exiting>>

-----------------------------------------------------------------------------
(* The camera thread, but for requests that complete in error. *)
Callback ==
  \/ \E r \in Requests : CompleteOk(r) \/ CompleteStopping(r)
  \/ \E c \in Consumers : Submit(c) \/ SubmitPush(c)
  \/ CallbackReturn

(* The recycler, but for a refusal by a running camera. *)
Recycle ==
  \/ RecyclerTest \/ RecyclerBlock \/ RecyclerRequeue
  \/ camera = "stopped" /\ RecyclerLoses

Release(t) == \E x \in releasing : x.by = t /\ (ReleaseCount(x) \/ ReleasePush(x))

(* A consumer's thread, but for the time it takes over a frame. *)
Consume(c) == ConsumerStops(c) \/ ConsumerPop(c) \/ ConsumerClosed(c)

UseFrame == EncoderFeed \/ \E c \in Consumers : ConsumerDone(c)

Bus == BusClose \/ BusExit

(* main() past its loop, or restarting the encoder. *)
MainStep ==
  \/ CameraStart \/ CameraQueue
  \/ EncoderRestart \/ EncoderReopen \/ EncoderPlaying \/ EncoderRecovered
  \/ StopFlag \/ StopRecycler \/ NotifyRecycler \/ StopLibcamera \/ JoinRecycler
  \/ StopConsumer \/ CloseConsumer \/ JoinInference \/ JoinEncoder
  \/ ReleasePipeline \/ EncoderStopped

Next ==
  \/ Callback \/ \E r \in Requests : CompleteError(r)
  \/ Recycle \/ RecyclerLoses \/ SpuriousWake
  \/ \E t \in Threads : Release(t)
  \/ \E c \in Consumers : Consume(c)
  \/ UseFrame \/ PipelineDone \/ BusError \/ Bus
  \/ MainStep \/ CameraStartFails \/ Exit \/ Recover
  \/ main = "done" /\ UNCHANGED vars

Spec == Init /\ [][Next]_vars

(* Threads that are not stuck keep running; a wakeup without cause is not  *)
(* guaranteed, and nothing is assumed of how long the consumers hold a     *)
(* frame.                                                                  *)
SlowConsumers ==
  /\ WF_vars(Callback) /\ WF_vars(Recycle) /\ WF_vars(MainStep)
  /\ \A t \in Threads : WF_vars(Release(t))

(* In addition the consumers finish with the frame they hold. *)
LiveConsumers ==
  /\ SlowConsumers
  /\ \A c \in Consumers : WF_vars(Consume(c))
  /\ WF_vars(UseFrame) /\ WF_vars(Bus)

-----------------------------------------------------------------------------
TypeOK ==
  /\ camera \in {"stopped", "running"}
  /\ queued \subseteq Requests /\ fresh \subseteq Requests
  /\ callback \in {"idle", "submit_encoder", "push_encoder",
                   "submit_inference", "push_inference", "return"}
  /\ stopping \in BOOLEAN /\ rstopping \in BOOLEAN
  /\ holders \in [Requests -> SUBSET Holders]
  /\ outstanding \in 0 .. Cardinality(Requests)
  /\ releasing \subseteq [by: Threads, req: Requests, at: {"count", "push"}]
  /\ returned \in Seq(Requests)
  /\ recycler \in {"none", "test", "blocking", "waiting", "requeue",
                   "exited"}
  /\ recycled \in {<<>>} \cup {<<r>> : r \in Requests}
  /\ running \in [Consumers -> BOOLEAN] /\ closed \in [Consumers -> BOOLEAN]
  /\ thread \in [Consumers -> {"wait", "frame", "exited"}]
  /\ bus \in {"watch", "close", "exited"} /\ recovery \in BOOLEAN
  /\ main \in {"start", "queue", "run", "restart_encoder", "reopen_queue",
               "start_pipeline", "wait_frame", "stop_camera", "stop_recycler",
               "notify_recycler", "stop_libcamera", "join_recycler",
               "stop_inference", "close_inference", "join_inference",
               "stop_encoder", "close_encoder", "join_encoder",
               "release_pipeline", "done"}
  /\ exiting \in BOOLEAN

BeingReleased == {x.req : x \in releasing}
Elements(s) == {s[i] : i \in DOMAIN s}
Places == <<fresh, queued, Live, BeingReleased, Elements(returned),
            Elements(recycled)>>

(* A request is in one place: with start(), with libcamera, leased, in a   *)
(* release function, returned once, or with the recycler.  So libcamera    *)
(* never gets a request back while a consumer of onRequestCompleted()      *)
(* still holds its lease, and no request is released or queued twice.      *)
RequestInOnePlace ==
  /\ LET p == Places
     IN \A i, j \in 1..6 : i < j => p[i] \cap p[j] = {}
  /\ \A i, j \in DOMAIN returned : returned[i] = returned[j] => i = j
  /\ \A x, y \in releasing : x.req = y.req => x = y

(* outstanding_leases counts the leases that exist, and those whose        *)
(* release function has not yet counted them off; submit() relies on it.   *)
OutstandingExact ==
  outstanding = Cardinality(Live) +
                  Cardinality({x \in releasing : x.at = "count"})

(* H264Encoder::submit() keeps its reserve: when as many requests were     *)
(* allocated as were asked for, the two consumers together never hold all  *)
(* of them, however slow they are.                                         *)
CameraNeverExhausted ==
  {r \in Requests : holders[r] \cap (EncoderHolders \cup InferenceHolders) # {}}
    # Requests

(* Once main() is done, every lease was returned, though closing a queue,  *)
(* joining a thread and releasing the pipeline each drop references on a   *)
(* different thread: "outstanding=0" in the last line of the log.          *)
DoneReturnsLeases ==
  main = "done" => outstanding = 0 /\ Live = {} /\ releasing = {}

(* A slow consumer cannot exhaust the camera's requests: until stop(),     *)
(* libcamera is never without a request for good.                          *)
FramesKeepFlowing == []<>(queued # {}) \/ <>(stopping \/ exiting)

(* Shutdown ends.  CameraCapture::stop() may set its flag and notify       *)
(* between the recycler's test of the flag and its block, so that the      *)
(* recycler sleeps on and stop() waits for it for ever.                    *)
ShutdownCompletes == exiting ~> (main = "done")
=============================================================================
