-------------------------- MODULE MCCameraPipeline --------------------------
(***************************************************************************)
(* Model-checking instance of CameraPipeline: bounds the requests that a   *)
(* running camera may refuse to take back, and names what may go wrong.    *)
(***************************************************************************)
EXTENDS CameraPipeline, TLC

CONSTANTS
  MaxLost,   \* bound on requests lost by a running camera
  Faults     \* which of "error" (a request completes in error), "bus" (the
             \* pipeline fails), "wake" (a spurious wakeup), "start" (the
             \* camera does not start) and "exit" (the main loop ends)

(* Requests no part of the program will use again. *)
Lost == LET p == Places IN Requests \ UNION {p[i] : i \in 1..6}

MCNext ==
  \/ Callback \/ Recycle
  \/ "wake" \in Faults /\ SpuriousWake
  \/ "start" \in Faults /\ CameraStartFails
  \/ "exit" \in Faults /\ Exit
  \/ "bus" \in Faults /\ BusError
  \/ "error" \in Faults /\ \E r \in Requests : CompleteError(r)
  \/ Cardinality(Lost) < MaxLost /\ RecyclerLoses
  \/ \E t \in Threads : Release(t)
  \/ \E c \in Consumers : Consume(c)
  \/ UseFrame \/ PipelineDone \/ Bus \/ MainStep \/ Recover
  \/ main = "done" /\ UNCHANGED vars

MCSpec == Init /\ [][MCNext]_vars

(* The state after a start() during which no frame arrived; the runs that  *)
(* check liveness begin here.                                              *)
Started ==
  /\ camera = "running" /\ queued = Requests /\ fresh = {}
  /\ callback = "idle" /\ stopping = FALSE
  /\ holders = [r \in Requests |-> {}]
  /\ outstanding = 0 /\ releasing = {}
  /\ rstopping = FALSE /\ returned = <<>>
  /\ recycler = "test" /\ recycled = <<>>
  /\ running = [c \in Consumers |-> TRUE]
  /\ closed = [c \in Consumers |-> FALSE]
  /\ thread = [c \in Consumers |-> "wait"]
  /\ bus = "watch" /\ recovery = FALSE
  /\ main = "run" /\ exiting = FALSE

MCSlowSpec == Started /\ [][MCNext]_vars /\ SlowConsumers
MCLiveSpec == Started /\ [][MCNext]_vars /\ LiveConsumers

Symmetry == Permutations(Requests)
=============================================================================
