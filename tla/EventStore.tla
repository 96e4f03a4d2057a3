----------------------------- MODULE EventStore -----------------------------
(***************************************************************************)
(* What the event directory promises its readers, who may look at it at    *)
(* any moment and across restarts: an event appears under its final name   *)
(* in one step, complete, and never changes after that.                    *)
(***************************************************************************)
CONSTANT EventId

VARIABLE store     \* event id -> what its final directory holds

(* What a reader finds: the metadata, the artifacts, and which of them the *)
(* metadata calls complete.                                                *)
View(m, s, c) == [metadata |-> m, snapshot |-> s, clip |-> c,
                  claims |-> [snapshot |-> s, clip |-> c]]

(* Nothing under the final name yet. *)
Absent == View(FALSE, FALSE, FALSE)

Init == store = [id \in EventId |-> Absent]

(* A complete event appears: its metadata, and a snapshot, a clip or both, *)
(* exactly the ones the metadata calls complete.                           *)
Publish(id) ==
  /\ store[id] = Absent
  /\ \E s, c \in BOOLEAN :
       (s \/ c) /\ store' = [store EXCEPT ![id] = View(TRUE, s, c)]

Next == \E id \in EventId : Publish(id)

Spec == Init /\ [][Next]_store
=============================================================================
