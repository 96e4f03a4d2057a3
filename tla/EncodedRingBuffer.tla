------------------------- MODULE EncodedRingBuffer -------------------------
(***************************************************************************)
(* EncodedRingBuffer: the bounded RAM history of compressed H.264 access   *)
(* units from which an event takes its pre-roll.  Every public method runs *)
(* under one mutex, so each is one atomic action.  The two pruning loops   *)
(* of push() are given by the index of the first unit they keep: a loop    *)
(* that discards from the front is determined by where it stops.           *)
(*                                                                         *)
(* An access unit is abstracted to what the ring reads of it:              *)
(*   ts   sensor_timestamp_ns          gen  encoder generation             *)
(*   idr  independentlyDecodable(): keyframe with SPS and PPS              *)
(*   size payload bytes (0: no payload)                                    *)
(*   id   identity of the shared object; the ring never looks at it        *)
(***************************************************************************)
EXTENDS Integers, Sequences

CONSTANTS
  Retention,   \* retention_ns_, in the model's time unit
  MaxBytes     \* max_bytes_

(* The constructor throws on a zero retention or byte limit. *)
ASSUME RingAssumption == Retention \in Nat \ {0} /\ MaxBytes \in Nat \ {0}

(* What the ring sees of an EncodedAccessUnit. *)
AccessUnit == [ts : Nat, gen : Nat, idr : BOOLEAN, size : Nat,
               id : Nat]

VARIABLES
  units,       \* units_: the deque, oldest first
  bytes,       \* bytes_: running total, maintained incrementally
  peak_bytes,  \* peak_bytes_
  resets,      \* resets_
  generation,  \* generation_ of the units held, 0 when empty
  latest       \* latest_sensor_timestamp_ns_, 0 when empty

ringVars == <<units, bytes, peak_bytes, resets, generation, latest>>

RingInit ==
  /\ units = <<>>
  /\ bytes = 0
  /\ peak_bytes = 0
  /\ resets = 0
  /\ generation = 0
  /\ latest = 0

-----------------------------------------------------------------------------
(* Rejections decided before the lock is taken. *)
RejectedInvalid(u)  == u.size = 0 \/ u.gen = 0 \/ u.ts = 0
RejectedOversize(u) == u.size > MaxBytes
Rejected(u) == RejectedInvalid(u) \/ RejectedOversize(u)

(* Mutant: the ring is not emptied when time moves back. *)
BugKeepOnRegression(u) == units # <<>> /\ u.gen # generation

(* push() empties the ring first when the unit starts a new generation or  *)
(* moves back in time.                                                     *)
ResetsRing(u) == units # <<>> /\ (u.gen # generation \/ u.ts < latest)

(* What the first n units of s contribute to bytes_. *)
SizeOfFirst(s, n) ==
  LET total[i \in 0..Len(s)] == IF i = 0 THEN 0 ELSE total[i-1] + s[i].size
  IN total[n]

(* s[j] is decodable and lies in the leading run of units at or before the *)
(* cutoff: the scan of pruneByTimeLocked stops at the first later unit.    *)
DecodableBeforeCutoff(s, now, j) ==
  s[j].idr /\ \A i \in 1..j : s[i].ts <= now - Retention

(* Mutant: units before the cutoff go even when the cutoff cuts a GOP. *)
BugPruneMidGop(s, now, k) ==
  /\ \A j \in 1..k-1 : s[j].ts < now - Retention
  /\ k # Len(s) => s[k].ts >= now - Retention

(* pruneByTimeLocked keeps s from index k on. *)
PruneByTimeKeeps(s, now, k) ==
  IF Len(s) < 2 \/ now <= Retention
    THEN k = 1
    ELSE \/ /\ DecodableBeforeCutoff(s, now, k)
            /\ \A j \in k+1..Len(s) : ~DecodableBeforeCutoff(s, now, j)
         \/ /\ \A j \in 1..Len(s) : ~DecodableBeforeCutoff(s, now, j)
            /\ \A j \in 1..k-1 : s[j].ts < now - Retention
            /\ k # Len(s) => s[k].ts >= now - Retention

(* pruneByBytesLocked, entered with b bytes, keeps s from index k on: it   *)
(* discards to m, where the bytes fit, and then to the next decodable      *)
(* unit.  k = Len(s) + 1 leaves the ring empty.                            *)
PruneByBytesKeeps(s, b, k) ==
  \E m \in 1..k :
    /\ \A j \in 1..m-1 : b - SizeOfFirst(s, j-1) > MaxBytes
    /\ m <= Len(s) => b - SizeOfFirst(s, m-1) <= MaxBytes
    /\ \A j \in m..k-1 : ~s[j].idr
    /\ k <= Len(s) => s[k].idr

From(s, k) == SubSeq(s, k, Len(s))

(* discardFrontLocked clears generation_ and latest_ with the last unit. *)
Prune(s, b, u) ==
  \E k \in 1..Len(s) :
    /\ PruneByTimeKeeps(s, u.ts, k)
    /\ LET aged == From(s, k)
           left == b - SizeOfFirst(s, k-1)
       IN \E m \in 1..Len(aged)+1 :
            /\ PruneByBytesKeeps(aged, left, m)
            /\ units' = From(aged, m)
            /\ bytes' = left - SizeOfFirst(aged, m-1)
            /\ generation' = IF m > Len(aged) THEN 0 ELSE u.gen
            /\ latest' = IF m > Len(aged) THEN 0 ELSE u.ts

(* Mutant: the running byte total is not restarted with the ring. *)
BugBytesSurviveReset(u) ==
  /\ IF ResetsRing(u)
       THEN Prune(<<u>>, bytes + u.size, u) /\ resets' = resets + 1
       ELSE Prune(Append(units, u), bytes + u.size, u) /\ resets' = resets
  /\ peak_bytes' = IF bytes' > peak_bytes THEN bytes' ELSE peak_bytes

(* push() past its rejections; the peak is taken after pruning. *)
Store(u) ==
  /\ IF ResetsRing(u)
       THEN Prune(<<u>>, u.size, u) /\ resets' = resets + 1
       ELSE Prune(Append(units, u), bytes + u.size, u) /\ resets' = resets
  /\ peak_bytes' = IF bytes' > peak_bytes THEN bytes' ELSE peak_bytes

push(u) ==
  \/ Rejected(u) /\ UNCHANGED ringVars
  \/ ~Rejected(u) /\ Store(u)

clear ==
  /\ units' = <<>>
  /\ bytes' = 0
  /\ generation' = 0
  /\ latest' = 0
  /\ resets' = resets + 1
  /\ UNCHANGED peak_bytes

-----------------------------------------------------------------------------
(* selectPreRoll(trigger, pre): the requested boundary saturates at 0. *)
RequestedStart(trigger, pre) == IF trigger > pre THEN trigger - pre ELSE 0

(* units[j] may start a clip reaching back to the boundary b: the scan for *)
(* it stops at the first unit after b.                                     *)
StartCandidate(b, j) == units[j].idr /\ \A i \in 1..j : units[i].ts <= b

(* The clip starts at index k: the newest candidate at or before the       *)
(* requested start, otherwise the oldest one that still precedes the       *)
(* trigger.  k = Len(units) + 1 when there is none.                        *)
SelectsFrom(trigger, pre, k) ==
  LET early(j) == StartCandidate(RequestedStart(trigger, pre), j)
      late(j)  == StartCandidate(trigger, j)
      all      == 1..Len(units)
  IN \/ /\ k \in all
        /\ early(k)
        /\ \A j \in k+1..Len(units) : ~early(j)
     \/ /\ \A j \in all : ~early(j)
        /\ k \in all
        /\ late(k)
        /\ \A j \in 1..k-1 : ~late(j)
     \/ /\ \A j \in all : ~early(j) /\ ~late(j)
        /\ k = Len(units) + 1

(* pre_roll_complete and the units of the selection that starts at k. *)
PreRollComplete(trigger, pre, k) ==
  k <= Len(units) /\ units[k].ts <= RequestedStart(trigger, pre)
SelectedUnits(k) == From(units, k)

-----------------------------------------------------------------------------
(* The ring alone: pushed any access unit and cleared, at any time. *)
RingNext == (\E u \in AccessUnit : push(u)) \/ clear

RingSpec == RingInit /\ [][RingNext]_ringVars

-----------------------------------------------------------------------------
(* The state of the ring has its declared shape. *)
RingTypeOK ==
  /\ units \in Seq(AccessUnit)
  /\ resets \in Nat /\ generation \in Nat /\ latest \in Nat

(* A non-empty ring starts with a decodable unit: pruneByBytesLocked       *)
(* removes the rest of a GOP whose start was evicted.                      *)
StartsDecodable == units # <<>> => units[1].idr

(* All units are of the one encoder generation that generation_ names, and *)
(* generation_ is 0 exactly when the ring is empty.                        *)
OneGeneration ==
  /\ \A i \in 1..Len(units) : units[i].gen = generation
  /\ (generation = 0) <=> (units = <<>>)

(* Timestamps never decrease along the ring and the last one is latest_.   *)
TimeOrdered ==
  /\ \A i, j \in 1..Len(units) : i <= j => units[i].ts <= units[j].ts
  /\ units # <<>> => latest = units[Len(units)].ts

(* What push() maintains across resets, time pruning and byte pruning, and *)
(* what the scans of selectPreRoll() rely on: the three facts above.       *)
RingOrdered == StartsDecodable /\ OneGeneration /\ TimeOrdered
=============================================================================
