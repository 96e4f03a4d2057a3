------------------------ MODULE MCEncodedRingBuffer ------------------------
(***************************************************************************)
(* EncodedRingBuffer with the history variable epoch, which remembers      *)
(* every unit accepted since the ring last was empty, so that the          *)
(* incremental pruning can be compared with a definition of the window     *)
(* that looks at the whole history; and an instance of it for model        *)
(* checking.                                                               *)
(***************************************************************************)
EXTENDS EncodedRingBuffer, FiniteSetsExt

CONSTANTS
  MaxTime,     \* timestamps, and what selectPreRoll() is asked, are up to MaxTime
  UnitSizes,   \* payload sizes
  MaxEpoch,    \* bound on the units accepted between two resets
  MaxResets    \* bound on resets_

(* The bounds are numbers. *)
ASSUME RingBoundAssumption == MaxTime \in Nat /\ UnitSizes \subseteq Nat

VARIABLE epoch

historyVars == <<ringVars, epoch>>

HistoryInit == RingInit /\ epoch = <<>>

StartsEpoch(u) == units = <<>> \/ ResetsRing(u)

RecordedPush(u) ==
  /\ push(u)
  /\ epoch' = IF Rejected(u) THEN epoch
              ELSE IF StartsEpoch(u) THEN <<u>> ELSE Append(epoch, u)

RecordedClear == clear /\ epoch' = <<>>

HistoryNext == (\E u \in AccessUnit : RecordedPush(u)) \/ RecordedClear

(* The ring alone, with its history and without bounds. *)
HistorySpec == HistoryInit /\ [][HistoryNext]_historyVars

-----------------------------------------------------------------------------
(* The instance for model checking. *)
Inputs ==
  [ts : 0..MaxTime, gen : 0..2, idr : BOOLEAN, size : UnitSizes, id : {0}]

BoundedPush(u) ==
  /\ ~Rejected(u) => /\ StartsEpoch(u) \/ Len(epoch) < MaxEpoch
                     /\ ResetsRing(u) => resets < MaxResets
  /\ RecordedPush(u)

BoundedClear == resets < MaxResets /\ RecordedClear

BoundedNext == (\E u \in Inputs : BoundedPush(u)) \/ BoundedClear

BoundedSpec == HistoryInit /\ [][BoundedNext]_historyVars

-----------------------------------------------------------------------------

(* What the units of e from index i on take. *)
SizeFrom(e, i) == SizeOfFirst(e, Len(e)) - SizeOfFirst(e, i-1)

(* Index i of the history e starts a window that fits in the byte limit    *)
(* and is not made redundant by a later decodable unit at or before the    *)
(* retention cutoff.                                                       *)
StartsWindow(e, i) ==
  LET n == Len(e)
      now == e[n].ts
  IN /\ e[i].idr
     /\ SizeFrom(e, i) <= MaxBytes
     /\ \A j \in i+1..n : ~(e[j].idr /\ e[j].ts <= now - Retention)

(* The ring is exactly the longest window of the accepted history that     *)
(* starts decodable, fits, and reaches back only as far as the newest      *)
(* decodable unit at or before the cutoff: the incremental loops of push() *)
(* neither drop a unit too early nor keep one too long.  bytes_, a size_t  *)
(* that both loops and every reset change, is the payload held, and the    *)
(* peak is one that was reached within the limit.                          *)
RingIsRetentionWindow ==
  LET starts == {i \in 1..Len(epoch) : StartsWindow(epoch, i)}
  IN /\ units = IF starts = {} THEN <<>> ELSE From(epoch, Min(starts))
     /\ bytes = SizeOfFirst(units, Len(units))
     /\ bytes <= peak_bytes /\ peak_bytes <= MaxBytes

(* The indices of the history where a complete clip could have started. *)
Usables(want) ==
  {i \in 1..Len(epoch) :
     epoch[i].idr /\ epoch[i].ts <= want /\ SizeFrom(epoch, i) <= MaxBytes}

(* selectPreRoll() determines one clip start for every trigger.  If the    *)
(* requested start is inside the retention window and the accepted history *)
(* had a decodable unit at or before it whose suffix fits in the byte      *)
(* limit, the clip starts at the newest such unit and counts as complete;  *)
(* otherwise a clip that starts at all starts decodable, no later than the *)
(* trigger.                                                                *)
PreRollRetained ==
  \A trigger \in 1..MaxTime, pre \in 1..MaxTime :
    LET want == RequestedStart(trigger, pre)
        starts == {k \in 1..Len(units)+1 : SelectsFrom(trigger, pre, k)}
    IN \E k \in starts :
         /\ starts = {k}
         /\ k <= Len(units) => units[k].idr /\ units[k].ts <= trigger
         /\ units # <<>> /\ want >= latest - Retention /\ Usables(want) # {} =>
              /\ PreRollComplete(trigger, pre, k)
              /\ SelectedUnits(k) = From(epoch, Max(Usables(want)))
=============================================================================
