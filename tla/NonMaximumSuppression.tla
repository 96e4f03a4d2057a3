----------------------- MODULE NonMaximumSuppression -----------------------
(***************************************************************************)
(* nonMaximumSuppression(): of the detections that overlap, the one with   *)
(* the highest confidence.  A detection is [class_id, confidence, box], a  *)
(* box [x, y, width, height]; confidences and coordinates are integers and *)
(* the threshold is the fraction t[1] / t[2].                              *)
(***************************************************************************)
EXTENDS Integers, Sequences, FiniteSetsExt

(* cv::Rect: the intersection is empty when it has no extent. *)
Extent(from1, size1, from2, size2) ==
  Max({0, Min({from1 + size1, from2 + size2}) - Max({from1, from2})})

Intersection(a, b) ==
  Extent(a.x, a.width, b.x, b.width) * Extent(a.y, a.height, b.y, b.height)

(* intersectionOverUnion() exceeds the threshold. *)
Overlap(a, b, t) ==
  LET i == Intersection(a, b)
      union == a.width * a.height + b.width * b.height - i
  IN union > 0 /\ i * t[2] > t[1] * union

Suppresses(a, b, t) == a.class_id = b.class_id /\ Overlap(a.box, b.box, t)

(* Mutant: a suppressed detection suppresses others. *)
BugSuppressedSuppress(s, t, i, marked) ==
  marked \cup {j \in i+1..Len(s) : Suppresses(s[i], s[j], t)}

(* One iteration of the outer loop, on the detections suppressed so far. *)
Mark(s, t, i, marked) ==
  IF i \in marked THEN marked
  ELSE marked \cup {j \in i+1..Len(s) : Suppresses(s[i], s[j], t)}

(* The indices that remain of detections sorted by confidence. *)
Remaining(s, t) ==
  LET Marked[i \in 0..Len(s)] == IF i = 0 THEN {} ELSE Mark(s, t, i, Marked[i - 1])
  IN (1..Len(s)) \ Marked[Len(s)]

(* What std::sort() may leave: equal confidences are in any order. *)
Sorted(s) == \A i \in 1..Len(s)-1 : s[i].confidence >= s[i + 1].confidence

-----------------------------------------------------------------------------
(* Of any detections, those that remain do not overlap each other, and one *)
(* that is left out overlaps one that remains and is at least as likely.   *)
KeepsTheLikeliest(Detections, n, t) ==
  \A s \in UNION {[1..k -> Detections] : k \in 0..n} : Sorted(s) =>
    LET kept == Remaining(s, t) IN
    /\ \A i, j \in kept : i # j => ~Suppresses(s[i], s[j], t)
    /\ \A j \in (1..Len(s)) \ kept : \E i \in kept :
         Suppresses(s[i], s[j], t) /\ s[i].confidence >= s[j].confidence
=============================================================================
