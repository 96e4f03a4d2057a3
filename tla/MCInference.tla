---------------------------- MODULE MCInference ----------------------------
(***************************************************************************)
(* Model-checking instance of InferenceWorker: the buffers are layouts of  *)
(* small pictures, with one number of one plane off.  The same layouts are *)
(* wrapped for the encoder, and the suppression of overlapping detections  *)
(* is checked on short lists.                                              *)
(***************************************************************************)
EXTENDS InferenceWorker, RawBuffer, NonMaximumSuppression

CONSTANTS
  MaxFrames,    \* bound on the frames submitted
  Padding,      \* what a row may have behind its width
  MaxDetections \* bound on the detections of a frame

ASSUME InferenceBoundAssumption ==
  /\ MaxFrames \in Nat /\ MaxDetections \in Nat
  /\ Padding \in SUBSET Nat /\ 1..3 \subseteq Fds

(* <<width, height>> of the pictures: an odd one, one whose luma and one   *)
(* of which only the whole does not fit in 15 bytes.                       *)
Shapes == {<<2, 2>>, <<2, 4>>, <<4, 2>>, <<2, 6>>, <<4, 4>>, <<3, 2>>}

(* <<x, width>> of the boxes. *)
Boxes == {<<0, 2>>, <<1, 2>>, <<2, 2>>, <<2, 1>>, <<5, 1>>}

Fit(n) == Min({n, UIntMax})
Plane(fd, offset, length) == [fd |-> fd, offset |-> Fit(offset), length |-> Fit(length)]

(* Three planes of one DMA-BUF, of three or of two; one plane; two planes. *)
Arrangements(y, chroma) ==
  {<<Plane(1, 0, y), Plane(1, y, chroma), Plane(1, y + chroma, chroma)>>,
   <<Plane(1, 0, y), Plane(2, 0, chroma), Plane(3, 0, chroma)>>,
   <<Plane(1, 0, y), Plane(2, 0, chroma), Plane(2, chroma, chroma)>>,
   <<Plane(1, 0, y + 2 * chroma)>>,
   <<Plane(1, 0, y), Plane(2, 0, 2 * chroma)>>}

Layout(shape, padding, planes) ==
  LET stride == shape[1] + padding
      y == stride * shape[2]
  IN [width |-> shape[1], height |-> shape[2], stride |-> stride,
      frame_size |-> Fit(y + y \div 2), planes |-> planes,
      bytesused |-> [i \in 1..Len(planes) |-> planes[i].length]]

LayoutsOf(shape, padding) ==
  LET y == (shape[1] + padding) * shape[2]
  IN {Layout(shape, padding, planes) : planes \in Arrangements(y, y \div 4)}

Around(n) == {n - 1, n + 1, 0} \cap (0..UIntMax)

(* b, and b with one number changed. *)
Variants(b) ==
  LET I == 1..Len(b.planes) IN
  {b, [b EXCEPT !.bytesused = SubSeq(@, 1, 1)]}
  \cup {[b EXCEPT !.frame_size = n] : n \in Around(b.frame_size)}
  \cup (UNION {{[b EXCEPT !.planes[i].offset = n] : n \in Around(b.planes[i].offset)} : i \in I})
  \cup (UNION {{[b EXCEPT !.planes[i].length = n] : n \in Around(b.planes[i].length)} : i \in I})
  \cup (UNION {{[b EXCEPT !.bytesused[i] = n] : n \in Around(b.bytesused[i])} : i \in I})

LoresBuffers ==
  {b \in UNION {Variants(l) : l \in UNION {LayoutsOf(s, p) : s \in Shapes, p \in Padding}} :
     Mappable(b)}
MainBuffers == {b \in LayoutsOf(<<2, 2>>, 0) : Mappable(b)}

MCNext ==
  \/ submitted < MaxFrames /\ submit
  \/ stop \/ Proceed
  \/ worker = "wait" /\ latest # 0 /\ \E b \in LoresBuffers : Pop(b)
  \/ worker = "infer" /\ \E b \in MainBuffers : Trigger(b)
  \/ owner = "stopped" /\ UNCHANGED vars

MCSpec == Init /\ [][MCNext]_vars

MCDetections ==
  [class_id : {0}, confidence : 1..2,
   box : {[x |-> b[1], y |-> 0, width |-> b[2], height |-> 1] : b \in Boxes}]

(* nonMaximumSuppression() on every short list; it does not depend on the  *)
(* state, so the first state is enough.                                    *)
SuppressionKeepsTheLikeliest ==
  submitted = 0 /\ owner = "serving" =>
    KeepsTheLikeliest(MCDetections, MaxDetections, <<1, 4>>)

(* makeRawBuffer() shows the encoder the very picture a layout holds, with *)
(* planes of one DMA-BUF wherever they are in it; otherwise, because the   *)
(* offsets are computed, if the components adjoin.                         *)
RawBufferShowsPicture ==
  submitted = 0 /\ owner = "serving" =>
    \A b \in LoresBuffers : HoldsPicture(b) =>
      Wraps(makeView(b)) /\ (Adjoin(b) => ShowsPicture(b))
=============================================================================
