-------------------------------- MODULE I420 --------------------------------
(***************************************************************************)
(* The lores picture in memory: CameraCapture maps the DMA-BUFs of a       *)
(* buffer and describes them in a StreamView; inspectCompactI420() decides *)
(* whether the mapping can be read in place, copyMappedI420() copies its   *)
(* rows otherwise.                                                         *)
(*                                                                         *)
(* A buffer is what libcamera reports: the configured width, height,       *)
(* stride and frame size, planes [fd, offset, length], and the bytes used  *)
(* of the planes its metadata describes.  A byte of memory is <<fd, n>>,   *)
(* the n-th byte of a DMA-BUF; a pointer into a mapping is the number of   *)
(* the byte it points to, because every mapping begins at byte 0.          *)
(***************************************************************************)
EXTENDS Integers, Sequences, SequencesExt, FiniteSetsExt

CONSTANTS
  UIntMax,   \* the largest unsigned
  SizeMax    \* the largest std::size_t

ASSUME WidthAssumption ==
  UIntMax \in Nat /\ SizeMax \in Nat /\ UIntMax <= SizeMax

Null == -1

(* Arithmetic of std::size_t and of unsigned. *)
Size(n) == n % (SizeMax + 1)
UInt(n) == n % (UIntMax + 1)

-----------------------------------------------------------------------------
(* mapBuffers(): one mapping for each fd, as long as its planes reach. *)
MappedLength(buffer, fd) ==
  Max({Size(p.offset + p.length) : p \in {q \in ToSet(buffer.planes) : q.fd = fd}})

(* initialize() fails otherwise; mmap() maps neither nothing nor more than *)
(* the DMA-BUF has.                                                        *)
Mappable(buffer) ==
  \A p \in ToSet(buffer.planes) :
    /\ p.fd >= 0 /\ p.length <= SizeMax - p.offset
    /\ MappedLength(buffer, p.fd) > 0

(* makeView() *)
PlaneViewOf(buffer, i) ==
  LET p == buffer.planes[i]
      mapped == MappedLength(buffer, p.fd)
      inside == p.length <= SizeMax - p.offset /\ Size(p.offset + p.length) <= mapped
  IN [fd |-> p.fd, offset |-> p.offset, length |-> p.length,
      bytes_used |-> IF i <= Len(buffer.bytesused) THEN buffer.bytesused[i] ELSE p.length,
      data |-> IF inside THEN p.offset ELSE Null,
      mapping_base |-> IF inside THEN p.fd ELSE Null,
      mapped_length |-> IF inside THEN mapped ELSE 0]

makeView(buffer) ==
  [width |-> buffer.width, height |-> buffer.height, stride |-> buffer.stride,
   frame_size |-> buffer.frame_size,
   planes |-> [i \in 1..Len(buffer.planes) |-> PlaneViewOf(buffer, i)]]

-----------------------------------------------------------------------------
(* checkedMultiply() succeeds. *)
Multiplies(left, right) == left # 0 => right <= SizeMax \div left

(* What calculateSizes() computes. *)
SizesOf(view) ==
  LET y == Size(view.width * view.height)
      chroma == y \div 4
  IN [y |-> y, chroma |-> chroma, total |-> Size(y + 2 * chroma)]

(* Mutant: the three planes together are not checked. *)
BugTotalUnchecked(view) ==
  /\ view.width # 0 /\ view.height # 0
  /\ view.width % 2 = 0 /\ view.height % 2 = 0
  /\ Multiplies(view.width, view.height)

(* calculateSizes() succeeds. *)
SizesFit(view) ==
  /\ view.width # 0 /\ view.height # 0
  /\ view.width % 2 = 0 /\ view.height % 2 = 0
  /\ Multiplies(view.width, view.height)
  /\ SizesOf(view).chroma <= (SizeMax - SizesOf(view).y) \div 2

(* What requiredRowSpan() computes, and when it succeeds. *)
RowSpan(rows, width, stride) == Size(Size((rows - 1) * stride) + width)
RowSpanFits(rows, width, stride) ==
  /\ rows # 0 /\ width # 0 /\ stride >= width
  /\ Multiplies(rows - 1, stride)
  /\ width <= SizeMax - Size((rows - 1) * stride)

(* Mutant: the bytes the driver filled are not considered. *)
BugIgnoresPayload(plane, required) ==
  /\ plane.data # Null /\ required <= plane.length
  /\ plane.data <= plane.mapped_length
  /\ required <= plane.mapped_length - plane.data

(* makeView() sets data and mapping_base together. *)
containsBytes(plane, required) ==
  /\ plane.data # Null
  /\ required <= plane.length /\ required <= plane.bytes_used
  /\ plane.data <= plane.mapped_length
  /\ required <= plane.mapped_length - plane.data

-----------------------------------------------------------------------------
(* inspectCompactI420() answers Compatible.  Which of the other answers it *)
(* gives is only counted and logged.                                       *)
inspectCompactI420(view) ==
  LET s == SizesOf(view)
      y == view.planes[1]
      u == view.planes[2]
      v == view.planes[3]
  IN /\ SizesFit(view) /\ Len(view.planes) = 3 /\ view.stride = view.width
     /\ \A p \in {y, u, v} :
          /\ p.fd >= 0 /\ p.fd = y.fd
          /\ p.data # Null /\ p.mapping_base # Null
          /\ p.mapping_base = y.mapping_base /\ p.mapped_length = y.mapped_length
     /\ y.offset = 0 /\ u.offset = s.y /\ v.offset = Size(s.y + s.chroma)
     /\ y.length >= s.y /\ u.length >= s.chroma /\ v.length >= s.chroma
     /\ y.bytes_used >= s.y /\ u.bytes_used >= s.chroma /\ v.bytes_used >= s.chroma
     /\ view.frame_size >= s.total /\ y.mapped_length >= s.total
     /\ y.data = 0 /\ u.data = s.y /\ v.data = s.y + s.chroma

(* The bytes of the cv::Mat laid over i420_data, height * 3 / 2 rows of    *)
(* width bytes, when i420_data is the mapping.                             *)
MatBytes(view) == (UInt(view.height * 3) \div 2) * view.width
MappedBytes(view) ==
  [k \in 1..MatBytes(view) |-> <<view.planes[1].mapping_base, view.planes[1].data + k - 1>>]

(* The blocks of a picture in one plane. *)
YBlock(view) == Size(view.stride * view.height)
ChromaBlock(view) == Size((view.stride \div 2) * (view.height \div 2))
OnePlaneFits(view) ==
  /\ Multiplies(view.stride, view.height)
  /\ Multiplies(view.stride \div 2, view.height \div 2)
  /\ ChromaBlock(view) <= (SizeMax - YBlock(view)) \div 2
  /\ containsBytes(view.planes[1], YBlock(view) + 2 * ChromaBlock(view))

(* copyMappedI420() succeeds. *)
Copyable(view) ==
  LET w == view.width \div 2
      h == view.height \div 2
      stride == view.stride \div 2
  IN /\ SizesFit(view) /\ view.stride >= view.width /\ view.stride % 2 = 0
     /\ RowSpanFits(view.height, view.width, view.stride)
     /\ RowSpanFits(h, w, stride)
     /\ \/ Len(view.planes) = 1 /\ OnePlaneFits(view)
        \/ /\ Len(view.planes) = 3
           /\ containsBytes(view.planes[1], RowSpan(view.height, view.width, view.stride))
           /\ \A i \in 2..3 : containsBytes(view.planes[i], RowSpan(h, w, stride))

copyRows(source, rows, width, stride) ==
  [k \in 1..(rows * width) |->
     <<source[1], source[2] + ((k - 1) \div width) * stride + ((k - 1) % width)>>]

(* The bytes copyMappedI420() leaves in its destination. *)
copyMappedI420(view) ==
  LET planes == view.planes
      At(i, n) == <<planes[i].mapping_base, planes[i].data + n>>
      one == Len(planes) = 1
      u == IF one THEN At(1, YBlock(view)) ELSE At(2, 0)
      v == IF one THEN At(1, YBlock(view) + ChromaBlock(view)) ELSE At(3, 0)
      Chroma(source) ==
        copyRows(source, view.height \div 2, view.width \div 2, view.stride \div 2)
  IN copyRows(At(1, 0), view.height, view.width, view.stride) \o Chroma(u) \o Chroma(v)

-----------------------------------------------------------------------------
(* What the buffer holds, in numbers without bounds.  Component 1 is Y, 2  *)
(* is U and 3 is V; one plane holds the three blocks one after the other.  *)
ComponentWidth(buffer, c) == IF c = 1 THEN buffer.width ELSE buffer.width \div 2
ComponentHeight(buffer, c) == IF c = 1 THEN buffer.height ELSE buffer.height \div 2
ComponentStride(buffer, c) == IF c = 1 THEN buffer.stride ELSE buffer.stride \div 2
Samples(buffer) ==
  {s \in (1..3) \X (0..buffer.height-1) \X (0..buffer.width-1) :
     s[2] < ComponentHeight(buffer, s[1]) /\ s[3] < ComponentWidth(buffer, s[1])}

PlaneOf(buffer, c) == IF Len(buffer.planes) = 1 THEN 1 ELSE c
BlockStart(buffer, c) ==
  LET y == buffer.stride * buffer.height IN
  CASE Len(buffer.planes) # 1 \/ c = 1 -> 0
    [] Len(buffer.planes) = 1 /\ c = 2 -> y
    [] Len(buffer.planes) = 1 /\ c = 3 -> y + y \div 4

(* Where a sample is in its plane, and in a packed picture. *)
OffsetOf(buffer, s) ==
  BlockStart(buffer, s[1]) + s[2] * ComponentStride(buffer, s[1]) + s[3]
PackedIndex(buffer, s) ==
  LET y == buffer.width * buffer.height IN
  1 + (CASE s[1] = 1 -> 0 [] s[1] = 2 -> y [] s[1] = 3 -> y + y \div 4)
    + s[2] * ComponentWidth(buffer, s[1]) + s[3]
PackedSize(buffer) == (3 * buffer.width * buffer.height) \div 2

UsedOf(buffer, i) ==
  IF i <= Len(buffer.bytesused) THEN buffer.bytesused[i] ELSE buffer.planes[i].length

(* The bytes of plane i that hold data. *)
Holds(buffer, i, n) == n < buffer.planes[i].length /\ n < UsedOf(buffer, i)

(* The byte that holds a sample. *)
ByteOf(buffer, s) ==
  LET p == buffer.planes[PlaneOf(buffer, s[1])] IN <<p.fd, p.offset + OffsetOf(buffer, s)>>

(* bytes is the picture of the buffer, packed. *)
IsPicture(buffer, bytes) ==
  /\ Len(bytes) = PackedSize(buffer)
  /\ \A s \in Samples(buffer) : bytes[PackedIndex(buffer, s)] = ByteOf(buffer, s)

(* The buffer holds every sample of a picture with subsampled chroma that  *)
(* can be stored packed; the padding behind the last row of one plane      *)
(* belongs to its last block.                                              *)
HoldsPicture(buffer) ==
  /\ Len(buffer.planes) \in {1, 3}
  /\ buffer.width > 0 /\ buffer.height > 0 /\ buffer.stride >= buffer.width
  /\ \A n \in {buffer.width, buffer.height, buffer.stride} : n % 2 = 0
  /\ PackedSize(buffer) <= SizeMax
  /\ \A s \in Samples(buffer) : Holds(buffer, PlaneOf(buffer, s[1]), OffsetOf(buffer, s))
  /\ Len(buffer.planes) = 1 =>
       Holds(buffer, 1, (3 * buffer.stride * buffer.height) \div 2 - 1)
=============================================================================
