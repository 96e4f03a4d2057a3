----------------------------- MODULE RawBuffer -----------------------------
(***************************************************************************)
(* makeRawBuffer(): the GstBuffer through which the hardware encoder reads *)
(* the main picture where the camera left it.  Its memories name parts of  *)
(* DMA-BUFs; GStreamer (external) takes them for one run of bytes, and the *)
(* video meta says where in that run the three components begin.           *)
(***************************************************************************)
EXTENDS I420

(* shared_fd *)
SharedFd(view) == \A p \in ToSet(view.planes) : p.fd = view.planes[1].fd

(* Some buffer is made: one plane, or any of one DMA-BUF, or three. *)
Wraps(view) == view.planes # <<>> /\ (SharedFd(view) \/ Len(view.planes) = 3)

(* One memory over a shared DMA-BUF from its beginning, else one for each  *)
(* of the three planes, from the plane's offset.                           *)
Wrapped(view) ==
  LET Bytes(fd, offset, length) == [k \in 1..length |-> <<fd, offset + k - 1>>]
      Memory(i) == Bytes(view.planes[i].fd, view.planes[i].offset, view.planes[i].length)
      reach == {Size(p.offset + p.length) : p \in ToSet(view.planes)}
  IN IF SharedFd(view)
       THEN Bytes(view.planes[1].fd, 0, Max(reach \cup {view.frame_size}))
       ELSE Memory(1) \o Memory(2) \o Memory(3)

(* Mutant: the components of a shared DMA-BUF are taken to adjoin. *)
BugOffsetsComputed(view) ==
  LET u == Size(view.stride * view.height)
  IN <<0, u, Size(u + (view.stride \div 2) * (view.height \div 2))>>

(* offsets of the video meta; its strides are stride and half of it. *)
MetaOffsets(view) ==
  IF SharedFd(view) /\ Len(view.planes) = 3
    THEN [i \in 1..3 |-> view.planes[i].offset]
    ELSE LET u == Size(view.stride * view.height)
         IN <<0, u, Size(u + (view.stride \div 2) * (view.height \div 2))>>

-----------------------------------------------------------------------------
(* The encoder finds every sample of the buffer's picture. *)
ShowsPicture(buffer) ==
  LET view == makeView(buffer)
      bytes == Wrapped(view)
      Index(s) == 1 + MetaOffsets(view)[s[1]]
                    + s[2] * ComponentStride(buffer, s[1]) + s[3]
  IN \A s \in Samples(buffer) :
       Index(s) <= Len(bytes) /\ bytes[Index(s)] = ByteOf(buffer, s)

(* The components adjoin, where makeRawBuffer() relies on it: a single     *)
(* plane begins the DMA-BUF, planes of several are exactly their rows, and *)
(* where the last one begins is a std::size_t.                             *)
Adjoin(buffer) ==
  LET planes == buffer.planes
      y == buffer.stride * buffer.height
  IN CASE Len(planes) = 1 -> planes[1].offset = 0
       [] Len(planes) = 3 -> \/ SharedFd(buffer)
                             \/ /\ planes[1].length = y /\ planes[2].length = y \div 4
                                /\ y + y \div 4 <= SizeMax
=============================================================================
