--------------------------- MODULE InferenceWorker ---------------------------
(***************************************************************************)
(* InferenceWorker: submit() and stop() on other threads, and the worker,  *)
(* which turns the lores picture of a frame into detections and hands them *)
(* to trigger(), where stageMainSnapshot() copies the main picture.  Both  *)
(* read camera memory inside a DmaBufReadSync.                             *)
(*                                                                         *)
(* Frames are numbered in the order of submit().  Of i420, bgr and the     *)
(* snapshot the model keeps the number of the frame they show, or 0; the   *)
(* bytes they were made from follow from the buffer being read.  EINTR and *)
(* EAGAIN repeat an ioctl and change nothing.                              *)
(***************************************************************************)
EXTENDS I420

CONSTANT Fds   \* file descriptors of DMA-BUFs

VARIABLES
  submitted,     \* number of frames so far
  running,       \* running_
  latest,        \* LatestFrameQueue: the frame in it, or 0
  closed,        \* its closed_
  owner,         \* where stop() is
  worker,        \* where workerLoop() is
  frame,         \* the frame it holds, or 0
  reading,       \* what it reads: the lores picture or the main one
  buffer,        \* <<the buffer it is about to read>>, or <<>>
  view,          \* <<its StreamView>>, or <<>>
  fds,           \* unique_fds, still to be started
  synchronized,  \* synchronized_fds_
  failed,        \* finish() met an error
  then,          \* where finish() was called from: what follows it
  sessions,      \* START calls that succeeded less END calls, of each fd
  i420, bgr, snapshot   \* the frames they show

syncVars == <<fds, synchronized, failed, then, sessions>>
queueVars == <<submitted, running, latest, closed, owner>>
vars == <<queueVars, syncVars, worker, frame, reading, buffer, view, i420, bgr, snapshot>>

Init ==
  /\ submitted = 0 /\ running = TRUE /\ latest = 0 /\ closed = FALSE
  /\ owner = "serving" /\ worker = "wait" /\ frame = 0
  /\ reading = "lores" /\ buffer = <<>> /\ view = <<>>
  /\ fds = <<>> /\ synchronized = <<>> /\ failed = FALSE /\ then = "drop"
  /\ sessions = [fd \in Fds |-> 0]
  /\ i420 = 0 /\ bgr = 0 /\ snapshot = 0

-----------------------------------------------------------------------------
(* submit() replaces a frame that was not taken; a closed queue refuses.   *)
(* It may have seen running_ just before stop() cleared it.                *)
submit ==
  /\ submitted' = submitted + 1
  /\ \/ ~closed /\ latest' = submitted'
     \/ ~running /\ latest' = latest
  /\ UNCHANGED <<running, closed, owner, syncVars, worker, frame, reading,
                 buffer, view, i420, bgr, snapshot>>

CloseQueue == closed' = TRUE /\ latest' = 0

stop ==
  /\ \/ /\ owner = "serving" /\ owner' = "closing" /\ running' = FALSE
        /\ UNCHANGED <<latest, closed>>
     \/ /\ owner = "closing" /\ owner' = "joining" /\ CloseQueue
        /\ UNCHANGED running
     \/ /\ owner = "joining" /\ worker = "left" /\ owner' = "stopped"
        /\ UNCHANGED <<running, latest, closed>>
  /\ UNCHANGED <<submitted, syncVars, worker, frame, reading, buffer, view, i420, bgr, snapshot>>

-----------------------------------------------------------------------------

(* The fds of the planes, each once. *)
UniqueFds(planes) ==
  LET unique[n \in 0..Len(planes)] ==
        IF n = 0 THEN <<>>
        ELSE IF planes[n].fd \in ToSet(unique[n-1]) THEN unique[n-1]
        ELSE Append(unique[n-1], planes[n].fd)
  IN unique[Len(planes)]

(* The constructor of DmaBufReadSync on a buffer of the frame. *)
Open(what, b) ==
  /\ worker' = "start" /\ reading' = what /\ buffer' = <<b>> /\ view' = <<makeView(b)>>
  /\ fds' = UniqueFds(view'[1].planes) /\ synchronized' = <<>>
  /\ failed' = FALSE /\ then' = "drop" /\ UNCHANGED sessions

(* finish(), from where the worker goes on at next. *)
Finish(next) == worker' = "finish" /\ then' = next /\ buffer' = <<>> /\ view' = <<>>

(* waitPop(); inspectCompactI420() and the constructor follow. *)
Pop(b) ==
  /\ frame' = latest /\ latest' = 0 /\ Open("lores", b)
  /\ UNCHANGED <<submitted, running, closed, owner, i420, bgr, snapshot>>

Leave ==
  /\ worker = "wait" /\ latest = 0 /\ closed /\ worker' = "left"
  /\ UNCHANGED <<queueVars, syncVars, frame, reading, buffer, view, i420, bgr, snapshot>>

(* START of the next fd. *)
StartSucceeds ==
  /\ worker = "start" /\ fds # <<>>
  /\ fds' = Tail(fds) /\ synchronized' = Append(synchronized, Head(fds))
  /\ sessions' = [sessions EXCEPT ![Head(fds)] = @ + 1]
  /\ UNCHANGED <<queueVars, failed, then, worker, frame, reading, buffer, view,
                 i420, bgr, snapshot>>

(* Mutant: the constructor returns without finish(). *)
BugNoCleanup == worker' = "drop" /\ synchronized' = <<>> /\ UNCHANGED <<then, buffer, view>>

CleanUp == Finish("drop") /\ UNCHANGED synchronized

StartFails ==
  /\ worker = "start" /\ fds # <<>> /\ CleanUp
  /\ UNCHANGED <<queueVars, fds, failed, sessions, frame, reading, i420, bgr, snapshot>>

(* The constructor is done; without a plane it is not ready. *)
Ready ==
  /\ worker = "start" /\ fds = <<>>
  /\ worker' = IF synchronized = <<>> THEN "drop" ELSE "read"
  /\ UNCHANGED <<queueVars, syncVars, frame, reading, buffer, view, i420, bgr, snapshot>>

-----------------------------------------------------------------------------
InPlace == reading = "lores" /\ inspectCompactI420(view[1])

(* cvtColor() reads the mapping; it may throw. *)
ConvertMapping ==
  /\ worker = "read" /\ InPlace
  /\ \/ bgr' = frame /\ Finish("infer")
     \/ bgr' = bgr /\ Finish("drop")
  /\ UNCHANGED <<queueVars, fds, synchronized, failed, sessions, frame, reading,
                 i420, snapshot>>

(* Where a picture is copied to; it is emptied first. *)
CopyTo(n) ==
  IF reading = "lores" THEN i420' = n /\ UNCHANGED snapshot
                       ELSE snapshot' = n /\ UNCHANGED i420

(* Mutant: a copy that fails is converted like any other. *)
BugCopyUnchecked ==
  IF Copyable(view[1]) THEN CopyTo(frame) /\ Finish("convert")
                    ELSE UNCHANGED <<i420, snapshot>> /\ Finish("convert")

(* copyMappedI420() succeeds, or rejects the layout or throws. *)
CopyRows ==
  \/ /\ Copyable(view[1]) /\ CopyTo(frame)
     /\ Finish(IF reading = "lores" THEN "convert" ELSE "drop")
  \/ CopyTo(0) /\ Finish("drop")

CopyMapping ==
  /\ worker = "read" /\ ~InPlace /\ CopyRows
  /\ UNCHANGED <<queueVars, fds, synchronized, failed, sessions, frame, reading, bgr>>

(* END of the fds, last one first; an error is remembered.  The list is    *)
(* empty afterwards, so that the destructor has nothing left to end.       *)
End ==
  /\ worker = "finish" /\ synchronized # <<>>
  /\ failed' \in {failed, TRUE}
  /\ synchronized' = Front(synchronized)
  /\ sessions' = [sessions EXCEPT ![Last(synchronized)] = @ - 1]
  /\ UNCHANGED <<queueVars, fds, then, worker, frame, reading, buffer, view, i420, bgr, snapshot>>

Finished ==
  /\ worker = "finish" /\ synchronized = <<>>
  /\ worker' = IF failed THEN "drop" ELSE then
  /\ snapshot' = IF failed /\ reading = "main" THEN 0 ELSE snapshot
  /\ UNCHANGED <<queueVars, syncVars, frame, reading, buffer, view, i420, bgr>>

(* cvtColor() reads the copy, outside of the session. *)
ConvertCopy ==
  /\ worker = "convert"
  /\ \/ bgr' = i420 /\ worker' = "infer"
     \/ bgr' = bgr /\ worker' = "drop"
  /\ UNCHANGED <<queueVars, syncVars, frame, reading, buffer, view, i420, snapshot>>

(* infer() throws or detects nobody, or the gate turns trigger() away. *)
NothingDetected ==
  /\ worker = "infer" /\ worker' = "drop"
  /\ UNCHANGED <<queueVars, syncVars, frame, reading, buffer, view, i420, bgr, snapshot>>

(* The detection consumer, trigger(), stages a snapshot of the frame; its  *)
(* planes are mapped, like the others.                                     *)
Trigger(b) ==
  /\ snapshot' = 0 /\ Open("main", b)
  /\ UNCHANGED <<queueVars, frame, i420, bgr>>

(* The next iteration; the lease is released. *)
Drop ==
  /\ worker = "drop" /\ frame' = 0 /\ buffer' = <<>> /\ view' = <<>>
  /\ reading' = "lores"
  /\ worker' = IF running THEN "wait" ELSE "left"
  /\ UNCHANGED <<queueVars, syncVars, i420, bgr, snapshot>>

Sync == StartSucceeds \/ StartFails \/ Ready \/ End \/ Finished
Convert == ConvertMapping \/ CopyMapping \/ ConvertCopy

(* The worker past waitPop(), apart from trigger(). *)
Proceed == Leave \/ Sync \/ Convert \/ NothingDetected \/ Drop

(* The frames' buffers are in the sets Lores and Main: some that           *)
(* initialize() has mapped.                                                *)
Next(Lores, Main) ==
  \/ submit \/ stop \/ Proceed
  \/ worker = "wait" /\ latest # 0 /\ \E b \in Lores : Mappable(b) /\ Pop(b)
  \/ worker = "infer" /\ \E b \in Main : Mappable(b) /\ Trigger(b)

Spec(Lores, Main) == Init /\ [][Next(Lores, Main)]_vars

-----------------------------------------------------------------------------
(* A DMA-BUF is never in two sessions. *)
TypeOK ==
  /\ submitted \in Nat /\ running \in BOOLEAN /\ latest \in Nat /\ closed \in BOOLEAN
  /\ owner \in {"serving", "closing", "joining", "stopped"}
  /\ worker \in {"wait", "start", "read", "finish", "convert", "infer", "drop", "left"}
  /\ frame \in Nat /\ reading \in {"lores", "main"}
  /\ Len(buffer) <= 1 /\ Len(view) = Len(buffer)
  /\ fds \in Seq(Fds) /\ synchronized \in Seq(Fds) /\ failed \in BOOLEAN
  /\ then \in {"convert", "infer", "drop"}
  /\ sessions \in [Fds -> 0..1]
  /\ i420 \in Nat /\ bgr \in Nat /\ snapshot \in Nat

(* The bytes the worker is about to read, if it accepts the layout. *)
Accepted == InPlace \/ Copyable(view[1])
BytesRead == IF InPlace THEN MappedBytes(view[1]) ELSE copyMappedI420(view[1])

(* Wherever the worker or a snapshot reads camera memory, the byte is data *)
(* of some plane, it is mapped, and its DMA-BUF is in a read session.      *)
ReadsInSession ==
  worker = "read" /\ Accepted =>
    LET b == buffer[1] IN
    \A byte \in ToSet(BytesRead) :
      /\ sessions[byte[1]] = 1
      /\ byte[2] < MappedLength(b, byte[1])
      /\ \E i \in 1..Len(b.planes) :
           b.planes[i].fd = byte[1] /\ byte[2] >= b.planes[i].offset
             /\ Holds(b, i, byte[2] - b.planes[i].offset)

(* Every session that was started is ended, once, before the worker goes   *)
(* on to infer, drops the frame, waits for another or leaves: whatever     *)
(* START, END, copy or conversion failed.                                  *)
SessionsEnded ==
  worker \notin {"start", "read", "finish"} => \A fd \in Fds : sessions[fd] = 0

(* A layout is accepted exactly when the buffer holds a whole picture that *)
(* can be stored: no sum or product that wraps makes a short one pass.     *)
(* Then what is read, in place or by copying rows, is that picture sample  *)
(* by sample, for every stride and arrangement of the planes.              *)
ReadsWholePictures ==
  worker = "read" =>
    /\ Accepted <=> HoldsPicture(buffer[1])
    /\ Accepted => IsPicture(buffer[1], BytesRead)

(* infer() sees the frame the worker holds, never what an earlier one left *)
(* in the buffers that are used again, and a snapshot shows the frame that *)
(* triggered the event; neither uses a picture whose session ended badly.  *)
InfersCurrentFrame ==
  /\ worker = "infer" => bgr = frame /\ ~failed
  /\ reading = "main" /\ worker = "drop" /\ snapshot # 0 => snapshot = frame /\ ~failed
=============================================================================
