------------------------- MODULE EventWriterProofs -------------------------
(***************************************************************************)
(* TLAPS proofs about EventWriter: for any set of event ids and any number *)
(* of events, failures and crashes, a published directory is complete, and *)
(* writeEvent() implements the abstract event store.                       *)
(***************************************************************************)
EXTENDS EventWriter, TLAPS

(* What the .partial directory d of the event in hand holds when the       *)
(* worker is at p with statuses s and v: the artifacts that have their     *)
(* final names are those whose status is complete, and a .partial file is  *)
(* there only while it is written or after its status became failed.       *)
Progress(p, d, s, v) ==
  /\ "snapshot" \in d.files <=> s = "complete"
  /\ "clip" \in d.files <=> v = "complete"
  /\ p \in {"snapshot", "snapshot_rename"} => s = "unavailable"
  /\ p \in {"snapshot", "snapshot_rename", "video", "video_rename"} =>
       v = "unavailable"
  /\ "clip.partial" \in d.files => v = "failed" \/ p = "video_rename"
  /\ "metadata.partial" \in d.files =>
       p \in {"artifacts_failed", "metadata_rename"}
  /\ p \in {"metadata_rename", "publish"} =>
       /\ v # "failed" /\ (s = "complete" \/ v = "complete")
       /\ d.says = [snapshot |-> s, video |-> v]
  /\ p = "publish" => "metadata" \in d.files

(* The event in hand has an id, and once its directory is made the         *)
(* directory is its own and unpublished.                                   *)
InHand ==
  /\ pc # "idle" => job.id \in EventId
  /\ pc = "mkdir" => snapshot = "unavailable" /\ video = "unavailable"
  /\ pc \notin {"idle", "mkdir"} =>
       /\ partial[job.id].exists /\ ~final[job.id].exists
       /\ Progress(pc, partial[job.id], snapshot, video)

(* What is not published leaves nothing under its final name. *)
AbsentIsEmpty == \A id \in EventId : ~final[id].exists => final[id] = NoDir

(* The inductive invariant. *)
WriterInv ==
  /\ WriterTypeOK /\ InHand /\ AbsentIsEmpty
  /\ PublishedComplete /\ NothingInBetween

-----------------------------------------------------------------------------
(* Nothing under the final names changes unless a directory is renamed. *)
LEMMA FinalUnchanged ==
  ASSUME WriterInv, UNCHANGED final
  PROVE  AbsentIsEmpty' /\ PublishedComplete'
BY DEF WriterInv, AbsentIsEmpty, PublishedComplete

(* A step that leaves the file system, the counters and the worker alone.  *)
LEMMA InitializePreserves == WriterInv /\ Initialize => WriterInv'
<1> SUFFICES ASSUME WriterInv, Initialize PROVE WriterInv'
  OBVIOUS
<1>1. AbsentIsEmpty' /\ PublishedComplete'
  BY FinalUnchanged DEF Initialize
<1>2. InHand'
  BY DEF Initialize, WriterInv, InHand
<1>3. WriterTypeOK' /\ NothingInBetween'
  BY DEF Initialize, WriterInv, WriterTypeOK, NothingInBetween
<1> QED BY <1>1, <1>2, <1>3 DEF WriterInv

(* A process that ends forgets the event in hand, not its directory. *)
LEMMA CrashPreserves == WriterInv /\ Crash => WriterInv'
<1> SUFFICES ASSUME WriterInv, Crash PROVE WriterInv'
  OBVIOUS
<1>1. AbsentIsEmpty' /\ PublishedComplete'
  BY FinalUnchanged DEF Crash
<1>2. InHand'
  BY DEF Crash, InHand
<1>3. WriterTypeOK'
  BY DEF Crash, WriterInv, WriterTypeOK, NoJob, Status
<1>4. NothingInBetween'
  BY DEF Crash, WriterInv, NothingInBetween
<1> QED BY <1>1, <1>2, <1>3, <1>4 DEF WriterInv

(* writeEvent() gives the event up at any of its steps. *)
LEMMA FailPreserves == WriterInv /\ pc # "idle" /\ Fail => WriterInv'
<1> SUFFICES ASSUME WriterInv, pc # "idle", Fail PROVE WriterInv'
  OBVIOUS
<1>1. AbsentIsEmpty' /\ PublishedComplete'
  BY FinalUnchanged DEF Fail
<1>2. InHand'
  BY DEF Fail, InHand
<1>3. WriterTypeOK'
  BY DEF Fail, WriterInv, WriterTypeOK, NoJob, Status
<1>4. NothingInBetween'
  BY DEF Fail, WriterInv, NothingInBetween, WriterTypeOK
<1> QED BY <1>1, <1>2, <1>3, <1>4 DEF WriterInv

LEMMA TakePreserves ==
  ASSUME WriterInv, NEW id \in EventId, NEW clip \in BOOLEAN,
         TakeEvent(id, clip)
  PROVE  WriterInv'
<1>1. AbsentIsEmpty' /\ PublishedComplete'
  BY FinalUnchanged DEF TakeEvent
<1>2. InHand'
  BY DEF TakeEvent, InHand
<1>3. WriterTypeOK'
  BY DEF TakeEvent, WriterInv, WriterTypeOK, Status
<1>4. NothingInBetween'
  BY DEF TakeEvent, WriterInv, NothingInBetween, WriterTypeOK
<1> QED BY <1>1, <1>2, <1>3, <1>4 DEF WriterInv

(* A step of writeEvent() that goes on with the event in hand and changes  *)
(* at most its .partial directory.                                         *)
Continues ==
  /\ pc # "idle"
  /\ pc' \in {"snapshot", "snapshot_rename", "video", "video_rename",
              "metadata", "artifacts_failed", "metadata_rename", "publish"}
  /\ snapshot' \in Status /\ video' \in Status
  /\ partial' \in [EventId -> Dir]
  /\ \A id \in EventId \ {job.id} : partial'[id] = partial[id]
  /\ partial'[job.id].exists
  /\ ~final[job.id].exists
  /\ Progress(pc', partial'[job.id], snapshot', video')
  /\ UNCHANGED <<final, process, job, taken, completed, failed, used>>

LEMMA ContinuesPreserves == WriterInv /\ Continues => WriterInv'
<1> SUFFICES ASSUME WriterInv, Continues PROVE WriterInv'
  OBVIOUS
<1>1. AbsentIsEmpty' /\ PublishedComplete'
  BY FinalUnchanged DEF Continues
<1>2. InHand'
  BY DEF Continues, WriterInv, InHand
<1>3. WriterTypeOK'
  BY DEF Continues, WriterInv, WriterTypeOK
<1>4. NothingInBetween'
  BY DEF Continues, WriterInv, InHand, NothingInBetween, WriterTypeOK
<1> QED BY <1>1, <1>2, <1>3, <1>4 DEF WriterInv

(* The step's new .partial directory is the old one with d in hand. *)
LEMMA UpdateDirectory ==
  ASSUME WriterInv, pc # "idle", NEW d \in Dir,
         partial' = [partial EXCEPT ![job.id] = d]
  PROVE  /\ partial' \in [EventId -> Dir]
         /\ partial'[job.id] = d
         /\ \A id \in EventId \ {job.id} : partial'[id] = partial[id]
BY DEF WriterInv, WriterTypeOK, InHand

(* SetFiles replaces the files and nothing else. *)
LEMMA SetFilesFacts ==
  ASSUME WriterInv, pc # "idle", NEW fs \in SUBSET File, SetFiles(fs)
  PROVE  /\ partial' \in [EventId -> Dir]
         /\ partial'[job.id].files = fs
         /\ partial'[job.id].exists = partial[job.id].exists
         /\ partial'[job.id].says = partial[job.id].says
         /\ \A id \in EventId \ {job.id} : partial'[id] = partial[id]
BY DEF SetFiles, WriterInv, WriterTypeOK, InHand, Dir

(* The files in hand are files, before and after a rename. *)
LEMMA FilesType ==
  ASSUME WriterInv, pc # "idle"
  PROVE  Files \in SUBSET File
BY DEF WriterInv, WriterTypeOK, InHand, Files, Dir

LEMMA MakeDirectoryPreserves == WriterInv /\ MakeDirectory => WriterInv'
<1> SUFFICES ASSUME WriterInv, MakeDirectory PROVE WriterInv'
  OBVIOUS
<1>1. CASE Fail
  BY <1>1, FailPreserves DEF MakeDirectory
<1>2. CASE ~Fail
  <2>1. EmptyDir \in Dir /\ EmptyDir.exists /\ EmptyDir.files = {}
    BY DEF EmptyDir, NoDir, Dir, Status
  <2>2. /\ partial' \in [EventId -> Dir] /\ partial'[job.id] = EmptyDir
        /\ \A id \in EventId \ {job.id} : partial'[id] = partial[id]
    BY <1>2, <2>1, UpdateDirectory DEF MakeDirectory
  <2>3. snapshot = "unavailable" /\ video = "unavailable"
    BY DEF MakeDirectory, WriterInv, InHand
  <2>4. Progress("snapshot", EmptyDir, snapshot, video)
    BY <2>1, <2>3 DEF Progress
  <2> QED BY <1>2, <2>1, <2>2, <2>3, <2>4, ContinuesPreserves
        DEF MakeDirectory, Continues, Status
<1> QED BY <1>1, <1>2

(* What the invariant says of the event in hand once its directory exists. *)
LEMMA HandFacts ==
  ASSUME WriterInv, pc \notin {"idle", "mkdir"}
  PROVE  /\ job.id \in EventId
         /\ partial[job.id].exists /\ ~final[job.id].exists
         /\ partial[job.id] \in Dir
         /\ Files = partial[job.id].files /\ Files \in SUBSET File
         /\ Progress(pc, partial[job.id], snapshot, video)
         /\ partial \in [EventId -> Dir]
         /\ snapshot \in Status /\ video \in Status
BY FilesType DEF WriterInv, WriterTypeOK, InHand, Files

LEMMA WriteSnapshotPreserves == WriterInv /\ WriteSnapshot => WriterInv'
<1> SUFFICES ASSUME WriterInv, WriteSnapshot PROVE WriterInv'
  OBVIOUS
<1>1. pc = "snapshot"
  BY DEF WriteSnapshot
<1>2. CASE UNCHANGED partial
  BY <1>1, <1>2, HandFacts, ContinuesPreserves
     DEF WriteSnapshot, Continues, Progress, Status
<1>3. CASE SetFiles(Files \union {"snapshot.partial"})
  <2>1. Files \union {"snapshot.partial"} \in SUBSET File
    BY <1>1, HandFacts DEF File
  <2> QED BY <1>1, <1>3, <2>1, HandFacts, SetFilesFacts, ContinuesPreserves
        DEF WriteSnapshot, Continues, Progress, Status
<1> QED BY <1>2, <1>3 DEF WriteSnapshot

LEMMA RenameSnapshotPreserves == WriterInv /\ RenameSnapshot => WriterInv'
<1> SUFFICES ASSUME WriterInv, RenameSnapshot PROVE WriterInv'
  OBVIOUS
<1>1. pc = "snapshot_rename"
  BY DEF RenameSnapshot
<1>2. CASE snapshot' = "failed" /\ UNCHANGED partial
  BY <1>1, <1>2, HandFacts, ContinuesPreserves
     DEF RenameSnapshot, Continues, Progress, Status
<1>3. CASE SetFiles(Renamed("snapshot.partial", "snapshot"))
  <2>1. Renamed("snapshot.partial", "snapshot") \in SUBSET File
    BY <1>1, HandFacts DEF File, Renamed
  <2> QED BY <1>1, <1>3, <2>1, HandFacts, SetFilesFacts, ContinuesPreserves
        DEF RenameSnapshot, Continues, Progress, Status, Renamed
<1> QED BY <1>2, <1>3 DEF RenameSnapshot

LEMMA MuxVideoPreserves == WriterInv /\ MuxVideo => WriterInv'
<1> SUFFICES ASSUME WriterInv, MuxVideo PROVE WriterInv'
  OBVIOUS
<1>1. pc = "video"
  BY DEF MuxVideo
<1>2. CASE UNCHANGED partial
  BY <1>1, <1>2, HandFacts, ContinuesPreserves
     DEF MuxVideo, Continues, Progress, Status
<1>3. CASE SetFiles(Files \union {"clip.partial"})
  <2>1. Files \union {"clip.partial"} \in SUBSET File
    BY <1>1, HandFacts DEF File
  <2> QED BY <1>1, <1>3, <2>1, HandFacts, SetFilesFacts, ContinuesPreserves
        DEF MuxVideo, Continues, Progress, Status
<1> QED BY <1>2, <1>3 DEF MuxVideo

LEMMA RenameVideoPreserves == WriterInv /\ RenameVideo => WriterInv'
<1> SUFFICES ASSUME WriterInv, RenameVideo PROVE WriterInv'
  OBVIOUS
<1>1. pc = "video_rename"
  BY DEF RenameVideo
<1>2. CASE video' = "failed" /\ UNCHANGED partial
  BY <1>1, <1>2, HandFacts, ContinuesPreserves
     DEF RenameVideo, Continues, Progress, Status
<1>3. CASE SetFiles(Renamed("clip.partial", "clip"))
  <2>1. Renamed("clip.partial", "clip") \in SUBSET File
    BY <1>1, HandFacts DEF File, Renamed
  <2> QED BY <1>1, <1>3, <2>1, HandFacts, SetFilesFacts, ContinuesPreserves
        DEF RenameVideo, Continues, Progress, Status, Renamed
<1> QED BY <1>2, <1>3 DEF RenameVideo

LEMMA WriteMetadataPreserves == WriterInv /\ WriteMetadata => WriterInv'
<1> SUFFICES ASSUME WriterInv, WriteMetadata PROVE WriterInv'
  OBVIOUS
<1>1. pc = "metadata"
  BY DEF WriteMetadata
<1>2. CASE Fail
  BY <1>1, <1>2, FailPreserves
<1>3. CASE ~Fail
  <2> DEFINE claims == [snapshot |-> snapshot, video |-> video]
             files == Files \union {"metadata.partial"}
             d == [partial[job.id] EXCEPT !.files = files, !.says = claims]
  <2>1. files \in SUBSET File /\ claims \in [snapshot : Status, video : Status]
    BY <1>1, HandFacts DEF File
  <2>2. d \in Dir /\ d.files = files /\ d.says = claims /\ d.exists
    BY <1>1, <2>1, HandFacts DEF Dir
  <2>3. partial' = [partial EXCEPT ![job.id] = d]
    BY <1>1, <1>3, HandFacts DEF WriteMetadata, Dir
  <2>4. pc' = IF ArtifactsFailed THEN "artifacts_failed" ELSE "metadata_rename"
    BY <1>3 DEF WriteMetadata
  <2>5. Progress(pc', d, snapshot, video)
    BY <1>1, <2>2, <2>4, HandFacts DEF Progress, ArtifactsFailed
  <2> HIDE DEF d
  <2>6. /\ partial' \in [EventId -> Dir] /\ partial'[job.id] = d
        /\ \A id \in EventId \ {job.id} : partial'[id] = partial[id]
    BY <1>1, <2>2, <2>3, UpdateDirectory
  <2> QED BY <1>1, <1>3, <2>2, <2>4, <2>5, <2>6, HandFacts, ContinuesPreserves
        DEF WriteMetadata, Continues
<1> QED BY <1>2, <1>3

LEMMA RenameMetadataPreserves == WriterInv /\ RenameMetadata => WriterInv'
<1> SUFFICES ASSUME WriterInv, RenameMetadata PROVE WriterInv'
  OBVIOUS
<1>1. pc = "metadata_rename"
  BY DEF RenameMetadata
<1>2. CASE Fail
  BY <1>1, <1>2, FailPreserves
<1>3. CASE SetFiles(Renamed("metadata.partial", "metadata")) /\ ~Fail
  <2>1. Renamed("metadata.partial", "metadata") \in SUBSET File
    BY <1>1, HandFacts DEF File, Renamed
  <2> QED BY <1>1, <1>3, <2>1, HandFacts, SetFilesFacts, ContinuesPreserves
        DEF RenameMetadata, Continues, Progress, Status, Renamed
<1> QED BY <1>2, <1>3 DEF RenameMetadata

-----------------------------------------------------------------------------
(* The rename of the directory: what readers then find is an event whose   *)
(* id had nothing under it before.                                         *)
LEMMA PublishPreserves == WriterInv /\ Publish => WriterInv'
<1> SUFFICES ASSUME WriterInv, Publish PROVE WriterInv'
  OBVIOUS
<1>1. pc = "publish"
  BY DEF Publish
<1>2. CASE Fail
  BY <1>1, <1>2, FailPreserves
<1>3. CASE ~Fail
  <2>1. /\ final' = [final EXCEPT ![job.id] = partial[job.id]]
        /\ partial' = [partial EXCEPT ![job.id] = NoDir]
        /\ pc' = "idle" /\ job' = NoJob /\ completed' = completed + 1
        /\ UNCHANGED <<process, snapshot, video, taken, failed, used>>
    BY <1>3 DEF Publish
  <2>2. NoDir \in Dir /\ ~NoDir.exists /\ NoDir.files = {}
    BY DEF NoDir, Dir, Status
  <2>3. /\ final \in [EventId -> Dir] /\ partial \in [EventId -> Dir]
        /\ job.id \in EventId
    BY <1>1, HandFacts DEF WriterInv, WriterTypeOK
  <2>4. /\ final' \in [EventId -> Dir] /\ partial' \in [EventId -> Dir]
        /\ \A id \in EventId :
             /\ final'[id] = IF id = job.id THEN partial[id] ELSE final[id]
             /\ partial'[id] = IF id = job.id THEN NoDir ELSE partial[id]
    BY <1>1, <2>1, <2>2, <2>3, HandFacts
  <2>5. PublishedComplete'
    BY <1>1, <2>3, <2>4, HandFacts DEF PublishedComplete, WriterInv, Progress
  <2>6. AbsentIsEmpty'
    BY <1>1, <2>3, <2>4, HandFacts DEF AbsentIsEmpty, WriterInv
  <2>7. InHand'
    BY <2>1 DEF InHand
  <2>8. NothingInBetween'
    BY <1>1, <2>1, <2>2, <2>4 DEF NothingInBetween, WriterInv, WriterTypeOK
  <2>9. WriterTypeOK'
    BY <2>1, <2>2, <2>4 DEF WriterInv, WriterTypeOK, NoJob
  <2> QED BY <2>5, <2>6, <2>7, <2>8, <2>9 DEF WriterInv
<1> QED BY <1>2, <1>3

LEMMA WriterInvPreserved == WriterInv /\ [Next]_vars => WriterInv'
<1> SUFFICES ASSUME WriterInv, [Next]_vars PROVE WriterInv'
  OBVIOUS
<1>1. CASE UNCHANGED vars
  BY <1>1 DEF vars, WriterInv, WriterTypeOK, InHand, AbsentIsEmpty,
              PublishedComplete, NothingInBetween, Progress
<1>2. CASE WriteStep
  <2>1. CASE GiveUp
    BY <2>1, FailPreserves DEF GiveUp
  <2> QED BY <1>2, <2>1, MakeDirectoryPreserves, WriteSnapshotPreserves,
        RenameSnapshotPreserves, MuxVideoPreserves, RenameVideoPreserves,
        WriteMetadataPreserves, RenameMetadataPreserves, PublishPreserves
        DEF WriteStep
<1> QED BY <1>1, <1>2, InitializePreserves, CrashPreserves, TakePreserves
      DEF Next

LEMMA WriterInvInit == Init => WriterInv
<1> SUFFICES ASSUME Init PROVE WriterInv
  OBVIOUS
<1>1. NoDir \in Dir /\ ~NoDir.exists /\ NoDir.files = {}
  BY DEF NoDir, Dir, Status
<1>2. WriterTypeOK
  BY <1>1 DEF Init, WriterTypeOK, NoJob, Status
<1>3. InHand /\ AbsentIsEmpty /\ PublishedComplete /\ NothingInBetween
  BY <1>1 DEF Init, InHand, AbsentIsEmpty, PublishedComplete, NothingInBetween
<1> QED BY <1>2, <1>3 DEF WriterInv

LEMMA WriterInvAlways == Spec => []WriterInv
BY WriterInvInit, WriterInvPreserved, PTL DEF Spec

(* However many events are written, fail or are cut off by a crash, a      *)
(* directory under its final name has its metadata and exactly the         *)
(* artifacts the metadata calls complete.                                  *)
THEOREM PublishedAlwaysComplete == Spec => []PublishedComplete
<1>1. WriterInv => PublishedComplete
  BY DEF WriterInv
<1> QED BY <1>1, WriterInvAlways, PTL

(* Every event the process took is published, failed or in hand, and no    *)
(* event is both published and in its .partial directory.                  *)
THEOREM NeverInBetween == Spec => []NothingInBetween
<1>1. WriterInv => NothingInBetween
  BY DEF WriterInv
<1> QED BY <1>1, WriterInvAlways, PTL

-----------------------------------------------------------------------------
(* What readers see of a directory. *)
Seen(d) ==
  [metadata |-> "metadata" \in d.files,
   snapshot |-> "snapshot" \in d.files,
   clip |-> "clip" \in d.files,
   claims |-> [snapshot |-> d.says.snapshot = "complete",
               clip |-> d.says.video = "complete"]]

LEMMA NoDirSeen == Seen(NoDir) = Store!Absent
<1>1. /\ ("metadata" \in NoDir.files) = FALSE
      /\ ("snapshot" \in NoDir.files) = FALSE
      /\ ("clip" \in NoDir.files) = FALSE
      /\ (NoDir.says.snapshot = "complete") = FALSE
      /\ (NoDir.says.video = "complete") = FALSE
  BY DEF NoDir
<1> QED BY <1>1, Zenon DEF Seen, Store!Absent, Store!View

LEMMA CompleteSeen ==
  ASSUME NEW d, NEW s, NEW v, Progress("publish", d, s, v)
  PROVE  \E b, c \in BOOLEAN : (b \/ c) /\ Seen(d) = Store!View(TRUE, b, c)
<1> DEFINE b == "snapshot" \in d.files
           c == "clip" \in d.files
<1>1. b \/ c
  BY DEF Progress
<1>2. /\ ("metadata" \in d.files) = TRUE
      /\ (d.says.snapshot = "complete") = b
      /\ (d.says.video = "complete") = c
  <2>1. /\ "metadata" \in d.files
        /\ (d.says.snapshot = "complete") <=> b
        /\ (d.says.video = "complete") <=> c
    BY DEF Progress
  <2> QED BY <2>1
<1>3. Seen(d) = Store!View(TRUE, b, c)
  BY <1>2, Zenon DEF Seen, Store!View
<1>4. b \in BOOLEAN /\ c \in BOOLEAN
  OBVIOUS
<1> HIDE DEF b, c
<1> QED BY <1>1, <1>3, <1>4, Zenon

(* Readers see no change unless the directory is renamed. *)
LEMMA SameForReaders == UNCHANGED final => UNCHANGED Published
BY DEF Published

(* A step of writeEvent(), a crash or a restart is, to a reader, the       *)
(* publication of one complete event or nothing.                           *)
LEMMA WriterStepRefines ==
  WriterInv /\ [Next]_vars => [Store!Next]_Published
<1> SUFFICES ASSUME WriterInv, [Next]_vars PROVE [Store!Next]_Published
  OBVIOUS
<1>1. CASE UNCHANGED final
  BY <1>1, SameForReaders
<1>2. CASE ~UNCHANGED final
  <2>1. Publish /\ ~Fail
    BY <1>2 DEF Next, vars, Initialize, Crash, TakeEvent, WriteStep,
         MakeDirectory, WriteSnapshot, RenameSnapshot, MuxVideo, RenameVideo,
         WriteMetadata, GiveUp, RenameMetadata, Publish, Fail
  <2>2. /\ pc = "publish"
        /\ final' = [final EXCEPT ![job.id] = partial[job.id]]
    BY <2>1 DEF Publish
  <2>3. /\ job.id \in EventId /\ ~final[job.id].exists
        /\ Progress("publish", partial[job.id], snapshot, video)
        /\ final \in [EventId -> Dir]
    BY <2>2, HandFacts DEF WriterInv, WriterTypeOK
  <2> DEFINE d == partial[job.id]
             event == Seen(d)
  <2>4. Published[job.id] = Store!Absent
    <3>1. final[job.id] = NoDir
      BY <2>3 DEF WriterInv, AbsentIsEmpty
    <3>2. Published[job.id] = Seen(final[job.id])
      BY <2>3 DEF Published, Seen
    <3> QED BY <3>1, <3>2, NoDirSeen
  <2>5. PICK b \in BOOLEAN, c \in BOOLEAN :
          (b \/ c) /\ event = Store!View(TRUE, b, c)
    BY <2>3, CompleteSeen, Zenon
  <2>6. Published' = [Published EXCEPT ![job.id] = event]
    BY <2>2, <2>3 DEF Published, Seen
  <2> HIDE DEF event
  <2>7. Store!Publish(job.id)
    BY <2>4, <2>5, <2>6, Zenon DEF Store!Publish
  <2> QED BY <2>3, <2>7 DEF Store!Next
<1> QED BY <1>1, <1>2

LEMMA WriterInitRefines == Init => Store!Init
<1> SUFFICES ASSUME Init PROVE Store!Init
  OBVIOUS
<1>1. Published = [id \in EventId |-> Seen(final[id])]
  BY DEF Published, Seen
<1>2. \A id \in EventId : final[id] = NoDir
  BY DEF Init
<1> QED BY <1>1, <1>2, NoDirSeen DEF Store!Init

(* writeEvent() implements EventStore: to whoever looks at the event       *)
(* directory, at any moment and across crashes, an event appears complete  *)
(* in one step and never changes again.                                    *)
THEOREM WriterImplementsStore == Spec => PublishesAtomically
<1>1. Spec => []WriterInv
  BY WriterInvAlways
<1>2. Init => Store!Init
  BY WriterInitRefines
<1>3. WriterInv /\ [Next]_vars => [Store!Next]_Published
  BY WriterStepRefines
<1> QED BY <1>1, <1>2, <1>3, PTL DEF Spec, PublishesAtomically, Store!Spec
=============================================================================
