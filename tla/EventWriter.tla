---------------------------- MODULE EventWriter ----------------------------
(***************************************************************************)
(* writeEvent(): how the recorder's worker turns one finished event into a *)
(* directory on disk.  Everything is written into a hidden .partial        *)
(* directory, which one rename makes the published event.  Any file        *)
(* operation may fail, and the process may die between any two of them and *)
(* be started again on the same file system.                               *)
(*                                                                         *)
(* A file that is being written or whose writing failed has its .partial   *)
(* name; the rename to the final name is a step of its own.                *)
(***************************************************************************)
EXTENDS Integers, FiniteSets

CONSTANT EventId   \* event ids: wall clock and frame sequence

VARIABLES
  partial,    \* id -> the .partial directory
  final,      \* id -> the published directory
  process,    \* down, up
  pc,         \* where the worker is in writeEvent
  job,        \* [id, clip]: the event in hand, and whether it has units
  snapshot,   \* ArtifactResult::status of the snapshot
  video,      \* ArtifactResult::status of the clip
  taken, completed, failed,  \* events of this process
  used        \* ids this process has given out

vars == <<partial, final, process, pc, job, snapshot, video, taken, completed,
          failed, used>>

File == {"snapshot.partial", "snapshot", "clip.partial", "clip",
         "metadata.partial", "metadata"}
Status == {"unavailable", "complete", "failed"}
NoJob == [id |-> "none", clip |-> FALSE]

(* A directory: whether it exists, its files, and the statuses that its    *)
(* metadata records.                                                       *)
NoDir == [exists |-> FALSE, files |-> {},
          says |-> [snapshot |-> "unavailable", video |-> "unavailable"]]
EmptyDir == [NoDir EXCEPT !.exists = TRUE]

Init ==
  /\ partial = [id \in EventId |-> NoDir]
  /\ final = [id \in EventId |-> NoDir]
  /\ process = "down"
  /\ pc = "idle"
  /\ job = NoJob
  /\ snapshot = "unavailable" /\ video = "unavailable"
  /\ taken = 0 /\ completed = 0 /\ failed = 0
  /\ used = {}

-----------------------------------------------------------------------------
(* The files of the event in hand. *)
Files == partial[job.id].files
SetFiles(fs) == partial' = [partial EXCEPT ![job.id].files = fs]
Renamed(from, to) == (Files \ {from}) \union {to}

(* writeEvent() returns, counting the event failed; what it wrote stays.   *)
Fail ==
  /\ pc' = "idle" /\ job' = NoJob
  /\ failed' = failed + 1
  /\ UNCHANGED <<partial, final, process, snapshot, video, taken, completed, used>>

(* initialize(): stale .partial directories are reported and kept.  When   *)
(* it fails the process exits and stays down until it is started again.    *)
Initialize ==
  /\ process = "down"
  /\ process' = "up"
  /\ UNCHANGED <<partial, final, pc, job, snapshot, video, taken, completed,
                 failed, used>>

(* The worker takes an event: its id is new to this process, but after a   *)
(* restart the clock and the sequence may repeat.                          *)
TakeEvent(id, clip) ==
  /\ process = "up" /\ pc = "idle" /\ id \notin used
  /\ job' = [id |-> id, clip |-> clip]
  /\ snapshot' = "unavailable" /\ video' = "unavailable"
  /\ taken' = taken + 1
  /\ used' = used \union {id}
  /\ pc' = "mkdir"
  /\ UNCHANGED <<partial, final, process, completed, failed>>

(* An event whose directory exists under either name is refused. *)
MakeDirectory ==
  /\ pc = "mkdir"
  /\ \/ Fail
     \/ /\ ~partial[job.id].exists /\ ~final[job.id].exists
        /\ partial' = [partial EXCEPT ![job.id] = EmptyDir]
        /\ pc' = "snapshot"
        /\ UNCHANGED <<final, process, job, snapshot, video, taken, completed,
                       failed, used>>

(* writeSnapshot(): no usable pixels, a JPEG that could not be written,    *)
(* or a JPEG under its .partial name.                                      *)
WriteSnapshot ==
  /\ pc = "snapshot"
  /\ \/ snapshot' = "failed" /\ pc' = "video" /\ UNCHANGED partial
     \/ /\ SetFiles(Files \union {"snapshot.partial"})
        /\ \/ snapshot' = "failed" /\ pc' = "video"
           \/ snapshot' = snapshot /\ pc' = "snapshot_rename"
  /\ UNCHANGED <<final, process, job, video, taken, completed, failed, used>>

RenameSnapshot ==
  /\ pc = "snapshot_rename"
  /\ \/ snapshot' = "failed" /\ UNCHANGED partial
     \/ /\ snapshot' = "complete"
        /\ SetFiles(Renamed("snapshot.partial", "snapshot"))
  /\ pc' = "video"
  /\ UNCHANGED <<final, process, job, video, taken, completed, failed, used>>

(* muxVideo(): unavailable without units; otherwise refused, or muxed into *)
(* the .partial file, which finalizes or does not.                         *)
MuxVideo ==
  /\ pc = "video"
  /\ \/ /\ ~job.clip
        /\ pc' = "metadata" /\ UNCHANGED <<partial, video>>
     \/ /\ job.clip
        /\ video' = "failed" /\ pc' = "metadata" /\ UNCHANGED partial
     \/ /\ job.clip
        /\ SetFiles(Files \union {"clip.partial"})
        /\ \/ video' = "failed" /\ pc' = "metadata"
           \/ video' = video /\ pc' = "video_rename"
  /\ UNCHANGED <<final, process, job, snapshot, taken, completed, failed, used>>

RenameVideo ==
  /\ pc = "video_rename"
  /\ \/ video' = "failed" /\ UNCHANGED partial
     \/ /\ video' = "complete"
        /\ SetFiles(Renamed("clip.partial", "clip"))
  /\ pc' = "metadata"
  /\ UNCHANGED <<final, process, job, snapshot, taken, completed, failed, used>>

(* Mutant: only an event without any artifact counts as failed. *)
BugOnlyEmptyFails == snapshot # "complete" /\ video # "complete"

(* A failed mux is fatal, and so is an event without any artifact. *)
ArtifactsFailed ==
  video = "failed" \/ (snapshot # "complete" /\ video # "complete")

(* Mutant: the metadata goes out under its .partial name. *)
BugSkipsMetadataRename ==
  /\ pc = "metadata"
  /\ partial' = [partial EXCEPT
       ![job.id].files = Files \union {"metadata.partial"},
       ![job.id].says = [snapshot |-> snapshot, video |-> video]]
  /\ pc' = IF ArtifactsFailed THEN "artifacts_failed" ELSE "publish"
  /\ UNCHANGED <<final, process, job, snapshot, video, taken, completed,
                 failed, used>>

(* writeMetadata(): it records the statuses as they are now, even for an   *)
(* event that is then given up. *)
WriteMetadata ==
  /\ pc = "metadata"
  /\ \/ Fail
     \/ /\ partial' = [partial EXCEPT
             ![job.id].files = Files \union {"metadata.partial"},
             ![job.id].says = [snapshot |-> snapshot, video |-> video]]
        /\ pc' = IF ArtifactsFailed THEN "artifacts_failed" ELSE "metadata_rename"
        /\ UNCHANGED <<final, process, job, snapshot, video, taken, completed,
                       failed, used>>

GiveUp == pc = "artifacts_failed" /\ Fail

RenameMetadata ==
  /\ pc = "metadata_rename"
  /\ \/ Fail
     \/ /\ SetFiles(Renamed("metadata.partial", "metadata"))
        /\ pc' = "publish"
        /\ UNCHANGED <<final, process, job, snapshot, video, taken, completed,
                       failed, used>>

(* Mutant: the directory is copied to its final name and then removed. *)
BugPublishLeavesPartial ==
  /\ pc = "publish"
  /\ \/ Fail
     \/ /\ final' = [final EXCEPT ![job.id] = partial[job.id]]
        /\ pc' = "idle" /\ job' = NoJob
        /\ completed' = completed + 1
        /\ UNCHANGED <<partial, process, snapshot, video, taken, failed, used>>

(* The rename of the directory publishes the event.  rename() does not     *)
(* replace a directory that has files.                                     *)
Publish ==
  /\ pc = "publish"
  /\ \/ Fail
     \/ /\ final[job.id].files = {}
        /\ final' = [final EXCEPT ![job.id] = partial[job.id]]
        /\ partial' = [partial EXCEPT ![job.id] = NoDir]
        /\ pc' = "idle" /\ job' = NoJob
        /\ completed' = completed + 1
        /\ UNCHANGED <<process, snapshot, video, taken, failed, used>>

(* The process ends, cleanly or not: only the file system survives. *)
Crash ==
  /\ process = "up"
  /\ process' = "down"
  /\ pc' = "idle" /\ job' = NoJob
  /\ snapshot' = "unavailable" /\ video' = "unavailable"
  /\ taken' = 0 /\ completed' = 0 /\ failed' = 0
  /\ used' = {}
  /\ UNCHANGED <<partial, final>>

WriteStep ==
  \/ MakeDirectory \/ WriteSnapshot \/ RenameSnapshot \/ MuxVideo
  \/ RenameVideo \/ WriteMetadata \/ GiveUp \/ RenameMetadata \/ Publish

Next ==
  \/ Initialize \/ Crash \/ WriteStep
  \/ \E id \in EventId, clip \in BOOLEAN : TakeEvent(id, clip)

Spec == Init /\ [][Next]_vars

-----------------------------------------------------------------------------
Dir == [exists : BOOLEAN, files : SUBSET File,
        says : [snapshot : Status, video : Status]]

(* The shape of the state; only a directory that exists has files. *)
WriterTypeOK ==
  /\ partial \in [EventId -> Dir] /\ final \in [EventId -> Dir]
  /\ \A id \in EventId : \A d \in {partial[id], final[id]} :
       d.files # {} => d.exists
  /\ process \in {"down", "up"}
  /\ pc \in {"idle", "mkdir", "snapshot", "snapshot_rename", "video",
             "video_rename", "metadata", "artifacts_failed",
             "metadata_rename", "publish"}
  /\ job \in [id : EventId \union {"none"}, clip : BOOLEAN]
  /\ snapshot \in Status /\ video \in Status
  /\ taken \in Nat /\ completed \in Nat /\ failed \in Nat
  /\ used \subseteq EventId

(* A published directory is complete and tells the truth about itself: it  *)
(* has its metadata, an artifact, exactly the artifacts the metadata calls *)
(* complete, and no file of a mux or metadata write that did not finish.   *)
PublishedComplete ==
  \A id \in EventId : final[id].exists =>
    LET d == final[id] IN
    /\ "metadata" \in d.files
    /\ {"snapshot", "clip"} \cap d.files # {}
    /\ {"clip.partial", "metadata.partial"} \cap d.files = {}
    /\ ("snapshot" \in d.files) <=> (d.says.snapshot = "complete")
    /\ ("clip" \in d.files) <=> (d.says.video = "complete")

(* A .partial directory is left behind only by an event that failed or by  *)
(* a process that died; while a process is up, every event it took is      *)
(* published, failed, or the one in hand.                                  *)
NothingInBetween ==
  /\ taken = completed + failed + (IF pc = "idle" THEN 0 ELSE 1)
  /\ \A id \in EventId : ~(partial[id].exists /\ final[id].exists)

(* The directory as its readers see it. *)
Published ==
  [id \in EventId |->
     LET d == final[id] IN
     [metadata |-> "metadata" \in d.files,
      snapshot |-> "snapshot" \in d.files,
      clip |-> "clip" \in d.files,
      claims |-> [snapshot |-> d.says.snapshot = "complete",
                  clip |-> d.says.video = "complete"]]]

Store == INSTANCE EventStore WITH store <- Published

(* Events are published atomically, complete, and never touched again.     *)
PublishesAtomically == Store!Spec
=============================================================================
