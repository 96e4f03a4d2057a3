-------------------------- MODULE RtspServerProofs --------------------------
(***************************************************************************)
(* TLAPS proofs about RtspServer: for any number of medias, of errors and  *)
(* recoveries, and any limit of push failures.                             *)
(***************************************************************************)
EXTENDS RtspServer, FiniteSetTheorems, TLAPS

(* The steps of stopLocked(): what each of them has put an end to. *)
StopPhases ==
  /\ up <=> stop.at = "no"
  /\ enabled <=> stop.at \notin {"callbacks", "done"}
  /\ stop.at \notin {"no", "feeder"} => feeder = 0 /\ ~accepting
  /\ worker = "running" <=> stop.at \in {"no", "feeder", "job"}
  /\ stop.at \in {"callbacks", "done"} => worker = "exited"
  /\ worker = "exited" => pending = 0 /\ working = 0
  /\ stop.at = "done" =>
       /\ media = NoMedia /\ ~appsrc /\ configuring = NoMedia /\ marking = {}
       /\ watchdog = Idle

(* With n jobs done, the worker has the next, the one after that waits,    *)
(* and recovery_job_ is the last of them all.                              *)
JobsNumbered(n) ==
  /\ done = 1..n
  /\ working \in {0, n + 1}
  /\ pending = 0 \/ pending = IF working = 0 THEN n + 1 ELSE n + 2
  /\ rjob.id = 0 \/ rjob.id = IF pending # 0 THEN pending
                              ELSE IF working # 0 THEN working ELSE n
JobsInOrder == \E n \in Nat : JobsNumbered(n)

(* The current media is the cached one and in use, or it is on its way out *)
(* and known to be.                                                        *)
MediaKnown ==
  /\ media # NoMedia /\ enabled =>
       \/ gst[media] \in {"preparing", "prepared"} /\ cache = media
       \/ gst[media] \in {"unpreparing", "evicted"} /\ status \in {"unpreparing", "error"}
  /\ cache # NoMedia => gst[cache] \in {"preparing", "prepared", "unpreparing"}
  /\ \A m \in marking : gst[m] = "prepared"

(* A recovery that runs is of the current media, or has outlived it; once  *)
(* recovery_media_unprepared_ is set no media has come since.              *)
RecoveryCurrent ==
  /\ rstate = "Running" /\ media # NoMedia => rgen = mgen
  /\ rstate \in {"Running", "Completed"} /\ unprepared => media = NoMedia

ServerInv ==
  /\ TypeOK /\ StopPhases /\ JobsInOrder /\ MediaKnown /\ FeedsCachedMedia
  /\ RecoveryCurrent /\ RecoveryOwnsMedia

-----------------------------------------------------------------------------
(* The jobs' numbers.                                                      *)

(* The next job's number, when none waits. *)
LEMMA NewJobIsNext ==
  ASSUME NEW n \in Nat, JobsNumbered(n), pending = 0
  PROVE  NewJobId = IF working = 0 THEN n + 1 ELSE n + 2
<1>1. Cardinality(done) = n
  BY FS_Interval DEF JobsNumbered
<1>2. CASE working = 0
  <2>1. {pending, working} \ {0} = {}
    BY <1>2
  <2> QED BY <1>1, <1>2, <2>1, FS_EmptySet DEF NewJobId
<1>3. CASE working # 0
  <2>1. {pending, working} \ {0} = {working}
    BY <1>3
  <2>2. Cardinality({working}) = 1
    BY FS_Singleton
  <2> QED BY <1>1, <1>3, <2>1, <2>2 DEF NewJobId
<1> QED BY <1>2, <1>3

LEMMA JobsPreserved == ServerInv /\ Next => JobsInOrder'
<1> SUFFICES ASSUME ServerInv, Next PROVE JobsInOrder'
  OBVIOUS
<1>0. PICK n \in Nat : JobsNumbered(n)
  BY DEF ServerInv, JobsInOrder
<1>1. CASE RecoverStarts
  <2>1. /\ pending' = NewJobId /\ pending = 0 /\ rjob'.id = NewJobId
        /\ UNCHANGED <<working, done>>
    BY <1>1 DEF RecoverStarts
  <2>2. NewJobId = IF working = 0 THEN n + 1 ELSE n + 2
    BY <1>0, <2>1, NewJobIsNext
  <2>3. JobsNumbered(n)'
    BY <1>0, <2>1, <2>2 DEF JobsNumbered
  <2> QED BY <2>3 DEF JobsInOrder
<1>2. CASE WorkerTake
  <2>1. JobsNumbered(n)'
    BY <1>0, <1>2 DEF WorkerTake, JobsNumbered, recoveryVars
  <2> QED BY <2>1 DEF JobsInOrder
<1>3. CASE WorkerDone
  <2>1. working = n + 1 /\ working' = 0 /\ UNCHANGED <<pending, rjob>>
    BY <1>0, <1>3 DEF WorkerDone, JobsNumbered, recoveryVars
  <2>2. done' = 1..n+1
    <3>1. done' = (1..n) \cup {n + 1}
      BY <1>0, <1>3, <2>1 DEF WorkerDone, JobsNumbered
    <3> QED BY <3>1
  <2>3. JobsNumbered(n + 1)'
    BY <1>0, <2>1, <2>2 DEF JobsNumbered
  <2> QED BY <2>3 DEF JobsInOrder
<1>4. CASE UNCHANGED <<pending, working, done>> /\ rjob' \in {rjob, NoJob}
  <2>1. JobsNumbered(n)'
    BY <1>0, <1>4 DEF JobsNumbered, NoJob
  <2> QED BY <2>1 DEF JobsInOrder
<1> QED BY <1>1, <1>2, <1>3, <1>4
      DEF Next, ClientConnect, Configured, ConfigureBinds, SetupFailure,
          ConfigureBindFails, MediaConfigure, MediaPrepared, MarkPrepared,
          MediaNewState, MediaTeardown, Retire, MediaEvicted, MediaUnprepared,
          MediaError, FeederTake, Feed, FeederOk, FeederError, Watch, WatchdogTick,
          WatchdogAttach, WatchdogLook, RecoverGivesUp, WatchdogAttachFails, Work,
          WorkerExit, StopBegin, Stop, StopSources, StopWorker, StopCallbacks,
          StopRelease, vars, recoveryVars, workerVars

-----------------------------------------------------------------------------
(* stopLocked().                                                           *)

LEMMA StopPreserved == ServerInv /\ Next => StopPhases'
<1> SUFFICES ASSUME ServerInv, Next PROVE StopPhases'
  OBVIOUS
<1> USE DEF ServerInv, StopPhases
<1>1. CASE StopBegin
  BY <1>1 DEF StopBegin, StopAt, TypeOK, fieldVars, workerVars, threadVars
<1>2. CASE StopSources
  BY <1>2 DEF StopSources, StopAt, TypeOK, workerVars, threadVars
<1>3. CASE StopWorker
  BY <1>3 DEF StopWorker, StopAt, TypeOK, fieldVars, threadVars
<1>4. CASE StopCallbacks
  BY <1>4 DEF StopCallbacks, StopAt, TypeOK, fieldVars, workerVars, threadVars
<1>5. CASE StopRelease
  BY <1>5 DEF StopRelease, StopAt, TypeOK, workerVars, threadVars
<1>6. CASE Work
  BY <1>6 DEF Work, WorkerTake, WorkerDone, WorkerExit, TypeOK, fieldVars, threadVars,
              stopVars
<1>7. CASE Watch \/ WatchdogAttachFails
  BY <1>7 DEF Watch, WatchdogTick, WatchdogAttach, WatchdogLook, RecoverGivesUp,
              RecoverStarts, WatchdogAttachFails, Stale, Idle, fieldVars, workerVars,
              stopVars
<1>8. CASE FeederTake \/ Feed
  BY <1>8 DEF FeederTake, Feed, FeederOk, FeederError, fieldVars, workerVars, stopVars
<1>9. CASE ClientConnect \/ Configured \/ ConfigureBindFails
  BY <1>9 DEF ClientConnect, Configured, ConfigureBinds, SetupFailure,
              ConfigureBindFails, fieldVars, workerVars, threadVars, stopVars
<1>10. ASSUME NEW m \in Media,
              \/ MediaConfigure(m) \/ MediaPrepared(m) \/ MarkPrepared(m)
              \/ MediaNewState(m) \/ MediaTeardown(m) \/ Retire(m) \/ MediaError(m)
       PROVE  StopPhases'
  BY <1>10 DEF MediaConfigure, MediaPrepared, MarkPrepared, MediaNewState,
               MediaTeardown, Retire, MediaEvicted, MediaUnprepared, MediaError,
               Current, AcceptsMedia, fieldVars, workerVars, threadVars, stopVars
<1>11. CASE UNCHANGED vars
  BY <1>11 DEF vars, fieldVars, workerVars, threadVars, stopVars
<1> QED BY <1>1, <1>2, <1>3, <1>4, <1>5, <1>6, <1>7, <1>8, <1>9, <1>10, <1>11
      DEF Next, Stop

-----------------------------------------------------------------------------
(* Which media is current.                                                 *)

LEMMA MediaPreserved == ServerInv /\ Next => MediaKnown' /\ FeedsCachedMedia'
<1> SUFFICES ASSUME ServerInv, Next PROVE MediaKnown' /\ FeedsCachedMedia'
  OBVIOUS
<1>0. /\ gst \in [Media -> {"none", "preparing", "prepared", "unpreparing", "evicted",
                            "gone"}]
      /\ media \in Media \cup {NoMedia} /\ cache \in Media \cup {NoMedia}
      /\ marking \subseteq Media /\ NoMedia \notin Media
      /\ MediaKnown /\ FeedsCachedMedia /\ (up => enabled)
  BY RtspAssumption DEF ServerInv, TypeOK, StopPhases
<1>1. ASSUME NEW m \in Media, MediaConfigure(m)
      PROVE  MediaKnown' /\ FeedsCachedMedia'
  <2>1. CASE enabled /\ AcceptsMedia
    BY <1>0, <1>1, <2>1 DEF MediaConfigure, MediaKnown, FeedsCachedMedia, stopVars
  <2>2. CASE ~(enabled /\ AcceptsMedia)
    BY <1>0, <1>1, <2>2
       DEF MediaConfigure, AcceptsMedia, MediaKnown, FeedsCachedMedia, stopVars
  <2> QED BY <2>1, <2>2
<1>2. ASSUME NEW m \in Media, MediaPrepared(m)
      PROVE  MediaKnown' /\ FeedsCachedMedia'
  BY <1>0, <1>2 DEF MediaPrepared, MediaKnown, FeedsCachedMedia, stopVars
<1>3. ASSUME NEW m \in Media, MarkPrepared(m)
      PROVE  MediaKnown' /\ FeedsCachedMedia'
  BY <1>0, <1>3 DEF MarkPrepared, MediaKnown, FeedsCachedMedia, stopVars, gstVars
<1>4. ASSUME NEW m \in Media, MediaTeardown(m)
      PROVE  MediaKnown' /\ FeedsCachedMedia'
  BY <1>0, <1>4 DEF MediaTeardown, Current, MediaKnown, FeedsCachedMedia, stopVars,
                    threadVars
<1>5. ASSUME NEW m \in Media, MediaEvicted(m)
      PROVE  MediaKnown' /\ FeedsCachedMedia'
  BY <1>0, <1>5 DEF MediaEvicted, MediaKnown, FeedsCachedMedia, stopVars, threadVars,
                    fieldVars
<1>6. ASSUME NEW m \in Media, MediaUnprepared(m)
      PROVE  MediaKnown' /\ FeedsCachedMedia'
  BY <1>0, <1>6 DEF MediaUnprepared, Current, MediaKnown, FeedsCachedMedia, stopVars,
                    threadVars
<1>7. ASSUME NEW m \in Media, MediaError(m) \/ MediaNewState(m)
      PROVE  MediaKnown' /\ FeedsCachedMedia'
  BY <1>0, <1>7 DEF MediaError, MediaNewState, Current, MediaKnown, FeedsCachedMedia,
                    stopVars, threadVars, gstVars
<1>8. CASE StopBegin \/ Stop
  BY <1>0, <1>8 DEF StopBegin, Stop, StopSources, StopWorker, StopCallbacks,
     StopRelease, MediaKnown, FeedsCachedMedia, fieldVars, threadVars, gstVars
<1>9. CASE UNCHANGED <<media, status, up, enabled, gst, cache, marking>>
  BY <1>0, <1>9 DEF MediaKnown, FeedsCachedMedia
<1> QED BY <1>1, <1>2, <1>3, <1>4, <1>5, <1>6, <1>7, <1>8, <1>9
      DEF Next, ClientConnect, Configured, ConfigureBinds, SetupFailure,
          ConfigureBindFails, Retire, FeederTake, Feed, FeederOk, FeederError, Watch,
          WatchdogTick, WatchdogAttach, WatchdogLook, RecoverGivesUp, RecoverStarts,
          WatchdogAttachFails, Work, WorkerTake, WorkerDone, WorkerExit, vars,
          fieldVars, threadVars, stopVars, gstVars

-----------------------------------------------------------------------------
(* Recovery.                                                               *)

LEMMA RecoveryPreserved ==
  ServerInv /\ Next => RecoveryCurrent' /\ RecoveryOwnsMedia'
<1> SUFFICES ASSUME ServerInv, Next PROVE RecoveryCurrent' /\ RecoveryOwnsMedia'
  OBVIOUS
<1>0. /\ RecoveryCurrent /\ RecoveryOwnsMedia /\ NoMedia \notin Media
      /\ up \in BOOLEAN /\ accepting \in BOOLEAN /\ appsrc \in BOOLEAN
      /\ rjob \in [id: Nat, token: 0..next_token]
  BY RtspAssumption DEF ServerInv, TypeOK
<1>1. CASE RecoverStarts
  <2>1. NewJobId # 0
    BY <1>1, NewJobIsNext DEF ServerInv, JobsInOrder, RecoverStarts
  <2> QED BY <1>0, <1>1, <2>1 DEF RecoverStarts, Stale, RecoveryCurrent, RecoveryOwnsMedia
<1>2. CASE WatchdogTick \/ WatchdogAttach
  BY <1>0, <1>2 DEF WatchdogTick, WatchdogAttach, RecoveryReady, ForgetRecovery,
                    RecoveryCurrent, RecoveryOwnsMedia, fieldVars
<1>3. CASE RecoverGivesUp \/ FeederError \/ SetupFailure \/ StopRelease
  BY <1>0, <1>3 DEF RecoverGivesUp, FeederError, SetupFailure, StopRelease,
     RequestSetupRecovery, ForgetRecovery, RecoveryCurrent, RecoveryOwnsMedia, fieldVars
<1>4. CASE ConfigureBinds
  BY <1>0, <1>4 DEF ConfigureBinds, Bindable, RecoveryCurrent, RecoveryOwnsMedia,
                    recoveryVars
<1>5. CASE StopSources
  BY <1>0, <1>5 DEF StopSources, RecoveryCurrent, RecoveryOwnsMedia, recoveryVars
<1>6. ASSUME NEW m \in Media, MediaConfigure(m)
      PROVE  RecoveryCurrent' /\ RecoveryOwnsMedia'
  BY <1>0, <1>6 DEF MediaConfigure, ForgetRecovery, RecoveryCurrent, RecoveryOwnsMedia
<1>7. ASSUME NEW m \in Media, MediaPrepared(m) \/ MediaNewState(m)
      PROVE  RecoveryCurrent' /\ RecoveryOwnsMedia'
  BY <1>0, <1>7 DEF MediaPrepared, MediaNewState, Bindable, RecoveryCurrent,
                    RecoveryOwnsMedia, recoveryVars
<1>8. ASSUME NEW m \in Media, MediaUnprepared(m) \/ MediaError(m)
      PROVE  RecoveryCurrent' /\ RecoveryOwnsMedia'
  BY <1>0, <1>8 DEF MediaUnprepared, MediaError, OutlivesMedia, ForgetRecovery,
                    RecoveryCurrent, RecoveryOwnsMedia
<1>9. CASE UNCHANGED <<accepting, media, mgen, appsrc, recoveryVars>>
  BY <1>0, <1>9 DEF RecoveryCurrent, RecoveryOwnsMedia, recoveryVars
<1> QED BY <1>1, <1>2, <1>3, <1>4, <1>5, <1>6, <1>7, <1>8, <1>9
      DEF Next, ClientConnect, Configured, ConfigureBindFails, MarkPrepared,
          MediaTeardown, Retire, MediaEvicted, FeederTake, Feed, FeederOk, Watch,
          WatchdogLook, WatchdogAttachFails, Work, WorkerTake, WorkerDone, WorkerExit,
          StopBegin, Stop, StopWorker, StopCallbacks, vars, fieldVars

-----------------------------------------------------------------------------
(* Types, in parts.                                                        *)

SwitchTypes ==
  /\ up \in BOOLEAN /\ accepting \in BOOLEAN /\ enabled \in BOOLEAN
  /\ bind_failed \in BOOLEAN /\ appsrc \in BOOLEAN /\ unprepared \in BOOLEAN
  /\ clients \in BOOLEAN

MediaTypes ==
  /\ media \in Media \cup {NoMedia} /\ cache \in Media \cup {NoMedia}
  /\ configuring \in Media \cup {NoMedia} /\ marking \subseteq Media
  /\ status \in {"unprepared", "preparing", "prepared", "unpreparing", "error"}
  /\ gst \in [Media -> {"none", "preparing", "prepared", "unpreparing", "evicted",
                        "gone"}]

GenerationTypes ==
  /\ mgen \in Nat \ {0} /\ rgen \in 0..mgen /\ feeder \in 0..mgen
  /\ watchdog \in [at: {"idle", "attach", "look", "recover"}, gen: 0..mgen]
  /\ failures \in 0..PushLimit

TokenTypes ==
  /\ rstate \in {"Idle", "Requested", "Running", "Completed"}
  /\ next_token \in Nat /\ rtoken \in 0..next_token
  /\ rjob \in [id: Nat, token: 0..next_token]

JobTypes ==
  /\ pending \in Nat /\ working \in Nat /\ done \subseteq Nat \ {0}
  /\ worker \in {"running", "stopping", "exited"}
  /\ stop \in [at: {"no", "feeder", "job", "worker", "callbacks", "done"}, job: Nat]

LEMMA TypeParts ==
  TypeOK <=> SwitchTypes /\ MediaTypes /\ GenerationTypes /\ TokenTypes /\ JobTypes
BY DEF TypeOK, SwitchTypes, MediaTypes, GenerationTypes, TokenTypes, JobTypes

LEMMA SwitchesTyped == ServerInv /\ Next => SwitchTypes'
<1> SUFFICES ASSUME ServerInv, Next PROVE SwitchTypes'
  OBVIOUS
<1>0. SwitchTypes
  BY TypeParts DEF ServerInv
<1> USE DEF fieldVars, recoveryVars, workerVars, threadVars, stopVars, gstVars
<1>1. up' \in {up, FALSE} /\ enabled' \in {enabled, FALSE}
  BY DEF Next, ClientConnect, Configured, ConfigureBinds, SetupFailure,
     ConfigureBindFails, MediaConfigure, MediaPrepared, MarkPrepared, MediaNewState,
     MediaTeardown, Retire, MediaEvicted, MediaUnprepared, MediaError, FeederTake,
     Feed, FeederOk, FeederError, Watch, WatchdogTick, WatchdogAttach, WatchdogLook,
     RecoverGivesUp, RecoverStarts, WatchdogAttachFails, Work, WorkerTake,
     WorkerDone, WorkerExit, StopBegin, Stop, StopSources, StopWorker, StopCallbacks,
     StopRelease, vars
<1>2. accepting' \in {accepting, FALSE, TRUE}
  BY DEF Next, ClientConnect, Configured, ConfigureBinds, SetupFailure,
     ConfigureBindFails, MediaConfigure, MediaPrepared, MarkPrepared, MediaNewState,
     MediaTeardown, Retire, MediaEvicted, MediaUnprepared, MediaError, FeederTake,
     Feed, FeederOk, FeederError, Watch, WatchdogTick, WatchdogAttach, WatchdogLook,
     RecoverGivesUp, RecoverStarts, WatchdogAttachFails, Work, WorkerTake,
     WorkerDone, WorkerExit, StopBegin, Stop, StopSources, StopWorker, StopCallbacks,
     StopRelease, vars
<1>3. bind_failed' \in {bind_failed, FALSE, TRUE}
  BY DEF Next, ClientConnect, Configured, ConfigureBinds, SetupFailure,
     ConfigureBindFails, MediaConfigure, MediaPrepared, MarkPrepared, MediaNewState,
     MediaTeardown, Retire, MediaEvicted, MediaUnprepared, MediaError, FeederTake,
     Feed, FeederOk, FeederError, Watch, WatchdogTick, WatchdogAttach, WatchdogLook,
     RecoverGivesUp, RecoverStarts, WatchdogAttachFails, Work, WorkerTake,
     WorkerDone, WorkerExit, StopBegin, Stop, StopSources, StopWorker, StopCallbacks,
     StopRelease, vars
<1>4. appsrc' \in {appsrc, FALSE, TRUE}
  BY DEF Next, ClientConnect, Configured, ConfigureBinds, SetupFailure,
     ConfigureBindFails, MediaConfigure, MediaPrepared, MarkPrepared, MediaNewState,
     MediaTeardown, Retire, MediaEvicted, MediaUnprepared, MediaError, FeederTake,
     Feed, FeederOk, FeederError, Watch, WatchdogTick, WatchdogAttach, WatchdogLook,
     RecoverGivesUp, RecoverStarts, WatchdogAttachFails, Work, WorkerTake,
     WorkerDone, WorkerExit, StopBegin, Stop, StopSources, StopWorker, StopCallbacks,
     StopRelease, vars
<1>5. unprepared' \in {unprepared, FALSE, TRUE}
  BY DEF Next, ClientConnect, Configured, ConfigureBinds, SetupFailure,
     ConfigureBindFails, MediaConfigure, MediaPrepared, MarkPrepared, MediaNewState,
     MediaTeardown, Retire, MediaEvicted, MediaUnprepared, MediaError, FeederTake,
     Feed, FeederOk, FeederError, Watch, WatchdogTick, WatchdogAttach, WatchdogLook,
     RecoverGivesUp, RecoverStarts, WatchdogAttachFails, Work, WorkerTake,
     WorkerDone, WorkerExit, StopBegin, Stop, StopSources, StopWorker, StopCallbacks,
     StopRelease, vars
<1>6. clients' \in {clients, FALSE, TRUE}
  BY DEF Next, ClientConnect, Configured, ConfigureBinds, SetupFailure,
     ConfigureBindFails, MediaConfigure, MediaPrepared, MarkPrepared, MediaNewState,
     MediaTeardown, Retire, MediaEvicted, MediaUnprepared, MediaError, FeederTake,
     Feed, FeederOk, FeederError, Watch, WatchdogTick, WatchdogAttach, WatchdogLook,
     RecoverGivesUp, RecoverStarts, WatchdogAttachFails, Work, WorkerTake,
     WorkerDone, WorkerExit, StopBegin, Stop, StopSources, StopWorker, StopCallbacks,
     StopRelease, vars
<1>7. up' \in BOOLEAN /\ enabled' \in BOOLEAN /\ accepting' \in BOOLEAN
  BY <1>0, <1>1, <1>2, Zenon DEF SwitchTypes
<1>8. bind_failed' \in BOOLEAN /\ appsrc' \in BOOLEAN
  BY <1>0, <1>3, <1>4, Zenon DEF SwitchTypes
<1>9. unprepared' \in BOOLEAN /\ clients' \in BOOLEAN
  BY <1>0, <1>5, <1>6, Zenon DEF SwitchTypes
<1> QED BY <1>7, <1>8, <1>9, Zenon DEF SwitchTypes

LEMMA MediasTyped == ServerInv /\ Next => MediaTypes'
<1> SUFFICES ASSUME ServerInv, Next PROVE MediaTypes'
  OBVIOUS
<1>0. MediaTypes
  BY TypeParts DEF ServerInv
<1> USE DEF fieldVars, recoveryVars, workerVars, threadVars, stopVars, gstVars
<1>1. ASSUME NEW m \in Media,
             \/ MediaConfigure(m) \/ MediaPrepared(m) \/ MarkPrepared(m)
             \/ MediaNewState(m) \/ MediaTeardown(m) \/ Retire(m) \/ MediaError(m)
      PROVE  MediaTypes'
  BY <1>0, <1>1 DEF MediaTypes, MediaConfigure, MediaPrepared, MarkPrepared,
     MediaNewState, MediaTeardown, Retire, MediaEvicted, MediaUnprepared, MediaError
<1>2. CASE StopRelease
  BY <1>0, <1>2 DEF MediaTypes, StopRelease
<1>3. CASE /\ UNCHANGED <<media, cache, marking, status, gst>>
           /\ configuring' \in {configuring, NoMedia}
  BY <1>0, <1>3 DEF MediaTypes
<1> QED BY <1>1, <1>2, <1>3 DEF Next, ClientConnect, Configured, ConfigureBinds, SetupFailure,
     ConfigureBindFails, FeederTake, Feed, FeederOk, FeederError, Watch,
     WatchdogTick, WatchdogAttach, WatchdogLook, RecoverGivesUp, RecoverStarts,
     WatchdogAttachFails, Work, WorkerTake, WorkerDone, WorkerExit, StopBegin, Stop,
     StopSources, StopWorker, StopCallbacks, vars

LEMMA GenerationsTyped == ServerInv /\ Next => GenerationTypes'
<1> SUFFICES ASSUME ServerInv, Next PROVE GenerationTypes'
  OBVIOUS
<1>0. GenerationTypes
  BY TypeParts DEF ServerInv
<1> USE RtspAssumption
    DEF fieldVars, recoveryVars, workerVars, threadVars, stopVars, gstVars
<1>1. /\ mgen \in Nat \ {0} /\ mgen' \in {mgen, mgen + 1}
  BY <1>0 DEF GenerationTypes, Next, ClientConnect, Configured, ConfigureBinds, SetupFailure,
     ConfigureBindFails, MediaConfigure, MediaPrepared, MarkPrepared, MediaNewState,
     MediaTeardown, Retire, MediaEvicted, MediaUnprepared, MediaError, FeederTake,
     Feed, FeederOk, FeederError, Watch, WatchdogTick, WatchdogAttach, WatchdogLook,
     RecoverGivesUp, RecoverStarts, WatchdogAttachFails, Work, WorkerTake,
     WorkerDone, WorkerExit, StopBegin, Stop, StopSources, StopWorker, StopCallbacks,
     StopRelease, vars
<1>2. rgen' \in {rgen, 0, mgen, feeder, watchdog.gen}
  BY DEF Next, ClientConnect, Configured, ConfigureBinds, SetupFailure,
     ConfigureBindFails, MediaConfigure, MediaPrepared, MarkPrepared, MediaNewState,
     MediaTeardown, Retire, MediaEvicted, MediaUnprepared, MediaError, FeederTake,
     Feed, FeederOk, FeederError, Watch, WatchdogTick, WatchdogAttach, WatchdogLook,
     RecoverGivesUp, RecoverStarts, WatchdogAttachFails, Work, WorkerTake,
     WorkerDone, WorkerExit, StopBegin, Stop, StopSources, StopWorker, StopCallbacks,
     StopRelease, vars, RequestSetupRecovery, ForgetRecovery
<1>3. feeder' \in {feeder, 0, mgen}
  BY DEF Next, ClientConnect, Configured, ConfigureBinds, SetupFailure,
     ConfigureBindFails, MediaConfigure, MediaPrepared, MarkPrepared, MediaNewState,
     MediaTeardown, Retire, MediaEvicted, MediaUnprepared, MediaError, FeederTake,
     Feed, FeederOk, FeederError, Watch, WatchdogTick, WatchdogAttach, WatchdogLook,
     RecoverGivesUp, RecoverStarts, WatchdogAttachFails, Work, WorkerTake,
     WorkerDone, WorkerExit, StopBegin, Stop, StopSources, StopWorker, StopCallbacks,
     StopRelease, vars
<1>4. failures' \in 0..PushLimit
  BY <1>0 DEF GenerationTypes, Next, ClientConnect, Configured, ConfigureBinds, SetupFailure,
     ConfigureBindFails, MediaConfigure, MediaPrepared, MarkPrepared, MediaNewState,
     MediaTeardown, Retire, MediaEvicted, MediaUnprepared, MediaError, FeederTake,
     Feed, FeederOk, FeederError, Watch, WatchdogTick, WatchdogAttach, WatchdogLook,
     RecoverGivesUp, RecoverStarts, WatchdogAttachFails, Work, WorkerTake,
     WorkerDone, WorkerExit, StopBegin, Stop, StopSources, StopWorker, StopCallbacks,
     StopRelease, vars
<1>5. \/ watchdog' = watchdog
      \/ \E where \in {"idle", "attach", "look", "recover"}, g \in {0, rgen, mgen} :
           watchdog' = [at |-> where, gen |-> g]
  BY DEF Next, ClientConnect, Configured, ConfigureBinds, SetupFailure,
     ConfigureBindFails, MediaConfigure, MediaPrepared, MarkPrepared, MediaNewState,
     MediaTeardown, Retire, MediaEvicted, MediaUnprepared, MediaError, FeederTake,
     Feed, FeederOk, FeederError, Watch, WatchdogTick, WatchdogAttach, WatchdogLook,
     RecoverGivesUp, RecoverStarts, WatchdogAttachFails, Work, WorkerTake,
     WorkerDone, WorkerExit, StopBegin, Stop, StopSources, StopWorker, StopCallbacks,
     StopRelease, vars, Idle
<1>6. watchdog' \in [at: {"idle", "attach", "look", "recover"}, gen: 0..mgen']
  BY <1>0, <1>1, <1>5 DEF GenerationTypes
<1> QED BY <1>0, <1>1, <1>2, <1>3, <1>4, <1>6 DEF GenerationTypes

LEMMA TokensTyped == ServerInv /\ Next => TokenTypes'
<1> SUFFICES ASSUME ServerInv, Next PROVE TokenTypes'
  OBVIOUS
<1>0. TokenTypes
  BY TypeParts DEF ServerInv
<1> USE DEF fieldVars, recoveryVars, workerVars, threadVars, stopVars, gstVars
<1>1. next_token \in Nat /\ next_token' \in {next_token, next_token + 1}
  BY <1>0 DEF TokenTypes, Next, ClientConnect, Configured, ConfigureBinds, SetupFailure,
     ConfigureBindFails, MediaConfigure, MediaPrepared, MarkPrepared, MediaNewState,
     MediaTeardown, Retire, MediaEvicted, MediaUnprepared, MediaError, FeederTake,
     Feed, FeederOk, FeederError, Watch, WatchdogTick, WatchdogAttach, WatchdogLook,
     RecoverGivesUp, RecoverStarts, WatchdogAttachFails, Work, WorkerTake,
     WorkerDone, WorkerExit, StopBegin, Stop, StopSources, StopWorker, StopCallbacks,
     StopRelease, vars, RequestSetupRecovery
<1>2. rtoken' \in {rtoken, 0, next_token'}
  BY DEF Next, ClientConnect, Configured, ConfigureBinds, SetupFailure,
     ConfigureBindFails, MediaConfigure, MediaPrepared, MarkPrepared, MediaNewState,
     MediaTeardown, Retire, MediaEvicted, MediaUnprepared, MediaError, FeederTake,
     Feed, FeederOk, FeederError, Watch, WatchdogTick, WatchdogAttach, WatchdogLook,
     RecoverGivesUp, RecoverStarts, WatchdogAttachFails, Work, WorkerTake,
     WorkerDone, WorkerExit, StopBegin, Stop, StopSources, StopWorker, StopCallbacks,
     StopRelease, vars, RequestSetupRecovery, ForgetRecovery
<1>3. rstate' \in {rstate, "Idle", "Requested", "Running", "Completed"}
  BY DEF Next, ClientConnect, Configured, ConfigureBinds, SetupFailure,
     ConfigureBindFails, MediaConfigure, MediaPrepared, MarkPrepared, MediaNewState,
     MediaTeardown, Retire, MediaEvicted, MediaUnprepared, MediaError, FeederTake,
     Feed, FeederOk, FeederError, Watch, WatchdogTick, WatchdogAttach, WatchdogLook,
     RecoverGivesUp, RecoverStarts, WatchdogAttachFails, Work, WorkerTake,
     WorkerDone, WorkerExit, StopBegin, Stop, StopSources, StopWorker, StopCallbacks,
     StopRelease, vars, RequestSetupRecovery, ForgetRecovery
<1>4. \/ rjob' \in {rjob, NoJob}
      \/ RecoverStarts /\ rjob' = [id |-> NewJobId, token |-> rtoken']
  BY DEF Next, ClientConnect, Configured, ConfigureBinds, SetupFailure,
     ConfigureBindFails, MediaConfigure, MediaPrepared, MarkPrepared, MediaNewState,
     MediaTeardown, Retire, MediaEvicted, MediaUnprepared, MediaError, FeederTake,
     Feed, FeederOk, FeederError, Watch, WatchdogTick, WatchdogAttach, WatchdogLook,
     RecoverGivesUp, RecoverStarts, WatchdogAttachFails, Work, WorkerTake,
     WorkerDone, WorkerExit, StopBegin, Stop, StopSources, StopWorker, StopCallbacks,
     StopRelease, vars
<1>5. RecoverStarts => NewJobId \in Nat
  BY NewJobIsNext DEF ServerInv, JobsInOrder, RecoverStarts
<1>6. rtoken' \in 0..next_token'
  BY <1>0, <1>1, <1>2 DEF TokenTypes
<1>7. rjob' \in [id: Nat, token: 0..next_token']
  BY <1>0, <1>1, <1>4, <1>5, <1>6 DEF TokenTypes, NoJob
<1> QED BY <1>0, <1>1, <1>3, <1>6, <1>7 DEF TokenTypes

LEMMA JobsTyped == ServerInv /\ Next => JobTypes'
<1> SUFFICES ASSUME ServerInv, Next PROVE JobTypes'
  OBVIOUS
<1>0. JobTypes /\ rjob.id \in Nat
  BY TypeParts DEF ServerInv, TokenTypes
<1> USE DEF fieldVars, recoveryVars, workerVars, threadVars, stopVars, gstVars
<1>1. CASE RecoverStarts
  <2>1. NewJobId \in Nat
    BY <1>1, NewJobIsNext DEF ServerInv, JobsInOrder, RecoverStarts
  <2> QED BY <1>0, <1>1, <2>1 DEF RecoverStarts, JobTypes
<1>2. CASE Work
  <2>1. pending' \in Nat /\ working' \in Nat /\ stop' = stop
    BY <1>0, <1>2 DEF Work, WorkerTake, WorkerDone, WorkerExit, JobTypes
  <2>2. done' \subseteq Nat \ {0}
    BY <1>0, <1>2 DEF Work, WorkerTake, WorkerDone, WorkerExit, JobTypes
  <2>3. worker' \in {worker, "exited"}
    BY <1>2 DEF Work, WorkerTake, WorkerDone, WorkerExit
  <2> QED BY <1>0, <2>1, <2>2, <2>3 DEF JobTypes
<1>3. CASE StopBegin \/ Stop
  <2>1. \E to \in {"feeder", "job", "worker", "callbacks", "done"}, j \in {0, rjob.id} :
          stop' = [at |-> to, job |-> j]
    BY <1>3 DEF StopBegin, Stop, StopSources, StopWorker, StopCallbacks, StopRelease,
                StopAt
  <2>2. stop' \in [at: {"no", "feeder", "job", "worker", "callbacks", "done"}, job: Nat]
    BY <1>0, <2>1
  <2>3. UNCHANGED <<pending, working, done>> /\ worker' \in {worker, "stopping"}
    BY <1>3 DEF StopBegin, Stop, StopSources, StopWorker, StopCallbacks, StopRelease
  <2> QED BY <1>0, <2>2, <2>3 DEF JobTypes
<1>4. CASE UNCHANGED <<workerVars, stop>>
  BY <1>0, <1>4 DEF JobTypes
<1> QED BY <1>1, <1>2, <1>3, <1>4 DEF Next, ClientConnect, Configured, ConfigureBinds, SetupFailure,
     ConfigureBindFails, MediaConfigure, MediaPrepared, MarkPrepared, MediaNewState,
     MediaTeardown, Retire, MediaEvicted, MediaUnprepared, MediaError, FeederTake,
     Feed, FeederOk, FeederError, Watch, WatchdogTick, WatchdogAttach, WatchdogLook,
     RecoverGivesUp, WatchdogAttachFails, vars

-----------------------------------------------------------------------------
LEMMA ServerInvInit == Init => ServerInv
<1> SUFFICES ASSUME Init PROVE ServerInv
  OBVIOUS
<1>1. TypeOK
  <2>1. SwitchTypes /\ MediaTypes /\ JobTypes
    BY DEF Init, SwitchTypes, MediaTypes, JobTypes
  <2>2. GenerationTypes /\ TokenTypes
    BY RtspAssumption DEF Init, GenerationTypes, TokenTypes, NoJob, Idle
  <2> QED BY <2>1, <2>2, TypeParts
<1>2. StopPhases /\ MediaKnown /\ FeedsCachedMedia /\ RecoveryCurrent /\ RecoveryOwnsMedia
  BY DEF Init, StopPhases, MediaKnown, FeedsCachedMedia, RecoveryCurrent,
         RecoveryOwnsMedia
<1>3. JobsNumbered(0)
  BY DEF Init, JobsNumbered, NoJob
<1> QED BY <1>1, <1>2, <1>3 DEF ServerInv, JobsInOrder

LEMMA ServerInvPreserved == ServerInv /\ [Next]_vars => ServerInv'
<1> SUFFICES ASSUME ServerInv, [Next]_vars PROVE ServerInv'
  OBVIOUS
<1>1. CASE Next
  <2>1. TypeOK'
    <3>1. SwitchTypes' /\ MediaTypes' /\ GenerationTypes' /\ TokenTypes' /\ JobTypes'
      BY <1>1, SwitchesTyped, MediasTyped, GenerationsTyped, TokensTyped, JobsTyped
    <3> QED BY <3>1 DEF TypeOK, SwitchTypes, MediaTypes, GenerationTypes, TokenTypes,
                        JobTypes
  <2> QED BY <1>1, <2>1, JobsPreserved, StopPreserved, MediaPreserved, RecoveryPreserved
        DEF ServerInv
<1>2. CASE UNCHANGED vars
  BY <1>2 DEF ServerInv, TypeOK, StopPhases, JobsInOrder, JobsNumbered, MediaKnown,
     FeedsCachedMedia, RecoveryCurrent, RecoveryOwnsMedia, vars, fieldVars,
     recoveryVars, workerVars, threadVars, stopVars, gstVars
<1> QED BY <1>1, <1>2

LEMMA ServerInvAlways == Spec => []ServerInv
BY ServerInvInit, ServerInvPreserved, PTL DEF Spec

-----------------------------------------------------------------------------
(* While a recovery is Running, recoverMedia() has taken the appsrc and    *)
(* the listener away, no handler has bound one again, and its job carries  *)
(* the token that finishRecoveryIfReady() will look for.                   *)
THEOREM RecoveryKeepsMedia == Spec => []RecoveryOwnsMedia
<1>1. ServerInv => RecoveryOwnsMedia
  BY DEF ServerInv
<1> QED BY <1>1, ServerInvAlways, PTL

(* onMediaConfigure() accepts every media the factory caches while the     *)
(* server is up, and no handler of an older media retires it.              *)
THEOREM CachedMediaFed == Spec => []FeedsCachedMedia
<1>1. ServerInv => FeedsCachedMedia
  BY DEF ServerInv
<1> QED BY <1>1, ServerInvAlways, PTL

(* When stop() has returned no job, no callback and no source is left. *)
THEOREM StopSynchronous == Spec => []StopIsSynchronous
<1>1. ServerInv => StopIsSynchronous
  BY DEF ServerInv, StopPhases, StopIsSynchronous
<1> QED BY <1>1, ServerInvAlways, PTL

(* finishRecoveryIfReady() resumes the listener only when the failed media *)
(* has left the cache and the worker has nothing left to tear down.        *)
THEOREM ResumesOnlyAfterTeardown == Spec => ResumesAfterTeardown
<1>1. ASSUME ServerInv, Next, ~accepting, accepting'
      PROVE  cache = NoMedia /\ pending = 0 /\ working = 0
  <2>1. WatchdogAttach /\ up /\ rstate = "Completed" /\ unprepared /\ JobDone
    BY <1>1 DEF Next, ClientConnect, Configured, ConfigureBinds, SetupFailure,
       ConfigureBindFails, MediaConfigure, MediaPrepared, MarkPrepared, MediaNewState,
       MediaTeardown, Retire, MediaEvicted, MediaUnprepared, MediaError, FeederTake,
       Feed, FeederOk, FeederError, Watch, WatchdogTick, WatchdogAttach, WatchdogLook,
       RecoverGivesUp, RecoverStarts, WatchdogAttachFails, Work, WorkerTake,
       WorkerDone, WorkerExit, StopBegin, Stop, StopSources, StopWorker, StopCallbacks,
       StopRelease, vars, fieldVars
  <2>2. cache = NoMedia
    BY <1>1, <2>1 DEF ServerInv, RecoveryCurrent, FeedsCachedMedia
  <2>3. PICK n \in Nat : JobsNumbered(n)
    BY <1>1 DEF ServerInv, JobsInOrder
  <2>4. rjob.id \in 1..n
    BY <2>1, <2>3 DEF JobDone, JobsNumbered
  <2>5. pending = 0 /\ working = 0
    BY <2>3, <2>4 DEF JobsNumbered
  <2> QED BY <2>2, <2>5
<1>2. ServerInv /\ [Next]_vars =>
        [~accepting /\ accepting' => cache = NoMedia /\ pending = 0 /\ working = 0]_vars
  BY <1>1
<1> QED BY <1>2, ServerInvAlways, PTL DEF Spec, ResumesAfterTeardown
=============================================================================
