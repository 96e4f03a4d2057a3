----------------------------- MODULE RtspServer -----------------------------
(***************************************************************************)
(* RtspServer: which GstRTSPMedia is current, how a failed one is torn     *)
(* down and the listener taken away and resumed, and how stop() waits for  *)
(* all of it.  The fields are guarded by source_mutex_; every action below *)
(* is one critical section, so handlers that take the mutex twice are two  *)
(* actions.  The order in which source_mutex_ is nested with the mutexes   *)
(* of the worker, the callbacks and lifecycle is not modelled.  accepting  *)
(* stands for accepting_clients_ and for listener_source_: recoverMedia()  *)
(* clears both in one critical section, and destroys the source just after *)
(* it; a client that comes in between is one that came just before.        *)
(*                                                                         *)
(* Threads                                                                 *)
(*   media      a client's or a media's thread: the signal handlers        *)
(*   loop       watchdogTick() every second or so                          *)
(*   worker     recoveryWorkerLoop()                                       *)
(*   feeder     feederLoop(), here only what it reports about a push       *)
(*   main       stop()                                                     *)
(*                                                                         *)
(* gst-rtsp-server is external: a client's DESCRIBE makes the factory      *)
(* construct a media when it has none cached; a media is prepared, loses   *)
(* its users, is evicted from the factory's cache, and then tells the      *)
(* handlers connected after the factory's own.                             *)
(***************************************************************************)
EXTENDS Integers, FiniteSets

CONSTANTS
  Media,      \* identities of the medias the factory may construct
  NoMedia,    \* a null GstRTSPMedia pointer
  PushLimit   \* consecutive push failures that request a recovery

ASSUME RtspAssumption == NoMedia \notin Media /\ PushLimit \in Nat \ {0}

VARIABLES
  up,          \* running_
  accepting,   \* accepting_clients_, and listener_source_ # nullptr
  media,       \* current_media_
  status,      \* observed_status_
  mgen,        \* media_generation_
  appsrc,      \* appsrc_ # nullptr
  failures,    \* consecutive_push_failures_, up to PushLimit
  rstate,      \* recovery_state_
  rgen,        \* recovery_generation_, 0 for none
  rtoken,      \* recovery_token_, 0 for none
  next_token,  \* next_recovery_token_
  unprepared,  \* recovery_media_unprepared_
  rjob,        \* recovery_job_: [id, token], id 0 for none
  pending,     \* RecoveryWorkerState::pending, the job's id or 0
  working,     \* the job the worker tears down, or 0
  done,        \* ids of the jobs that are done
  worker,      \* the worker thread: running, stopping, exited
  watchdog,    \* the loop thread in onWatchdog(): [at, gen]
  configuring, \* the media onMediaConfigure() has accepted, while it runs
  bind_failed, \* its bindMediaSource() returned false
  marking,     \* medias onMediaPrepared() has bound and not yet marked
  feeder,      \* media_generation the feeder's push belongs to, or 0
  enabled,     \* callback_state_->server # nullptr
  stop,        \* where stopLocked() is, and the job it waits for: [at, job]
  gst,         \* external: state of each media
  cache,       \* external: the media the factory has cached
  clients      \* external: some client is connected

fieldVars == <<accepting, media, status, mgen, appsrc, failures>>
recoveryVars == <<rstate, rgen, rtoken, next_token, unprepared, rjob>>
workerVars == <<pending, working, done, worker>>
threadVars == <<watchdog, configuring, bind_failed, marking, feeder>>
stopVars == <<up, enabled, stop>>
gstVars == <<gst, cache, clients>>
vars == <<fieldVars, recoveryVars, workerVars, threadVars, stopVars, gstVars>>

NoJob == [id |-> 0, token |-> 0]
Idle == [at |-> "idle", gen |-> 0]

(* start() has succeeded. *)
Init ==
  /\ up = TRUE /\ accepting = TRUE
  /\ media = NoMedia /\ status = "unprepared" /\ mgen = 1
  /\ appsrc = FALSE /\ failures = 0
  /\ rstate = "Idle" /\ rgen = 0 /\ rtoken = 0 /\ next_token = 0
  /\ unprepared = FALSE /\ rjob = NoJob
  /\ pending = 0 /\ working = 0 /\ done = {} /\ worker = "running"
  /\ watchdog = Idle /\ configuring = NoMedia /\ bind_failed = FALSE
  /\ marking = {} /\ feeder = 0
  /\ enabled = TRUE /\ stop = [at |-> "no", job |-> 0]
  /\ gst = [m \in Media |-> "none"] /\ cache = NoMedia /\ clients = FALSE

ForgetRecovery == rstate' = "Idle" /\ rgen' = 0 /\ rtoken' = 0

-----------------------------------------------------------------------------
(* Signal handlers.  CallbackGuard drops those that run once callbacks are *)
(* disabled; a handler of a media that is not current changes nothing.     *)

Current(m) == enabled /\ media = m

(* A client connects to the listener. *)
ClientConnect ==
  /\ accepting /\ ~clients
  /\ clients' = TRUE
  /\ UNCHANGED <<fieldVars, recoveryVars, workerVars, threadVars, stopVars,
                 gst, cache>>

(* Mutant: a media is accepted only in place of none. *)
BugAcceptsWhenEmpty == up /\ media = NoMedia

(* onMediaConfigure() takes the new media in place of none or of a retired *)
(* one.                                                                    *)
AcceptsMedia == up /\ (media = NoMedia \/ status \in {"unpreparing", "error"})

(* A connected client makes the factory construct m: onMediaConfigure() up *)
(* to bindMediaSource().  A recovery under way is forgotten, though        *)
(* neither its job nor recovery_media_unprepared_ is reset.                *)
MediaConfigure(m) ==
  /\ clients /\ cache = NoMedia /\ configuring = NoMedia /\ gst[m] = "none"
  /\ gst' = [gst EXCEPT ![m] = "preparing"] /\ cache' = m
  /\ IF enabled /\ AcceptsMedia
       THEN /\ media' = m /\ status' = "preparing" /\ mgen' = mgen + 1
            /\ appsrc' = FALSE /\ failures' = 0
            /\ ForgetRecovery
            /\ configuring' = m
       ELSE UNCHANGED <<media, status, mgen, appsrc, failures, rstate, rgen,
                        rtoken, configuring>>
  /\ UNCHANGED <<accepting, next_token, unprepared, rjob, workerVars, watchdog,
                 bind_failed, marking, feeder, stopVars, clients>>

(* Mutant: the appsrc is bound in spite of a recovery. *)
BugBindsDuringRecovery(m) == media = m

(* bindMediaSource(): the appsrc of m may be used, unless a recovery of    *)
(* this generation is requested or running.                                *)
Bindable(m) ==
  /\ media = m
  /\ ~(rstate \in {"Requested", "Running"} /\ rgen = mgen)

(* bindMediaSource() in onMediaConfigure() succeeds ... *)
ConfigureBinds ==
  /\ configuring # NoMedia /\ ~bind_failed
  /\ Bindable(configuring)
  /\ appsrc' = TRUE /\ configuring' = NoMedia
  /\ UNCHANGED <<accepting, media, status, mgen, failures, recoveryVars,
                 workerVars, watchdog, bind_failed, marking, feeder, stopVars,
                 gstVars>>

(* ... or fails: the media has no appsrc, or may not be bound. *)
ConfigureBindFails ==
  /\ configuring # NoMedia /\ ~bind_failed
  /\ bind_failed' = TRUE
  /\ UNCHANGED <<fieldVars, recoveryVars, workerVars, watchdog, configuring,
                 marking, feeder, stopVars, gstVars>>

(* A recovery is requested, under a new token. *)
RequestSetupRecovery ==
  /\ rstate' = "Requested" /\ rgen' = mgen
  /\ next_token' = next_token + 1 /\ rtoken' = next_token'

(* The rest of onMediaConfigure() when that failed. *)
SetupFailure ==
  /\ bind_failed
  /\ bind_failed' = FALSE /\ configuring' = NoMedia
  /\ IF media = configuring
       THEN RequestSetupRecovery
       ELSE UNCHANGED <<rstate, rgen, next_token, rtoken>>
  /\ UNCHANGED <<fieldVars, unprepared, rjob, workerVars, watchdog, marking,
                 feeder, stopVars, gstVars>>

(* onMediaPrepared() binds m ... *)
MediaPrepared(m) ==
  /\ gst[m] = "preparing" /\ configuring # m
  /\ gst' = [gst EXCEPT ![m] = "prepared"]
  /\ IF Current(m) /\ Bindable(m)
       THEN appsrc' = TRUE /\ marking' = marking \cup {m}
       ELSE UNCHANGED <<appsrc, marking>>
  /\ UNCHANGED <<accepting, media, status, mgen, failures, recoveryVars,
                 workerVars, watchdog, configuring, bind_failed, feeder,
                 stopVars, cache, clients>>

(* ... and then takes the mutex again, whatever happened in between. *)
MarkPrepared(m) ==
  /\ m \in marking
  /\ marking' = marking \ {m}
  /\ IF media = m THEN failures' = 0 /\ status' = "prepared"
     ELSE UNCHANGED <<failures, status>>
  /\ UNCHANGED <<accepting, media, mgen, appsrc, recoveryVars, workerVars,
                 watchdog, configuring, bind_failed, feeder, stopVars,
                 gstVars>>

(* onMediaNewState() *)
MediaNewState(m) ==
  /\ gst[m] \in {"preparing", "prepared"} /\ configuring # m
  /\ Current(m) /\ Bindable(m)
  /\ appsrc' = TRUE
  /\ UNCHANGED <<accepting, media, status, mgen, failures, recoveryVars,
                 workerVars, threadVars, stopVars, gstVars>>

(* The last user of m leaves: onMediaTargetState() with GST_STATE_NULL.    *)
(* The client whose gst_rtsp_media_prepare() is calling the handlers is a  *)
(* user.                                                                   *)
MediaTeardown(m) ==
  /\ gst[m] \in {"preparing", "prepared"} /\ configuring # m /\ m \notin marking
  /\ gst' = [gst EXCEPT ![m] = "unpreparing"]
  /\ status' = IF Current(m) THEN "unpreparing" ELSE status
  /\ UNCHANGED <<accepting, media, mgen, appsrc, failures, recoveryVars,
                 workerVars, threadVars, stopVars, cache, clients>>

(* m is unprepared and the factory forgets it ... *)
MediaEvicted(m) ==
  /\ gst[m] = "unpreparing"
  /\ gst' = [gst EXCEPT ![m] = "evicted"]
  /\ cache' = IF cache = m THEN NoMedia ELSE cache
  /\ UNCHANGED <<fieldVars, recoveryVars, workerVars, threadVars, stopVars,
                 clients>>

(* Mutant: the media takes its recovery with it. *)
BugNothingOutlives == FALSE

(* The recovery of the current media is under way. *)
OutlivesMedia == rstate = "Running" /\ rgen = mgen

(* ... and then onMediaUnprepared() runs.  Only a recovery that is Running *)
(* outlives the media; any other request is forgotten with it.             *)
MediaUnprepared(m) ==
  /\ gst[m] = "evicted"
  /\ gst' = [gst EXCEPT ![m] = "gone"]
  /\ IF Current(m)
       THEN /\ media' = NoMedia /\ status' = "unprepared" /\ mgen' = mgen + 1
            /\ appsrc' = FALSE /\ failures' = 0
            /\ IF OutlivesMedia
                 THEN /\ unprepared' = TRUE
                      /\ UNCHANGED <<rstate, rgen, rtoken, rjob>>
                 ELSE ForgetRecovery /\ unprepared' = FALSE /\ rjob' = NoJob
       ELSE UNCHANGED <<media, status, mgen, appsrc, failures, rstate, rgen,
                        rtoken, unprepared, rjob>>
  /\ UNCHANGED <<accepting, next_token, workerVars, threadVars, stopVars,
                 cache, clients>>

(* onMediaHandleMessage() with an error: a recovery is requested, even if  *)
(* one is running.                                                         *)
MediaError(m) ==
  /\ gst[m] \in {"preparing", "prepared", "unpreparing"} /\ configuring # m
  /\ Current(m)
  /\ rstate' = "Requested" /\ rgen' = mgen /\ status' = "error"
  /\ IF rstate = "Idle" \/ rgen # mgen
       THEN next_token' = next_token + 1 /\ rtoken' = next_token'
       ELSE UNCHANGED <<next_token, rtoken>>
  /\ UNCHANGED <<accepting, media, mgen, appsrc, failures, unprepared, rjob,
                 workerVars, threadVars, stopVars, gstVars>>

-----------------------------------------------------------------------------
(* feederLoop(): the appsrc and the generation are read together, and the  *)
(* outcome of the push is recorded if the media is still the same.         *)

FeederTake ==
  /\ up /\ feeder = 0 /\ appsrc
  /\ feeder' = mgen
  /\ UNCHANGED <<fieldVars, recoveryVars, workerVars, watchdog, configuring,
                 bind_failed, marking, stopVars, gstVars>>

(* The push succeeded, or the appsrc is flushing. *)
FeederOk ==
  /\ feeder # 0
  /\ feeder' = 0
  /\ failures' = IF media # NoMedia /\ mgen = feeder THEN 0 ELSE failures
  /\ UNCHANGED <<accepting, media, status, mgen, appsrc, recoveryVars,
                 workerVars, watchdog, configuring, bind_failed, marking,
                 stopVars, gstVars>>

FeederError ==
  /\ feeder # 0
  /\ feeder' = 0
  /\ LET same == media # NoMedia /\ mgen = feeder
         over == same /\ failures + 1 >= PushLimit
     IN /\ failures' = IF over THEN PushLimit
                       ELSE IF same THEN failures + 1 ELSE failures
        /\ IF over
             THEN /\ rstate' = "Requested" /\ rgen' = feeder
                  /\ IF rstate = "Idle" \/ rgen # feeder
                       THEN next_token' = next_token + 1 /\ rtoken' = next_token'
                       ELSE UNCHANGED <<next_token, rtoken>>
             ELSE UNCHANGED <<rstate, rgen, next_token, rtoken>>
  /\ UNCHANGED <<accepting, media, status, mgen, appsrc, unprepared, rjob,
                 workerVars, watchdog, configuring, bind_failed, marking,
                 stopVars, gstVars>>

-----------------------------------------------------------------------------
(* onWatchdog(), on the loop thread.                                       *)

(* Mutant: the listener is resumed without waiting for the worker. *)
BugJobAssumedDone == rjob # NoJob /\ rjob.token = rtoken

JobDone == rjob # NoJob /\ rjob.token = rtoken /\ rjob.id \in done

(* finishRecoveryIfReady(): the media is evicted and the worker is done. *)
RecoveryReady == up /\ rstate = "Running" /\ rgen # 0 /\ unprepared /\ JobDone

(* A tick: finishRecoveryIfReady() up to createListenerSource(). *)
WatchdogTick ==
  /\ watchdog.at = "idle" /\ enabled /\ up
  /\ IF RecoveryReady
       THEN rstate' = "Completed" /\ watchdog' = [at |-> "attach", gen |-> 0]
       ELSE watchdog' = [at |-> "look", gen |-> 0] /\ UNCHANGED rstate
  /\ UNCHANGED <<fieldVars, rgen, rtoken, next_token, unprepared, rjob,
                 workerVars, configuring, bind_failed, marking, feeder,
                 stopVars, gstVars>>

(* The listener is attached again and the recovery is over, unless stop()  *)
(* or a new media came first.                                              *)
WatchdogAttach ==
  /\ watchdog.at = "attach"
  /\ watchdog' = [at |-> "look", gen |-> 0]
  /\ IF up /\ rstate = "Completed" /\ rgen # 0 /\ unprepared /\ JobDone
        /\ ~accepting
       THEN /\ accepting' = TRUE
            /\ ForgetRecovery /\ unprepared' = FALSE /\ rjob' = NoJob
       ELSE UNCHANGED <<accepting, rstate, rgen, rtoken, unprepared, rjob>>
  /\ UNCHANGED <<media, status, mgen, appsrc, failures, next_token, workerVars,
                 configuring, bind_failed, marking, feeder, stopVars, gstVars>>

(* createListenerSource() fails: reported, and the state stays Completed. *)
WatchdogAttachFails ==
  /\ watchdog.at = "attach"
  /\ watchdog' = [at |-> "look", gen |-> 0]
  /\ UNCHANGED <<fieldVars, recoveryVars, workerVars, configuring, bind_failed,
                 marking, feeder, stopVars, gstVars>>

(* The watchdog's reading of the fields: a requested recovery is due, and  *)
(* so is one of a media in error, or unpreparing or preparing for too long *)
(* (ten seconds, so not while its onMediaConfigure() runs).                *)
WatchdogLook ==
  /\ watchdog.at = "look"
  /\ \/ /\ media # NoMedia
        /\ IF rstate = "Requested"
             THEN watchdog' = [at |-> "recover", gen |-> rgen]
             ELSE /\ status \in {"error", "unpreparing", "preparing"}
                  /\ configuring # media
                  /\ watchdog' = [at |-> "recover", gen |-> mgen]
     \/ /\ ~(media # NoMedia /\ (rstate = "Requested" \/ status = "error"))
        /\ watchdog' = Idle
  /\ UNCHANGED <<fieldVars, recoveryVars, workerVars, configuring, bind_failed,
                 marking, feeder, stopVars, gstVars>>

NewJobId == Cardinality(done) + Cardinality({pending, working} \ {0}) + 1

(* recoverMedia(gen), which looks again under the mutex: the request is    *)
(* stale, ...                                                              *)
Stale(gen) == ~up \/ media = NoMedia \/ mgen # gen

(* ... the worker still has a job waiting, so that the request is given up *)
(* and may be made again, ...                                              *)
RecoverGivesUp ==
  /\ watchdog.at = "recover"
  /\ watchdog' = Idle
  /\ \/ Stale(watchdog.gen)
     \/ rstate \in {"Requested", "Idle"} /\ (pending # 0 \/ worker # "running")
     \/ rstate \notin {"Requested", "Idle"}
  /\ IF rstate = "Requested" /\ rgen = watchdog.gen
       THEN ForgetRecovery
       ELSE UNCHANGED <<rstate, rgen, rtoken>>
  /\ UNCHANGED <<fieldVars, next_token, unprepared, rjob, workerVars,
                 configuring, bind_failed, marking, feeder, stopVars, gstVars>>

(* ... or the source and the listener are taken away and a job is handed   *)
(* to the worker, under both mutexes.                                      *)
RecoverStarts ==
  /\ watchdog.at = "recover"
  /\ watchdog' = Idle
  /\ ~Stale(watchdog.gen) /\ rstate \in {"Requested", "Idle"}
  /\ pending = 0 /\ worker = "running"
  /\ appsrc' = FALSE /\ failures' = 0
  /\ rstate' = "Running" /\ rgen' = watchdog.gen
  /\ next_token' = IF rtoken = 0 THEN next_token + 1 ELSE next_token
  /\ rtoken' = IF rtoken = 0 THEN next_token' ELSE rtoken
  /\ unprepared' = FALSE
  /\ rjob' = [id |-> NewJobId, token |-> rtoken']
  /\ pending' = NewJobId
  /\ accepting' = FALSE
  /\ UNCHANGED <<media, status, mgen, working, done, worker, configuring,
                 bind_failed, marking, feeder, stopVars, gstVars>>

-----------------------------------------------------------------------------
(* recoveryWorkerLoop(): a waiting job is taken even when stopping.        *)

WorkerTake ==
  /\ worker # "exited" /\ working = 0 /\ pending # 0
  /\ working' = pending /\ pending' = 0
  /\ UNCHANGED <<fieldVars, recoveryVars, done, worker, threadVars, stopVars,
                 gstVars>>

(* The teardown: end of stream, and all clients and sessions closed. *)
WorkerDone ==
  /\ working # 0
  /\ done' = done \cup {working} /\ working' = 0
  /\ clients' = FALSE
  /\ UNCHANGED <<fieldVars, recoveryVars, pending, worker, threadVars,
                 stopVars, gst, cache>>

(* Mutant: a worker told to stop leaves its next job undone. *)
BugExitsWithJob ==
  /\ worker = "stopping" /\ working = 0
  /\ worker' = "exited"
  /\ UNCHANGED <<fieldVars, recoveryVars, pending, working, done, threadVars,
                 stopVars, gstVars>>

WorkerExit ==
  /\ worker = "stopping" /\ working = 0 /\ pending = 0
  /\ worker' = "exited"
  /\ UNCHANGED <<fieldVars, recoveryVars, pending, working, done, threadVars,
                 stopVars, gstVars>>

-----------------------------------------------------------------------------
(* stopLocked().                                                           *)

StopAt(from, to) == stop.at = from /\ stop' = [at |-> to, job |-> 0]

StopBegin ==
  /\ StopAt("no", "feeder")
  /\ up' = FALSE
  /\ UNCHANGED <<fieldVars, recoveryVars, workerVars, threadVars, enabled,
                 gstVars>>

(* The feeder is joined; then the listener goes away, and a running job is *)
(* remembered.                                                             *)
StopSources ==
  /\ stop.at = "feeder" /\ feeder = 0
  /\ stop' = [at |-> "job",
              job |-> IF rstate = "Running" /\ rjob # NoJob
                           /\ rjob.token = rtoken /\ rjob.id \notin done
                        THEN rjob.id ELSE 0]
  /\ accepting' = FALSE
  /\ UNCHANGED <<media, status, mgen, appsrc, failures, recoveryVars,
                 workerVars, threadVars, up, enabled, gstVars>>

(* requestRecoveryWorkerStop(), once the remembered job is done. *)
StopWorker ==
  /\ stop.job = 0 \/ stop.job \in done
  /\ StopAt("job", "worker")
  /\ worker' = "stopping"
  /\ UNCHANGED <<fieldVars, recoveryVars, pending, working, done, threadVars,
                 up, enabled, gstVars>>

(* The worker is joined; then disableCallbacksAndWait() turns callbacks    *)
(* off ...                                                                 *)
StopCallbacks ==
  /\ StopAt("worker", "callbacks") /\ worker = "exited"
  /\ enabled' = FALSE
  /\ UNCHANGED <<fieldVars, recoveryVars, workerVars, threadVars, up, gstVars>>

(* ... and waits for those under way, before everything is released. *)
StopRelease ==
  /\ StopAt("callbacks", "done")
  /\ configuring = NoMedia /\ marking = {} /\ watchdog = Idle
  /\ media' = NoMedia /\ status' = "unprepared" /\ mgen' = mgen + 1
  /\ appsrc' = FALSE /\ failures' = 0
  /\ ForgetRecovery /\ unprepared' = FALSE /\ rjob' = NoJob
  /\ clients' = FALSE /\ cache' = NoMedia /\ gst' = [m \in Media |-> "gone"]
  /\ UNCHANGED <<accepting, next_token, workerVars, threadVars, up, enabled>>

-----------------------------------------------------------------------------
Configured == ConfigureBinds \/ SetupFailure
Retire(m) == MediaEvicted(m) \/ MediaUnprepared(m)
Feed == FeederOk \/ FeederError
Watch ==
  \/ WatchdogTick \/ WatchdogAttach \/ WatchdogLook
  \/ RecoverGivesUp \/ RecoverStarts
Work == WorkerTake \/ WorkerDone \/ WorkerExit
Stop == StopSources \/ StopWorker \/ StopCallbacks \/ StopRelease

Next ==
  \/ ClientConnect \/ Configured \/ ConfigureBindFails
  \/ \E m \in Media :
       \/ MediaConfigure(m) \/ MediaPrepared(m) \/ MarkPrepared(m)
       \/ MediaNewState(m) \/ MediaTeardown(m) \/ Retire(m) \/ MediaError(m)
  \/ FeederTake \/ Feed
  \/ Watch \/ WatchdogAttachFails
  \/ Work
  \/ StopBegin \/ Stop
  \/ stop.at = "done" /\ UNCHANGED vars

Spec == Init /\ [][Next]_vars

(* The loop, the worker, the feeder and stop() keep running.  Of           *)
(* gst-rtsp-server it is assumed that a media no client uses is            *)
(* eventually torn down, and that one being torn down is eventually        *)
(* evicted and its handlers called.                                        *)
Fairness ==
  /\ WF_vars(Watch) /\ WF_vars(Work) /\ WF_vars(Stop)
  /\ WF_vars(Feed) /\ WF_vars(Configured)
  /\ \A m \in Media : /\ WF_vars(~clients /\ MediaTeardown(m))
                      /\ WF_vars(Retire(m)) /\ WF_vars(MarkPrepared(m))

-----------------------------------------------------------------------------
TypeOK ==
  /\ up \in BOOLEAN /\ accepting \in BOOLEAN /\ enabled \in BOOLEAN
  /\ media \in Media \cup {NoMedia} /\ cache \in Media \cup {NoMedia}
  /\ configuring \in Media \cup {NoMedia} /\ bind_failed \in BOOLEAN
  /\ marking \subseteq Media
  /\ status \in {"unprepared", "preparing", "prepared", "unpreparing", "error"}
  /\ mgen \in Nat \ {0} /\ appsrc \in BOOLEAN /\ failures \in 0..PushLimit
  /\ rstate \in {"Idle", "Requested", "Running", "Completed"}
  /\ rgen \in 0..mgen /\ next_token \in Nat /\ rtoken \in 0..next_token
  /\ unprepared \in BOOLEAN
  /\ rjob \in [id: Nat, token: 0..next_token]
  /\ pending \in Nat /\ working \in Nat /\ done \subseteq Nat \ {0}
  /\ worker \in {"running", "stopping", "exited"}
  /\ watchdog \in [at: {"idle", "attach", "look", "recover"}, gen: 0..mgen]
  /\ feeder \in 0..mgen
  /\ stop \in [at: {"no", "feeder", "job", "worker", "callbacks", "done"}, job: Nat]
  /\ gst \in [Media -> {"none", "preparing", "prepared", "unpreparing", "evicted",
                        "gone"}]
  /\ clients \in BOOLEAN

(* While a recovery runs, no handler has bound an appsrc again, no client  *)
(* is accepted, and recoverMedia()'s latest job carries the recovery's     *)
(* token, so that it can end.                                              *)
RecoveryOwnsMedia ==
  rstate = "Running" =>
    ~appsrc /\ ~accepting /\ rjob.id # 0 /\ rjob.token = rtoken

(* The media clients are served from is the one the server feeds: an old   *)
(* media's handler never retires a newly configured one, and               *)
(* onMediaConfigure() never turns a new one away.                          *)
FeedsCachedMedia == up /\ cache # NoMedia => media = cache

(* stop() is a synchronous boundary: when it returns, no teardown job      *)
(* waits or runs, no callback is under way and nothing is bound.           *)
StopIsSynchronous ==
  stop.at = "done" =>
    /\ pending = 0 /\ working = 0
    /\ configuring = NoMedia /\ marking = {} /\ watchdog = Idle /\ feeder = 0
    /\ media = NoMedia /\ ~appsrc /\ ~accepting

(* finishRecoveryIfReady() lets clients in again only when the failed      *)
(* media has left the factory's cache and no teardown is left that would   *)
(* close the new clients.                                                  *)
ResumesAfterTeardown ==
  [][~accepting /\ accepting' => cache = NoMedia /\ pending = 0 /\ working = 0]_vars

(* A recovery ends with the listener resumed, unless stop() comes first.   *)
ListenerResumes == (up /\ ~accepting) ~> (accepting \/ ~up)
=============================================================================
