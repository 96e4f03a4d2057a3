---------------------------- MODULE MCRtspServer ----------------------------
(***************************************************************************)
(* Model-checking instance of RtspServer: bounds the error messages and    *)
(* names what may happen besides push failures.                            *)
(***************************************************************************)
EXTENDS RtspServer

CONSTANTS
  MaxErrors,  \* bound on error messages from the medias' buses
  MaxTokens,  \* bound on recovery tokens when a push fails
  Events      \* which of "stop", "attach" (the listener cannot be attached),
              \* "bind" (a media lacks its appsrc) may happen

VARIABLES
  errors,     \* error messages so far
  overtaken   \* something has overwritten a recovery under way

mcVars == <<vars, errors, overtaken>>

MCInit == Init /\ errors = 0 /\ overtaken = FALSE

(* A step overtakes a recovery under way: a new error requests another, a  *)
(* new media takes the place of the failed one, or the listener cannot be  *)
(* attached.                                                               *)
Overtakes ==
  /\ rstate \in {"Running", "Completed"}
  /\ \/ rstate' = "Requested"
     \/ media' \notin {media, NoMedia}
     \/ watchdog.at = "attach" /\ watchdog'.at = "look" /\ ~accepting'

Step ==
  \/ \E m \in Media : errors < MaxErrors /\ MediaError(m) /\ errors' = errors + 1
  \/ /\ \/ ClientConnect \/ Configured
        \/ "bind" \in Events /\ ConfigureBindFails
        \/ \E m \in Media :
             \/ MediaConfigure(m) \/ MediaPrepared(m) \/ MarkPrepared(m)
             \/ MediaNewState(m) \/ MediaTeardown(m) \/ Retire(m)
        \/ FeederTake \/ FeederOk
        \/ next_token < MaxTokens /\ FeederError
        \/ Watch
        \/ "attach" \in Events /\ WatchdogAttachFails
        \/ Work
        \/ "stop" \in Events /\ StopBegin
        \/ Stop
        \/ stop.at = "done" /\ UNCHANGED vars
     /\ UNCHANGED errors

MCNext == Step /\ overtaken' = (overtaken \/ Overtakes)

MCSpec == MCInit /\ [][MCNext]_mcVars
MCFairSpec == MCSpec /\ Fairness

(* A recovery that nothing overtakes ends with the listener resumed,       *)
(* unless stop() comes first: the worker finishes the job, the media       *)
(* leaves the cache, and a later tick finds both.                          *)
UndisturbedRecoveryResumes ==
  (up /\ ~accepting) ~> (accepting \/ ~up \/ overtaken)
=============================================================================
