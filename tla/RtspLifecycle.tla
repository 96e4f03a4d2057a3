---------------------------- MODULE RtspLifecycle ----------------------------
(***************************************************************************)
(* RtspServer::start() and stop(), again and again: what each start()      *)
(* acquires and a failed one gives back, the epochs of callbacks, the loop *)
(* thread, and the detached owner of the session cleanup.  The recovery of *)
(* a failed media is module RtspServer's, the feeder module RtspFeeder's.  *)
(*                                                                         *)
(* Threads                                                                 *)
(*   caller     start() and stop(), serialised by lifecycle_mutex_         *)
(*   loop       LoopRun, TickEnter, TickStore, LoopExit, ClientConnect     *)
(*   client     NewSession, SessionEnter, SessionWake, SessionStore        *)
(*   owner      Owner...: one per epoch, detached, may outlive it          *)
(*                                                                         *)
(* GLib is external: a GMainLoop that is told to quit before it runs does  *)
(* not notice, and g_main_context_wakeup() is remembered until the next    *)
(* poll.  So is GstRTSPSessionPool: its watch sleeps until the deadline it *)
(* saw when it last prepared, or for good when it saw no session.          *)
(***************************************************************************)
EXTENDS Integers, Sequences, FiniteSets

CONSTANTS
  LastEpoch,  \* bound on how often start() is called
  Clients     \* the clients' threads

ASSUME LifecycleAssumption == LastEpoch \in Nat \ {0}

Epochs == 1..LastEpoch

(* What start() acquires, in this order. *)
Steps == <<"server", "factory", "worker", "listener", "cleanup", "watchdog",
           "feeder", "loop">>
Things == {Steps[i] : i \in 1..Len(Steps)}

VARIABLES
  at,       \* where the caller is in start() or stopLocked()
  up,       \* running_
  held,     \* of Things, what the server holds
  epoch,    \* the number of callback_state_; 0 for none yet
  enabled,  \* epochs whose CallbackState points to the server
  loop,     \* loop_thread_
  tick,     \* watchdogTick() on it: "out", "in" or "store"
  client,   \* each client's thread: [at, epoch, n]
  pool,     \* sessions of each epoch's pool: [live, expired]
  current,  \* SessionCleanupState::current of each epoch
  gauge,    \* Metrics::rtsp_sessions_current
  owner,    \* each epoch's cleanup owner: [at, armed, wake, stopping, quit]
  quit,     \* g_main_loop_quit() has taken effect on loop_
  lost      \* loops told to quit before they ran: an owner's, by its epoch,
            \* and 0 for loop_

callerVars == <<at, up, held, epoch, enabled>>
loopVars == <<loop, tick, quit>>
vars == <<callerVars, loopVars, client, pool, current, gauge, owner, lost>>

NoClient == [at |-> "none", epoch |-> 0, n |-> 0]
NoOwner == [at |-> "none", armed |-> FALSE, wake |-> FALSE, stopping |-> FALSE,
            quit |-> FALSE]
Empty == [live |-> 0, expired |-> 0]

Init ==
  /\ at = "idle" /\ up = FALSE /\ held = {} /\ epoch = 0 /\ enabled = {}
  /\ loop = "none" /\ tick = "out" /\ quit = FALSE
  /\ client = [c \in Clients |-> NoClient]
  /\ pool = [e \in Epochs |-> Empty]
  /\ current = [e \in Epochs |-> 0] /\ gauge = 0
  /\ owner = [e \in Epochs |-> NoOwner]
  /\ lost = {}

Sessions(e) == pool[e].live + pool[e].expired

-----------------------------------------------------------------------------
(* start().                                                                *)

(* A fresh CallbackState. *)
PublishEpoch == enabled' = enabled \cup {epoch + 1}

StartBegin ==
  /\ at = "idle" /\ ~up /\ epoch < LastEpoch
  /\ PublishEpoch
  /\ epoch' = epoch + 1 /\ up' = TRUE /\ at' = "start"
  /\ UNCHANGED <<held, loopVars, client, pool, current, gauge, owner, lost>>

NextThing == Steps[Cardinality(held) + 1]

(* The next thing is acquired, ... *)
StartStep ==
  /\ at = "start"
  /\ held' = held \cup {NextThing}
  /\ at' = IF held' = Things THEN "idle" ELSE "start"
  /\ owner' = IF NextThing = "cleanup"
                THEN [owner EXCEPT ![epoch] = [NoOwner EXCEPT !.at = "new"]]
                ELSE owner
  /\ loop' = IF NextThing = "loop" THEN "new" ELSE loop
  /\ UNCHANGED <<up, epoch, enabled, tick, quit, client, pool, current, gauge,
                 lost>>

(* ... or it cannot be, and stopLocked() undoes what was. *)
StartFails ==
  /\ at = "start"
  /\ up' = FALSE /\ at' = "sources"
  /\ UNCHANGED <<held, epoch, enabled, loopVars, client, pool, current, gauge,
                 owner, lost>>

-----------------------------------------------------------------------------
(* stopLocked().                                                           *)

StopBegin ==
  /\ at = "idle" /\ up
  /\ up' = FALSE /\ at' = "sources"
  /\ UNCHANGED <<held, epoch, enabled, loopVars, client, pool, current, gauge,
                 owner, lost>>

(* Mutant: the watchdog's source is forgotten. *)
BugWatchdogKept == {"listener"}

Sources == {"watchdog", "listener"}

(* The feeder, whose queue is closed, is joined, and the two sources are   *)
(* destroyed.                                                              *)
StopSources ==
  /\ at = "sources" /\ at' = "cleanup"
  /\ held' = held \ (Sources \cup {"feeder"})
  /\ UNCHANGED <<up, epoch, enabled, loopVars, client, pool, current, gauge,
                 owner, lost>>

(* The owner's loop quits, if it runs already. *)
Told(o) == [o EXCEPT !.stopping = TRUE, !.quit = (o.at # "new")]

(* requestSessionCleanupStop(): the owner is told, not waited for. *)
StopCleanup ==
  /\ at = "cleanup" /\ at' = "worker"
  /\ held' = held \ {"cleanup"}
  /\ IF "cleanup" \in held
       THEN /\ gauge' = current[epoch]
            /\ owner' = [owner EXCEPT ![epoch] = Told(@)]
            /\ lost' = IF owner[epoch].at = "new" THEN lost \cup {epoch} ELSE lost
       ELSE UNCHANGED <<gauge, owner, lost>>
  /\ UNCHANGED <<up, epoch, enabled, loopVars, client, pool, current>>

(* requestRecoveryWorkerStop() joins the worker; then                      *)
(* disableCallbacksAndWait() clears the epoch's server pointer ...         *)
StopDisable ==
  /\ at = "worker" /\ at' = "wait"
  /\ held' = held \ {"worker"}
  /\ enabled' = enabled \ {epoch}
  /\ UNCHANGED <<up, epoch, loopVars, client, pool, current, gauge, owner, lost>>

Inside(c) == client[c].at \in {"in", "store"}

(* Mutant: the callbacks under way are not waited for. *)
BugNoWait == TRUE

(* ... until CallbackState::active is zero. *)
NoneActive ==
  /\ tick = "out"
  /\ \A c \in Clients : Inside(c) => client[c].epoch # epoch

(* The factory is released and the clients are closed; one that is about   *)
(* to emit a signal still does.  loop_ is told to quit.                    *)
StopRelease ==
  /\ at = "wait" /\ NoneActive
  /\ at' = "join"
  /\ held' = held \ {"factory"}
  /\ client' = [c \in Clients |->
                  IF client[c].at = "out" THEN NoClient ELSE client[c]]
  /\ pool' = [pool EXCEPT ![epoch] = Empty]
  /\ quit' = (loop = "running")
  /\ lost' = IF loop = "new" THEN lost \cup {0} ELSE lost
  /\ UNCHANGED <<up, epoch, enabled, loop, tick, current, gauge, owner>>

(* loop_thread_ is joined, the server is released and the gauge reset. *)
StopFree ==
  /\ at = "join" /\ loop \in {"none", "exited"}
  /\ at' = "idle"
  /\ held' = held \ {"server", "loop"}
  /\ loop' = "none" /\ quit' = FALSE
  /\ gauge' = 0
  /\ UNCHANGED <<up, epoch, enabled, tick, client, pool, current, owner, lost>>

-----------------------------------------------------------------------------
(* The loop thread.                                                        *)

(* g_main_loop_run() forgets an earlier g_main_loop_quit(). *)
LoopRun ==
  /\ loop = "new"
  /\ loop' = "running"
  /\ UNCHANGED <<callerVars, tick, quit, client, pool, current, gauge, owner,
                 lost>>

LoopExit ==
  /\ loop = "running" /\ quit /\ tick = "out"
  /\ loop' = "exited"
  /\ UNCHANGED <<callerVars, tick, quit, client, pool, current, gauge, owner,
                 lost>>

(* watchdogTick() passes its CallbackGuard, while its source is attached. *)
TickEnter ==
  /\ loop = "running" /\ tick = "out" /\ "watchdog" \in held
  /\ epoch \in enabled
  /\ tick' = "in"
  /\ UNCHANGED <<callerVars, loop, quit, client, pool, current, gauge, owner,
                 lost>>

(* onWatchdog() takes session_cleanup_state_ under the mutex ... *)
TickRead ==
  /\ tick = "in"
  /\ tick' = IF up /\ "cleanup" \in held THEN "store" ELSE "out"
  /\ UNCHANGED <<callerVars, loop, quit, client, pool, current, gauge, owner,
                 lost>>

(* ... and publishes its count. *)
TickStore ==
  /\ tick = "store"
  /\ tick' = "out"
  /\ gauge' = current[epoch]
  /\ UNCHANGED <<callerVars, loop, quit, client, pool, current, owner, lost>>

(* The listener accepts a client; onClientConnected() connects the handler *)
(* for its sessions, with this epoch's state.                              *)
ClientConnect(c) ==
  /\ loop = "running" /\ tick = "out" /\ "listener" \in held
  /\ epoch \in enabled
  /\ client[c] = NoClient
  /\ client' = [client EXCEPT ![c] = [at |-> "out", epoch |-> epoch, n |-> 0]]
  /\ UNCHANGED <<callerVars, loopVars, pool, current, gauge, owner, lost>>

-----------------------------------------------------------------------------
(* A client's thread: the pool gets a session, then "new-session" is       *)
(* emitted, and nothing keeps stop() and start() from coming in between.   *)

NewSession(c) ==
  /\ client[c].at = "out"
  /\ client' = [client EXCEPT ![c].at = "signal"]
  /\ pool' = [pool EXCEPT ![client[c].epoch].live = @ + 1]
  /\ UNCHANGED <<callerVars, loopVars, current, gauge, owner, lost>>

(* clientNewSession()'s CallbackGuard. *)
SessionEnter(c) ==
  /\ client[c].at = "signal"
  /\ client' = [client EXCEPT ![c] =
                  IF @.epoch \in enabled THEN [@ EXCEPT !.at = "in"]
                  ELSE NoClient]
  /\ UNCHANGED <<callerVars, loopVars, pool, current, gauge, owner, lost>>

(* Mutant: the owner is left asleep. *)
BugNoWakeup(o) == o

(* g_main_context_wakeup() *)
Woken(o) == [o EXCEPT !.wake = TRUE]

(* onClientNewSession(): the owner is woken and the sessions are counted   *)
(* ...                                                                     *)
SessionWake(c) ==
  /\ client[c].at = "in"
  /\ client' = [client EXCEPT ![c].at = "store", ![c].n = Sessions(epoch)]
  /\ owner' = IF "cleanup" \in held THEN [owner EXCEPT ![epoch] = Woken(@)]
              ELSE owner
  /\ UNCHANGED <<callerVars, loopVars, pool, current, gauge, lost>>

(* Mutant: ~CallbackGuard() is never run. *)
BugGuardKept(c) == client[c]

(* ~CallbackGuard() *)
Left(c) == [client[c] EXCEPT !.at = "out", !.n = 0]

(* ... and the count published. *)
SessionStore(c) ==
  /\ client[c].at = "store"
  /\ client' = [client EXCEPT ![c] = Left(c)]
  /\ gauge' = client[c].n
  /\ current' = [current EXCEPT ![epoch] = client[c].n]
  /\ UNCHANGED <<callerVars, loopVars, pool, owner, lost>>

(* External: a session is not kept alive. *)
SessionExpires(e) ==
  /\ pool[e].live > 0
  /\ pool' = [pool EXCEPT ![e] = [live |-> @.live - 1, expired |-> @.expired + 1]]
  /\ UNCHANGED <<callerVars, loopVars, client, current, gauge, owner, lost>>

-----------------------------------------------------------------------------
(* The cleanup owner of epoch e.                                           *)

(* The watch's prepare(), when the pool has n sessions. *)
Prepared(o, n) == [o EXCEPT !.at = "poll", !.wake = FALSE,
                            !.armed = (n > 0 /\ ~o.stopping)]

OwnerRun(e) ==
  /\ owner[e].at = "new"
  /\ owner' = [owner EXCEPT ![e] = Prepared(@, Sessions(e))]
  /\ UNCHANGED <<callerVars, loopVars, client, pool, current, gauge, lost>>

(* A wakeup makes the watch look for a deadline again. *)
OwnerWakes(e) ==
  /\ owner[e].at = "poll" /\ owner[e].wake
  /\ owner' = [owner EXCEPT ![e] = Prepared(@, Sessions(e))]
  /\ UNCHANGED <<callerVars, loopVars, client, pool, current, gauge, lost>>

(* The deadline has passed: cleanupSessions() ... *)
OwnerCleans(e) ==
  /\ owner[e].at = "poll" /\ owner[e].armed /\ ~owner[e].stopping
  /\ pool[e].expired > 0
  /\ owner' = [owner EXCEPT ![e].at = "clean"]
  /\ UNCHANGED <<callerVars, loopVars, client, pool, current, gauge, lost>>

(* ... which may be slow, and may end when stop() has long returned. *)
OwnerCleaned(e) ==
  /\ owner[e].at = "clean"
  /\ pool' = [pool EXCEPT ![e].expired = 0]
  /\ current' = [current EXCEPT ![e] = pool[e].live]
  /\ owner' = [owner EXCEPT ![e] = Prepared(@, pool[e].live)]
  /\ UNCHANGED <<callerVars, loopVars, client, gauge, lost>>

OwnerExits(e) ==
  /\ owner[e].at = "poll" /\ owner[e].quit
  /\ owner' = [owner EXCEPT ![e].at = "exited"]
  /\ UNCHANGED <<callerVars, loopVars, client, pool, current, gauge, lost>>

-----------------------------------------------------------------------------
Caller ==
  \/ StartStep \/ StopSources \/ StopCleanup
  \/ StopDisable \/ StopRelease \/ StopFree
Loop == LoopRun \/ TickRead \/ TickStore \/ LoopExit
Signal(c) == SessionEnter(c) \/ SessionWake(c) \/ SessionStore(c)
Owner(e) ==
  OwnerRun(e) \/ OwnerWakes(e) \/ OwnerCleans(e) \/ OwnerCleaned(e) \/ OwnerExits(e)

Next ==
  \/ StartBegin \/ StartFails \/ StopBegin \/ Caller
  \/ Loop \/ TickEnter
  \/ \E c \in Clients : ClientConnect(c) \/ NewSession(c) \/ Signal(c)
  \/ \E e \in Epochs : SessionExpires(e) \/ Owner(e)

Spec == Init /\ [][Next]_vars

(* Threads are scheduled; nobody must call start() or stop(), connect, or  *)
(* let a session expire.                                                   *)
Fairness ==
  /\ WF_vars(Caller) /\ WF_vars(Loop)
  /\ \A c \in Clients : WF_vars(Signal(c))
  /\ \A e \in Epochs : WF_vars(Owner(e))

-----------------------------------------------------------------------------
TypeOK ==
  /\ at \in {"idle", "start", "sources", "cleanup", "worker", "wait",
             "join"}
  /\ up \in BOOLEAN /\ held \subseteq Things /\ epoch \in 0..LastEpoch
  /\ enabled \subseteq {epoch}
  /\ loop \in {"none", "new", "running", "exited"}
  /\ tick \in {"out", "in", "store"} /\ quit \in BOOLEAN
  /\ client \in [Clients -> [at: {"none", "out", "signal", "in", "store"},
                             epoch: {0} \cup Epochs, n: Nat]]
  /\ pool \in [Epochs -> [live: Nat, expired: Nat]]
  /\ current \in [Epochs -> Nat] /\ gauge \in Nat
  /\ owner \in [Epochs -> [at: {"none", "new", "poll", "clean", "exited"},
                           armed: BOOLEAN, wake: BOOLEAN, stopping: BOOLEAN,
                           quit: BOOLEAN]]
  /\ lost \subseteq 0..LastEpoch

(* Whoever calls start() or stop(), and wherever start() failed: when the  *)
(* call has returned the server holds everything or nothing, no loop runs  *)
(* without a server, and the gauge of a stopped server is zero.            *)
AllOrNothing ==
  at = "idle" =>
    /\ held = IF up THEN Things ELSE {}
    /\ ~up => loop = "none" /\ tick = "out" /\ gauge = 0 /\ enabled = {}

(* A callback that got past its CallbackGuard belongs to the epoch that is *)
(* up or being stopped, and the objects it uses have not been released,    *)
(* though a client of an earlier epoch may emit its signal at any time.    *)
CallbacksInEpoch ==
  /\ \A c \in Clients :
       Inside(c) => /\ client[c].epoch = epoch
                    /\ {"server", "factory"} \subseteq held
  /\ tick # "out" => {"server", "factory"} \subseteq held

(* A session that has expired is removed while the server is up: the owner *)
(* does not sleep through a session that came after it looked.             *)
ExpiredSessionsRemoved ==
  LET overdue == up /\ pool[epoch].expired > 0 IN overdue ~> ~overdue

(* start() and stop() return: whatever they join or wait for ends, unless  *)
(* stop() told loop_ to quit before its thread ran it.  A cleanup owner,   *)
(* which stop() tells but does not wait for, releases its references too,  *)
(* whether it was cleaning or asleep, unless it had not yet run its loop.  *)
CallsReturn ==
  LET lingering == \E e \in Epochs \ lost : owner[e].stopping /\ owner[e].at # "exited"
  IN /\ (at # "idle") ~> (at = "idle" \/ 0 \in lost)
     /\ lingering ~> ~lingering

(* stop() returns, also from a server that start() has only just started,  *)
(* as tests/rtsp_restart_harness.cpp calls it.  It does not when it tells  *)
(* loop_ to quit before loop_thread_ runs it: the loop then runs for good, *)
(* and stop() waits in the thread's join.                                  *)
StopReturns == (at = "sources") ~> (at = "idle")
=============================================================================
