------------------------- MODULE RtspLifecycleProofs -------------------------
(***************************************************************************)
(* TLAPS proofs about RtspLifecycle: for any number of calls of start()    *)
(* and stop(), of clients and of sessions.                                 *)
(***************************************************************************)
EXTENDS RtspLifecycle, FiniteSetTheorems, TLAPS

(* What start() has after k of its steps. *)
Prefix(k) == {Steps[i] : i \in 1..k}

(* What the server holds, by where its caller is. *)
HeldByPhase ==
  /\ at = "idle" => held = IF up THEN Things ELSE {}
  /\ at = "start" => \E k \in 0..7 : held = Prefix(k)
  /\ at = "sources" => \E k \in 0..8 : held = Prefix(k)
  /\ at = "cleanup" => held \cap (Sources \cup {"feeder"}) = {}
  /\ at = "worker" => held \subseteq {"server", "factory", "worker", "loop"}
  /\ at = "wait" => held \subseteq {"server", "factory", "loop"}
  /\ at = "join" => held \subseteq {"server", "loop"}

(* A loop runs, or ran, only for a server that was started completely; the *)
(* factory is released before it is joined.                                *)
LoopHeld ==
  /\ loop # "none" => "loop" \in held
  /\ "loop" \in held => /\ "server" \in held
                        /\ at # "join" => "factory" \in held

(* running_, and the epoch whose callbacks are let in. *)
Enabled ==
  /\ epoch = 0 => at = "idle" /\ ~up
  /\ at = "start" => up
  /\ at \notin {"idle", "start"} => ~up
  /\ at \in {"wait", "join"} \/ (at = "idle" /\ ~up) => enabled = {}

(* Once stopLocked() has waited for the callbacks there are none. *)
Released == at = "join" \/ (at = "idle" /\ ~up)

(* A client connected to the epoch that is enabled, or inside a callback,  *)
(* belongs to a server that was started completely.                        *)
ClientsHeld ==
  \A c \in Clients :
    /\ client[c].epoch <= epoch
    /\ client[c].at # "none" /\ client[c].epoch \in enabled => "loop" \in held
    /\ Inside(c) => client[c].epoch = epoch /\ "loop" \in held /\ ~Released

(* So does a tick of the watchdog. *)
TickHeld == tick # "out" => loop = "running" /\ ~Released

(* The gauge of a stopped server. *)
GaugeReset == at = "idle" /\ ~up => gauge = 0

LifecycleInv ==
  /\ TypeOK /\ HeldByPhase /\ LoopHeld /\ Enabled /\ ClientsHeld /\ TickHeld
  /\ GaugeReset

-----------------------------------------------------------------------------
(* The k-th step adds one thing, which was not held, and the last is the   *)
(* loop.                                                                   *)
LEMMA PrefixSteps ==
  /\ Prefix(0) = {} /\ Prefix(8) = Things /\ Len(Steps) = 8
  /\ \A k \in 0..7 : /\ Prefix(k + 1) = Prefix(k) \cup {Steps[k + 1]}
                     /\ Steps[k + 1] \notin Prefix(k)
                     /\ Prefix(k) # Things /\ "loop" \notin Prefix(k)
                     /\ Prefix(k) \subseteq Things
<1>1. Len(Steps) = 8
  BY DEF Steps
<1>2. Prefix(0) = {} /\ Prefix(8) = Things
  BY <1>1 DEF Prefix, Things
<1>3. ASSUME NEW k \in 0..7
      PROVE  /\ Prefix(k + 1) = Prefix(k) \cup {Steps[k + 1]}
             /\ Prefix(k) \subseteq Things
  <2>1. /\ 1..k+1 = (1..k) \cup {k + 1} /\ \A i \in 1..k : i \in 1..8
    OBVIOUS
  <2> QED BY <1>1, <2>1 DEF Prefix, Things
<1>4. ASSUME NEW k \in 0..7
      PROVE  Steps[k + 1] \notin Prefix(k) /\ "loop" \notin Prefix(k)
  <2>1. \A i, j \in 1..8 : i # j => Steps[i] # Steps[j]
    BY DEF Steps
  <2>2. \A i \in 1..k : i \in 1..8 /\ i # k + 1 /\ i # 8
    OBVIOUS
  <2>3. Steps[8] = "loop" /\ k + 1 \in 1..8
    BY DEF Steps
  <2> QED BY <2>1, <2>2, <2>3 DEF Prefix
<1>5. "loop" \in Things
  BY <1>1 DEF Things, Steps
<1> QED BY <1>1, <1>2, <1>3, <1>4, <1>5

LEMMA PrefixCardinality ==
  ASSUME NEW k \in 0..7
  PROVE  NextThing = Steps[k + 1] \/ held # Prefix(k)
<1>1. ASSUME NEW j \in 0..7, IsFiniteSet(Prefix(j)), Cardinality(Prefix(j)) = j
      PROVE  IsFiniteSet(Prefix(j + 1)) /\ Cardinality(Prefix(j + 1)) = j + 1
  <2>1. Prefix(j + 1) = Prefix(j) \cup {Steps[j + 1]} /\ Steps[j + 1] \notin Prefix(j)
    BY PrefixSteps
  <2> QED BY <1>1, <2>1, FS_AddElement
<1>2. IsFiniteSet(Prefix(0)) /\ Cardinality(Prefix(0)) = 0
  BY PrefixSteps, FS_EmptySet
<1>3. IsFiniteSet(Prefix(1)) /\ Cardinality(Prefix(1)) = 1
  BY <1>1, <1>2
<1>4. IsFiniteSet(Prefix(2)) /\ Cardinality(Prefix(2)) = 2
  BY <1>1, <1>3
<1>5. IsFiniteSet(Prefix(3)) /\ Cardinality(Prefix(3)) = 3
  BY <1>1, <1>4
<1>6. IsFiniteSet(Prefix(4)) /\ Cardinality(Prefix(4)) = 4
  BY <1>1, <1>5
<1>7. IsFiniteSet(Prefix(5)) /\ Cardinality(Prefix(5)) = 5
  BY <1>1, <1>6
<1>8. IsFiniteSet(Prefix(6)) /\ Cardinality(Prefix(6)) = 6
  BY <1>1, <1>7
<1>9. IsFiniteSet(Prefix(7)) /\ Cardinality(Prefix(7)) = 7
  BY <1>1, <1>8
<1>10. Cardinality(Prefix(k)) = k
  BY <1>2, <1>3, <1>4, <1>5, <1>6, <1>7, <1>8, <1>9
<1> QED BY <1>10 DEF NextThing

-----------------------------------------------------------------------------
(* Types.                                                                  *)

LEMMA NextThingHeld ==
  ASSUME LifecycleInv, at = "start"
  PROVE  \E k \in 0..7 : /\ held = Prefix(k) /\ NextThing = Steps[k + 1]
                         /\ held \cup {NextThing} = Prefix(k + 1)
                         /\ NextThing \in Things
<1>1. PICK k \in 0..7 : held = Prefix(k)
  BY DEF LifecycleInv, HeldByPhase
<1>2. NextThing = Steps[k + 1] /\ held \cup {NextThing} = Prefix(k + 1)
  BY <1>1, PrefixCardinality, PrefixSteps
<1>3. k + 1 \in 1..Len(Steps)
  BY PrefixSteps
<1> QED BY <1>1, <1>2, <1>3 DEF Things

LEMMA UpdateType ==
  ASSUME NEW D, NEW S, NEW f \in [D -> S], NEW d, NEW v, d \in D => v \in S
  PROVE  [f EXCEPT ![d] = v] \in [D -> S]
OBVIOUS

(* The epoch of a server that is not stopped. *)
LEMMA EpochKnown ==
  ASSUME LifecycleInv
  PROVE  /\ at # "idle" \/ up => epoch \in Epochs
         /\ tick # "out" => epoch \in Epochs
         /\ \A c \in Clients : Inside(c) => epoch \in Epochs
<1>1. epoch # 0 => epoch \in Epochs
  BY LifecycleAssumption DEF LifecycleInv, TypeOK, Epochs
<1> QED BY <1>1 DEF LifecycleInv, Enabled, ClientsHeld, TickHeld, Released

LEMMA CallerTypes ==
  ASSUME LifecycleInv, StartBegin \/ StartFails \/ StopBegin \/ Caller
  PROVE  TypeOK'
<1> USE DEF callerVars, loopVars
<1>1. CASE StartBegin
  <2>1. enabled = {} /\ epoch + 1 \in 0..LastEpoch
    BY <1>1, LifecycleAssumption DEF StartBegin, LifecycleInv, TypeOK, Enabled
  <2> QED BY <1>1, <2>1 DEF StartBegin, PublishEpoch, LifecycleInv, TypeOK
<1>2. CASE StartFails \/ StopBegin
  BY <1>2 DEF StartFails, StopBegin, LifecycleInv, TypeOK
<1>3. CASE StartStep
  <2>1. held' \subseteq Things /\ at' \in {"idle", "start"} /\ loop' \in {"new", loop}
    BY <1>3, NextThingHeld DEF StartStep, LifecycleInv, TypeOK
  <2>2. [NoOwner EXCEPT !.at = "new"] \in
          [at: {"none", "new", "poll", "clean", "exited"}, armed: BOOLEAN,
           wake: BOOLEAN, stopping: BOOLEAN, quit: BOOLEAN]
    BY DEF NoOwner
  <2>3. owner' \in [Epochs -> [at: {"none", "new", "poll", "clean", "exited"},
                               armed: BOOLEAN, wake: BOOLEAN, stopping: BOOLEAN,
                               quit: BOOLEAN]]
    BY <1>3, <2>2 DEF StartStep, LifecycleInv, TypeOK
  <2> QED BY <1>3, <2>1, <2>3 DEF StartStep, LifecycleInv, TypeOK
<1>4. CASE StopSources
  BY <1>4 DEF StopSources, LifecycleInv, TypeOK
<1>5. CASE StopCleanup
  <2>1. epoch \in Epochs
    BY <1>5, EpochKnown DEF StopCleanup
  <2>2. gauge' \in Nat
    BY <1>5, <2>1 DEF StopCleanup, LifecycleInv, TypeOK
  <2>3. lost' \subseteq 0..LastEpoch
    <3>1. lost \subseteq 0..LastEpoch /\ epoch \in 0..LastEpoch
      BY DEF LifecycleInv, TypeOK
    <3>2. lost' \subseteq lost \cup {epoch}
      BY <1>5 DEF StopCleanup
    <3> QED BY <3>1, <3>2
  <2>4. ASSUME NEW o \in [at: {"none", "new", "poll", "clean", "exited"},
                          armed: BOOLEAN, wake: BOOLEAN, stopping: BOOLEAN,
                          quit: BOOLEAN]
        PROVE  Told(o) \in [at: {"none", "new", "poll", "clean", "exited"},
                            armed: BOOLEAN, wake: BOOLEAN, stopping: BOOLEAN,
                            quit: BOOLEAN]
    BY DEF Told
  <2>5. owner' \in [Epochs -> [at: {"none", "new", "poll", "clean", "exited"},
                               armed: BOOLEAN, wake: BOOLEAN, stopping: BOOLEAN,
                               quit: BOOLEAN]]
    BY <1>5, <2>4 DEF StopCleanup, LifecycleInv, TypeOK
  <2> QED BY <1>5, <2>2, <2>3, <2>5 DEF StopCleanup, LifecycleInv, TypeOK
<1>6. CASE StopDisable
  BY <1>6 DEF StopDisable, LifecycleInv, TypeOK
<1>7. CASE StopRelease
  <2>1. lost' \subseteq 0..LastEpoch
    BY <1>7, LifecycleAssumption DEF StopRelease, LifecycleInv, TypeOK
  <2>2. pool' \in [Epochs -> [live: Nat, expired: Nat]]
    BY <1>7 DEF StopRelease, Empty, LifecycleInv, TypeOK
  <2>3. client' \in [Clients -> [at: {"none", "out", "signal", "in", "store"},
                                 epoch: {0} \cup Epochs, n: Nat]]
    BY <1>7 DEF StopRelease, NoClient, LifecycleInv, TypeOK
  <2>4. quit' \in BOOLEAN
    BY <1>7 DEF StopRelease
  <2> QED BY <1>7, <2>1, <2>2, <2>3, <2>4 DEF StopRelease, LifecycleInv, TypeOK
<1>8. CASE StopFree
  BY <1>8 DEF StopFree, LifecycleInv, TypeOK
<1> QED BY <1>1, <1>2, <1>3, <1>4, <1>5, <1>6, <1>7, <1>8 DEF Caller

LEMMA LoopTypes ==
  ASSUME LifecycleInv, Loop \/ TickEnter
  PROVE  TypeOK'
<1> USE DEF callerVars, loopVars
<1>1. CASE TickStore
  <2>1. gauge' \in Nat
    BY <1>1, EpochKnown DEF TickStore, LifecycleInv, TypeOK
  <2> QED BY <1>1, <2>1 DEF TickStore, LifecycleInv, TypeOK
<1>2. CASE LoopRun \/ TickRead \/ LoopExit \/ TickEnter
  BY <1>2 DEF LoopRun, TickRead, LoopExit, TickEnter, LifecycleInv, TypeOK
<1> QED BY <1>1, <1>2 DEF Loop

LEMMA ClientTypes ==
  ASSUME LifecycleInv, NEW c \in Clients, ClientConnect(c) \/ NewSession(c) \/ Signal(c)
  PROVE  TypeOK'
<1> USE DEF callerVars, loopVars
<1> DEFINE T == [at: {"none", "out", "signal", "in", "store"},
                 epoch: {0} \cup Epochs, n: Nat]
<1>0. client \in [Clients -> T] /\ pool \in [Epochs -> [live: Nat, expired: Nat]]
  BY DEF LifecycleInv, TypeOK
<1>1. CASE ClientConnect(c)
  <2>1. epoch \in {0} \cup Epochs
    BY LifecycleAssumption DEF LifecycleInv, TypeOK, Epochs
  <2>2. client' \in [Clients -> T]
    BY <1>0, <1>1, <2>1 DEF ClientConnect
  <2> QED BY <1>1, <2>2 DEF ClientConnect, LifecycleInv, TypeOK
<1>2. CASE NewSession(c)
  <2>1. client' \in [Clients -> T]
    BY <1>0, <1>2 DEF NewSession
  <2>2. pool' \in [Epochs -> [live: Nat, expired: Nat]]
    <3> DEFINE d == client[c].epoch
               v == [pool[d] EXCEPT !.live = @ + 1]
               R == [live: Nat, expired: Nat]
    <3>1. pool' = [pool EXCEPT ![d] = v]
      BY <1>2 DEF NewSession
    <3>2. d \in Epochs => v \in R
      BY <1>0
    <3>3. pool \in [Epochs -> R]
      BY <1>0
    <3> HIDE DEF d, v, R
    <3>4. pool' \in [Epochs -> R]
      BY <3>1, <3>2, <3>3, UpdateType
    <3> QED BY <3>4 DEF R
  <2> QED BY <1>2, <2>1, <2>2 DEF NewSession, LifecycleInv, TypeOK
<1>3. CASE SessionEnter(c)
  <2>1. client' \in [Clients -> T]
    BY <1>0, <1>3 DEF SessionEnter, NoClient
  <2> QED BY <1>3, <2>1 DEF SessionEnter, LifecycleInv, TypeOK
<1>4. CASE SessionWake(c)
  <2>1. epoch \in Epochs
    BY <1>4, EpochKnown DEF SessionWake, Inside
  <2>2. Sessions(epoch) \in Nat
    BY <1>0, <2>1 DEF Sessions
  <2>3. client' \in [Clients -> T]
    BY <1>0, <1>4, <2>2 DEF SessionWake
  <2>4. owner' \in [Epochs -> [at: {"none", "new", "poll", "clean", "exited"},
                               armed: BOOLEAN, wake: BOOLEAN, stopping: BOOLEAN,
                               quit: BOOLEAN]]
    BY <1>4 DEF SessionWake, Woken, LifecycleInv, TypeOK
  <2> QED BY <1>4, <2>3, <2>4 DEF SessionWake, LifecycleInv, TypeOK
<1>5. CASE SessionStore(c)
  <2>1. client[c].n \in Nat /\ client' \in [Clients -> T]
    BY <1>0, <1>5 DEF SessionStore, Left
  <2>2. current' \in [Epochs -> Nat]
    BY <1>5, <2>1 DEF SessionStore, LifecycleInv, TypeOK
  <2> QED BY <1>5, <2>1, <2>2 DEF SessionStore, LifecycleInv, TypeOK
<1> QED BY <1>1, <1>2, <1>3, <1>4, <1>5 DEF Signal

LEMMA OwnerTypes ==
  ASSUME LifecycleInv, NEW e \in Epochs, SessionExpires(e) \/ Owner(e)
  PROVE  TypeOK'
<1> USE DEF callerVars, loopVars
<1> DEFINE O == [at: {"none", "new", "poll", "clean", "exited"}, armed: BOOLEAN,
                 wake: BOOLEAN, stopping: BOOLEAN, quit: BOOLEAN]
<1>0. owner \in [Epochs -> O] /\ pool \in [Epochs -> [live: Nat, expired: Nat]]
  BY DEF LifecycleInv, TypeOK
<1>1. ASSUME NEW o \in O, NEW n \in Nat PROVE Prepared(o, n) \in O
  BY DEF Prepared
<1>2. CASE SessionExpires(e)
  <2>1. pool' \in [Epochs -> [live: Nat, expired: Nat]]
    BY <1>0, <1>2 DEF SessionExpires
  <2> QED BY <1>2, <2>1 DEF SessionExpires, LifecycleInv, TypeOK
<1>3. CASE OwnerRun(e) \/ OwnerWakes(e)
  <2>1. owner' \in [Epochs -> O]
    <3>1. owner' = [owner EXCEPT ![e] = Prepared(owner[e], Sessions(e))]
      BY <1>3 DEF OwnerRun, OwnerWakes
    <3>2. Sessions(e) \in Nat /\ owner[e] \in O
      BY <1>0 DEF Sessions
    <3>3. Prepared(owner[e], Sessions(e)) \in O
      BY <1>1, <3>2
    <3> HIDE DEF O
    <3> QED BY <1>0, <3>1, <3>3, UpdateType
  <2> QED BY <1>3, <2>1, ZenonT(30) DEF OwnerRun, OwnerWakes, LifecycleInv, TypeOK
<1>4. CASE OwnerCleans(e) \/ OwnerExits(e)
  <2>1. owner' \in [Epochs -> O]
    <3>1. PICK where \in {"clean", "exited"} :
            owner' = [owner EXCEPT ![e] = [owner[e] EXCEPT !.at = where]]
      BY <1>4 DEF OwnerCleans, OwnerExits
    <3>2. [owner[e] EXCEPT !.at = where] \in O
      BY <1>0
    <3> HIDE DEF O
    <3> QED BY <1>0, <3>1, <3>2, UpdateType
  <2> QED BY <1>4, <2>1 DEF OwnerCleans, OwnerExits, LifecycleInv, TypeOK
<1>5. CASE OwnerCleaned(e)
  <2>1. owner' \in [Epochs -> O]
    <3>1. owner' = [owner EXCEPT ![e] = Prepared(owner[e], pool[e].live)]
      BY <1>5 DEF OwnerCleaned
    <3>2. Prepared(owner[e], pool[e].live) \in O
      BY <1>0, <1>1
    <3> HIDE DEF O
    <3> QED BY <1>0, <3>1, <3>2, UpdateType
  <2>2. pool' \in [Epochs -> [live: Nat, expired: Nat]] /\ current' \in [Epochs -> Nat]
    BY <1>0, <1>5 DEF OwnerCleaned, LifecycleInv, TypeOK
  <2> QED BY <1>5, <2>1, <2>2 DEF OwnerCleaned, LifecycleInv, TypeOK
<1> QED BY <1>2, <1>3, <1>4, <1>5 DEF Owner

-----------------------------------------------------------------------------
(* The steps.                                                              *)

(* The caller moves on within start() or stopLocked(), without releasing   *)
(* the server, its factory or its loop, and without a callback.            *)
LEMMA PhasePreserves ==
  ASSUME LifecycleInv, TypeOK', HeldByPhase', Enabled', ~Released', ~Released,
         UNCHANGED <<epoch, loop, tick, client>>,
         enabled' \subseteq enabled,
         held \cap {"server", "factory", "loop"} \subseteq held',
         "loop" \in held' => "loop" \in held
  PROVE  LifecycleInv'
<1>1. LoopHeld'
  BY DEF LifecycleInv, LoopHeld, Released
<1>2. ClientsHeld'
  BY DEF LifecycleInv, ClientsHeld, Inside
<1>3. TickHeld' /\ GaugeReset'
  BY DEF LifecycleInv, TickHeld, GaugeReset, Released
<1> QED BY <1>1, <1>2, <1>3 DEF LifecycleInv

LEMMA StartBeginPreserves == LifecycleInv /\ StartBegin => LifecycleInv'
<1> SUFFICES ASSUME LifecycleInv, StartBegin PROVE LifecycleInv'
  OBVIOUS
<1>1. TypeOK'
  BY CallerTypes
<1>2. /\ held = {} /\ enabled = {} /\ tick = "out" /\ epoch \in Nat
      /\ \A c \in Clients : ~Inside(c) /\ client[c].epoch <= epoch
                            /\ client[c].epoch \in Nat
  BY LifecycleAssumption
     DEF StartBegin, LifecycleInv, HeldByPhase, Enabled, TickHeld, ClientsHeld,
         Released, TypeOK, Epochs
<1>3. HeldByPhase' /\ LoopHeld' /\ Enabled' /\ TickHeld' /\ GaugeReset'
  BY <1>2, PrefixSteps
     DEF StartBegin, HeldByPhase, LoopHeld, Enabled, TickHeld, GaugeReset, Released,
         LifecycleInv, loopVars
<1>4. ClientsHeld'
  BY <1>2 DEF StartBegin, PublishEpoch, ClientsHeld, Inside
<1> QED BY <1>1, <1>3, <1>4 DEF LifecycleInv

LEMMA StartStepPreserves == LifecycleInv /\ StartStep => LifecycleInv'
<1> SUFFICES ASSUME LifecycleInv, StartStep PROVE LifecycleInv'
  OBVIOUS
<1>1. TypeOK'
  BY CallerTypes DEF Caller
<1>2. at = "start" /\ up /\ up' /\ UNCHANGED <<epoch, enabled, tick, client>>
  BY DEF StartStep, LifecycleInv, Enabled
<1>3. PICK k \in 0..7 : /\ held = Prefix(k) /\ NextThing = Steps[k + 1]
                        /\ held' = Prefix(k + 1)
  BY <1>2, NextThingHeld DEF StartStep
<1>4. "loop" \notin held /\ loop = "none" /\ tick = "out"
  BY <1>3, PrefixSteps DEF LifecycleInv, LoopHeld, TickHeld
<1>5. CASE k = 7
  <2>1. held' = Things /\ at' = "idle"
    BY <1>3, <1>5, PrefixSteps DEF StartStep
  <2>2. {"server", "factory", "loop"} \subseteq Things
    <3>1. Steps[1] = "server" /\ Steps[2] = "factory" /\ Steps[8] = "loop"
      BY DEF Steps
    <3> QED BY <3>1, PrefixSteps DEF Things
  <2>3. HeldByPhase' /\ LoopHeld' /\ Enabled' /\ TickHeld' /\ GaugeReset'
    BY <1>2, <1>4, <2>1, <2>2
       DEF HeldByPhase, LoopHeld, Enabled, TickHeld, GaugeReset, LifecycleInv
  <2>4. ClientsHeld'
    BY <1>2, <1>4, <2>1, <2>2 DEF LifecycleInv, ClientsHeld, Inside, Released
  <2> QED BY <1>1, <2>3, <2>4 DEF LifecycleInv
<1>6. CASE k \in 0..6
  <2>1. k + 1 \in 0..7
    BY <1>6
  <2>2. held' # Things /\ at' = "start" /\ "loop" \notin held'
    BY <1>3, <2>1, PrefixSteps DEF StartStep
  <2>3. loop' = loop
    <3>1. Steps[8] = "loop" /\ \A i, j \in 1..8 : i # j => Steps[i] # Steps[j]
      BY DEF Steps
    <3>2. Steps[k + 1] # "loop"
      BY <1>6, <3>1
    <3> QED BY <1>3, <3>2 DEF StartStep
  <2>4. HeldByPhase' /\ Enabled'
    BY <1>2, <1>3, <2>1, <2>2 DEF HeldByPhase, Enabled, LifecycleInv
  <2>5. held \subseteq held'
    BY DEF StartStep
  <2> QED BY <1>1, <1>2, <2>2, <2>3, <2>4, <2>5, <1>4, PhasePreserves DEF Released
<1> QED BY <1>5, <1>6

LEMMA StopBeginPreserves == LifecycleInv /\ (StopBegin \/ StartFails) => LifecycleInv'
<1> SUFFICES ASSUME LifecycleInv, StopBegin \/ StartFails PROVE LifecycleInv'
  OBVIOUS
<1>1. TypeOK'
  BY CallerTypes
<1>2. \E k \in 0..8 : held = Prefix(k)
  <2>1. CASE StopBegin
    BY <2>1, PrefixSteps DEF StopBegin, LifecycleInv, HeldByPhase
  <2>2. CASE StartFails
    BY <2>2 DEF StartFails, LifecycleInv, HeldByPhase
  <2> QED BY <2>1, <2>2
<1>3. /\ at' = "sources" /\ ~up' /\ ~Released /\ ~Released'
      /\ UNCHANGED <<epoch, loop, tick, client, enabled, held>>
  BY DEF StopBegin, StartFails, Released, loopVars, LifecycleInv, Enabled
<1>4. HeldByPhase' /\ Enabled'
  <2>1. epoch # 0
    BY <1>3 DEF StopBegin, StartFails, LifecycleInv, Enabled
  <2> QED BY <1>2, <1>3, <2>1 DEF HeldByPhase, Enabled
<1> QED BY <1>1, <1>3, <1>4, PhasePreserves

LEMMA StopSourcesPreserves ==
  LifecycleInv /\ (StopSources \/ StopCleanup \/ StopDisable) => LifecycleInv'
<1> SUFFICES ASSUME LifecycleInv, StopSources \/ StopCleanup \/ StopDisable
             PROVE  LifecycleInv'
  OBVIOUS
<1>1. TypeOK'
  BY CallerTypes DEF Caller
<1>2. /\ at \in {"sources", "cleanup", "worker"} /\ at' \in {"cleanup", "worker", "wait"}
      /\ UNCHANGED <<up, epoch, loop, tick, client>> /\ ~up
      /\ held \cap {"server", "factory", "loop"} \subseteq held'
      /\ held' \subseteq held /\ enabled' \subseteq enabled
  BY DEF StopSources, StopCleanup, StopDisable, loopVars, Sources, LifecycleInv, Enabled
<1>3. HeldByPhase'
  <2>1. CASE StopSources
    BY <2>1 DEF StopSources, HeldByPhase
  <2>2. CASE StopCleanup
    <3>1. Things = {"server", "factory", "worker", "listener", "cleanup", "watchdog",
                    "feeder", "loop"}
      <4>1. 1..8 = {1, 2, 3, 4, 5, 6, 7, 8}
        OBVIOUS
      <4> QED BY <4>1, PrefixSteps DEF Things, Steps
    <3> QED BY <2>2, <3>1
          DEF StopCleanup, HeldByPhase, LifecycleInv, TypeOK, Sources
  <2>3. CASE StopDisable
    BY <2>3 DEF StopDisable, HeldByPhase, LifecycleInv
  <2> QED BY <2>1, <2>2, <2>3
<1>4. Enabled'
  <2>1. at' = "wait" => enabled' = {}
    BY DEF StopSources, StopCleanup, StopDisable, LifecycleInv, TypeOK
  <2> QED BY <1>2, <2>1 DEF Enabled, LifecycleInv
<1> QED BY <1>1, <1>2, <1>3, <1>4, PhasePreserves DEF Released

(* The wait for CallbackState::active is what makes the release safe. *)
LEMMA StopReleasePreserves == LifecycleInv /\ StopRelease => LifecycleInv'
<1> SUFFICES ASSUME LifecycleInv, StopRelease PROVE LifecycleInv'
  OBVIOUS
<1>1. TypeOK'
  BY CallerTypes DEF Caller
<1>2. /\ at = "wait" /\ at' = "join" /\ ~up /\ tick = "out" /\ held' = held \ {"factory"}
      /\ UNCHANGED <<up, epoch, enabled, loop, tick>> /\ enabled = {} /\ epoch # 0
  BY DEF StopRelease, NoneActive, LifecycleInv, Enabled
<1>3. \A c \in Clients : ~Inside(c)
  BY DEF StopRelease, NoneActive, LifecycleInv, ClientsHeld
<1>4. HeldByPhase' /\ LoopHeld' /\ Enabled' /\ TickHeld' /\ GaugeReset'
  BY <1>2 DEF HeldByPhase, LoopHeld, Enabled, TickHeld, GaugeReset, LifecycleInv
<1>5. ClientsHeld'
  <2>1. 0 <= epoch
    BY LifecycleAssumption DEF LifecycleInv, TypeOK
  <2>2. \A c \in Clients : client'[c] \in {NoClient, client[c]}
    BY DEF StopRelease
  <2> QED BY <1>2, <1>3, <2>1, <2>2 DEF LifecycleInv, ClientsHeld, Inside, NoClient
<1> QED BY <1>1, <1>4, <1>5 DEF LifecycleInv

LEMMA StopFreePreserves == LifecycleInv /\ StopFree => LifecycleInv'
<1> SUFFICES ASSUME LifecycleInv, StopFree PROVE LifecycleInv'
  OBVIOUS
<1>1. TypeOK'
  BY CallerTypes DEF Caller
<1>2. /\ at = "join" /\ at' = "idle" /\ ~up /\ tick = "out" /\ held' = {}
      /\ UNCHANGED <<up, epoch, enabled, tick, client>> /\ enabled = {}
      /\ loop' = "none" /\ gauge' = 0
  BY DEF StopFree, LifecycleInv, HeldByPhase, Enabled, TickHeld, Released
<1>3. \A c \in Clients : ~Inside(c)
  BY <1>2 DEF LifecycleInv, ClientsHeld, Released
<1>4. HeldByPhase' /\ LoopHeld' /\ Enabled' /\ TickHeld' /\ GaugeReset'
  BY <1>2 DEF HeldByPhase, LoopHeld, Enabled, TickHeld, GaugeReset, LifecycleInv
<1>5. ClientsHeld'
  BY <1>2, <1>3 DEF LifecycleInv, ClientsHeld, Inside
<1> QED BY <1>1, <1>4, <1>5 DEF LifecycleInv

LEMMA LoopPreserves == LifecycleInv /\ (Loop \/ TickEnter) => LifecycleInv'
<1> SUFFICES ASSUME LifecycleInv, Loop \/ TickEnter PROVE LifecycleInv'
  OBVIOUS
<1>1. TypeOK'
  BY LoopTypes
<1>2. UNCHANGED <<at, up, held, epoch, enabled, client>>
  BY DEF Loop, LoopRun, TickRead, TickStore, LoopExit, TickEnter, callerVars
<1>3. HeldByPhase' /\ Enabled' /\ ClientsHeld'
  BY <1>2 DEF LifecycleInv, HeldByPhase, Enabled, ClientsHeld, Inside, Released
<1>4. LoopHeld'
  BY <1>2 DEF Loop, LoopRun, TickRead, TickStore, LoopExit, TickEnter, LifecycleInv,
              LoopHeld
<1>5. TickHeld'
  BY <1>2 DEF Loop, LoopRun, TickRead, TickStore, LoopExit, TickEnter, LifecycleInv,
              TickHeld, Released, Enabled
<1>6. GaugeReset'
  BY <1>2 DEF Loop, LoopRun, TickRead, TickStore, LoopExit, TickEnter, LifecycleInv,
              TickHeld, Released, GaugeReset
<1> QED BY <1>1, <1>3, <1>4, <1>5, <1>6 DEF LifecycleInv

LEMMA ClientPreserves ==
  ASSUME LifecycleInv, NEW c \in Clients, ClientConnect(c) \/ NewSession(c) \/ Signal(c)
  PROVE  LifecycleInv'
<1>1. TypeOK'
  BY ClientTypes
<1>2. UNCHANGED <<at, up, held, epoch, enabled, loop, tick>>
  BY DEF ClientConnect, NewSession, Signal, SessionEnter, SessionWake, SessionStore,
         callerVars, loopVars
<1>3. HeldByPhase' /\ LoopHeld' /\ Enabled' /\ TickHeld'
  BY <1>2 DEF LifecycleInv, HeldByPhase, LoopHeld, Enabled, TickHeld, Released
<1>4. GaugeReset'
  BY <1>2 DEF ClientConnect, NewSession, Signal, SessionEnter, SessionWake,
     SessionStore, Inside, LifecycleInv, GaugeReset, ClientsHeld, Released
<1>5. /\ client \in [Clients -> [at: {"none", "out", "signal", "in", "store"},
                                 epoch: {0} \cup Epochs, n: Nat]]
      /\ 0 <= epoch /\ epoch <= epoch /\ enabled \subseteq {epoch}
  BY LifecycleAssumption DEF LifecycleInv, TypeOK
<1>6. \A d \in Clients \ {c} : client'[d] = client[d]
  BY <1>5 DEF ClientConnect, NewSession, Signal, SessionEnter, SessionWake, SessionStore
<1>7. /\ client'[c].epoch <= epoch
      /\ client'[c].at # "none" /\ client'[c].epoch \in enabled => "loop" \in held
      /\ client'[c].at \in {"in", "store"} =>
           client'[c].epoch = epoch /\ "loop" \in held /\ ~Released
  <2>0. /\ client[c].epoch <= epoch
        /\ client[c].at # "none" /\ client[c].epoch \in enabled => "loop" \in held
        /\ client[c].at \in {"in", "store"} =>
             client[c].epoch = epoch /\ "loop" \in held /\ ~Released
    BY DEF LifecycleInv, ClientsHeld, Inside
  <2>1. CASE ClientConnect(c)
    <3>1. client'[c] = [at |-> "out", epoch |-> epoch, n |-> 0] /\ loop = "running"
      BY <1>5, <2>1 DEF ClientConnect
    <3> QED BY <1>5, <3>1 DEF LifecycleInv, LoopHeld
  <2>2. CASE NewSession(c)
    <3>1. client'[c] = [client[c] EXCEPT !.at = "signal"] /\ client[c].at = "out"
      BY <1>5, <2>2 DEF NewSession
    <3> QED BY <1>5, <2>0, <3>1
  <2>3. CASE SessionEnter(c)
    <3>1. /\ client[c].at = "signal"
          /\ client'[c] = IF client[c].epoch \in enabled
                            THEN [client[c] EXCEPT !.at = "in"] ELSE NoClient
      BY <1>5, <2>3 DEF SessionEnter
    <3>2. CASE client[c].epoch \in enabled
      <4>1. ~Released
        BY <3>2 DEF Released, LifecycleInv, Enabled
      <4> QED BY <1>5, <2>0, <3>1, <3>2, <4>1
    <3>3. CASE client[c].epoch \notin enabled
      BY <1>5, <3>1, <3>3 DEF NoClient
    <3> QED BY <3>2, <3>3
  <2>4. CASE SessionWake(c)
    <3>1. /\ client[c].at = "in" /\ client'[c].at = "store"
          /\ client'[c].epoch = client[c].epoch
      BY <1>5, <2>4 DEF SessionWake
    <3> QED BY <2>0, <3>1
  <2>5. CASE SessionStore(c)
    <3>1. /\ client[c].at = "store" /\ client'[c].at = "out"
          /\ client'[c].epoch = client[c].epoch
      BY <1>5, <2>5 DEF SessionStore, Left
    <3> QED BY <2>0, <3>1
  <2> QED BY <2>1, <2>2, <2>3, <2>4, <2>5 DEF Signal
<1>8. ClientsHeld'
  BY <1>2, <1>6, <1>7 DEF LifecycleInv, ClientsHeld, Inside, Released
<1> QED BY <1>1, <1>3, <1>4, <1>8 DEF LifecycleInv

(* The cleanup owner and its pool touch nothing of this. *)
LEMMA OwnerPreserves ==
  ASSUME LifecycleInv, TypeOK', UNCHANGED <<callerVars, loopVars, client, gauge>>
  PROVE  LifecycleInv'
BY DEF LifecycleInv, HeldByPhase, LoopHeld, Enabled, ClientsHeld, TickHeld, GaugeReset,
       Inside, Released, callerVars, loopVars

LEMMA LifecycleInvInit == Init => LifecycleInv
<1> SUFFICES ASSUME Init PROVE LifecycleInv
  OBVIOUS
<1>1. TypeOK
  <2>1. /\ client \in [Clients -> [at: {"none", "out", "signal", "in", "store"},
                                   epoch: {0} \cup Epochs, n: Nat]]
        /\ pool \in [Epochs -> [live: Nat, expired: Nat]]
        /\ current \in [Epochs -> Nat] /\ gauge \in Nat
    BY DEF Init, NoClient, Empty
  <2>2. NoOwner \in [at: {"none", "new", "poll", "clean", "exited"}, armed: BOOLEAN,
                     wake: BOOLEAN, stopping: BOOLEAN, quit: BOOLEAN]
    BY DEF NoOwner
  <2>3. owner \in [Epochs -> [at: {"none", "new", "poll", "clean", "exited"},
                              armed: BOOLEAN, wake: BOOLEAN, stopping: BOOLEAN,
                              quit: BOOLEAN]]
    BY <2>2 DEF Init
  <2>4. /\ epoch \in 0..LastEpoch /\ enabled \subseteq {epoch} /\ held \subseteq Things
        /\ lost \subseteq 0..LastEpoch
    BY LifecycleAssumption DEF Init
  <2>5. /\ at = "idle" /\ up \in BOOLEAN /\ loop = "none" /\ tick = "out"
        /\ quit \in BOOLEAN
    BY DEF Init
  <2> QED BY <2>1, <2>3, <2>4, <2>5 DEF TypeOK
<1>2. /\ HeldByPhase /\ LoopHeld /\ Enabled /\ TickHeld /\ GaugeReset
  BY DEF Init, HeldByPhase, LoopHeld, Enabled, TickHeld, GaugeReset
<1>3. ClientsHeld
  BY DEF Init, ClientsHeld, NoClient, Inside
<1> QED BY <1>1, <1>2, <1>3 DEF LifecycleInv

LEMMA LifecycleInvPreserved == LifecycleInv /\ [Next]_vars => LifecycleInv'
<1> SUFFICES ASSUME LifecycleInv, [Next]_vars PROVE LifecycleInv'
  OBVIOUS
<1>1. CASE StartBegin \/ StartFails \/ StopBegin \/ Caller
  BY <1>1, StartBeginPreserves, StopBeginPreserves, StartStepPreserves,
     StopSourcesPreserves, StopReleasePreserves, StopFreePreserves DEF Caller
<1>2. CASE Loop \/ TickEnter
  BY <1>2, LoopPreserves
<1>3. ASSUME NEW c \in Clients, ClientConnect(c) \/ NewSession(c) \/ Signal(c)
      PROVE  LifecycleInv'
  BY <1>3, ClientPreserves
<1>4. ASSUME NEW e \in Epochs, SessionExpires(e) \/ Owner(e)
      PROVE  LifecycleInv'
  <2>1. TypeOK'
    BY <1>4, OwnerTypes
  <2> QED BY <1>4, <2>1, OwnerPreserves
        DEF SessionExpires, Owner, OwnerRun, OwnerWakes, OwnerCleans, OwnerCleaned,
            OwnerExits
<1>5. CASE UNCHANGED vars
  <2>1. TypeOK'
    BY <1>5 DEF LifecycleInv, TypeOK, vars, callerVars, loopVars
  <2> QED BY <1>5, <2>1, OwnerPreserves DEF vars
<1> QED BY <1>1, <1>2, <1>3, <1>4, <1>5 DEF Next

LEMMA LifecycleInvAlways == Spec => []LifecycleInv
BY LifecycleInvInit, LifecycleInvPreserved, PTL DEF Spec

-----------------------------------------------------------------------------
(* Types, for any number of calls and clients. *)
THEOREM TypeCorrect == Spec => []TypeOK
<1>1. LifecycleInv => TypeOK
  BY DEF LifecycleInv
<1> QED BY <1>1, LifecycleInvAlways, PTL

(* When start() or stop() has returned, the server holds all that start()  *)
(* acquires or nothing, wherever start() failed: stopLocked() undoes every *)
(* prefix of it.                                                           *)
THEOREM HoldsAllOrNothing == Spec => []AllOrNothing
<1>1. LifecycleInv => AllOrNothing
  BY DEF LifecycleInv, AllOrNothing, HeldByPhase, LoopHeld, Enabled, TickHeld,
         GaugeReset, Released
<1> QED BY <1>1, LifecycleInvAlways, PTL

(* A callback past its CallbackGuard is of the present epoch, and what it  *)
(* uses has not been released by stopLocked().                             *)
THEOREM CallbacksKeepTheirServer == Spec => []CallbacksInEpoch
<1>1. LifecycleInv => CallbacksInEpoch
  BY DEF LifecycleInv, CallbacksInEpoch, LoopHeld, ClientsHeld, TickHeld, Released
<1> QED BY <1>1, LifecycleInvAlways, PTL
=============================================================================
