------------------------------ MODULE FarmProofs ------------------------------
(* Proofs about Farm, for every number of workers, every teardown-threshold and  *)
(* all timeouts.                                                                 *)
EXTENDS Farm, CoordinatorProofs

(* The forwarder is past the start of the scheduler, which is never undone.      *)
Started == Phases \ {"join", "expose", "sched"}

(* What the safety of the workers rests on: the first answer of the coordinator   *)
(* means a scheduler was started, and the guard counts just the unanswered probes *)
(* since the last answered one, and leaves at the threshold.                      *)
WorkerInv(w) ==
  /\ misses[w] = unanswered[w]
  /\ wpc[w] = "guard" => misses[w] < TeardownThresh
  /\ wpc[w] \in {"join", "probe"} => misses[w] = 0
  /\ wpc[w] = "launch" => misses[w] = 0 /\ sched # "none"
  /\ duty[w] = "on" => sched # "none"

(* A count of the scheduler's servers never includes a worker that had none: only  *)
(* a server that is up sends heartbeats, and the forwarder counts those only.     *)
CountInv ==
  /\ registered \subseteq served
  /\ \A w \in Workers : server[w] # "down" => w \in served
  /\ reported <= Cardinality(served)

FarmInv ==
  /\ FarmTypeOK
  /\ fpc \in Started => sched # "none"
  /\ \A w \in Workers : WorkerInv(w)

-------------------------------------------------------------------------------
(* A step of the farm is a step of the coordinator's own specification: real      *)
(* workers do nothing that the arbitrary registrations there do not allow.        *)
LEMMA StepRefines == [FarmNext]_farmVars => [Next]_vars
BY DEF FarmNext, farmVars, Next, Heartbeat, HeartbeatsMissed

(* The farm implements the coordinator's specification, so all that is proved of  *)
(* the coordinator with arbitrary workers holds with real ones.                   *)
THEOREM FarmImplementsCoordinator == FarmSpec => Spec
<1>1. FarmInit => Init
  BY DEF FarmInit
<1> QED BY <1>1, StepRefines, PTL DEF FarmSpec, Spec

(* The build is ready when it starts, on a farm of real workers too.              *)
THEOREM FarmReadyToBuild == FarmSpec => []BuildReady
BY FarmImplementsCoordinator, ReadyToBuild, PTL

-------------------------------------------------------------------------------
(* The coordinator's side of the invariant: the scheduler, once started, never    *)
(* becomes one that was not, and the forwarder passes its start by starting it.   *)
LEMMA SchedulerKept ==
  ASSUME fpc \in Started => sched # "none", [Next]_vars
  PROVE  /\ (fpc \in Started => sched # "none")'
         /\ sched # "none" => sched' # "none"
<1> USE PhaseNames DEF Started, stepVars, ownVars, exportVars, schedVars, runnerVars, others
<1>1. CASE Spawn \/ SpawnFails \/ Parent
  BY <1>1 DEF Spawn, SpawnFails, Parent, ParentSees, ParentGivesUp, ParentExits
<1>2. CASE Forwarder
  BY <1>2 DEF Forwarder, Join, Expose, StartScheduler, OpenLiveness, Forward, StartWaiting,
              WaitSatisfied, WaitExpires, CountNow, QuorumReached, QuorumMissed, WriteConfig,
              WriteOutputs, EnvSkipped, EnvLine, Move, Advance, Fatal, Die, After
<1>3. CASE ForwarderFails \/ Tick
  BY <1>3 DEF ForwarderFails, Fatal, Die, Tick
<1>4. CASE StepEnds \/ Teardown \/ JobEnds \/ SchedulerServes \/ SchedulerExits
  BY <1>4 DEF StepEnds, Teardown, JobEnds, SchedulerServes, SchedulerExits
<1>5. ASSUME NEW w \in Workers, Registers(w) \/ Expires(w)
      PROVE  /\ (fpc \in Started => sched # "none")'
             /\ sched # "none" => sched' # "none"
  BY <1>5 DEF Registers, Expires
<1>6. CASE UNCHANGED vars
  BY <1>6 DEF vars
<1> QED BY <1>1, <1>2, <1>3, <1>4, <1>5, <1>6 DEF Next, Job, Terminated

LEMMA AnswerMeansStarted ==
  ASSUME fpc \in Started => sched # "none", NEW w \in Workers, Answers(w)
  PROVE  sched # "none"
BY PhaseNames DEF Answers, LivenessOpen, Started

LEMMA FarmInitInv == FarmInit => FarmInv
<1> SUFFICES ASSUME FarmInit PROVE FarmInv
  OBVIOUS
<1>1. FarmTypeOK
  BY FarmAssumption DEF FarmInit, FarmTypeOK, Slot!Init, Slot!TypeOK
<1>2. fpc \notin Started
  BY PhaseNames DEF FarmInit, Init, Started
<1>3. \A w \in Workers : WorkerInv(w)
  BY DEF FarmInit, WorkerInv, Slot!Init
<1> QED BY <1>1, <1>2, <1>3 DEF FarmInv

(* A step of one worker keeps the types and its own part of the invariant, and    *)
(* leaves the other workers alone.                                                *)
LEMMA WorkerStep ==
  ASSUME FarmInv, NEW w \in Workers, UNCHANGED vars,
         Worker(w) \/ Serves(w) \/ PathFlips(w)
  PROVE  FarmTypeOK' /\ WorkerInv(w)' /\ \A v \in Workers \ {w} : WorkerInv(v)'
<1> USE FarmAssumption DEF FarmInv, FarmTypeOK, Slot!TypeOK, WorkerInv, probing
<1>0. sched' = sched
  BY DEF vars, others, schedVars
<1>1. CASE Up(w)
  BY <1>0, <1>1 DEF Up, Goes
<1>2. CASE GivesUp(w)
  BY <1>0, <1>2 DEF GivesUp, Goes, Slot!End
<1>3. CASE FirstAnswer(w)
  BY <1>0, <1>3, AnswerMeansStarted DEF FirstAnswer, Goes
<1>4. CASE Launch(w)
  BY <1>0, <1>4 DEF Launch, Goes, Slot!Begin
<1>5. CASE GuardProbe(w)
  <2>1. CASE Answers(w)
    BY <1>0, <1>5, <2>1 DEF GuardProbe, Observe, Gone
  <2>2. CASE ~Answers(w)
    BY <1>0, <1>5, <2>2 DEF GuardProbe, Observe, Gone
  <2> QED BY <2>1, <2>2
<1>6. CASE Finish(w)
  BY <1>0, <1>6 DEF Finish, Goes, Slot!End
<1>7. CASE Serves(w)
  BY <1>0, <1>7 DEF Serves, Slot!Boot, Slot!Jam, Slot!Unjam, Slot!Drop, Slot!Change
<1>8. CASE PathFlips(w)
  BY <1>0, <1>8 DEF PathFlips
<1> QED BY <1>1, <1>2, <1>3, <1>4, <1>5, <1>6, <1>7, <1>8 DEF Worker

LEMMA FarmNextInv == FarmInv /\ [FarmNext]_farmVars => FarmInv'
<1> SUFFICES ASSUME FarmInv, [FarmNext]_farmVars PROVE FarmInv'
  OBVIOUS
<1>1. (fpc \in Started => sched # "none")' /\ (sched # "none" => sched' # "none")
  BY StepRefines, SchedulerKept DEF FarmInv
<1>2. ASSUME UNCHANGED workerVars PROVE FarmInv'
  BY <1>1, <1>2 DEF FarmInv, FarmTypeOK, WorkerInv, workerVars, Slot!TypeOK
<1>3. ASSUME NEW w \in Workers, UNCHANGED vars, Worker(w) \/ Serves(w) \/ PathFlips(w)
      PROVE  FarmInv'
  <2>1. FarmTypeOK' /\ \A v \in Workers : WorkerInv(v)'
    BY <1>3, WorkerStep
  <2> QED BY <1>1, <2>1 DEF FarmInv
<1> QED BY <1>2, <1>3 DEF FarmNext, farmVars, Heartbeat, HeartbeatsMissed

(* What the theorems below rest on.                                              *)
THEOREM FarmInvariance == FarmSpec => []FarmInv
BY FarmInitInv, FarmNextInv, PTL DEF FarmSpec

(* Types; in particular no worker guards on with more misses than the threshold.  *)
THEOREM FarmTypeCorrect == FarmSpec => []FarmTypeOK
BY FarmInvariance, PTL DEF FarmInv

(* No worker of any farm starts a server before the scheduler was started.        *)
THEOREM SchedulerFirst == FarmSpec => []ServerAfterScheduler
<1>1. FarmInv => ServerAfterScheduler
  BY DEF FarmInv, WorkerInv, ServerAfterScheduler
<1> QED BY FarmInvariance, <1>1, PTL

(* However its path comes and goes, a guarding worker leaves on TeardownThresh    *)
(* unanswered probes in a row and on nothing less.                                *)
THEOREM GuardIsPatient == FarmSpec => PatientGuard
<1>1. ASSUME FarmInv, [FarmNext]_farmVars,
             NEW w \in Workers, wpc[w] = "guard", wpc'[w] = "stopping"
      PROVE  unanswered'[w] = TeardownThresh
  <2> USE FarmAssumption DEF FarmInv, FarmTypeOK, WorkerInv
  <2>1. GuardProbe(w)
    <3>1. PICK v \in Workers : Worker(v) \/ Serves(v) \/ PathFlips(v)
      BY <1>1 DEF FarmNext, farmVars, workerVars, Heartbeat, HeartbeatsMissed
    <3>2. wpc' # wpc
      BY <1>1
    <3>3. Worker(v)
      BY <3>1, <3>2 DEF Serves, PathFlips
    <3>4. ~Up(v) /\ ~GivesUp(v) /\ ~FirstAnswer(v) /\ ~Launch(v) /\ ~Finish(v)
      BY <1>1 DEF Up, GivesUp, FirstAnswer, Launch, Finish, Goes
    <3>5. v = w
      BY <1>1, <3>3, <3>4 DEF Worker, GuardProbe
    <3> QED BY <3>3, <3>4, <3>5 DEF Worker
  <2>2. ~Answers(w) /\ Gone(misses'[w])
    BY <1>1, <2>1 DEF GuardProbe
  <2>3. misses'[w] = misses[w] + 1 /\ misses[w] + 1 >= TeardownThresh
    BY <1>1, <2>1, <2>2 DEF GuardProbe, Observe, Gone
  <2>4. unanswered'[w] = unanswered[w] + 1
    BY <1>1, <2>1, <2>2 DEF GuardProbe
  <2> QED BY <1>1, <2>3, <2>4
<1>2. FarmInv /\ [FarmNext]_farmVars
        => [\A w \in Workers : wpc[w] = "guard" /\ wpc'[w] = "stopping"
              => unanswered'[w] = TeardownThresh]_farmVars
  BY <1>1
<1> QED BY FarmInvariance, <1>2, PTL DEF FarmSpec, PatientGuard

-------------------------------------------------------------------------------
(* The forwarder's count is the only change to it, and is either no server or all *)
(* that are registered at that moment.                                           *)
LEMMA CountTaken ==
  ASSUME [Next]_vars
  PROVE  reported' \in {reported, 0, Cardinality(registered)}
<1> USE DEF stepVars, ownVars, exportVars, schedVars, runnerVars, others
<1>1. CASE Spawn \/ SpawnFails \/ Parent
  BY <1>1 DEF Spawn, SpawnFails, Parent, ParentSees, ParentGivesUp, ParentExits
<1>2. CASE WaitSatisfied \/ WaitExpires
  BY <1>2 DEF WaitSatisfied, WaitExpires, CountNow
<1>3. CASE Forwarder /\ ~WaitSatisfied /\ ~WaitExpires
  BY <1>3 DEF Forwarder, Join, Expose, StartScheduler, OpenLiveness, Forward, StartWaiting,
              QuorumReached, QuorumMissed, WriteConfig, WriteOutputs, EnvSkipped, EnvLine,
              Move, Fatal
<1>4. CASE ForwarderFails \/ Tick
  BY <1>4 DEF ForwarderFails, Fatal, Tick
<1>5. CASE StepEnds \/ Teardown \/ JobEnds \/ SchedulerServes \/ SchedulerExits
  BY <1>5 DEF StepEnds, Teardown, JobEnds, SchedulerServes, SchedulerExits
<1>6. ASSUME NEW w \in Workers, Registers(w) \/ Expires(w) PROVE reported' = reported
  BY <1>6 DEF Registers, Expires
<1>7. CASE UNCHANGED vars
  BY <1>7 DEF vars
<1> QED BY <1>1, <1>2, <1>3, <1>4, <1>5, <1>6, <1>7 DEF Next, Job, Terminated

(* The coordinator job by itself adds no worker to the scheduler's list.          *)
LEMMA OnlyHeartbeatsRegister ==
  ASSUME Job
  PROVE  registered' \subseteq registered
<1> USE DEF stepVars, ownVars, exportVars, schedVars, runnerVars, others
<1>1. CASE Spawn \/ SpawnFails \/ Parent
  BY <1>1 DEF Spawn, SpawnFails, Parent, ParentSees, ParentGivesUp, ParentExits
<1>2. CASE Forwarder
  BY <1>2 DEF Forwarder, Join, Expose, StartScheduler, OpenLiveness, Forward, StartWaiting,
              WaitSatisfied, WaitExpires, CountNow, QuorumReached, QuorumMissed, WriteConfig,
              WriteOutputs, EnvSkipped, EnvLine, Move, Fatal
<1>3. CASE ForwarderFails \/ Tick
  BY <1>3 DEF ForwarderFails, Fatal, Tick
<1>4. CASE StepEnds \/ Teardown \/ JobEnds \/ SchedulerServes \/ SchedulerExits
  BY <1>4 DEF StepEnds, Teardown, JobEnds, SchedulerServes, SchedulerExits
<1>5. CASE Terminated
  BY <1>5 DEF Terminated, vars
<1> QED BY <1>1, <1>2, <1>3, <1>4, <1>5 DEF Job

(* More workers than before that had a server, and the count grows.               *)
LEMMA MoreServed ==
  ASSUME NEW S \in SUBSET Workers, NEW T \in SUBSET Workers, S \subseteq T
  PROVE  Cardinality(S) <= Cardinality(T)
<1>1. IsFiniteSet(Workers)
  BY FS_Interval, CoordinatorAssumption DEF Workers
<1>2. IsFiniteSet(T)
  BY <1>1, FS_Subset
<1> QED BY <1>2, FS_Subset

LEMMA CountInitInv == FarmInit => CountInv
<1> SUFFICES ASSUME FarmInit PROVE CountInv
  OBVIOUS
<1>1. reported = 0 /\ registered = {} /\ served = {} /\ \A w \in Workers : server[w] = "down"
  BY DEF FarmInit, Init, Slot!Init
<1>2. Cardinality(served) = 0
  BY <1>1, FS_EmptySet
<1> QED BY <1>1, <1>2 DEF CountInv

LEMMA CountNextInv ==
  ASSUME Inv, FarmInv, CountInv, [FarmNext]_farmVars
  PROVE  CountInv'
<1> USE DEF FarmInv, FarmTypeOK, Slot!TypeOK, Inv, TypeOK
<1>1. served' \subseteq Workers /\ served \subseteq served'
  <2>1. ASSUME NEW w \in Workers, Worker(w) \/ Serves(w) \/ PathFlips(w)
        PROVE  served' = served \/ served' = served \cup {w}
    BY <2>1 DEF Worker, Up, GivesUp, FirstAnswer, Launch, GuardProbe, Finish, Serves, PathFlips,
                probing
  <2>2. served' = served \/ \E w \in Workers : served' = served \cup {w}
    BY <2>1 DEF FarmNext, farmVars, workerVars, Heartbeat, HeartbeatsMissed
  <2> QED BY <2>2
<1>2. registered' \subseteq served
  <2>1. CASE Job
    BY <2>1, OnlyHeartbeatsRegister DEF CountInv
  <2>2. ASSUME NEW w \in Workers, Heartbeat(w) PROVE registered' \subseteq served
    BY <2>2 DEF Heartbeat, HeartbeatPossible, Registers, CountInv
  <2>3. ASSUME NEW w \in Workers, HeartbeatsMissed(w) PROVE registered' \subseteq served
    BY <2>3 DEF HeartbeatsMissed, Expires, CountInv
  <2>4. CASE UNCHANGED vars
    BY <2>4 DEF vars, others, schedVars, CountInv
  <2> QED BY <2>1, <2>2, <2>3, <2>4 DEF FarmNext, farmVars
<1>3. \A w \in Workers : server'[w] # "down" => w \in served'
  <2>1. CASE UNCHANGED workerVars
    BY <2>1 DEF workerVars, CountInv
  <2>2. ASSUME NEW w \in Workers, Worker(w) \/ PathFlips(w)
        PROVE  server' = server
    BY <2>2 DEF Worker, Up, GivesUp, FirstAnswer, Launch, GuardProbe, Finish, PathFlips,
                Slot!Begin, Slot!End
  <2>3. ASSUME NEW w \in Workers, Serves(w), NEW v \in Workers, server'[v] # "down"
        PROVE  v \in served'
    BY <2>3, <1>1 DEF Serves, Slot!Boot, Slot!Jam, Slot!Unjam, Slot!Drop, Slot!Change, CountInv
  <2>4. CASE server' = server
    BY <2>4, <1>1 DEF CountInv
  <2> QED BY <2>1, <2>2, <2>3, <2>4 DEF FarmNext, farmVars, Heartbeat, HeartbeatsMissed
<1>4. reported' <= Cardinality(served')
  <2>1. reported' \in {reported, 0, Cardinality(registered)}
    BY StepRefines, CountTaken
  <2>2. /\ Cardinality(registered) <= Cardinality(served)
        /\ Cardinality(served) <= Cardinality(served')
    BY <1>1, MoreServed DEF CountInv
  <2>3. {Cardinality(registered), Cardinality(served), Cardinality(served')} \subseteq Nat
    BY <1>1, Counting
  <2> QED BY <2>1, <2>2, <2>3 DEF CountInv
<1> QED BY <1>1, <1>2, <1>3, <1>4 DEF CountInv

(* On a farm of any size a build that starts has had Min servers: the count that   *)
(* the forwarder exports on is one of workers whose server came up.               *)
THEOREM ServersBeforeBuild == FarmSpec => []BuildOnServers
<1>1. FarmSpec => []Inv
  BY FarmImplementsCoordinator, Invariance, PTL
<1>2. CountInv /\ (Inv /\ FarmInv) /\ [FarmNext]_farmVars => CountInv'
  BY CountNextInv
<1>3. FarmSpec => []CountInv
  BY <1>1, <1>2, FarmInvariance, CountInitInv, PTL DEF FarmSpec
<1>4. Inv /\ FarmInv /\ CountInv => BuildOnServers
  <2> SUFFICES ASSUME Inv, FarmInv, CountInv, job = "build" PROVE Cardinality(served) >= Min
    BY DEF BuildOnServers
  <2>1. reported >= Min /\ reported <= Cardinality(served)
    BY DEF Inv, Export, FarmCounted, CountInv
  <2>2. Cardinality(served) \in Nat /\ reported \in Nat /\ Min \in Nat
    BY Counting, CoordinatorAssumption DEF FarmInv, FarmTypeOK, Inv, TypeOK
  <2> QED BY <2>1, <2>2
<1> QED BY <1>1, <1>3, <1>4, FarmInvariance, PTL
===============================================================================
