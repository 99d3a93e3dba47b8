----------------------------- MODULE Coordinator ------------------------------
(***************************************************************************)
(* The coordinator job.  Its setup step runs the binary twice at once: the   *)
(* parent (main.go), which spawns a detached forwarder and polls GITHUB_ENV  *)
(* for SCCACHE_J, and the forwarder (coordinator.Run), which joins the mesh, *)
(* starts the scheduler, opens the ports, waits for workers and exports.     *)
(* The runner reads the files the step leaves and later ends the job.        *)
(*                                                                           *)
(* Every error of the forwarder ends its process, and its ports with it      *)
(* (log.Fatalf); nobody watches for that.  Time passes only while somebody   *)
(* has to wait: the forwarder's other steps and the parent's 1 s poll are    *)
(* short beside a tick.  The workers are an arbitrary environment here (the  *)
(* scheduler's registered set); Farm puts real ones in their place.          *)
(***************************************************************************)
EXTENDS Naturals, Sequences, FiniteSets

CONSTANTS
  Expected,    \* expected-workers
  Min,         \* min-workers
  WaitTicks,   \* wait-timeout
  SlackTicks,  \* the minute the parent waits longer
  JoinBudget   \* bound: ticks joining the mesh may take

ASSUME CoordinatorAssumption ==
  /\ Expected \in Nat \ {0}
  /\ Min \in 1 .. Expected                     \* loadFrom refuses anything else
  /\ WaitTicks \in Nat
  /\ SlackTicks \in Nat \ {0}
  /\ JoinBudget \in Nat

Workers == 1 .. Expected

VARIABLES
  parent,      \* the step's own process
  parentLeft,  \* ticks until the parent gives up
  pidFile,     \* the forwarder's pid is on file
  fpc,         \* where the forwarder is
  joined,      \* ticks spent joining
  waitLeft,    \* ticks left of waitCtx
  forwarded,   \* workers 1 .. forwarded have their local forward listener
  reported,    \* result of waitForRegisteredServers
  config,      \* the client config is written
  outputs,     \* GITHUB_OUTPUT: "none", "written" or "skipped" (cannot be opened)
  envLines,    \* lines written to GITHUB_ENV, of EnvOrder
  sched,       \* the scheduler process
  registered,  \* workers the scheduler counts as servers
  job,         \* what the runner is doing
  seenOutputs, \* outputs when the step ended
  seenEnv      \* envLines when the step ended

stepVars == <<parent, parentLeft, pidFile>>
ownVars == <<joined, waitLeft, forwarded>>                    \* the forwarder's
exportVars == <<reported, config, outputs, envLines>>
schedVars == <<sched, registered>>
runnerVars == <<job, seenOutputs, seenEnv>>
others == <<ownVars, schedVars, runnerVars>>
vars == <<stepVars, fpc, exportVars, others>>

(* The forwarder's phases in the order of coordinator.Run: what follows each.   *)
WaitFirst ==                                 \* mutant
  [join |-> "expose", expose |-> "sched", sched |-> "live", live |-> "wait",
   wait |-> "report", report |-> "config", config |-> "output", output |-> "env",
   env |-> "forward", forward |-> "hold"]
EnvFirst ==                                  \* mutant
  [join |-> "expose", expose |-> "sched", sched |-> "live", live |-> "forward",
   forward |-> "wait", wait |-> "report", report |-> "config", config |-> "env",
   env |-> "output", output |-> "hold"]
After ==
  [join |-> "expose", expose |-> "sched", sched |-> "live", live |-> "forward",
   forward |-> "wait", wait |-> "report", report |-> "config", config |-> "output",
   output |-> "env", env |-> "hold"]

Phases == DOMAIN After \cup {"hold"}
EnvOrder == <<"SCCACHE_J", "SCCACHE_WORKERS_ONLINE", "SCCACHE_DIR", "SCCACHE_DIST_FALLBACK">>

SchedulerReachable == fpc \in Phases \ {"join", "expose"}               \* :10600 on the mesh
LivenessEarly == fpc \in Phases \ {"join", "expose"}                    \* mutant
LivenessOpen == fpc \in Phases \ {"join", "expose", "sched", "live"}    \* :10599

FixedDeadline == WaitTicks                   \* mutant
ParentDeadline == WaitTicks + SlackTicks

TypeOK ==
  /\ parent \in {"spawn", "polling", "ok", "failed"}
  /\ parentLeft \in 0 .. WaitTicks + SlackTicks
  /\ pidFile \in BOOLEAN
  /\ fpc \in Phases \cup {"unborn", "dead"}
  /\ joined \in 0 .. JoinBudget
  /\ waitLeft \in 0 .. WaitTicks
  /\ forwarded \in 0 .. Expected
  /\ reported \in 0 .. Expected
  /\ config \in BOOLEAN
  /\ outputs \in {"none", "written", "skipped"}
  /\ envLines \in 0 .. Len(EnvOrder)
  /\ sched \in {"none", "starting", "serving", "exited"}
  /\ registered \subseteq Workers
  /\ job \in {"setup", "build", "failed", "over"}
  /\ seenOutputs \in {"none", "written", "skipped"}
  /\ seenEnv \in 0 .. Len(EnvOrder)

Init ==
  /\ parent = "spawn" /\ parentLeft = ParentDeadline /\ pidFile = FALSE
  /\ fpc = "unborn" /\ joined = 0 /\ waitLeft = WaitTicks /\ forwarded = 0
  /\ reported = 0 /\ config = FALSE /\ outputs = "none" /\ envLines = 0
  /\ sched = "none" /\ registered = {}
  /\ job = "setup" /\ seenOutputs = "none" /\ seenEnv = 0

-------------------------------------------------------------------------------
(* The parent.                                                                 *)

Spawn ==
  /\ parent = "spawn"
  /\ parent' = "polling"
  /\ pidFile' = TRUE
  /\ fpc' = "join"
  /\ UNCHANGED <<parentLeft, exportVars, others>>

ParentExits(result) ==
  /\ parent' = result
  /\ UNCHANGED <<parentLeft, pidFile, fpc, exportVars, others>>

SpawnFails == parent = "spawn" /\ ParentExits("failed")

Exported == envLines > 0                     \* the file contains SCCACHE_J=

ParentSees == parent = "polling" /\ parentLeft > 0 /\ Exported /\ ParentExits("ok")
ParentGivesUp == parent = "polling" /\ parentLeft = 0 /\ ParentExits("failed")

-------------------------------------------------------------------------------
(* The forwarder.  Move leaves one phase for the next with nothing else to show *)
(* for it; Fatal ends the process there.                                        *)

Die(phase) == fpc = phase /\ fpc' = "dead"
Advance(phase) == fpc = phase /\ fpc' = After[phase]
Move(phase) == Advance(phase) /\ UNCHANGED <<stepVars, exportVars, others>>
Fatal(phase) == Die(phase) /\ UNCHANGED <<stepVars, exportVars, others>>

Join == Move("join")                         \* tsmesh.Up
Expose == Move("expose")                     \* scheduler config, Listen(":10600")

StartScheduler ==
  /\ Advance("sched")
  /\ sched' = "starting"
  /\ UNCHANGED <<stepVars, ownVars, exportVars, registered, runnerVars>>

OpenLiveness == Move("live")                 \* Listen(":10599")

OneForwardTooMany(n) == n <= Expected        \* mutant
MoreForwards(n) == n < Expected

Forward ==
  /\ fpc = "forward" /\ MoreForwards(forwarded)
  /\ forwarded' = forwarded + 1
  /\ UNCHANGED <<stepVars, fpc, joined, waitLeft, exportVars, schedVars, runnerVars>>

StartWaiting == ~MoreForwards(forwarded) /\ Move("forward")

(* waitForRegisteredServers: the status request fails unless the scheduler      *)
(* answers, and after the deadline a failure counts as no server.              *)

Enough(n) == n >= Expected

CountForwards(n) ==                          \* mutant
  /\ Advance("wait")
  /\ reported' = forwarded
  /\ UNCHANGED <<stepVars, config, outputs, envLines, others>>
CountNow(n) ==
  /\ Advance("wait")
  /\ reported' = n
  /\ UNCHANGED <<stepVars, config, outputs, envLines, others>>

WaitSatisfied ==
  /\ sched = "serving" /\ Enough(Cardinality(registered))
  /\ CountNow(Cardinality(registered))

WaitExpires ==
  /\ waitLeft = 0
  /\ \/ sched = "serving" /\ CountNow(Cardinality(registered))
     \/ CountNow(0)

Quorum(n) == n >= Min

QuorumReached == Quorum(reported) /\ Move("report")
QuorumMissed == ~Quorum(reported) /\ Fatal("report")

WriteConfig ==
  /\ Advance("config")
  /\ config' = TRUE
  /\ UNCHANGED <<stepVars, reported, outputs, envLines, others>>

WriteOutputs == \E result \in {"written", "skipped"} :
  /\ Advance("output")
  /\ outputs' = result
  /\ UNCHANGED <<stepVars, reported, config, envLines, others>>

EnvSkipped == envLines = 0 /\ Move("env")   \* cannot be opened: not an error

EnvLine ==                                   \* one Fprintf
  /\ fpc = "env"
  /\ envLines' = envLines + 1
  /\ fpc' = IF envLines' = Len(EnvOrder) THEN After.env ELSE "env"
  /\ UNCHANGED <<stepVars, reported, config, outputs, others>>

Forwarder ==
  \/ Join \/ Expose \/ StartScheduler \/ OpenLiveness \/ Forward \/ StartWaiting
  \/ WaitSatisfied \/ WaitExpires \/ QuorumReached \/ QuorumMissed
  \/ WriteConfig \/ WriteOutputs \/ EnvSkipped \/ EnvLine

(* The calls that can fail: Up, WriteFile, Listen, StartScheduler.              *)
ForwarderFails ==
  \E phase \in {"join", "expose", "sched", "live", "forward", "config"} : Fatal(phase)

-------------------------------------------------------------------------------
(* Time.                                                                       *)

DeadlineMoves(t) == t                        \* mutant
CountDown(t) == IF t > 0 THEN t - 1 ELSE t

Tick ==
  /\ parent = "polling" \/ fpc \in {"join", "wait"}
  /\ fpc \in {"join", "wait", "hold", "dead"}
  /\ fpc = "join" => joined < JoinBudget
  /\ fpc = "wait" => waitLeft > 0
  /\ parent = "polling" => parentLeft > 0 /\ ~Exported
  /\ parentLeft' = IF parent = "polling" THEN CountDown(parentLeft) ELSE parentLeft
  /\ joined' = IF fpc = "join" THEN joined + 1 ELSE joined
  /\ waitLeft' = IF fpc = "wait" THEN waitLeft - 1 ELSE waitLeft
  /\ UNCHANGED <<parent, pidFile, fpc, forwarded, exportVars, schedVars, runnerVars>>

-------------------------------------------------------------------------------
(* The runner and the scheduler process.  The pid on file may be signalled by  *)
(* a later --teardown; nothing keeps the scheduler's.                          *)

StepEnds ==
  /\ job = "setup" /\ parent \in {"ok", "failed"}
  /\ seenOutputs' = outputs
  /\ seenEnv' = envLines
  /\ job' = IF parent = "ok" THEN "build" ELSE "failed"
  /\ UNCHANGED <<stepVars, fpc, ownVars, exportVars, schedVars>>

Teardown ==
  /\ job \in {"build", "failed"} /\ pidFile
  /\ job' = "over"
  /\ fpc' = "dead"
  /\ UNCHANGED <<stepVars, ownVars, exportVars, schedVars, seenOutputs, seenEnv>>

JobEnds ==       \* or is cancelled, or its machine is lost: all its processes go
  /\ job # "over"
  /\ job' = "over"
  /\ fpc' = "dead"
  /\ parent' = IF parent \in {"spawn", "polling"} THEN "failed" ELSE parent
  /\ sched' = "exited"
  /\ registered' = {}
  /\ UNCHANGED <<parentLeft, pidFile, ownVars, exportVars, seenOutputs, seenEnv>>

SchedulerServes ==
  /\ sched = "starting"
  /\ sched' = "serving"
  /\ UNCHANGED <<stepVars, fpc, ownVars, exportVars, registered, runnerVars>>

SchedulerExits ==
  /\ sched \in {"starting", "serving"}
  /\ sched' = "exited"
  /\ registered' = {}
  /\ UNCHANGED <<stepVars, fpc, ownVars, exportVars, runnerVars>>

Registers(w) ==  \* a heartbeat of w's server reaches the scheduler
  /\ sched = "serving" /\ SchedulerReachable
  /\ registered' = registered \cup {w}
  /\ UNCHANGED <<stepVars, fpc, ownVars, exportVars, sched, runnerVars>>

Expires(w) ==    \* no heartbeat of w for 90 s
  /\ w \in registered
  /\ registered' = registered \ {w}
  /\ UNCHANGED <<stepVars, fpc, ownVars, exportVars, sched, runnerVars>>

Terminated == job = "over" /\ UNCHANGED vars

Parent == ParentSees \/ ParentGivesUp

Job ==
  \/ Spawn \/ SpawnFails \/ Parent
  \/ Forwarder \/ ForwarderFails
  \/ Tick
  \/ StepEnds \/ Teardown \/ JobEnds
  \/ SchedulerServes \/ SchedulerExits
  \/ Terminated

Next == Job \/ \E w \in Workers : Registers(w) \/ Expires(w)

Fairness == WF_vars(Parent) /\ WF_vars(Forwarder) /\ WF_vars(Tick)

Spec == Init /\ [][Next]_vars
FairSpec == Spec /\ Fairness

-------------------------------------------------------------------------------
(* A build step never starts on half a farm: every expected worker has its     *)
(* local forward, the sccache client is configured, enough servers were        *)
(* counted, and fewer than expected only once the whole wait was over.          *)
BuildReady ==
  job = "build" =>
    /\ forwarded = Expected
    /\ config
    /\ reported >= Min
    /\ reported < Expected => waitLeft = 0

(* When the runner ends a successful step, the step's outputs are all there     *)
(* ("Outputs before env").                                                      *)
OutputsReady == job = "build" => seenOutputs # "none"

Hopeless == fpc \in {"unborn", "dead"} \/ (fpc = "hold" /\ envLines = 0)

(* The parent outlives the forwarder's wait, so falling back to min-workers     *)
(* can be seen: it gives up only on a forwarder that is dead or could not       *)
(* export, or one that spent the parent's slack on joining the mesh.            *)
ParentPatient ==
  parent = "failed" /\ job # "over" => Hopeless \/ joined >= SlackTicks

(* The setup step always ends, even if the forwarder died unseen.               *)
StepTerminates == parent = "polling" ~> parent # "polling"

(* The inductive invariant behind them: what each phase of the forwarder has     *)
(* behind it, what an exported SCCACHE_J stands for, and the two countdowns,     *)
(* which run together from the moment the forwarder waits.                      *)

FarmCounted == reported >= Min /\ (reported < Expected => waitLeft = 0)

Progress ==
  /\ fpc \in {"wait", "report", "config", "output", "env", "hold"} => forwarded = Expected
  /\ fpc = "report" /\ reported < Expected => waitLeft = 0
  /\ fpc \in {"config", "output", "env", "hold"} => FarmCounted
  /\ fpc \in {"output", "env", "hold"} => config
  /\ fpc \in {"env", "hold"} => outputs # "none"
  /\ fpc = "env" => envLines < Len(EnvOrder)

Export ==
  /\ Exported => /\ fpc \in {"env", "hold", "dead"}
                 /\ forwarded = Expected /\ config /\ FarmCounted /\ outputs # "none"
  /\ parent = "ok" => Exported
  /\ job = "build" => parent = "ok" /\ seenOutputs # "none"
  /\ parent = "spawn" => fpc = "unborn"
  /\ job # "setup" => parent \in {"ok", "failed"}
  /\ fpc = "unborn" => parent # "polling"

Countdown ==
  /\ fpc \in Phases \ {"hold"} /\ parent = "polling" => parentLeft = SlackTicks + waitLeft - joined
  /\ fpc = "unborn" => parentLeft = ParentDeadline /\ waitLeft = WaitTicks /\ joined = 0
  /\ joined < SlackTicks /\ Exported /\ parent = "polling" => parentLeft > 0
  /\ ParentPatient

Inv == TypeOK /\ Progress /\ Export /\ Countdown

(* main.go: the parent must outlive the wait-timeout, whatever came before it,  *)
(* or the fallback is unreachable.                                              *)
FallbackReachable == parent = "failed" /\ job # "over" => Hopeless

(* README: the step exports the four variables, ready for the build command.    *)
EnvComplete == job = "build" => seenEnv = Len(EnvOrder)
===============================================================================
