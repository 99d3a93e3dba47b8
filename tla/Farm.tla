-------------------------------- MODULE Farm ----------------------------------
(***************************************************************************)
(* The whole farm: the coordinator job of Coordinator and one worker job     *)
(* (worker.Run) per expected worker, each with the server slot its           *)
(* supervisor provides (ServerSlot, which Supervisor implements).  They meet *)
(* over the mesh only: a worker dials the coordinator's liveness port, and   *)
(* its server's heartbeats reach the scheduler through the worker's bridge.   *)
(*                                                                           *)
(* A path between a worker and the coordinator can fail and come back at any *)
(* time; a dial that times out is one made while it was down.                *)
(***************************************************************************)
EXTENDS Coordinator

CONSTANT TeardownThresh   \* teardown-threshold

ASSUME FarmAssumption == TeardownThresh \in Nat \ {0}

VARIABLES
  wpc,         \* wpc[w]: where worker.Run of w is
  misses,      \* misses[w]: guard.misses
  reach,       \* reach[w]: the path between w and the coordinator works
  server,      \* of ServerSlot
  duty,        \* of ServerSlot
  unanswered,  \* history: guard probes of w unanswered in a row, up to TeardownThresh
  served       \* history: the workers whose server came up

Slot == INSTANCE ServerSlot

workerVars == <<wpc, misses, reach, server, duty, unanswered, served>>
farmVars == <<vars, workerVars>>

FarmTypeOK ==
  /\ wpc \in [Workers -> {"join", "probe", "launch", "guard", "stopping", "gone"}]
  /\ misses \in [Workers -> 0 .. TeardownThresh]
  /\ reach \in [Workers -> BOOLEAN]
  /\ Slot!TypeOK
  /\ unanswered \in [Workers -> 0 .. TeardownThresh]
  /\ served \subseteq Workers

FarmInit ==
  /\ Init
  /\ Slot!Init
  /\ wpc = [w \in Workers |-> "join"]
  /\ misses = [w \in Workers |-> 0]
  /\ reach = [w \in Workers |-> TRUE]
  /\ unanswered = [w \in Workers |-> 0]
  /\ served = {}

-------------------------------------------------------------------------------
(* worker.Run                                                                  *)

Goes(w, from, to) == wpc[w] = from /\ wpc' = [wpc EXCEPT ![w] = to]
probing == <<misses, reach, unanswered, served>>

Up(w) ==          \* on the mesh, both bridges open
  /\ Goes(w, "join", "probe")
  /\ UNCHANGED <<probing, server, duty>>

GivesUp(w) ==     \* tsmesh.Up, a listener, the server's config or its start failed
  /\ \E from \in {"join", "launch"} : Goes(w, from, "gone")
  /\ Slot!End(w)
  /\ UNCHANGED probing

Answers(w) == LivenessOpen /\ reach[w]      \* probeCoordinator

FirstAnswer(w) ==                           \* until then it dials again and again
  /\ Answers(w)
  /\ Goes(w, "probe", "launch")
  /\ UNCHANGED <<probing, server, duty>>

Launch(w) ==
  /\ Goes(w, "launch", "guard")
  /\ Slot!Begin(w)
  /\ UNCHANGED probing

ObserveKept(m, present) == IF present THEN m ELSE m + 1      \* mutant
ObserveForgets(m, present) == 0                              \* mutant
OneLate(m) == m > TeardownThresh                             \* mutant
Observe(m, present) == IF present THEN 0 ELSE m + 1
Gone(m) == m >= TeardownThresh

GuardProbe(w) ==
  /\ wpc[w] = "guard"
  /\ misses' = [misses EXCEPT ![w] = Observe(@, Answers(w))]
  /\ unanswered' = [unanswered EXCEPT ![w] =
       IF Answers(w) THEN 0 ELSE IF @ < TeardownThresh THEN @ + 1 ELSE @]
  /\ wpc' = [wpc EXCEPT ![w] = IF ~Answers(w) /\ Gone(misses'[w]) THEN "stopping" ELSE @]
  /\ UNCHANGED <<reach, server, duty, served>>

Finish(w) ==      \* the supervisor is done, the node leaves the mesh
  /\ Goes(w, "stopping", "gone")
  /\ Slot!End(w)
  /\ UNCHANGED probing

Worker(w) == Up(w) \/ GivesUp(w) \/ FirstAnswer(w) \/ Launch(w) \/ GuardProbe(w) \/ Finish(w)

-------------------------------------------------------------------------------
(* What happens around worker.Run                                              *)

Serves(w) ==
  /\ Slot!Boot(w) \/ Slot!Jam(w) \/ Slot!Unjam(w) \/ Slot!Drop(w)
  /\ served' = IF server'[w] = "up" THEN served \cup {w} ELSE served
  /\ UNCHANGED <<wpc, misses, reach, unanswered>>

KillServer(w) ==  \* the supervisor's part of stopping
  /\ wpc[w] = "stopping"
  /\ Slot!Drop(w)
  /\ UNCHANGED <<wpc, probing>>

PathFlips(w) ==
  /\ reach' = [reach EXCEPT ![w] = ~@]
  /\ UNCHANGED <<wpc, misses, server, duty, unanswered, served>>

HeartbeatPossible(w) == server[w] \in {"up", "stuck"} /\ reach[w] /\ SchedulerReachable

Heartbeat(w) == HeartbeatPossible(w) /\ Registers(w) /\ UNCHANGED workerVars
HeartbeatsMissed(w) == ~HeartbeatPossible(w) /\ Expires(w) /\ UNCHANGED workerVars

FarmNext ==
  \/ Job /\ UNCHANGED workerVars
  \/ \E w \in Workers :
       \/ (Worker(w) \/ Serves(w) \/ PathFlips(w)) /\ UNCHANGED vars
       \/ Heartbeat(w) \/ HeartbeatsMissed(w)

(* A worker job makes its way, and its supervisor gets the server down once     *)
(* it is asked to (Supervisor: StopTerminates).                                 *)
FarmFairness == \A w \in Workers :
  /\ WF_farmVars(Worker(w) /\ UNCHANGED vars)
  /\ WF_farmVars(KillServer(w) /\ UNCHANGED vars)
  /\ SF_farmVars(Finish(w) /\ UNCHANGED vars)

FarmSpec == FarmInit /\ [][FarmNext]_farmVars
FairFarmSpec == FarmSpec /\ FarmFairness

-------------------------------------------------------------------------------
(* A worker leaves only after TeardownThresh probes in a row went unanswered:   *)
(* paths that come and go do not add up.                                        *)
PatientGuard ==
  [][ \A w \in Workers : wpc[w] = "guard" /\ wpc'[w] = "stopping"
        => unanswered'[w] = TeardownThresh ]_farmVars

(* Once the coordinator is gone every worker that was guarding it leaves, with  *)
(* its server down, whatever the path and the server do meanwhile.              *)
GuardsLeave ==
  \A w \in Workers : fpc = "dead" /\ wpc[w] = "guard"
    ~> wpc[w] = "gone" /\ server[w] = "down"

(* No worker starts its server before the scheduler process was started: the    *)
(* liveness port opens after it.                                               *)
ServerAfterScheduler == \A w \in Workers : duty[w] = "on" => sched # "none"

(* A build step starts only if at least Min workers brought their server up: no   *)
(* failed status request, lost path or server that is gone again makes the        *)
(* forwarder count, the parent end the step and the runner go on without them.    *)
BuildOnServers == job = "build" => Cardinality(served) >= Min

(* coordinator.go: a worker that registers at any point must already have its   *)
(* forward listener.                                                            *)
ForwardedBeforeRegistered == \A w \in registered : fpc # "dead" => w <= forwarded

(* README: the worker jobs shut themselves down once the coordinator finishes.  *)
WorkersShutDown ==
  \A w \in Workers : job = "over" ~> wpc[w] = "gone"
===============================================================================
