--------------------------- MODULE CoordinatorProofs --------------------------
(* Proofs about Coordinator, for every number of workers, every quorum and all   *)
(* timeouts.                                                                     *)
EXTENDS Coordinator, FiniteSetTheorems, TLAPS

(* A count of registered servers is a number of expected workers.                *)
LEMMA Counting ==
  ASSUME NEW S \in SUBSET Workers
  PROVE  Cardinality(S) \in 0 .. Expected
<1>1. IsFiniteSet(Workers) /\ Cardinality(Workers) = Expected
  BY FS_Interval, CoordinatorAssumption DEF Workers
<1>2. IsFiniteSet(S) /\ Cardinality(S) <= Cardinality(Workers)
  BY <1>1, FS_Subset
<1>3. Cardinality(S) \in Nat
  BY <1>2, FS_CardinalityType
<1> QED BY <1>1, <1>2, <1>3, CoordinatorAssumption

LEMMA PhaseNames ==
  Phases = {"join", "expose", "sched", "live", "forward", "wait", "report", "config",
            "output", "env", "hold"}
BY DEF Phases, After

LEMMA InitInv == Init => Inv
<1> SUFFICES ASSUME Init PROVE Inv
  OBVIOUS
<1> USE CoordinatorAssumption, PhaseNames DEF Init
<1>1. TypeOK
  <2>1. parentLeft \in 0 .. WaitTicks + SlackTicks /\ waitLeft \in 0 .. WaitTicks
    BY DEF ParentDeadline
  <2>2. joined \in 0 .. JoinBudget /\ forwarded \in 0 .. Expected /\ reported \in 0 .. Expected
    OBVIOUS
  <2>3. envLines \in 0 .. Len(EnvOrder) /\ seenEnv \in 0 .. Len(EnvOrder)
    BY DEF EnvOrder
  <2> QED BY <2>1, <2>2, <2>3 DEF TypeOK
<1>2. Progress /\ Export
  BY DEF Progress, Export, Exported
<1>3. Countdown
  BY DEF Countdown, ParentPatient, Exported
<1> QED BY <1>1, <1>2, <1>3 DEF Inv

(* Every step keeps the invariant.                                               *)
LEMMA NextInv == Inv /\ [Next]_vars => Inv'
<1> SUFFICES ASSUME Inv, [Next]_vars PROVE Inv'
  OBVIOUS
<1> USE CoordinatorAssumption, PhaseNames
<1> USE DEF Inv, TypeOK, Progress, Export, Countdown, FarmCounted, ParentPatient, Hopeless,
        Exported,
        stepVars, ownVars, exportVars, schedVars, runnerVars, others, EnvOrder, ParentDeadline
<1>1. CASE Spawn
  BY <1>1 DEF Spawn
<1>2. CASE SpawnFails
  BY <1>2 DEF SpawnFails, ParentExits
<1>3. CASE ParentSees
  BY <1>3 DEF ParentSees, ParentExits
<1>4. CASE ParentGivesUp
  BY <1>4 DEF ParentGivesUp, ParentExits
<1>5. CASE Join \/ Expose \/ OpenLiveness
  BY <1>5 DEF Join, Expose, OpenLiveness, Move, Advance, After
<1>6. CASE StartScheduler
  BY <1>6 DEF StartScheduler, Advance, After
<1>7. CASE Forward
  BY <1>7 DEF Forward, MoreForwards
<1>8. CASE StartWaiting
  BY <1>8 DEF StartWaiting, MoreForwards, Move, Advance, After
<1>9. CASE WaitSatisfied
  BY <1>9, Counting DEF WaitSatisfied, Enough, CountNow, Advance, After
<1>10. CASE WaitExpires
  BY <1>10, Counting DEF WaitExpires, CountNow, Advance, After
<1>11. CASE QuorumReached
  BY <1>11 DEF QuorumReached, Quorum, Move, Advance, After
<1>12. CASE QuorumMissed
  BY <1>12 DEF QuorumMissed, Quorum, Fatal, Die
<1>13. CASE WriteConfig
  BY <1>13 DEF WriteConfig, Advance, After
<1>14. CASE WriteOutputs
  BY <1>14 DEF WriteOutputs, Advance, After
<1>15. CASE EnvSkipped
  BY <1>15 DEF EnvSkipped, Move, Advance, After
<1>16. CASE EnvLine
  BY <1>16 DEF EnvLine, After
<1>17. CASE ForwarderFails
  BY <1>17 DEF ForwarderFails, Fatal, Die
<1>18. CASE Tick
  BY <1>18 DEF Tick, CountDown
<1>19. CASE StepEnds
  BY <1>19 DEF StepEnds
<1>20. CASE Teardown
  BY <1>20 DEF Teardown
<1>21. CASE JobEnds
  BY <1>21 DEF JobEnds
<1>22. CASE SchedulerServes \/ SchedulerExits
  BY <1>22 DEF SchedulerServes, SchedulerExits
<1>23. ASSUME NEW w \in Workers, Registers(w) \/ Expires(w) PROVE Inv'
  BY <1>23 DEF Registers, Expires
<1>24. CASE UNCHANGED vars
  BY <1>24 DEF vars
<1> QED
  BY <1>1, <1>2, <1>3, <1>4, <1>5, <1>6, <1>7, <1>8, <1>9, <1>10, <1>11, <1>12, <1>13,
     <1>14, <1>15, <1>16, <1>17, <1>18, <1>19, <1>20, <1>21, <1>22, <1>23, <1>24
  DEF Next, Job, Parent, Forwarder, Terminated

(* Everything the safety theorems below rest on.                                 *)
THEOREM Invariance == Spec => []Inv
BY InitInv, NextInv, PTL DEF Spec

(* The variables keep their types; in particular no more forwards are opened     *)
(* than workers are expected.                                                    *)
THEOREM TypeCorrect == Spec => []TypeOK
BY Invariance, PTL DEF Inv

(* When the build starts the farm is ready for it.                               *)
THEOREM ReadyToBuild == Spec => []BuildReady
<1>1. Inv => BuildReady
  BY DEF Inv, Export, FarmCounted, BuildReady
<1> QED BY Invariance, <1>1, PTL

(* "Outputs before env": the runner finds the outputs of a step that succeeded.   *)
THEOREM OutputsThere == Spec => []OutputsReady
<1>1. Inv => OutputsReady
  BY DEF Inv, Export, OutputsReady
<1> QED BY Invariance, <1>1, PTL

(* The parent gives up on no forwarder that could still fall back to min-workers, *)
(* unless that forwarder spent the parent's whole slack on joining the mesh.      *)
THEOREM FallbackInReach == Spec => []ParentPatient
<1>1. Inv => ParentPatient
  BY DEF Inv, Countdown
<1> QED BY Invariance, <1>1, PTL
===============================================================================
