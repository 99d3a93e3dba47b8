--------------------------- MODULE SupervisorProofs ---------------------------
(* Proofs about Supervisor, for every set of process slots, every threshold     *)
(* and every minimum uptime.                                                    *)
EXTENDS Supervisor, TLAPS

LEMMA InitInv == Init => Inv
<1> SUFFICES ASSUME Init PROVE Inv
  OBVIOUS
<1> USE SupervisorAssumption DEF Init
<1>1. TypeOK
  <2>1. exited \in [Pids -> BOOLEAN]
    BY Zenon
  <2>2. proc \in [Pids -> ProcState]
    BY DEF ProcState
  <2>3. misses \in 0 .. Threshold - 1 /\ failed \in 0 .. Threshold
    OBVIOUS
  <2>4. uptime \in 0 .. MinUptime /\ sinceStart \in 0 .. MinUptime
    OBVIOUS
  <2>5. pc \in PC /\ cmd \in Pids \cup {Nil} /\ ctxDone \in BOOLEAN
    BY DEF PC
  <2>6. main \in {"starting", "guarding", "stopping", "returned"}
    OBVIOUS
  <2> QED BY <2>1, <2>2, <2>3, <2>4, <2>5, <2>6, Zenon DEF TypeOK
<1>2. Owned /\ ExitNotLost
  BY DEF Owned, ExitNotLost
<1>3. Placed /\ Counted /\ Timed
  BY DEF Placed, Counted, Timed
<1> QED BY <1>1, <1>2, <1>3 DEF Inv

LEMMA LaunchOkInv ==
  ASSUME Inv, LaunchOk, cmd = Nil, misses = 0,
         \/ pc' = "select" /\ main' \in {"guarding", main} /\ main # "returned"
               /\ (main' = "starting" => FALSE),
         UNCHANGED <<misses, ctxDone>>
  PROVE  Inv'
BY SupervisorAssumption
   DEF LaunchOk, Started, UptimeAfterLaunch, Inv, TypeOK, Owned, ExitNotLost, Placed,
       Counted, Timed, ProcState, Running, PC

(* Every step keeps the invariant: one step of the proof per action.           *)
LEMMA NextInv == Inv /\ [Next]_vars => Inv'
<1> SUFFICES ASSUME Inv, [Next]_vars PROVE Inv'
  OBVIOUS
<1> USE SupervisorAssumption
<1> USE DEF Inv, TypeOK, Owned, ExitNotLost, Placed, Counted, Timed, ghosts
<1>1. CASE SelectDone
  BY <1>1 DEF SelectDone, Goto, PC
<1>2. CASE SelectExited
  BY <1>2 DEF SelectExited, ExitReady, CmdAfterExit, PC
<1>3. CASE SelectTimer
  BY <1>3 DEF SelectTimer, Goto, PC
<1>4. CASE ProbeAborted
  BY <1>4 DEF ProbeAborted, Goto, PC
<1>5. CASE ProbeAnswered
  BY <1>5 DEF ProbeAnswered, MissesAfter, PC
<1>6. CASE ProbeFailed
  BY <1>6 DEF ProbeFailed, MissesAfter, StaysPatient, PC
<1>7. CASE RestartKill
  BY <1>7 DEF RestartKill, KillAndWait, PC, ProcState, Running
<1>8. CASE RestartReap
  BY <1>8 DEF RestartReap, Reap, ExitReceived, PC
<1>9. CASE Pace
  BY <1>9 DEF Pace, Goto, AfterPace, PC
<1>10. CASE SleepCancelled
  BY <1>10 DEF SleepCancelled, Goto, PC
<1>11. CASE SleepElapsed
  BY <1>11 DEF SleepElapsed, Goto, PC
<1>12. CASE RestartOk
  BY <1>12, LaunchOkInv DEF RestartOk
<1>13. CASE RestartFails
  BY <1>13 DEF RestartFails, LaunchFails, Started, UptimeAfterLaunch, PC
<1>14. CASE ExitKill
  BY <1>14 DEF ExitKill, KillAndWait, PC, ProcState, Running
<1>15. CASE ExitReap
  BY <1>15 DEF ExitReap, Reap, ExitReceived, PC
<1>16. CASE StartFirst
  <2>1. CASE LaunchOk /\ main' = "guarding" /\ pc' = "select"
    BY <1>16, <2>1, LaunchOkInv DEF StartFirst
  <2>2. CASE LaunchFails /\ main' = "returned" /\ UNCHANGED pc
    BY <1>16, <2>2 DEF StartFirst, LaunchFails, Started, UptimeAfterLaunch, PC
  <2> QED BY <1>16, <2>1, <2>2 DEF StartFirst
<1>17. CASE Leave
  BY <1>17 DEF Leave, StopSup
<1>18. CASE Return
  BY <1>18 DEF Return, SupervisorGone
<1>19. ASSUME NEW p \in Pids, Boot(p) \/ Wedge(p) \/ Unwedge(p) \/ Crash(p) \/ Die(p)
       PROVE  Inv'
  BY <1>19 DEF Boot, Wedge, Unwedge, Crash, Die, ProcStep, ProcState, Running
<1>20. ASSUME NEW p \in Pids, Wait(p) PROVE Inv'
  BY <1>20 DEF Wait, ProcState, Running
<1>21. CASE Tick
  BY <1>21 DEF Tick, Later
<1>22. CASE UNCHANGED vars
  BY <1>22 DEF vars
<1> QED
  BY <1>1, <1>2, <1>3, <1>4, <1>5, <1>6, <1>7, <1>8, <1>9, <1>10, <1>11, <1>12, <1>13,
     <1>14, <1>15, <1>16, <1>17, <1>18, <1>19, <1>20, <1>21, <1>22
  DEF Next, Supervise, Terminated

(* Everything the safety theorems below rest on.                                *)
THEOREM Invariance == Spec => []Inv
BY InitInv, NextInv, PTL DEF Spec

(* The supervisor's variables keep their types (misses stays under the          *)
(* threshold of run, uptime under minUptime).                                   *)
THEOREM TypeCorrect == Spec => []TypeOK
BY Invariance, PTL DEF Inv

(* kill waits for the old process, so no two servers ever run at once.           *)
THEOREM OneServer == Spec => []AtMostOneServer
<1>1. Inv => AtMostOneServer
  BY DEF Inv, Owned, AtMostOneServer
<1> QED BY Invariance, <1>1, PTL

(* The deferred kill of run leaves nothing running once the worker returned.      *)
THEOREM LeavesNothing == Spec => []NoOrphan
<1>1. Inv => NoOrphan
  BY SupervisorAssumption DEF Inv, Owned, Placed, NoOrphan
<1> QED BY Invariance, <1>1, PTL

(* The channel of the current launch always has, or will have, its exit.          *)
THEOREM ExitStays == Spec => []ExitNotLost
BY Invariance, PTL DEF Inv

(* A running server is killed only after Threshold failed probes in a row, or     *)
(* because the worker leaves.                                                     *)
THEOREM RestartsAreJustified == Spec => RestartsJustified
<1> DEFINE Justified == \A p \in Pids : proc[p] \in Running /\ proc'[p] = "killed"
                          => failed = Threshold \/ ctxDone
<1>1. Inv /\ [Next]_vars => Justified
  <2> SUFFICES ASSUME Inv, [Next]_vars, NEW p \in Pids,
                      proc[p] \in Running, proc'[p] = "killed"
               PROVE  failed = Threshold \/ ctxDone
    OBVIOUS
  <2>1. CASE RestartKill \/ ExitKill
    BY <2>1 DEF RestartKill, ExitKill, KillAndWait, Inv, Owned, Placed, Counted, Running
  <2>2. CASE ~(RestartKill \/ ExitKill)
    <3>1. proc'[p] # "killed"
      BY <2>2 DEF Next, Supervise, vars, Goto, SelectDone, SelectExited, SelectTimer, ProbeAborted,
           ProbeAnswered, ProbeFailed, RestartReap, Reap, Pace, SleepCancelled, SleepElapsed,
           RestartOk, RestartFails, ExitReap, LaunchOk, LaunchFails, StartFirst, Leave, Return,
           Boot, Wedge, Unwedge, Crash, Die, ProcStep, Wait, Tick, Terminated, Running,
           Inv, TypeOK
    <3> QED BY <3>1
  <2> QED BY <2>1, <2>2
<1>2. Inv /\ [Next]_vars => [Justified]_vars
  BY <1>1
<1> QED BY Invariance, <1>2, PTL DEF Spec, RestartsJustified

(* Two starts, failed ones included, are MinUptime apart.                          *)
THEOREM StartsArePaced == Spec => StartsPaced
<1>1. Inv /\ [Next]_vars => [pc = "launch" /\ pc' # "launch" => sinceStart = MinUptime]_vars
  BY DEF Inv, Timed
<1> QED BY Invariance, <1>1, PTL DEF Spec, StartsPaced

-------------------------------------------------------------------------------
(* Refinement: every step of the supervisor is a step of the server slot or       *)
(* leaves it alone.                                                                *)

Seen(state) ==
  IF state = "serving" THEN "up" ELSE IF state = "wedged" THEN "stuck" ELSE "down"

(* With one process there is no choice in what the others see of it.              *)
LEMMA SlotChange ==
  ASSUME Inv, NEW p \in Pids, NEW to \in ProcState,
         proc[p] # "free", proc' = [proc EXCEPT ![p] = to]
  PROVE  /\ SlotServer = Seen(proc[p])
         /\ SlotServer' = Seen(to)
         /\ main \in {"guarding", "stopping"}
<1>1. \A q \in Pids : q # p => proc[q] = "free"
  BY DEF Inv, Owned
<1>2. cmd \in Pids /\ main \in {"guarding", "stopping"}
  BY SupervisorAssumption DEF Inv, TypeOK, Owned, Placed
<1>3. SlotServer = Seen(proc[p])
  BY <1>1 DEF SlotServer, Seen
<1>4. proc'[p] = to /\ \A q \in Pids : q # p => proc'[q] = "free"
  BY <1>1 DEF Inv, TypeOK
<1>5. SlotServer' = Seen(to)
  BY <1>4 DEF SlotServer, Seen
<1> QED BY <1>2, <1>3, <1>5

(* A start, successful or not, shows nothing yet.                                 *)
LEMMA NoServerLaunch ==
  ASSUME Inv, cmd = Nil, LaunchOk \/ LaunchFails
  PROVE  SlotServer = "down" /\ SlotServer' = "down"
<1>1. \A p \in Pids : proc[p] = "free"
  BY SupervisorAssumption DEF Inv, Owned
<1>2. \A p \in Pids : proc'[p] \in {"free", "starting"}
  BY <1>1 DEF LaunchOk, LaunchFails, Inv, TypeOK
<1> QED BY <1>1, <1>2 DEF SlotServer

LEMMA SlotInit == Init => Slot!Init
BY DEF Init, Slot!Init, SlotServer, SlotDuty

LEMMA SlotNext == Inv /\ [Next]_vars => [Slot!Next]_(Slot!vars)
<1> SUFFICES ASSUME Inv, [Next]_vars PROVE Slot!Next \/ UNCHANGED Slot!vars
  BY DEF Slot!vars
<1> USE DEF Slot!vars
<1>1. CASE UNCHANGED <<proc, main>>
  BY <1>1 DEF SlotServer, SlotDuty
<1>2. ASSUME NEW p \in Pids, NEW to \in ProcState, proc[p] # "free", to # proc[p],
             to = "wedged" => proc[p] = "serving",
             proc' = [proc EXCEPT ![p] = to], UNCHANGED main
      PROVE  Slot!Next \/ UNCHANGED Slot!vars
  <2>1. /\ SlotServer = Seen(proc[p])
        /\ SlotServer' = Seen(to)
        /\ SlotDuty = "on" /\ SlotDuty' = "on"
    BY <1>2, SlotChange DEF SlotDuty
  <2>2. CASE Seen(proc[p]) = "down" /\ Seen(to) = "down"
    BY <2>1, <2>2
  <2>3. CASE Seen(proc[p]) = "down" /\ to = "serving"
    BY <2>1, <2>3 DEF Slot!Next, Slot!Boot, Slot!Change, Seen
  <2>4. CASE proc[p] = "serving" /\ to = "wedged"
    BY <2>1, <2>4 DEF Slot!Next, Slot!Jam, Slot!Change, Seen
  <2>5. CASE proc[p] = "wedged" /\ to = "serving"
    BY <2>1, <2>5 DEF Slot!Next, Slot!Unjam, Slot!Change, Seen
  <2>6. CASE proc[p] \in {"serving", "wedged"} /\ Seen(to) = "down"
    BY <2>1, <2>6 DEF Slot!Next, Slot!Drop, Slot!Change, Seen
  <2> QED BY <1>2, <2>2, <2>3, <2>4, <2>5, <2>6 DEF Seen
<1>3. CASE RestartKill \/ ExitKill
  <2>1. CASE proc' = proc
    BY <1>1, <1>3, <2>1 DEF RestartKill, ExitKill, KillAndWait
  <2>2. CASE proc' # proc
    <3>1. /\ cmd \in Pids /\ proc[cmd] \in Running
          /\ proc' = [proc EXCEPT ![cmd] = "killed"] /\ UNCHANGED main
      BY <1>3, <2>2 DEF RestartKill, ExitKill, KillAndWait, Inv, TypeOK
    <3> QED BY <3>1, <1>2 DEF Running, ProcState
  <2> QED BY <2>1, <2>2
<1>4. CASE RestartOk
  <2>1. UNCHANGED SlotDuty
    BY <1>4 DEF RestartOk, SlotDuty
  <2>2. SlotServer = "down" /\ SlotServer' = "down"
    BY <1>4, NoServerLaunch DEF RestartOk, Inv, Placed
  <2> QED BY <2>1, <2>2
<1>5. CASE StartFirst
  <2>1. SlotDuty = "before" /\ cmd = Nil
    BY <1>5 DEF StartFirst, SlotDuty, Inv, Placed
  <2>0. SlotServer = "down" /\ SlotServer' = "down"
    BY <1>5, <2>1, NoServerLaunch DEF StartFirst
  <2>2. CASE main' = "guarding"
    <3>1. SlotDuty' = "on"
      BY <2>2 DEF SlotDuty
    <3> QED BY <2>1, <2>0, <3>1 DEF Slot!Next, Slot!Begin
  <2>3. CASE main' = "returned"
    <3>1. SlotDuty' = "off"
      BY <2>3 DEF SlotDuty
    <3> QED BY <2>1, <2>0, <3>1 DEF Slot!Next, Slot!End
  <2> QED BY <1>5, <2>2, <2>3 DEF StartFirst
<1>6. CASE Leave
  <2>1. UNCHANGED <<SlotServer, SlotDuty>>
    BY <1>6 DEF Leave, SlotServer, SlotDuty
  <2> QED BY <2>1
<1>7. CASE Return
  <2>1. SlotDuty = "on" /\ SlotDuty' = "off"
    BY <1>7 DEF Return, SupervisorGone, SlotDuty
  <2>2. cmd = Nil /\ proc' = proc
    BY <1>7 DEF Return, SupervisorGone, Inv, Placed
  <2>3. \A p \in Pids : proc[p] = "free" /\ proc'[p] = "free"
    BY <2>2, SupervisorAssumption DEF Inv, Owned
  <2>4. SlotServer = "down" /\ SlotServer' = "down"
    BY <2>3 DEF SlotServer
  <2> QED BY <2>1, <2>4 DEF Slot!Next, Slot!End
<1>8. ASSUME NEW p \in Pids, Boot(p) \/ Wedge(p) \/ Unwedge(p) \/ Crash(p) \/ Die(p)
      PROVE  Slot!Next \/ UNCHANGED Slot!vars
  BY <1>8, <1>2 DEF Boot, Wedge, Unwedge, Crash, Die, ProcStep, ProcState, Running
<1>9. ASSUME NEW p \in Pids, Wait(p) PROVE Slot!Next \/ UNCHANGED Slot!vars
  BY <1>9, <1>2 DEF Wait, ProcState
<1>10. CASE \/ SelectDone \/ SelectExited \/ SelectTimer
            \/ ProbeAborted \/ ProbeAnswered \/ ProbeFailed
            \/ RestartReap \/ Pace \/ SleepCancelled \/ SleepElapsed
            \/ RestartFails \/ ExitReap \/ Tick \/ UNCHANGED vars
  BY <1>1, <1>10 DEF Goto, SelectDone, SelectExited, SelectTimer, ProbeAborted, ProbeAnswered,
     ProbeFailed, RestartReap, ExitReap, Reap, Pace, SleepCancelled, SleepElapsed,
     RestartFails, LaunchFails, Tick, vars
<1> QED
  BY <1>3, <1>4, <1>5, <1>6, <1>7, <1>8, <1>9, <1>10 DEF Next, Supervise, Terminated

(* The supervisor implements the server slot.                                      *)
THEOREM ImplementsSlot == Spec => SlotSpec
BY SlotInit, Invariance, SlotNext, PTL DEF Spec, SlotSpec, Slot!Spec
===============================================================================
