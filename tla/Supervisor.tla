------------------------------ MODULE Supervisor ------------------------------
(***************************************************************************)
(* One worker's server supervisor (internal/worker/supervise.go) together    *)
(* with the part of worker.Run that starts and stops it.  The actors are the *)
(* supervisor goroutine (run, restart, launch, kill), the goroutine inside   *)
(* each launch that waits for its process, the worker's main goroutine, the  *)
(* server processes, and time.                                               *)
(*                                                                           *)
(* Pids are process slots: a slot is reused once its process is reaped.  The *)
(* number of restarts (s.restarts) is only logged and is left out.           *)
(***************************************************************************)
EXTENDS Naturals

CONSTANTS
  Pids,        \* process slots
  Nil,         \* s.cmd = nil
  Threshold,   \* s.threshold
  MinUptime    \* s.minUptime, in ticks of the clock

ASSUME SupervisorAssumption ==
  /\ Nil \notin Pids
  /\ Threshold \in Nat \ {0}
  /\ MinUptime \in Nat

VARIABLES
  proc,        \* proc[p]: state of the process in slot p
  exited,      \* exited[p]: the result of Wait is in that launch's channel
  cmd,         \* s.cmd; s.exited is the channel of the same launch
  misses,      \* failed probes in a row, as run counts them
  uptime,      \* time since s.launched, up to MinUptime
  pc,          \* where the supervisor goroutine is
  ctxDone,     \* supCtx has been cancelled
  main,        \* where worker.Run is
  failed,      \* history: probes of this server failed in a row, up to Threshold
  sinceStart   \* history: time since s.start was last called, up to MinUptime

vars == <<proc, exited, cmd, misses, uptime, pc, ctxDone, main, failed, sinceStart>>
ghosts == <<failed, sinceStart>>

Running == {"starting", "serving", "wedged"}
ProcState == Running \cup {"killed", "zombie", "free"}

PC == {"unborn", "select", "probe", "restart.kill", "restart.reap", "pace",
       "sleep", "launch", "exit.kill", "exit.reap", "done"}

TypeOK ==
  /\ proc \in [Pids -> ProcState]
  /\ exited \in [Pids -> BOOLEAN]
  /\ cmd \in Pids \cup {Nil}
  /\ misses \in 0 .. Threshold - 1
  /\ uptime \in 0 .. MinUptime
  /\ pc \in PC
  /\ ctxDone \in BOOLEAN
  /\ main \in {"starting", "guarding", "stopping", "returned"}
  /\ failed \in 0 .. Threshold
  /\ sinceStart \in 0 .. MinUptime

Init ==
  /\ proc = [p \in Pids |-> "free"]
  /\ exited = [p \in Pids |-> FALSE]
  /\ cmd = Nil
  /\ misses = 0
  /\ uptime = MinUptime          \* s.launched is the zero time
  /\ pc = "unborn"
  /\ ctxDone = FALSE
  /\ main = "starting"
  /\ failed = 0
  /\ sinceStart = MinUptime

-------------------------------------------------------------------------------
(* launch: s.launched is taken before s.start is called, so a start that      *)
(* fails is paced like one that succeeds.                                     *)

UptimeAfterFailOnlyOnSuccess(ok) == IF ok THEN 0 ELSE uptime   \* mutant
UptimeAfterLaunch(ok) == 0

Started(ok) ==
  /\ uptime' = UptimeAfterLaunch(ok)
  /\ sinceStart' = 0

LaunchOk ==
  \E p \in Pids :
    /\ proc[p] = "free"
    /\ Started(TRUE)
    /\ proc' = [proc EXCEPT ![p] = "starting"]
    /\ exited' = [exited EXCEPT ![p] = FALSE]      \* a fresh channel
    /\ cmd' = p
    /\ failed' = 0

LaunchFails ==
  /\ Started(FALSE)
  /\ UNCHANGED <<proc, exited, cmd, failed>>

(* A step that only moves the supervisor on.                                  *)
Goto(from, to) ==
  /\ pc = from
  /\ pc' = to
  /\ UNCHANGED <<proc, exited, cmd, misses, uptime, ctxDone, main, ghosts>>

(* kill, called by restart and deferred by run: signal the current process,   *)
(* if any, then wait on its channel.  A process that is already dead ignores  *)
(* the signal.                                                                *)

KillAndWait(from, waiting, next) ==
  /\ pc = from
  /\ \/ /\ cmd = Nil
        /\ pc' = next
        /\ UNCHANGED proc
     \/ /\ cmd # Nil
        /\ pc' = waiting
        /\ proc' = [proc EXCEPT ![cmd] = IF @ \in Running THEN "killed" ELSE @]
  /\ UNCHANGED <<exited, cmd, misses, uptime, ctxDone, main, ghosts>>

NoReceive == TRUE                                  \* mutant
ExitReceived == exited[cmd]

Reap(waiting, next) ==
  /\ pc = waiting
  /\ ExitReceived
  /\ exited' = [exited EXCEPT ![cmd] = FALSE]
  /\ cmd' = Nil
  /\ pc' = next
  /\ UNCHANGED <<proc, misses, uptime, ctxDone, main, ghosts>>

-------------------------------------------------------------------------------
(* run: the select.  It blocks until one case is ready and chooses freely if  *)
(* both the context and the exit are; the timer can win only if neither was   *)
(* ready before it fired.                                                     *)

ExitReady == cmd # Nil /\ exited[cmd]

SelectDone == ctxDone /\ Goto("select", "exit.kill")

CmdKept == cmd                                     \* mutant
CmdAfterExit == Nil

SelectExited ==
  /\ pc = "select"
  /\ ExitReady
  /\ exited' = [exited EXCEPT ![cmd] = FALSE]
  /\ cmd' = CmdAfterExit
  /\ misses' = 0
  /\ pc' = "restart.kill"
  /\ UNCHANGED <<proc, uptime, ctxDone, main, ghosts>>

SelectTimer == ~ctxDone /\ ~ExitReady /\ Goto("select", "probe")

(* The probe: an answer needs a server that serves; a failure can also be a   *)
(* healthy server that was too slow.                                          *)

MissesKept(answered) == IF answered THEN misses ELSE misses + 1     \* mutant
MissesForgotten(answered) == 0                                      \* mutant
MissesAfter(answered) == IF answered THEN 0 ELSE misses + 1

OneTooMany(m) == m <= Threshold                                     \* mutant
StaysPatient(m) == m < Threshold

ProbeAborted == ctxDone /\ Goto("probe", "exit.kill")

ProbeAnswered ==
  /\ pc = "probe"
  /\ ~ctxDone
  /\ cmd # Nil /\ proc[cmd] = "serving"
  /\ misses' = MissesAfter(TRUE)
  /\ failed' = 0
  /\ pc' = "select"
  /\ UNCHANGED <<proc, exited, cmd, uptime, ctxDone, main, sinceStart>>

ProbeFailed ==
  /\ pc = "probe"
  /\ ~ctxDone
  /\ failed' = IF failed < Threshold THEN failed + 1 ELSE failed
  /\ IF StaysPatient(MissesAfter(FALSE))
     THEN misses' = MissesAfter(FALSE) /\ pc' = "select"
     ELSE misses' = 0 /\ pc' = "restart.kill"
  /\ UNCHANGED <<proc, exited, cmd, uptime, ctxDone, main, sinceStart>>

-------------------------------------------------------------------------------
(* restart: kill, then start again no sooner than MinUptime after the last    *)
(* start, retrying a start that fails.  The context is looked at only while   *)
(* sleeping.                                                                  *)

RestartKill == KillAndWait("restart.kill", "restart.reap", "pace")
RestartReap == Reap("restart.reap", "pace")

AfterPace == IF uptime < MinUptime THEN "sleep" ELSE "launch"

Pace == Goto("pace", AfterPace)

SleepCancelled == ctxDone /\ Goto("sleep", "select")

SleepElapsed == ~ctxDone /\ uptime = MinUptime /\ Goto("sleep", "launch")

RestartOk ==
  /\ pc = "launch"
  /\ LaunchOk
  /\ pc' = "select"
  /\ UNCHANGED <<misses, ctxDone, main>>

RestartFails ==
  /\ pc = "launch"
  /\ LaunchFails
  /\ pc' = "pace"
  /\ UNCHANGED <<misses, ctxDone, main>>

(* The deferred kill when run returns. *)
ExitKillSkipped == Goto("exit.kill", "done")         \* mutant
ExitKill == KillAndWait("exit.kill", "exit.reap", "done")
ExitReap == Reap("exit.reap", "done")

Supervise ==
  \/ SelectDone \/ SelectExited \/ SelectTimer
  \/ ProbeAborted \/ ProbeAnswered \/ ProbeFailed
  \/ RestartKill \/ RestartReap \/ Pace \/ SleepCancelled \/ SleepElapsed
  \/ RestartOk \/ RestartFails
  \/ ExitKill \/ ExitReap

-------------------------------------------------------------------------------
(* worker.Run: the first start is its own, without a retry; the supervisor is *)
(* born with a server to watch.  Leave stands for every way out of the guard  *)
(* loop (Farm says when); the deferred stopSup and <-supDone follow.          *)

StartFirst ==
  /\ main = "starting"
  /\ \/ LaunchOk /\ main' = "guarding" /\ pc' = "select"
     \/ LaunchFails /\ main' = "returned" /\ UNCHANGED pc
  /\ UNCHANGED <<misses, ctxDone>>

NoStopSup == FALSE                                 \* mutant
StopSup == TRUE

Leave ==
  /\ main = "guarding"
  /\ main' = "stopping"
  /\ ctxDone' = StopSup
  /\ UNCHANGED <<proc, exited, cmd, misses, uptime, pc, ghosts>>

NotWaiting == main = "stopping"                    \* mutant
SupervisorGone == main = "stopping" /\ pc = "done"

Return ==
  /\ SupervisorGone
  /\ main' = "returned"
  /\ UNCHANGED <<proc, exited, cmd, misses, uptime, pc, ctxDone, ghosts>>

-------------------------------------------------------------------------------
(* The server processes and the goroutine each launch starts to Wait for one. *)

ProcStep(p, from, to) ==
  /\ proc[p] \in from
  /\ proc' = [proc EXCEPT ![p] = to]
  /\ UNCHANGED <<exited, cmd, misses, uptime, pc, ctxDone, main, ghosts>>

Boot(p)   == ProcStep(p, {"starting"}, "serving")
Wedge(p)  == ProcStep(p, {"serving"}, "wedged")    \* heartbeats, accepts nothing
Unwedge(p) == ProcStep(p, {"wedged"}, "serving")
Crash(p)  == ProcStep(p, Running, "zombie")
Die(p)    == ProcStep(p, {"killed"}, "zombie")

Wait(p) ==
  /\ proc[p] = "zombie"
  /\ proc' = [proc EXCEPT ![p] = "free"]
  /\ exited' = [exited EXCEPT ![p] = TRUE]
  /\ UNCHANGED <<cmd, misses, uptime, pc, ctxDone, main, ghosts>>

Later(t) == IF t < MinUptime THEN t + 1 ELSE t

Tick ==
  /\ uptime < MinUptime \/ sinceStart < MinUptime
  /\ uptime' = Later(uptime)
  /\ sinceStart' = Later(sinceStart)
  /\ UNCHANGED <<proc, exited, cmd, misses, pc, ctxDone, main, failed>>

Terminated == main = "returned" /\ UNCHANGED vars  \* a worker that returned is no deadlock

Next ==
  \/ Supervise \/ StartFirst \/ Leave \/ Return
  \/ \E p \in Pids : Boot(p) \/ Wedge(p) \/ Unwedge(p) \/ Crash(p) \/ Die(p) \/ Wait(p)
  \/ Tick
  \/ Terminated

(* Every goroutine that can run runs, a signalled process dies, time passes    *)
(* and a probe ends (it has a timeout).  A select over two ready cases picks   *)
(* at random, so it does not pass over one of them forever.                    *)
Fairness ==
  /\ WF_vars(Supervise) /\ SF_vars(SelectDone)
  /\ WF_vars(Return)
  /\ \A p \in Pids : WF_vars(Die(p)) /\ WF_vars(Wait(p))
  /\ WF_vars(Tick)

(* What Recovers assumes of the machine: a start that is retried for ever      *)
(* succeeds some day, a server started over and over comes up some day.        *)
Machine ==
  /\ SF_vars(RestartOk)
  /\ \A p \in Pids : SF_vars(Boot(p))

Spec == Init /\ [][Next]_vars
FairSpec == Spec /\ Fairness
HelpfulSpec == FairSpec /\ Machine

-------------------------------------------------------------------------------
(* No two server processes at once: two would fight for port 10501 and for    *)
(* the cache directory.  Rests on kill waiting for the old process.            *)
AtMostOneServer ==
  \A p, q \in Pids : proc[p] # "free" /\ proc[q] # "free" => p = q

(* A worker that has returned leaves no process behind, whichever server was   *)
(* current and wherever the supervisor was when the context ended.             *)
NoOrphan == main = "returned" => \A p \in Pids : proc[p] = "free"

(* While s.cmd is set, either its process still has an exit to report or the   *)
(* report is in the channel, never both: a kill can neither block for good on  *)
(* an exit already received nor take a stale one.                              *)
ExitNotLost ==
  cmd # Nil => (proc[cmd] = "free" <=> exited[cmd])

(* A running server is killed only after Threshold probes of that very server  *)
(* failed in a row, or when the worker leaves.                                 *)
RestartsJustified ==
  [][ \A p \in Pids : proc[p] \in Running /\ proc'[p] = "killed"
        => failed = Threshold \/ ctxDone ]_vars

(* The supervisor never starts a server within MinUptime of the previous       *)
(* attempt, failed attempts included.                                          *)
StartsPaced ==
  [][ pc = "launch" /\ pc' # "launch" => sinceStart = MinUptime ]_vars

(* Whatever happens to the server (it dies, wedges, or cannot be started), a   *)
(* worker that keeps guarding has a serving one again.                         *)
Recovers ==
  main = "guarding" ~> main # "guarding" \/ \E p \in Pids : proc[p] = "serving"

(* Leaving ends: from the moment the context ends the supervisor gets through  *)
(* its kill and the worker returns.                                            *)
StopTerminates == main = "stopping" ~> main = "returned"

-------------------------------------------------------------------------------
(* The inductive invariant behind the safety properties.  Only the process of  *)
(* s.cmd can exist or have an exit to report; where the supervisor is says     *)
(* whether there is one; misses never runs ahead of the probes that failed.    *)

Owned == \A p \in Pids : proc[p] # "free" \/ exited[p] => p = cmd

Placed ==
  /\ pc \in {"restart.reap", "exit.reap"} => cmd # Nil
  /\ pc \in {"unborn", "pace", "sleep", "launch", "done"} => cmd = Nil
  /\ main = "starting" => pc = "unborn"
  /\ main = "returned" => pc \in {"unborn", "done"}
  /\ pc \in {"exit.kill", "exit.reap"} => ctxDone

Counted ==
  /\ misses <= failed
  /\ pc \notin {"select", "probe", "exit.kill", "exit.reap", "done"} => misses = 0
  /\ pc = "restart.kill" /\ cmd # Nil => failed = Threshold

Timed ==
  /\ uptime = sinceStart
  /\ pc = "launch" => uptime = MinUptime

Inv == TypeOK /\ Owned /\ ExitNotLost /\ Placed /\ Counted /\ Timed

-------------------------------------------------------------------------------
(* What the other jobs can see of the worker: an answering, a stuck or no      *)
(* server, and whether the worker is on duty.                                  *)
SlotServer ==
  IF \E p \in Pids : proc[p] = "serving" THEN "up"
  ELSE IF \E p \in Pids : proc[p] = "wedged" THEN "stuck" ELSE "down"

SlotDuty ==
  CASE main = "starting" -> "before"
    [] main \in {"guarding", "stopping"} -> "on"
    [] main = "returned" -> "off"

Slot == INSTANCE ServerSlot WITH
  Workers <- {"self"},
  server <- [w \in {"self"} |-> SlotServer],
  duty <- [w \in {"self"} |-> SlotDuty]

(* The supervisor gives the farm the server slot it is promised.               *)
SlotSpec == Slot!Spec
===============================================================================
