-------------------------------- MODULE LogSink ---------------------------------
(***************************************************************************)
(* Where the forwarder's log goes (openLog): to a file and to the stdout of  *)
(* the step that spawned it, which it outlives.  Two writers use it at once: *)
(* the log package, which serialises its own callers, and the goroutine that *)
(* copies the scheduler's output.  Each call goes through the MultiWriter:   *)
(* the file first, then stdoutUntilBroken.                                   *)
(***************************************************************************)
EXTENDS Naturals

CONSTANTS
  LogCalls,    \* bound: calls the log package makes
  CopierCalls, \* bound: calls the copying goroutine makes
  MayFill      \* the disk may become full

Writers == {"log", "copier"}
MaxCalls(w) == IF w = "log" THEN LogCalls ELSE CopierCalls

VARIABLES
  hasFile,     \* the log file could be opened
  full,        \* the disk is full
  stdout,      \* the step's stdout takes writes: "open" or "gone"
  broken,      \* stdoutUntilBroken.broken
  wpc,         \* wpc[w]: where w's call of Write is, or "failed": w got an error and stopped
  calls,       \* calls[w]: calls w has made
  kept,        \* kept[w]: lines of w in the file
  process,     \* "running", or "killed" by SIGPIPE
  failures,    \* history: failures[w]: writes of w to stdout that failed
  wasFull      \* history: a line was lost to a full disk

outVars == <<stdout, broken, failures>>
diskVars == <<hasFile, full, kept, wasFull>>
vars == <<outVars, diskVars, wpc, calls, process>>

TypeOK ==
  /\ hasFile \in BOOLEAN /\ full \in BOOLEAN /\ wasFull \in BOOLEAN
  /\ stdout \in {"open", "gone"} /\ broken \in BOOLEAN
  /\ wpc \in [Writers -> {"idle", "file", "check", "stdout", "break", "failed"}]
  /\ calls \in [Writers -> 0 .. LogCalls + CopierCalls]
  /\ kept \in [Writers -> 0 .. LogCalls + CopierCalls]
  /\ process \in {"running", "killed"}
  /\ failures \in [Writers -> 0 .. LogCalls + CopierCalls]

Init ==
  /\ hasFile \in BOOLEAN /\ full = FALSE /\ wasFull = FALSE
  /\ stdout = "open" /\ broken = FALSE
  /\ wpc = [w \in Writers |-> "idle"]
  /\ calls = [w \in Writers |-> 0] /\ kept = [w \in Writers |-> 0]
  /\ process = "running" /\ failures = [w \in Writers |-> 0]

Goes(w, from, to) == process = "running" /\ wpc[w] = from /\ wpc' = [wpc EXCEPT ![w] = to]

-------------------------------------------------------------------------------
(* One call of Write.                                                          *)

BrokenDropsAll == IF hasFile /\ ~broken THEN "file" ELSE "check"     \* mutant
Entry == IF hasFile THEN "file" ELSE "check"

Call(w) ==
  /\ calls[w] < MaxCalls(w)
  /\ Goes(w, "idle", Entry)
  /\ calls' = [calls EXCEPT ![w] = @ + 1]
  /\ UNCHANGED <<outVars, diskVars, process>>

WriteFile(w) ==
  /\ ~full /\ Goes(w, "file", "check")
  /\ kept' = [kept EXCEPT ![w] = @ + 1]
  /\ UNCHANGED <<outVars, hasFile, full, wasFull, calls, process>>

(* The MultiWriter returns the error at once.  The log package ignores it;      *)
(* io.Copy of the scheduler's output ends with it.                              *)
AfterError(w) == IF w = "log" THEN "idle" ELSE "failed"

WriteFileFails(w) ==
  /\ full /\ Goes(w, "file", AfterError(w))
  /\ wasFull' = TRUE
  /\ UNCHANGED <<outVars, hasFile, full, kept, calls, process>>

CheckBroken(w) ==
  /\ Goes(w, "check", IF broken THEN "idle" ELSE "stdout")
  /\ UNCHANGED <<outVars, diskVars, calls, process>>

WriteStdout(w) ==
  /\ stdout = "open" /\ Goes(w, "stdout", "idle")
  /\ UNCHANGED <<outVars, diskVars, calls, process>>

Swallowed(w) == "break"
Deadly == "killed"                           \* mutant
SigPipe == "running"                         \* signal.Ignore

WriteStdoutFails(w) ==
  /\ stdout = "gone" /\ Goes(w, "stdout", Swallowed(w))
  /\ failures' = [failures EXCEPT ![w] = @ + 1]
  /\ process' = SigPipe
  /\ UNCHANGED <<stdout, broken, diskVars, calls>>

StaysUnbroken == broken                      \* mutant
SetBroken == TRUE

Break(w) ==
  /\ Goes(w, "break", "idle")
  /\ broken' = SetBroken
  /\ UNCHANGED <<stdout, failures, diskVars, calls, process>>

Step(w) ==
  \/ WriteFile(w) \/ WriteFileFails(w)
  \/ CheckBroken(w) \/ WriteStdout(w) \/ WriteStdoutFails(w) \/ Break(w)

-------------------------------------------------------------------------------
(* The step ends and its stdout with it (a container's exec stream); the disk   *)
(* fills up.                                                                    *)
StdoutGoes ==
  /\ stdout = "open" /\ stdout' = "gone"
  /\ UNCHANGED <<broken, failures, diskVars, wpc, calls, process>>

DiskFills ==
  /\ MayFill /\ hasFile /\ ~full /\ full' = TRUE
  /\ UNCHANGED <<outVars, hasFile, kept, wasFull, wpc, calls, process>>

Around == StdoutGoes \/ DiskFills

Next == Around \/ \E w \in Writers : Call(w) \/ Step(w)

Spec == Init /\ [][Next]_vars

-------------------------------------------------------------------------------
(* The file keeps everything: whatever becomes of stdout, before, during or     *)
(* after a call, every finished call has its line in the file, unless there is  *)
(* no file or the disk was full.                                                *)
FileKeepsAll ==
  hasFile /\ ~wasFull =>
    \A w \in Writers : wpc[w] \notin {"file"} => kept[w] = calls[w]

(* A closed stdout stops nothing: not the process, and not the copying of the   *)
(* scheduler's output, which only a full disk ends.                             *)
OutlivesStdout ==
  /\ process = "running"
  /\ \A w \in Writers : wpc[w] = "failed" => wasFull

(* Once stdout is gone at most one write of each writer fails: the flag is set  *)
(* only after a failure, so the two may both be past the check.                 *)
FewFailures == \A w \in Writers : failures[w] <= 1
===============================================================================
