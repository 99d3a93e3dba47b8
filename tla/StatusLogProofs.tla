---------------------------- MODULE StatusLogProofs ---------------------------
(* Proofs about StatusLog, for any connections, dial times and number of lines.   *)
EXTENDS StatusLog, ForwarderProofs

InFile(w) == IF wpc[w] = "file" THEN 1 ELSE 0

(* The log: a call that got past the file has its line there; a writer that failed   *)
(* on stdout has set broken or is about to, and gets past the check no more.          *)
SinkInv ==
  /\ wpc \in [Sink!Writers -> {"idle", "file", "check", "stdout", "break", "failed"}]
  /\ calls \in [Sink!Writers -> Nat] /\ kept \in [Sink!Writers -> Nat]
  /\ failures \in [Sink!Writers -> Nat]
  /\ process = "running"
  /\ hasFile /\ ~wasFull => \A w \in Sink!Writers : kept[w] + InFile(w) = calls[w]
  /\ \A w \in Sink!Writers : wpc[w] = "failed" => wasFull /\ w # "log"
  /\ \A w \in Sink!Writers :
       IF wpc[w] = "stdout" THEN failures[w] = 0
       ELSE failures[w] = 0 \/ (failures[w] = 1 /\ (broken \/ wpc[w] = "break"))

(* The line: it covers the dials it stands for, and is in the file once the call     *)
(* that logs it is past the file.                                                 *)
LineInv ==
  /\ reported \subseteq Conns /\ filed \in [Conns -> Nat] /\ line \in Nat
  /\ writing \in BOOLEAN
  /\ \A c \in reported : pc[c] \in Dialed /\ took[c] <= line
  /\ report # "print" => reported = {} /\ ~writing
  /\ writing /\ hasFile /\ ~wasFull /\ wpc["log"] # "file" => \A c \in reported : line <= filed[c]
  /\ \A c \in Conns : pc[c] \in Dialed =>
       c \in recorded \/ c \in reported \/ took[c] <= filed[c] \/ ~hasFile \/ wasFull

LogInv == Inv /\ SinkInv /\ LineInv

-------------------------------------------------------------------------------
LEMMA TwoWriters == Sink!Writers = {"log", "copier"}
BY DEF Sink!Writers

(* The status loop adds nothing to what the forwarder does: it implements            *)
(* Forwarder's specification, so the mark is exact here too.                        *)
LEMMA StatusLogStep == [StatusLogNext]_allVars => [Next]_vars
BY DEF StatusLogNext, allVars, TakesMark, LogLine, LineDone, OtherLine, SinkStep, Exhausted, Next

THEOREM StatusLogForwards == StatusLogSpec => Spec
<1>1. StatusLogInit => Init
  BY DEF StatusLogInit
<1> QED BY <1>1, StatusLogStep, PTL DEF StatusLogSpec, Spec

(* The mark is exactly the slowest dial that Status has not taken yet.               *)
THEOREM StatusLogMarkExact == StatusLogSpec => []MarkIsSlowest
BY StatusLogForwards, MarkExact, PTL

(* Every dial is timed once, and every status line says the slowest since the last.   *)
THEOREM StatusLogReports == StatusLogSpec => ReportSpec
BY StatusLogForwards, ReportsAsOne, PTL

(* It is one of the users LogSink has in mind: it never calls the log while a call    *)
(* of the log package is under way, and leaves its insides alone.                    *)
THEOREM StatusLogUsesLog == StatusLogSpec => Sink!Spec
<1>1. StatusLogInit => Sink!Init
  BY DEF StatusLogInit
<1>2. ASSUME [StatusLogNext]_allVars PROVE [Sink!Next]_(Sink!vars)
  <2> USE TwoWriters DEF Sink!Next, Sink!vars, Sink!outVars, Sink!diskVars
  <2>1. CASE UNCHANGED sinkVars
    BY <2>1 DEF sinkVars
  <2>2. CASE LogLine \/ OtherLine
    BY <2>2 DEF LogLine, OtherLine
  <2>3. CASE (\E w \in Sink!Writers : SinkStep(w)) \/ Sink!Around
    BY <2>3 DEF SinkStep
  <2> QED BY <1>2, <2>1, <2>2, <2>3
          DEF StatusLogNext, TakesMark, LineDone, Exhausted, allVars
<1> QED BY <1>1, <1>2, PTL DEF StatusLogSpec, Sink!Spec

-------------------------------------------------------------------------------
(* The invariant.                                                              *)

LEMMA LogInitInv == StatusLogInit => LogInv
<1> SUFFICES ASSUME StatusLogInit PROVE LogInv
  OBVIOUS
<1>1. Inv
  BY InitInv DEF StatusLogInit
<1>2. SinkInv
  <2>1. /\ wpc = [w \in Sink!Writers |-> "idle"]
        /\ calls = [w \in Sink!Writers |-> 0] /\ kept = [w \in Sink!Writers |-> 0]
        /\ process = "running" /\ failures = [w \in Sink!Writers |-> 0]
    BY DEF StatusLogInit, Sink!Init
  <2> QED BY <2>1 DEF SinkInv, InFile
<1>3. LineInv
  BY DEF StatusLogInit, Init, LineInv, Dialed
<1> QED BY <1>1, <1>2, <1>3 DEF LogInv

LEMMA CallStep ==
  ASSUME SinkInv, NEW w \in Sink!Writers, Sink!Call(w)
  PROVE  SinkInv'
<1> USE TwoWriters DEF SinkInv, InFile, Sink!outVars, Sink!diskVars
<1>1. /\ wpc[w] = "idle" /\ wpc' = [wpc EXCEPT ![w] = Sink!Entry]
      /\ calls' = [calls EXCEPT ![w] = @ + 1]
      /\ UNCHANGED <<stdout, broken, failures, hasFile, full, kept, wasFull, process>>
  BY DEF Sink!Call, Sink!Goes
<1>2. Sink!Entry = IF hasFile THEN "file" ELSE "check"
  BY DEF Sink!Entry
<1> QED BY <1>1, <1>2

LEMMA WriterStep ==
  ASSUME SinkInv, NEW w \in Sink!Writers, Sink!Step(w)
  PROVE  SinkInv'
<1> USE TwoWriters DEF SinkInv, InFile, Sink!outVars, Sink!diskVars, Sink!Goes
<1>1. CASE Sink!WriteFile(w)
  BY <1>1 DEF Sink!WriteFile
<1>2. CASE Sink!WriteFileFails(w)
  BY <1>2 DEF Sink!WriteFileFails, Sink!AfterError
<1>3. CASE Sink!CheckBroken(w)
  BY <1>3 DEF Sink!CheckBroken
<1>4. CASE Sink!WriteStdout(w)
  BY <1>4 DEF Sink!WriteStdout
<1>5. CASE Sink!WriteStdoutFails(w)
  BY <1>5 DEF Sink!WriteStdoutFails, Sink!Swallowed, Sink!SigPipe
<1>6. CASE Sink!Break(w)
  BY <1>6 DEF Sink!Break, Sink!SetBroken
<1> QED BY <1>1, <1>2, <1>3, <1>4, <1>5, <1>6 DEF Sink!Step

LEMMA AroundStep == ASSUME SinkInv, Sink!Around PROVE SinkInv'
BY TwoWriters
DEF SinkInv, InFile, Sink!Around, Sink!StdoutGoes, Sink!DiskFills, Sink!outVars, Sink!diskVars

(* A dial that is over stays over, its time stays, and it was recorded as it ended.   *)
LEMMA InternalStep ==
  ASSUME Inv, Internal
  PROVE  /\ UNCHANGED statusVars /\ recorded \subseteq recorded'
         /\ \A c \in Conns : pc[c] \in Dialed => pc'[c] \in Dialed /\ took'[c] = took[c]
         /\ \A c \in Conns : pc'[c] \in Dialed => pc[c] \in Dialed \/ c \in recorded'
<1> USE DEF Inv, DialTimes, Goes, Dialed, markVars
<1>1. CASE AcceptFails \/ AcceptClosed \/ Awake
  BY <1>1 DEF AcceptFails, AcceptClosed, Awake, Serve, relayVars
<1>2. ASSUME NEW c \in Conns, AcceptOk(c) PROVE UNCHANGED <<statusVars, recorded, took>>
                                                /\ pc' = [pc EXCEPT ![c] = "dial"] /\ pc[c] = "away"
  BY <1>2 DEF AcceptOk
<1>3. ASSUME NEW c \in Conns, RelayStep(c)
      PROVE  /\ UNCHANGED statusVars /\ recorded \subseteq recorded'
             /\ \A b \in Conns : pc[b] \in Dialed => pc'[b] \in Dialed /\ took'[b] = took[b]
             /\ \A b \in Conns : pc'[b] \in Dialed => pc[b] \in Dialed \/ b \in recorded'
  <2>1. CASE \E d \in 0 .. AttemptTime : DialOk(c, d) \/ DialFails(c, d)
    BY <2>1 DEF DialOk, DialFails
  <2>2. CASE LoadMark(c)
    BY <2>2 DEF LoadMark
  <2>3. CASE CompareAndSwap(c)
    BY <2>3 DEF CompareAndSwap
  <2>4. CASE PipesEnd(c)
    BY <2>4 DEF PipesEnd
  <2> QED BY <1>3, <2>1, <2>2, <2>3, <2>4 DEF RelayStep
<1> QED BY <1>1, <1>2, <1>3 DEF Internal

LEMMA LogNextInv == LogInv /\ [StatusLogNext]_allVars => LogInv'
<1> SUFFICES ASSUME LogInv, [StatusLogNext]_allVars PROVE LogInv'
  OBVIOUS
<1> USE DEF LogInv
<1>0. Inv'
  BY StatusLogStep, StepInv
<1>1. CASE Internal /\ UNCHANGED <<sinkVars, writing, reported, filed>>
  <2>1. SinkInv'
    BY <1>1 DEF sinkVars, SinkInv, InFile
  <2>2. LineInv'
    BY <1>1, InternalStep DEF LineInv, sinkVars, statusVars
  <2> QED BY <1>0, <2>1, <2>2
<1>2. CASE TakesMark
  <2>1. /\ report = "sleep" /\ report' = "print" /\ line' = slowestDial /\ reported' = recorded
        /\ UNCHANGED <<sinkVars, pc, took, writing, filed>>
    BY <1>2 DEF TakesMark, SwapMark, relayVars
  <2>2. SinkInv'
    BY <2>1 DEF sinkVars, SinkInv, InFile
  <2>3. LineInv'
    BY <2>1 DEF LineInv, sinkVars, Inv, DialTimes, Recorded, MarkIsSlowest
  <2> QED BY <1>0, <2>2, <2>3
<1>3. CASE LogLine
  <2>1. /\ report = "print" /\ ~writing /\ writing' = TRUE /\ Sink!Call("log")
        /\ UNCHANGED <<vars, reported, filed>>
    BY <1>3 DEF LogLine
  <2>2. SinkInv' /\ wpc' = [wpc EXCEPT !["log"] = Sink!Entry] /\ UNCHANGED <<hasFile, wasFull>>
    BY <2>1, TwoWriters, CallStep DEF Sink!Call, Sink!Goes, Sink!diskVars
  <2>3. hasFile => wpc'["log"] = "file"
    BY <2>2, TwoWriters DEF SinkInv, Sink!Entry
  <2>4. LineInv'
    BY <2>1, <2>2, <2>3 DEF LineInv, vars, relayVars, statusVars, markVars
  <2> QED BY <1>0, <2>2, <2>4
<1>4. CASE LineDone
  <2>1. /\ writing /\ wpc["log"] = "idle" /\ writing' = FALSE /\ reported' = {}
        /\ report' = "sleep" /\ line' = 0
        /\ UNCHANGED <<sinkVars, pc, took, recorded, filed>>
    BY <1>4 DEF LineDone, Printed, relayVars, markVars
  <2>2. SinkInv'
    BY <2>1 DEF sinkVars, SinkInv, InFile
  <2>3. ASSUME hasFile, ~wasFull, NEW c \in reported PROVE took[c] <= filed[c]
    BY <2>1, <2>3 DEF LineInv, Inv, DialTimes
  <2>4. LineInv'
    BY <2>1, <2>3 DEF LineInv, sinkVars
  <2> QED BY <1>0, <2>2, <2>4
<1>5. CASE OtherLine
  <2>1. PICK w \in Sink!Writers : Sink!Call(w) /\ (w = "log" => ~writing)
    BY <1>5, TwoWriters DEF OtherLine
  <2>2. SinkInv' /\ wpc' = [wpc EXCEPT ![w] = Sink!Entry] /\ UNCHANGED <<hasFile, wasFull>>
        /\ UNCHANGED <<vars, writing, reported, filed>>
    BY <1>5, <2>1, CallStep DEF Sink!Call, Sink!Goes, Sink!diskVars, OtherLine
  <2>3. writing => wpc'["log"] = wpc["log"]
    BY <2>1, <2>2, TwoWriters DEF SinkInv
  <2>4. LineInv'
    BY <2>2, <2>3 DEF LineInv, vars, relayVars, statusVars, markVars
  <2> QED BY <1>0, <2>2, <2>4
<1>6. ASSUME NEW w \in Sink!Writers, SinkStep(w) PROVE LogInv'
  <2>1. SinkInv' /\ Sink!Step(w) /\ filed' = [c \in Conns |-> Filed(c)]
        /\ UNCHANGED <<vars, writing, reported>>
    BY <1>6, WriterStep DEF SinkStep
  <2>2. UNCHANGED <<pc, took, line, report, recorded>>
    BY <2>1 DEF vars, relayVars, statusVars, markVars
  <2>3. hasFile' = hasFile /\ (wasFull => wasFull')
    BY <2>1 DEF Sink!Step, Sink!WriteFile, Sink!WriteFileFails, Sink!CheckBroken, Sink!WriteStdout,
                Sink!WriteStdoutFails, Sink!Break, Sink!diskVars
  <2>4. kept'["log"] \in Nat /\ kept["log"] \in Nat
    BY <2>1, TwoWriters DEF SinkInv
  <2>5. hasFile /\ ~wasFull' /\ wpc["log"] = "file" /\ wpc'["log"] # "file" => kept'["log"] > kept["log"]
    <3>1. CASE Sink!WriteFile(w)
      BY <3>1, TwoWriters DEF SinkInv, Sink!WriteFile, Sink!Goes
    <3>2. CASE Sink!WriteFileFails(w)
      BY <3>2, Zenon DEF Sink!WriteFileFails
    <3>3. CASE wpc[w] # "file" /\ wpc' = [wpc EXCEPT ![w] = wpc'[w]]
      BY <3>3, TwoWriters DEF SinkInv
    <3> QED BY <2>1, <3>1, <3>2, <3>3
            DEF Sink!Step, Sink!CheckBroken, Sink!WriteStdout, Sink!WriteStdoutFails, Sink!Break,
                Sink!Goes, SinkInv
  <2>6. wpc["log"] # "file" => wpc'["log"] # "file"
    BY <2>1, TwoWriters
    DEF SinkInv, Sink!Step, Sink!WriteFile, Sink!WriteFileFails, Sink!CheckBroken, Sink!WriteStdout,
        Sink!WriteStdoutFails, Sink!Break, Sink!Goes, Sink!AfterError, Sink!Swallowed
  <2>7. filed' \in [Conns -> Nat] /\ \A c \in reported :
          (writing /\ hasFile /\ ~wasFull' /\ wpc'["log"] # "file") => line <= filed'[c]
    BY <2>1, <2>3, <2>4, <2>5 DEF Filed, LineInv
  <2>8. \A c \in Conns : filed'[c] = filed[c] \/ (c \in reported /\ filed'[c] = line)
    BY <2>1 DEF Filed, LineInv
  <2>9. LineInv'
    BY <2>1, <2>2, <2>3, <2>7, <2>8 DEF LineInv
  <2> QED BY <1>0, <2>1, <2>9
<1>7. CASE Sink!Around /\ UNCHANGED <<vars, writing, reported, filed>>
  <2>1. SinkInv' /\ UNCHANGED <<hasFile, wasFull, wpc>>
    BY <1>7, AroundStep DEF Sink!Around, Sink!StdoutGoes, Sink!DiskFills, Sink!diskVars
  <2>2. LineInv'
    BY <1>7, <2>1 DEF LineInv, vars, relayVars, statusVars, markVars
  <2> QED BY <1>0, <2>1, <2>2
<1>8. CASE UNCHANGED allVars
  BY <1>0, <1>8 DEF allVars, sinkVars, SinkInv, InFile, LineInv, vars, relayVars, statusVars, markVars
<1> QED BY <1>1, <1>2, <1>3, <1>4, <1>5, <1>6, <1>7, <1>8 DEF StatusLogNext, Exhausted

(* What the theorems below rest on.                                              *)
THEOREM LogInvariance == StatusLogSpec => []LogInv
BY LogInitInv, LogNextInv, PTL DEF StatusLogSpec

(* The time of no dial is lost between relays, mark, line and log file.              *)
THEOREM DialsAreFiled == StatusLogSpec => []NoDialForgotten
<1>1. LogInv => NoDialForgotten
  BY DEF LogInv, Inv, MarkIsSlowest, LineInv, NoDialForgotten
<1> QED BY LogInvariance, <1>1, PTL

(* The file keeps every line, whatever becomes of stdout.                            *)
THEOREM FileIsWhole == StatusLogSpec => []FileKeepsAll
<1>1. LogInv => FileKeepsAll
  BY DEF LogInv, SinkInv, InFile, FileKeepsAll, Sink!FileKeepsAll
<1> QED BY LogInvariance, <1>1, PTL

(* A closed stdout ends neither the process nor the copying.                         *)
THEOREM StdoutOutlived == StatusLogSpec => []OutlivesStdout
<1>1. LogInv => OutlivesStdout
  BY DEF LogInv, SinkInv, OutlivesStdout, Sink!OutlivesStdout
<1> QED BY LogInvariance, <1>1, PTL

(* At most one write of each writer fails on a closed stdout.                        *)
THEOREM FailuresAreFew == StatusLogSpec => []FewFailures
<1>1. LogInv => FewFailures
  BY DEF LogInv, SinkInv, FewFailures, Sink!FewFailures
<1> QED BY LogInvariance, <1>1, PTL

-------------------------------------------------------------------------------
(* Types.  No writer keeps more lines than it made calls, and one that is in a call, *)
(* or had a write fail, has made one.                                             *)
SinkTypes ==
  /\ Sink!TypeOK
  /\ \A w \in Sink!Writers :
       /\ kept[w] + InFile(w) <= calls[w]
       /\ wpc[w] # "idle" \/ failures[w] > 0 => calls[w] >= 1

LEMMA CallTypes ==
  ASSUME SinkTypes, NEW w \in Sink!Writers, Sink!Call(w)
  PROVE  SinkTypes'
<1>1. LogCalls \in Nat /\ CopierCalls \in Nat /\ Sink!MaxCalls(w) <= LogCalls + CopierCalls
  BY StatusLogAssumption DEF Sink!MaxCalls
<1>2. /\ wpc[w] = "idle" /\ wpc' = [wpc EXCEPT ![w] = Sink!Entry]
      /\ calls[w] < Sink!MaxCalls(w) /\ calls' = [calls EXCEPT ![w] = @ + 1]
      /\ UNCHANGED <<stdout, broken, failures, hasFile, full, kept, wasFull, process>>
  BY DEF Sink!Call, Sink!Goes, Sink!outVars, Sink!diskVars
<1>3. Sink!MaxCalls(w) \in Nat
  BY <1>1 DEF Sink!MaxCalls
<1>4. calls' \in [Sink!Writers -> 0 .. LogCalls + CopierCalls] /\ calls'[w] = calls[w] + 1
  BY <1>1, <1>2, <1>3 DEF SinkTypes, Sink!TypeOK
<1>5. Sink!Entry = IF hasFile THEN "file" ELSE "check"
  BY DEF Sink!Entry
<1> QED BY <1>1, <1>2, <1>4, <1>5 DEF SinkTypes, Sink!TypeOK, InFile

LEMMA WriterTypes ==
  ASSUME SinkInv, SinkTypes, NEW w \in Sink!Writers, Sink!Step(w)
  PROVE  SinkTypes'
<1>0. LogCalls \in Nat /\ CopierCalls \in Nat
  BY StatusLogAssumption
<1> USE <1>0 DEF SinkTypes, Sink!TypeOK, InFile, Sink!outVars, Sink!diskVars, Sink!Goes
<1>1. CASE Sink!WriteFile(w)
  BY <1>1 DEF Sink!WriteFile
<1>2. CASE Sink!WriteFileFails(w)
  BY <1>2 DEF Sink!WriteFileFails, Sink!AfterError
<1>3. CASE Sink!CheckBroken(w)
  BY <1>3 DEF Sink!CheckBroken
<1>4. CASE Sink!WriteStdout(w)
  BY <1>4 DEF Sink!WriteStdout
<1>5. CASE Sink!WriteStdoutFails(w)
  <2>1. failures[w] = 0 /\ calls[w] >= 1
    BY <1>5 DEF Sink!WriteStdoutFails, SinkInv
  <2> QED BY <1>5, <2>1 DEF Sink!WriteStdoutFails, Sink!Swallowed, Sink!SigPipe
<1>6. CASE Sink!Break(w)
  BY <1>6 DEF Sink!Break, Sink!SetBroken
<1> QED BY <1>1, <1>2, <1>3, <1>4, <1>5, <1>6 DEF Sink!Step

StatusLogTypes ==
  /\ TypeOK /\ SinkTypes
  /\ writing \in BOOLEAN /\ filed \in [Conns -> 0 .. MaxTook]

LEMMA StatusLogTypeStep ==
  LogInv /\ StatusLogTypes /\ TypeOK' /\ [StatusLogNext]_allVars => StatusLogTypes'
<1> SUFFICES ASSUME LogInv, StatusLogTypes, TypeOK', [StatusLogNext]_allVars
             PROVE  SinkTypes' /\ writing' \in BOOLEAN /\ filed' \in [Conns -> 0 .. MaxTook]
  BY DEF StatusLogTypes
<1> USE DEF StatusLogTypes
<1>0. ASSUME UNCHANGED sinkVars PROVE SinkTypes'
  BY <1>0 DEF sinkVars, SinkTypes, Sink!TypeOK, InFile
<1>1. CASE Internal /\ UNCHANGED <<sinkVars, writing, reported, filed>>
  BY <1>0, <1>1
<1>2. CASE TakesMark
  BY <1>0, <1>2 DEF TakesMark
<1>3. CASE LogLine
  BY <1>3, CallTypes, TwoWriters DEF LogLine
<1>4. CASE LineDone
  BY <1>0, <1>4 DEF LineDone
<1>5. CASE OtherLine
  BY <1>5, CallTypes, TwoWriters DEF OtherLine
<1>6. ASSUME NEW w \in Sink!Writers, SinkStep(w)
      PROVE  SinkTypes' /\ writing' \in BOOLEAN /\ filed' \in [Conns -> 0 .. MaxTook]
  <2>1. SinkTypes' /\ writing' \in BOOLEAN
    BY <1>6, WriterTypes DEF SinkStep, LogInv
  <2>2. \A c \in Conns : Filed(c) \in 0 .. MaxTook
    BY DEF Filed, TypeOK
  <2> QED BY <1>6, <2>1, <2>2 DEF SinkStep
<1>7. CASE Sink!Around /\ UNCHANGED <<vars, writing, reported, filed>>
  <2>1. SinkTypes'
    BY <1>7 DEF Sink!Around, Sink!StdoutGoes, Sink!DiskFills, Sink!outVars, Sink!diskVars,
                SinkTypes, Sink!TypeOK, InFile
  <2> QED BY <1>7, <2>1
<1>8. CASE UNCHANGED allVars
  BY <1>0, <1>8 DEF allVars
<1> QED BY <1>1, <1>2, <1>3, <1>4, <1>5, <1>6, <1>7, <1>8 DEF StatusLogNext, Exhausted

(* The forwarder's and the log's variables keep their types.                        *)
THEOREM StatusLogTypeCorrect == StatusLogSpec => []StatusLogTypeOK
<1>1. StatusLogInit => Init
  BY DEF StatusLogInit
<1>2. StatusLogSpec => []TypeOK
  BY <1>1, StatusLogStep, ForwarderTypeCorrect, PTL DEF StatusLogSpec, Spec
<1>3. StatusLogInit /\ TypeOK => StatusLogTypes
  <2> SUFFICES ASSUME StatusLogInit, TypeOK PROVE StatusLogTypes
    OBVIOUS
  <2>1. /\ hasFile \in BOOLEAN /\ full = FALSE /\ wasFull = FALSE
        /\ stdout = "open" /\ broken = FALSE /\ process = "running"
    BY DEF StatusLogInit, Sink!Init
  <2>2. /\ wpc = [w \in Sink!Writers |-> "idle"] /\ calls = [w \in Sink!Writers |-> 0]
        /\ kept = [w \in Sink!Writers |-> 0] /\ failures = [w \in Sink!Writers |-> 0]
    BY DEF StatusLogInit, Sink!Init
  <2>3. 0 \in 0 .. LogCalls + CopierCalls /\ 0 \in 0 .. MaxTook
    BY StatusLogAssumption, Budgets
  <2>4. SinkTypes
    <3>1. stdout \in {"open", "gone"} /\ process \in {"running", "killed"}
      BY <2>1
    <3>2. full \in BOOLEAN /\ wasFull \in BOOLEAN /\ broken \in BOOLEAN /\ hasFile \in BOOLEAN
      BY <2>1, Zenon
    <3>3. Sink!TypeOK
      BY <2>2, <2>3, <3>1, <3>2 DEF Sink!TypeOK
    <3> QED BY <2>2, <3>3 DEF SinkTypes, InFile
  <2>5. writing \in BOOLEAN /\ filed \in [Conns -> 0 .. MaxTook]
    BY <2>3 DEF StatusLogInit
  <2> QED BY <2>4, <2>5 DEF StatusLogTypes
<1>4. LogInv /\ StatusLogTypes => StatusLogTypeOK
  BY DEF StatusLogTypes, SinkTypes, StatusLogTypeOK, LogInv, LineInv
<1> QED BY <1>2, <1>3, <1>4, LogInvariance, StatusLogTypeStep, PTL DEF StatusLogSpec
===============================================================================
