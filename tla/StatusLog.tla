------------------------------- MODULE StatusLog --------------------------------
(***************************************************************************)
(* The coordinator's status loop (logStatus): Forwarder's Status goroutine   *)
(* hands its lines to the log of LogSink, next to the lines other goroutines  *)
(* log and the scheduler's output, while the step's stdout goes away.         *)
(***************************************************************************)
EXTENDS Forwarder

CONSTANTS LogCalls, CopierCalls, MayFill    \* of LogSink

ASSUME StatusLogAssumption ==
  LogCalls \in Nat /\ CopierCalls \in Nat /\ MayFill \in BOOLEAN

VARIABLES
  hasFile, full, stdout, broken, wpc, calls, kept, process, failures, wasFull,   \* of LogSink
  writing,     \* the log's current call is about the status line
  reported,    \* history: relays whose dials line stands for
  filed        \* history: filed[c]: slowest dial in a filed line that stands for c

Sink == INSTANCE LogSink

sinkVars == <<hasFile, full, stdout, broken, wpc, calls, kept, process, failures, wasFull>>
allVars == <<vars, sinkVars, writing, reported, filed>>

StatusLogTypeOK ==
  /\ TypeOK /\ Sink!TypeOK
  /\ writing \in BOOLEAN
  /\ reported \subseteq Conns
  /\ filed \in [Conns -> 0 .. MaxTook]

StatusLogInit ==
  /\ Init /\ Sink!Init
  /\ writing = FALSE /\ reported = {} /\ filed = [c \in Conns |-> 0]

TakesMark ==      \* Status begins: it stands for all that is recorded now
  /\ SwapMark
  /\ reported' = recorded
  /\ UNCHANGED <<sinkVars, writing, filed>>

LogLine ==        \* log.Printf of the finished line takes the log's mutex
  /\ report = "print" /\ ~writing
  /\ Sink!Call("log") /\ writing' = TRUE
  /\ UNCHANGED <<vars, reported, filed>>

LineDone ==       \* Printf returns
  /\ writing /\ wpc["log"] = "idle"
  /\ writing' = FALSE /\ reported' = {}
  /\ Printed
  /\ UNCHANGED <<sinkVars, filed>>

OtherLine ==      \* of some other goroutine, or of the scheduler
  /\ \/ ~writing /\ Sink!Call("log")
     \/ Sink!Call("copier")
  /\ UNCHANGED <<vars, writing, reported, filed>>

Filed(c) == IF writing /\ kept'["log"] > kept["log"] /\ c \in reported THEN line ELSE filed[c]

SinkStep(w) ==
  /\ Sink!Step(w)
  /\ filed' = [c \in Conns |-> Filed(c)]
  /\ UNCHANGED <<vars, writing, reported>>

Exhausted == calls["log"] = LogCalls /\ UNCHANGED allVars      \* the bound on lines

StatusLogNext ==
  \/ Internal /\ UNCHANGED <<sinkVars, writing, reported, filed>>
  \/ TakesMark \/ LogLine \/ LineDone \/ OtherLine
  \/ \E w \in Sink!Writers : SinkStep(w)
  \/ Sink!Around /\ UNCHANGED <<vars, writing, reported, filed>>
  \/ Exhausted

StatusLogSpec == StatusLogInit /\ [][StatusLogNext]_allVars

-------------------------------------------------------------------------------
(* No slow dial is forgotten: the time of every dial that is over is covered by *)
(* the mark, by the line being made, or by a line in the file, unless there is  *)
(* no file or the disk was full.                                                *)
NoDialForgotten ==
  \A c \in Conns : pc[c] \in Dialed =>
    \/ c \in recorded /\ took[c] <= slowestDial
    \/ c \in reported /\ took[c] <= line
    \/ took[c] <= filed[c]
    \/ ~hasFile \/ wasFull

(* LogSink's properties, with the status lines as one of its users.             *)
FileKeepsAll == Sink!FileKeepsAll
OutlivesStdout == Sink!OutlivesStdout
FewFailures == Sink!FewFailures
===============================================================================
