------------------------------- MODULE Forwarder --------------------------------
(***************************************************************************)
(* One proxy.Forwarder seen from inside its process: the accept loop, a      *)
(* relay goroutine per connection, and the goroutine that calls Status now   *)
(* and then.  They share atomic counters and no lock.  active, total,         *)
(* dialRetries and dialFails are each added to and printed, never compared,   *)
(* and left out; slowestDial is both raised by the relays and taken by        *)
(* Status.  What a relay copies once its backend is dialed is in Relay.       *)
(*                                                                           *)
(* Forwarders share nothing with each other, so one stands for all of them.  *)
(***************************************************************************)
EXTENDS Naturals

CONSTANTS
  Conns,        \* connections clients make
  Attempts,     \* dialAttempts
  AttemptTime,  \* dialAttemptTimeout
  Pause         \* a failed attempt takes at least this long, unless it is the last

ASSUME ForwarderAssumption ==
  Attempts \in Nat \ {0} /\ AttemptTime \in Nat /\ Pause \in 0 .. AttemptTime

MaxTook == Attempts * AttemptTime

VARIABLES
  listening,    \* the listener is open, as far as Accept has told
  serve,        \* the accept loop: "accept", "pause" or "returned"
  pc,           \* pc[c]: where c's relay is
  tries,        \* tries[c]: failed attempts of c's dial
  took,         \* took[c]: how long c's dial has taken
  old,          \* old[c]: slowestDial as c's relay loaded it
  slowestDial,
  report,       \* Status is at work: "sleep" or "print"
  line,         \* the mark it took
  recorded      \* history: relays that recorded their dial since it took that

acceptVars == <<listening, serve>>
relayVars == <<pc, tries, took, old>>
markVars == <<slowestDial, recorded>>
statusVars == <<report, line>>
vars == <<acceptVars, relayVars, markVars, statusVars>>

Dialed == {"pipe", "closed"}                 \* its dial is recorded

TypeOK ==
  /\ listening \in BOOLEAN
  /\ serve \in {"accept", "pause", "returned"}
  /\ pc \in [Conns -> {"away", "dial", "load", "cas"} \cup Dialed]
  /\ tries \in [Conns -> 0 .. Attempts]
  /\ took \in [Conns -> 0 .. MaxTook]
  /\ old \in [Conns -> 0 .. MaxTook]
  /\ slowestDial \in 0 .. MaxTook
  /\ report \in {"sleep", "print"}
  /\ line \in 0 .. MaxTook
  /\ recorded \subseteq Conns

Init ==
  /\ listening = TRUE /\ serve = "accept"
  /\ pc = [c \in Conns |-> "away"] /\ tries = [c \in Conns |-> 0]
  /\ took = [c \in Conns |-> 0] /\ old = [c \in Conns |-> 0]
  /\ slowestDial = 0 /\ recorded = {}
  /\ report = "sleep" /\ line = 0

Goes(c, from, to) == pc[c] = from /\ pc' = [pc EXCEPT ![c] = to]

-------------------------------------------------------------------------------
(* Serve.                                                                      *)

AcceptOk(c) ==    \* a client has connected
  /\ serve = "accept" /\ listening
  /\ Goes(c, "away", "dial")
  /\ UNCHANGED <<acceptVars, tries, took, old, markVars, statusVars>>

Serve(from, to) ==
  /\ serve = from /\ serve' = to
  /\ UNCHANGED <<relayVars, markVars, statusVars>>

AcceptFails == Serve("accept", "pause") /\ UNCHANGED listening   \* EMFILE, say
AcceptClosed == Serve("accept", "returned") /\ listening' = FALSE
Awake == Serve("pause", "accept") /\ UNCHANGED listening

-------------------------------------------------------------------------------
(* relay and dialRetrying: attempts of duration d, one after the other.        *)

DialOk(c, d) ==
  /\ Goes(c, "dial", "load")
  /\ took' = [took EXCEPT ![c] = @ + d]
  /\ UNCHANGED <<acceptVars, tries, old, markVars, statusVars>>

Spent(d, last) == IF last \/ d >= Pause THEN d ELSE Pause

AnotherAlways(n) == n <= Attempts            \* mutant
Another(n) == n < Attempts

DialFails(c, d) == LET another == Another(tries[c] + 1) IN
  /\ Goes(c, "dial", IF another THEN "dial" ELSE "load")
  /\ tries' = [tries EXCEPT ![c] = @ + 1]
  /\ took' = [took EXCEPT ![c] = @ + Spent(d, ~another)]
  /\ UNCHANGED <<acceptVars, old, markVars, statusVars>>

(* The loop that raises slowestDial: load, compare, swap if nobody came between. *)
Settled(c) == IF tries[c] = Attempts THEN "closed" ELSE "pipe"

LoadMark(c) ==
  /\ old' = [old EXCEPT ![c] = slowestDial]
  /\ IF took[c] <= slowestDial
     THEN Goes(c, "load", Settled(c)) /\ recorded' = recorded \cup {c}
     ELSE Goes(c, "load", "cas") /\ UNCHANGED recorded
  /\ UNCHANGED <<acceptVars, tries, took, slowestDial, statusVars>>

Store(c) ==                                  \* mutant
  /\ Goes(c, "cas", Settled(c))
  /\ slowestDial' = took[c] /\ recorded' = recorded \cup {c}
  /\ UNCHANGED <<acceptVars, tries, took, old, statusVars>>
CompareAndSwap(c) ==
  /\ IF slowestDial = old[c]
     THEN /\ Goes(c, "cas", Settled(c))
          /\ slowestDial' = took[c] /\ recorded' = recorded \cup {c}
     ELSE Goes(c, "cas", "load") /\ UNCHANGED markVars
  /\ UNCHANGED <<acceptVars, tries, took, old, statusVars>>

PipesEnd(c) ==
  /\ Goes(c, "pipe", "closed")
  /\ UNCHANGED <<acceptVars, tries, took, old, markVars, statusVars>>

RelayStep(c) ==
  \/ \E d \in 0 .. AttemptTime : DialOk(c, d) \/ DialFails(c, d)
  \/ LoadMark(c) \/ CompareAndSwap(c)
  \/ PipesEnd(c)

-------------------------------------------------------------------------------
(* Status takes the mark and leaves zero; its caller prints.                    *)

LoadOnly ==                                  \* mutant
  /\ report = "sleep" /\ report' = "print"
  /\ line' = slowestDial
  /\ recorded' = {}
  /\ UNCHANGED <<acceptVars, relayVars, slowestDial>>
SwapMark ==
  /\ report = "sleep" /\ report' = "print"
  /\ line' = slowestDial
  /\ slowestDial' = 0 /\ recorded' = {}
  /\ UNCHANGED <<acceptVars, relayVars>>

PrintedResets ==                             \* mutant
  /\ report = "print" /\ report' = "sleep"
  /\ line' = 0 /\ slowestDial' = 0 /\ recorded' = {}
  /\ UNCHANGED <<acceptVars, relayVars>>
Printed ==
  /\ report = "print" /\ report' = "sleep"
  /\ line' = 0
  /\ UNCHANGED <<acceptVars, relayVars, markVars>>

-------------------------------------------------------------------------------
(* Everything but taking the mark and printing the finished line.               *)
Internal ==
  \/ AcceptFails \/ AcceptClosed \/ Awake
  \/ \E c \in Conns : AcceptOk(c) \/ RelayStep(c)

Next == Internal \/ SwapMark \/ Printed

Spec == Init /\ [][Next]_vars

-------------------------------------------------------------------------------
(* The mark is exactly the slowest of the dials recorded since Status took the  *)
(* last one: no relay's compare-and-swap loop loses a slower dial to another    *)
(* relay's, and none writes back a mark that was already taken.                 *)
MarkIsSlowest ==
  /\ slowestDial \in {0} \cup {took[c] : c \in recorded}
  /\ \A c \in recorded : took[c] <= slowestDial

(* The mark is raised and taken in several steps, by several goroutines, and yet   *)
(* every dial is timed once and every line says the slowest since the line before  *)
(* it: the forwarder implements DialReport.                                       *)
Dials == INSTANCE DialReport WITH
           timed <- {c \in Conns : pc[c] \in Dialed},
           fresh <- {<<c, took[c]>> : c \in recorded}
ReportSpec == Dials!Spec
===============================================================================
