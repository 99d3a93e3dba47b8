------------------------------- MODULE DialReport -------------------------------
(***************************************************************************)
(* What a reader of a forwarder's status lines may expect of "slowest-dial": *)
(* every connection's dial is timed once, and a line says the longest of the  *)
(* dials timed since the line before it was begun, zero if there were none.   *)
(* There is no mark here: timing a dial is one step, and so is looking at all  *)
(* of them.  Forwarder implements it with one number that all relays raise     *)
(* and Status swaps out.                                                     *)
(***************************************************************************)
EXTENDS Naturals

CONSTANTS Conns, MaxTook

VARIABLES
  timed,       \* connections whose dial has been timed
  fresh,       \* the dials timed since the last line was begun: <<connection, time>>
  report,      \* "sleep", or "print" while a line is made
  line         \* what that line says, zero if there is none

vars == <<timed, fresh, report, line>>

Init == timed = {} /\ fresh = {} /\ report = "sleep" /\ line = 0

Time(c) ==
  /\ c \notin timed /\ timed' = timed \cup {c}
  /\ \E d \in 0 .. MaxTook : fresh' = fresh \cup {<<c, d>>}
  /\ UNCHANGED <<report, line>>

Slowest(d, dials) ==
  /\ d = 0 \/ \E c \in Conns : <<c, d>> \in dials
  /\ \A dial \in dials : dial[2] <= d

Begin ==
  /\ report = "sleep" /\ report' = "print"
  /\ line' \in 0 .. MaxTook /\ Slowest(line', fresh)
  /\ fresh' = {}
  /\ UNCHANGED timed

End ==
  /\ report = "print" /\ report' = "sleep"
  /\ line' = 0
  /\ UNCHANGED <<timed, fresh>>

Next == Begin \/ End \/ \E c \in Conns : Time(c)

Spec == Init /\ [][Next]_vars
===============================================================================
