------------------------------ MODULE ServerSlot ------------------------------
(***************************************************************************)
(* What the rest of the farm may assume of the sccache-dist server of each  *)
(* worker, whatever happens inside the supervisor: while the worker is on   *)
(* duty there is at most one server, it comes up, may stop answering and may *)
(* go down; a worker that is off duty has none.  Supervisor implements this  *)
(* interface for one worker; Farm is built on it for all of them.            *)
(***************************************************************************)
CONSTANT Workers

VARIABLES
  server,    \* server[w]: "down", "up" (answering) or "stuck" (heartbeats only)
  duty       \* duty[w]: "before", "on" or "off"

TypeOK ==
  /\ server \in [Workers -> {"down", "up", "stuck"}]
  /\ duty \in [Workers -> {"before", "on", "off"}]

Init ==
  /\ server = [w \in Workers |-> "down"]
  /\ duty = [w \in Workers |-> "before"]

Begin(w) ==    \* the first start of the server succeeded
  /\ duty[w] = "before"
  /\ duty' = [duty EXCEPT ![w] = "on"]
  /\ UNCHANGED server

Change(w, from, to) ==
  /\ duty[w] = "on"
  /\ server[w] \in from
  /\ server' = [server EXCEPT ![w] = to]
  /\ UNCHANGED duty

Boot(w)  == Change(w, {"down"}, "up")
Jam(w)   == Change(w, {"up"}, "stuck")
Unjam(w) == Change(w, {"stuck"}, "up")
Drop(w)  == Change(w, {"up", "stuck"}, "down")

End(w) ==      \* the worker leaves (or never got a server): nothing may be running
  /\ duty[w] # "off"
  /\ server[w] = "down"
  /\ duty' = [duty EXCEPT ![w] = "off"]
  /\ UNCHANGED server

Next == \E w \in Workers :
  Begin(w) \/ Boot(w) \/ Jam(w) \/ Unjam(w) \/ Drop(w) \/ End(w)

vars == <<server, duty>>

Spec == Init /\ [][Next]_vars
===============================================================================
