-------------------------------- MODULE Config ----------------------------------
(***************************************************************************)
(* The inputs, as config.loadFrom takes them from the environment, and the   *)
(* names and ports both kinds of job derive from them.                       *)
(*                                                                           *)
(* A numeric input is the set of what it parses to: {} when it is unset or   *)
(* malformed (the code treats the two alike), else {n}.  worker-index is used *)
(* as a number and as a text, so it is both: what it parses to, and whether it *)
(* is spelled plainly, as %d prints a number, or otherwise ("01", "x").  A     *)
(* prefix is a number, 0 being the empty text.                               *)
(***************************************************************************)
EXTENDS Integers

Refused == [mode |-> "refused"]

Empty == 0
OrDefault(v, d) == IF v = Empty THEN d ELSE v
AtoiOr(parsed, d) == IF parsed = {} THEN d ELSE CHOOSE n \in parsed : TRUE

MinUnchecked(min, expected) == min <= expected   \* mutant
MinInRange(min, expected) == min >= 1 /\ min <= expected

(* get: [mode, prefix, runId, expected, min].  The other inputs are taken as     *)
(* they parse and pass through.                                                *)
LoadFrom(get) ==
  LET prefix == OrDefault(get.prefix, get.runId)
      expected == AtoiOr(get.expected, 0)
      min == AtoiOr(get.min, expected)
  IN CASE get.mode \notin {"coordinator", "worker"} \/ prefix = Empty -> Refused
       [] get.mode = "worker" -> [mode |-> "worker", prefix |-> prefix]
       [] expected < 1 \/ ~MinInRange(min, expected) -> Refused
       [] OTHER -> [mode |-> "coordinator", prefix |-> prefix, expected |-> expected, min |-> min]

-------------------------------------------------------------------------------
Decimal(n) == [num |-> {n}, plain |-> TRUE]
NoText == [num |-> {}, plain |-> TRUE]

(* Names: <prefix>-coordinator, and <prefix>-worker-<text> with the text of      *)
(* worker-index as it is; the coordinator's forward prints the number.          *)

CoordinatorName(prefix) == <<prefix, "coordinator", NoText>>
WorkerName(prefix, text) == <<prefix, "worker", text>>
TargetFromZero(prefix, idx) == WorkerName(prefix, Decimal(idx - 1))      \* mutant
ForwardTarget(prefix, idx) == WorkerName(prefix, Decimal(idx))

(* Ports on the coordinator's loopback: the forward's, and the one a worker      *)
(* advertises, from worker-index as a number.                                  *)

WorkerIndex(text) == IF AtoiOr(text.num, 1) >= 1 THEN AtoiOr(text.num, 1) ELSE 1
PublicFromZero(idx) == 10501 + idx           \* mutant
ServerPublicPort(idx) == 10501 + (idx - 1)
ForwardPort(idx) == 10501 + (idx - 1)
===============================================================================
