----------------------------- MODULE MCSupervisor -----------------------------
(* Two process slots are enough to hold a server and its successor at once,    *)
(* the only way AtMostOneServer can fail.                                      *)
EXTENDS Supervisor

CONSTANTS p1, p2

MCPids == {p1, p2}
===============================================================================
