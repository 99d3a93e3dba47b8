-------------------------------- MODULE Stream ---------------------------------
(***************************************************************************)
(* What a client and a server may expect of a connection between them: two  *)
(* directions, in each of which what is received was sent, and the end is    *)
(* reported only once everything sent has been received, unless the          *)
(* connection broke somewhere.  Relay implements it over a chain of relays.  *)
(***************************************************************************)
EXTENDS Naturals

Dirs == {"up", "down"}   \* client to server, server to client

VARIABLES
  sent,      \* sent[d]: units the sender wrote
  ended,     \* ended[d]: the sender has ended its direction
  got,       \* got[d]: units received
  seen,      \* seen[d]: what the receiver knows: "open", "eof" or "error"
  broken     \* the connection broke

vars == <<sent, ended, got, seen, broken>>

Init ==
  /\ sent = [d \in Dirs |-> 0] /\ ended = [d \in Dirs |-> FALSE]
  /\ got = [d \in Dirs |-> 0] /\ seen = [d \in Dirs |-> "open"]
  /\ broken = FALSE

Send(d) ==
  /\ ~ended[d]
  /\ sent' = [sent EXCEPT ![d] = @ + 1]
  /\ UNCHANGED <<ended, got, seen, broken>>

End(d) ==
  /\ ended' = [ended EXCEPT ![d] = TRUE]
  /\ UNCHANGED <<sent, got, seen>>
  /\ broken' \in {broken, TRUE}     \* giving up may also break it

Receive(d) ==
  /\ seen[d] = "open" /\ got[d] < sent[d]
  /\ got' = [got EXCEPT ![d] = @ + 1]
  /\ UNCHANGED <<sent, ended, seen, broken>>

SeeEnd(d) ==
  /\ seen[d] = "open"
  /\ \/ seen' = [seen EXCEPT ![d] = "eof"] /\ (broken \/ (ended[d] /\ got[d] = sent[d]))
     \/ seen' = [seen EXCEPT ![d] = "error"] /\ broken
  /\ UNCHANGED <<sent, ended, got, broken>>

Break == broken' = TRUE /\ UNCHANGED <<sent, ended, got, seen>>

Next == Break \/ \E d \in Dirs : Send(d) \/ End(d) \/ Receive(d) \/ SeeEnd(d)

Spec == Init /\ [][Next]_vars
===============================================================================
