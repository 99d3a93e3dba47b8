--------------------------------- MODULE Relay ---------------------------------
(***************************************************************************)
(* One connection between a client and a server through a chain of relays    *)
(* (internal/proxy): sccache client - coordinator's forward - worker's       *)
(* exposure - sccache-dist server has two, and so has the way of heartbeats.  *)
(*                                                                           *)
(* Link l joins node l and node l+1; node 0 is the client, nodes 1..N the     *)
(* relays, node N+1 the server.  What a link carries is counted, not named:   *)
(* TCP keeps the order, and a relay only copies.                              *)
(***************************************************************************)
EXTENDS Naturals, FiniteSets

CONSTANTS
  N,           \* relays in the chain
  Attempts,    \* dialAttempts
  MaxUp, MaxDown,   \* bound: units the client and the server send
  Window,      \* units a link holds before its writer blocks
  Faults       \* what may go wrong: subset of {"dial", "abandon", "break"}

ASSUME RelayAssumption ==
  /\ N \in Nat \ {0} /\ Attempts \in Nat \ {0}
  /\ MaxUp \in Nat /\ MaxDown \in Nat /\ Window \in Nat \ {0}
  /\ Faults \subseteq {"dial", "abandon", "break"}

Links == 0 .. N
Relays == 1 .. N
Dirs == {"up", "down"}

VARIABLES
  link,        \* link[l]: "none" (not dialed yet), "open" or "reset"
  wr, rd,      \* wr[l][d], rd[l][d]: units written to and read from link l
  fin,         \* fin[l][d]: the writer has closed this direction
  deaf,        \* deaf[l][d]: the reader has closed the connection
  relay,       \* relay[k]: "idle", "dial", "copy" or "closed"
  tries,       \* tries[k]: failed attempts of a dial that has not succeeded
  pipe,        \* pipe[k][d]: that pipe goroutine is still copying
  saw          \* saw[d]: what the endpoint at the end of d has read: "open", "eof", "error"

linkVars == <<link, wr, rd, fin, deaf>>
relayVars == <<relay, tries, pipe>>
vars == <<linkVars, relayVars, saw>>

In(k, d) == IF d = "up" THEN k - 1 ELSE k      \* the link relay k's pipe d reads
Out(k, d) == IF d = "up" THEN k ELSE k - 1     \* and the one it writes
First(d) == IF d = "up" THEN 0 ELSE N          \* where d's endpoint writes
Last(d) == IF d = "up" THEN N ELSE 0           \* and where it is read
MaxSend(d) == IF d = "up" THEN MaxUp ELSE MaxDown
Reverse(d) == IF d = "up" THEN "down" ELSE "up"

TypeOK ==
  /\ link \in [Links -> {"none", "open", "reset"}]
  /\ wr \in [Links -> [Dirs -> 0 .. MaxUp + MaxDown]]
  /\ rd \in [Links -> [Dirs -> 0 .. MaxUp + MaxDown]]
  /\ fin \in [Links -> [Dirs -> BOOLEAN]]
  /\ deaf \in [Links -> [Dirs -> BOOLEAN]]
  /\ relay \in [Relays -> {"idle", "dial", "copy", "closed"}]
  /\ tries \in [Relays -> 0 .. Attempts]
  /\ pipe \in [Relays -> [Dirs -> BOOLEAN]]
  /\ saw \in [Dirs -> {"open", "eof", "error"}]

Init ==
  /\ link = [l \in Links |-> IF l = 0 THEN "open" ELSE "none"]
  /\ wr = [l \in Links |-> [d \in Dirs |-> 0]] /\ rd = wr
  /\ fin = [l \in Links |-> [d \in Dirs |-> FALSE]] /\ deaf = fin
  /\ relay = [k \in Relays |-> "idle"]
  /\ tries = [k \in Relays |-> 0]
  /\ pipe = [k \in Relays |-> [d \in Dirs |-> FALSE]]
  /\ saw = [d \in Dirs |-> "open"]

-------------------------------------------------------------------------------
(* A connection, as the two nodes at its ends use it.                          *)

Unread(l, d) == rd[l][d] < wr[l][d]
AtEof(l, d) == link[l] = "open" /\ fin[l][d] /\ ~Unread(l, d)

Write(l, d) ==    \* into a connection its reader has closed, it resets it
  /\ link[l] = "open" /\ ~fin[l][d]
  /\ wr[l][d] - rd[l][d] < Window
  /\ IF deaf[l][d] THEN link' = [link EXCEPT ![l] = "reset"] /\ UNCHANGED wr
                   ELSE wr' = [wr EXCEPT ![l][d] = @ + 1] /\ UNCHANGED link
  /\ UNCHANGED <<rd, fin, deaf>>

Read(l, d) ==
  /\ link[l] = "open" /\ Unread(l, d) /\ ~deaf[l][d]
  /\ rd' = [rd EXCEPT ![l][d] = @ + 1]
  /\ UNCHANGED <<link, wr, fin, deaf>>

(* Close the set ends of <<l, d>>: the node that writes d to l closes l         *)
(* altogether; if it leaves something unread the connection is reset.           *)
Close(ends) ==
  /\ fin' = [l \in Links |-> [d \in Dirs |-> fin[l][d] \/ <<l, d>> \in ends]]
  /\ deaf' = [l \in Links |-> [d \in Dirs |-> deaf[l][d] \/ <<l, Reverse(d)>> \in ends]]
  /\ link' = [l \in Links |->
       IF link[l] = "open" /\ \E d \in Dirs : <<l, d>> \in ends /\ Unread(l, Reverse(d))
       THEN "reset" ELSE link[l]]
  /\ UNCHANGED <<wr, rd>>

-------------------------------------------------------------------------------
(* The client and the server.                                                  *)

Send(d) ==
  /\ wr[First(d)][d] < MaxSend(d)
  /\ Write(First(d), d)
  /\ UNCHANGED <<relayVars, saw>>

HalfClose(d) ==
  /\ link[First(d)] = "open" /\ ~fin[First(d)][d]
  /\ fin' = [fin EXCEPT ![First(d)][d] = TRUE]
  /\ UNCHANGED <<link, wr, rd, deaf, relayVars, saw>>

Abandon(d) ==     \* the endpoint that sends d gives the connection up
  /\ "abandon" \in Faults
  /\ link[First(d)] = "open" /\ ~deaf[First(d)][Reverse(d)]
  /\ Close({<<First(d), d>>})
  /\ UNCHANGED <<relayVars, saw>>

Receive(d) == saw[d] = "open" /\ Read(Last(d), d) /\ UNCHANGED <<relayVars, saw>>

SeeEnd(d) ==
  /\ saw[d] = "open" /\ ~deaf[Last(d)][d]
  /\ \/ AtEof(Last(d), d) /\ saw' = [saw EXCEPT ![d] = "eof"]
     \/ link[Last(d)] = "reset" /\ saw' = [saw EXCEPT ![d] = "error"]
  /\ UNCHANGED <<linkVars, relayVars>>

Breaks(l) ==
  /\ "break" \in Faults
  /\ link[l] = "open"
  /\ link' = [link EXCEPT ![l] = "reset"]
  /\ UNCHANGED <<wr, rd, fin, deaf, relayVars, saw>>

-------------------------------------------------------------------------------
(* Relay k.                                                                    *)

Accept(k) ==
  /\ relay[k] = "idle" /\ link[k - 1] # "none"
  /\ relay' = [relay EXCEPT ![k] = "dial"]
  /\ UNCHANGED <<linkVars, tries, pipe, saw>>

DialOk(k) ==
  /\ relay[k] = "dial"
  /\ relay' = [relay EXCEPT ![k] = "copy"]
  /\ pipe' = [pipe EXCEPT ![k] = [d \in Dirs |-> TRUE]]
  /\ link' = [link EXCEPT ![k] = "open"]
  /\ tries' = [tries EXCEPT ![k] = 0]
  /\ UNCHANGED <<wr, rd, fin, deaf, saw>>

RetriesOnceMore(n) == n < Attempts + 1        \* mutant
Retries(n) == n < Attempts

DialFails(k) ==   \* after the last attempt the accepted connection is closed
  /\ "dial" \in Faults
  /\ relay[k] = "dial"
  /\ tries' = [tries EXCEPT ![k] = @ + 1]
  /\ IF Retries(tries'[k])
     THEN UNCHANGED <<linkVars, relay>>
     ELSE relay' = [relay EXCEPT ![k] = "closed"] /\ Close({<<k - 1, "down">>})
  /\ UNCHANGED <<pipe, saw>>

Holding(k, d) == wr[Out(k, d)][d] < rd[In(k, d)][d]   \* read, not yet written

CopyIn(k, d) ==
  /\ pipe[k][d] /\ ~Holding(k, d)
  /\ Read(In(k, d), d)
  /\ UNCHANGED <<relayVars, saw>>

CopyOut(k, d) ==
  /\ pipe[k][d] /\ Holding(k, d)
  /\ Write(Out(k, d), d)
  /\ UNCHANGED <<relayVars, saw>>

SourceEnded(k, d) ==
  \/ AtEof(In(k, d), d) \/ link[In(k, d)] = "reset"
CopyOverEarly(k, d) == SourceEnded(k, d)              \* mutant
CopyOver(k, d) ==     \* io.Copy returns
  IF Holding(k, d) THEN link[Out(k, d)] = "reset" ELSE SourceEnded(k, d)

EofSwallowed(k, d) == fin                             \* mutant
CloseWrite(k, d) == [fin EXCEPT ![Out(k, d)][d] = TRUE]

PipeEnds(k, d) ==
  /\ pipe[k][d] /\ CopyOver(k, d)
  /\ fin' = CloseWrite(k, d)
  /\ pipe' = [pipe EXCEPT ![k][d] = FALSE]
  /\ UNCHANGED <<link, wr, rd, deaf, relay, tries, saw>>

BothPipes(k) == \A d \in Dirs : ~pipe[k][d]

RelayEnds(k) ==
  /\ relay[k] = "copy" /\ BothPipes(k)
  /\ relay' = [relay EXCEPT ![k] = "closed"]
  /\ Close({<<k - 1, "down">>, <<k, "up">>})
  /\ UNCHANGED <<tries, pipe, saw>>

Dial(k) == DialOk(k) \/ DialFails(k)
Pipe(k, d) == CopyIn(k, d) \/ CopyOut(k, d) \/ PipeEnds(k, d)

Finished ==
  /\ \A k \in Relays : relay[k] \in {"idle", "closed"}
  /\ UNCHANGED vars

Next ==
  \/ \E d \in Dirs : Send(d) \/ HalfClose(d) \/ Abandon(d) \/ Receive(d) \/ SeeEnd(d)
  \/ \E l \in Links : Breaks(l)
  \/ \E k \in Relays : Accept(k) \/ Dial(k) \/ RelayEnds(k) \/ \E d \in Dirs : Pipe(k, d)
  \/ Finished

(* The relays' goroutines run; the endpoints read what comes (the server's      *)
(* accept thread does nothing else), but need not send or close anything.       *)
Fairness ==
  /\ \A k \in Relays :
       /\ WF_vars(Accept(k)) /\ WF_vars(Dial(k)) /\ WF_vars(RelayEnds(k))
       /\ \A d \in Dirs : WF_vars(Pipe(k, d))
  /\ \A d \in Dirs : WF_vars(Receive(d)) /\ WF_vars(SeeEnd(d))

Spec == Init /\ [][Next]_vars
FairSpec == Spec /\ Fairness

-------------------------------------------------------------------------------
Broken == (\E l \in Links : link[l] = "reset") \/ (\E k \in Relays : ~Retries(tries[k]))

(* End to end the chain is a stream: what is read was sent, and an endpoint     *)
(* sees the other's end only after everything it sent, unless a link was reset  *)
(* or a relay could not dial.                                                   *)
End2End == INSTANCE Stream WITH
  sent <- [d \in Dirs |-> wr[First(d)][d]],
  ended <- [d \in Dirs |-> fin[First(d)][d]],
  got <- [d \in Dirs |-> rd[Last(d)][d]],
  seen <- saw,
  broken <- Broken

StreamSpec == End2End!Spec

(* An endpoint that ends its direction, or gives the connection up, is noticed   *)
(* at the other end: nothing there waits for ever on a closed connection.        *)
CloseNoticed ==
  \A d \in Dirs : fin[First(d)][d]
    ~> \/ saw[d] # "open" \/ deaf[Last(d)][d]
       \/ \E k \in Relays : relay[k] = "closed" /\ link[k] = "none"   \* no other end

(* Once both endpoints have ended their direction every relay gets out of its    *)
(* copy loop and closes both its connections.                                    *)
NoRelayLeft ==
  (\A d \in Dirs : fin[First(d)][d])
    ~> \A k \in Relays : relay[k] = "closed"
===============================================================================
