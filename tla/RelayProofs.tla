------------------------------ MODULE RelayProofs -----------------------------
(* Proofs about Relay, for chains of any length, any window, any amount sent and  *)
(* any faults.                                                                   *)
EXTENDS Relay, TLAPS

(* What flows along a direction only gets less from one place to the next.        *)
Flow ==
  \A d \in Dirs :
    /\ \A l \in Links : rd[l][d] <= wr[l][d] /\ wr[l][d] <= wr[First(d)][d]
    /\ \A k \in Relays : wr[Out(k, d)][d] <= rd[In(k, d)][d]
    /\ wr[First(d)][d] <= MaxSend(d)

(* A relay that does not copy yet has dialed nothing and has attempts left; a pipe  *)
(* that is over has passed on the end of its direction.                           *)
RelayInv ==
  \A k \in Relays :
    /\ relay[k] \in {"idle", "dial"} => tries[k] < Attempts /\ link[k] = "none"
    /\ relay[k] = "copy" => \A d \in Dirs : pipe[k][d] \/ fin[Out(k, d)][d]

(* A direction ends on a link, unless something broke, only when its sender has     *)
(* ended it and everything it sent has reached that link.  Stated of each link      *)
(* and the sender's, it needs no induction along the chain.                        *)
EndInv ==
  \A d \in Dirs, l \in Links :
    fin[l][d] => Broken \/ (fin[First(d)][d] /\ wr[l][d] = wr[First(d)][d])

Inv == TypeOK /\ Flow /\ RelayInv /\ EndInv

-------------------------------------------------------------------------------
LEMMA Places ==
  /\ \A d \in Dirs : First(d) \in Links /\ Last(d) \in Links /\ First(d) # Last(d)
  /\ \A d \in Dirs : Reverse(d) \in Dirs /\ MaxSend(d) \in 0 .. MaxUp + MaxDown
  /\ \A k \in Relays : k \in Links /\ k - 1 \in Links /\ k - 1 # N /\ k # 0
  /\ \A k \in Relays, d \in Dirs :
       /\ In(k, d) \in Links /\ Out(k, d) \in Links /\ In(k, d) # Out(k, d)
       /\ In(k, d) # Last(d) /\ Out(k, d) # First(d)
       /\ \A m \in Relays : (In(k, d) = In(m, d) => k = m) /\ (Out(k, d) = Out(m, d) => k = m)
BY RelayAssumption DEF Dirs, First, Last, Links, Relays, In, Out, Reverse, MaxSend

(* A close only adds ends, and may reset links that were open.                    *)
LEMMA Closing ==
  ASSUME TypeOK, NEW ends, Close(ends)
  PROVE  /\ fin' \in [Links -> [Dirs -> BOOLEAN]] /\ deaf' \in [Links -> [Dirs -> BOOLEAN]]
         /\ link' \in [Links -> {"none", "open", "reset"}]
         /\ \A l \in Links : link'[l] = link[l] \/ (link[l] = "open" /\ link'[l] = "reset")
         /\ \A l \in Links, d \in Dirs : fin'[l][d] <=> fin[l][d] \/ <<l, d>> \in ends
         /\ UNCHANGED <<wr, rd>>
<1>1. fin' \in [Links -> [Dirs -> BOOLEAN]] /\ deaf' \in [Links -> [Dirs -> BOOLEAN]]
  BY DEF Close
<1>2. link' \in [Links -> {"none", "open", "reset"}]
      /\ \A l \in Links : link'[l] = link[l] \/ (link[l] = "open" /\ link'[l] = "reset")
  BY DEF Close, TypeOK
<1>3. \A l \in Links, d \in Dirs : fin'[l][d] <=> fin[l][d] \/ <<l, d>> \in ends
  BY DEF Close
<1> QED BY <1>1, <1>2, <1>3 DEF Close

LEMMA Counts ==
  ASSUME TypeOK
  PROVE  \A l \in Links, d \in Dirs : wr[l][d] \in Nat /\ rd[l][d] \in Nat /\ MaxSend(d) \in Nat
BY RelayAssumption DEF TypeOK, MaxSend

LEMMA RelayInitInv == Init => Inv
<1> SUFFICES ASSUME Init PROVE Inv
  OBVIOUS
<1>1. TypeOK
  <2>1. wr \in [Links -> [Dirs -> 0 .. MaxUp + MaxDown]] /\ rd = wr /\ tries \in [Relays -> 0 .. Attempts]
    BY RelayAssumption DEF Init
  <2>2. fin \in [Links -> [Dirs -> BOOLEAN]] /\ deaf = fin /\ pipe \in [Relays -> [Dirs -> BOOLEAN]]
    BY DEF Init
  <2> QED BY <2>1, <2>2 DEF Init, TypeOK
<1>2. Flow
  BY Places, RelayAssumption DEF Init, Flow, MaxSend
<1>3. RelayInv
  BY Places, RelayAssumption DEF Init, RelayInv
<1>4. EndInv
  BY Places DEF Init, EndInv
<1> QED BY <1>1, <1>2, <1>3, <1>4 DEF Inv

(* A connection that broke stays broken.                                         *)
LEMMA BrokenStays ==
  ASSUME TypeOK, TypeOK', Broken,
         \A l \in Links : link[l] = "reset" => link'[l] = "reset",
         \A k \in Relays : tries[k] >= Attempts => tries'[k] >= Attempts
  PROVE  Broken'
<1>1. CASE \E l \in Links : link[l] = "reset"
  BY <1>1 DEF Broken
<1>2. CASE \E k \in Relays : ~Retries(tries[k])
  <2>1. PICK k \in Relays : ~Retries(tries[k])
    BY <1>2
  <2>2. tries[k] \in Nat /\ tries'[k] \in Nat /\ Attempts \in Nat
    BY RelayAssumption DEF TypeOK
  <2>3. ~Retries(tries'[k])
    BY <2>1, <2>2 DEF Retries
  <2> QED BY <2>3 DEF Broken
<1> QED BY <1>1, <1>2 DEF Broken

(* What a step must do for EndInv: ended directions stay as they are at their       *)
(* sender, and a link's end is old, or due to a break, or justified anew.           *)
LEMMA EndKept ==
  ASSUME EndInv, Broken => Broken',
         \A d \in Dirs : fin[First(d)][d] => fin'[First(d)][d] /\ wr'[First(d)][d] = wr[First(d)][d],
         \A d \in Dirs, l \in Links : fin'[l][d] =>
           \/ fin[l][d] /\ wr'[l][d] = wr[l][d]
           \/ Broken'
           \/ fin'[First(d)][d] /\ wr'[l][d] = wr'[First(d)][d]
  PROVE  EndInv'
<1> SUFFICES ASSUME NEW d \in Dirs, NEW l \in Links, fin'[l][d]
             PROVE  Broken' \/ (fin'[First(d)][d] /\ wr'[l][d] = wr'[First(d)][d])
  BY DEF EndInv, First
<1>1. CASE fin[l][d] /\ wr'[l][d] = wr[l][d]
  <2>1. Broken \/ (fin[First(d)][d] /\ wr[l][d] = wr[First(d)][d])
    BY <1>1 DEF EndInv
  <2> QED BY <1>1, <2>1
<1> QED BY <1>1

(* One unit more on link l: somebody wrote it, or the write reset the link.         *)
LEMMA Writing ==
  ASSUME TypeOK, NEW l \in Links, NEW d \in Dirs, Write(l, d), wr[l][d] < MaxUp + MaxDown
  PROVE  /\ ~fin[l][d] /\ UNCHANGED <<rd, fin, deaf>>
         /\ \/ /\ \A m \in Links, c \in Dirs :
                    wr'[m][c] = IF m = l /\ c = d THEN wr[m][c] + 1 ELSE wr[m][c]
               /\ link' = link
            \/ wr' = wr /\ link'[l] = "reset"
         /\ \A m \in Links : link'[m] = link[m] \/ (link[m] = "open" /\ link'[m] = "reset")
         /\ link' \in [Links -> {"none", "open", "reset"}]
         /\ wr' \in [Links -> [Dirs -> 0 .. MaxUp + MaxDown]]
<1>1. /\ ~fin[l][d] /\ UNCHANGED <<rd, fin, deaf>>
      /\ link' = link \/ link' = [link EXCEPT ![l] = "reset"]
      /\ link[l] = "open"
  BY DEF Write
<1>2. /\ \A m \in Links : link'[m] = link[m] \/ (link[m] = "open" /\ link'[m] = "reset")
      /\ link' \in [Links -> {"none", "open", "reset"}]
  BY <1>1 DEF TypeOK
<1>3. CASE wr' = [wr EXCEPT ![l][d] = @ + 1] /\ link' = link
  <2>1. wr[l][d] + 1 \in 0 .. MaxUp + MaxDown
    BY RelayAssumption DEF TypeOK
  <2>2. wr' = [wr EXCEPT ![l] = [wr[l] EXCEPT ![d] = wr[l][d] + 1]]
    BY <1>3
  <2>3. [wr[l] EXCEPT ![d] = wr[l][d] + 1] \in [Dirs -> 0 .. MaxUp + MaxDown]
    BY <2>1 DEF TypeOK
  <2>4. wr' \in [Links -> [Dirs -> 0 .. MaxUp + MaxDown]]
    BY <2>2, <2>3 DEF TypeOK
  <2>5. \A m \in Links, c \in Dirs :
          wr'[m][c] = IF m = l /\ c = d THEN wr[m][c] + 1 ELSE wr[m][c]
    BY <2>2 DEF TypeOK
  <2> QED BY <1>1, <1>2, <1>3, <2>4, <2>5
<1>4. CASE wr' = wr /\ link' = [link EXCEPT ![l] = "reset"]
  BY <1>1, <1>2, <1>4 DEF TypeOK
<1> QED BY <1>3, <1>4 DEF Write

-------------------------------------------------------------------------------
(* The ways a step can touch a connection.                                     *)

(* A write by the sender within its bound, or by a relay of what it holds.         *)
LEMMA WriteStep ==
  ASSUME Inv, NEW l \in Links, NEW d \in Dirs, Write(l, d), UNCHANGED <<relay, tries, pipe, saw>>,
         l = First(d) => wr[l][d] < MaxSend(d),
         l # First(d) => wr[l][d] < wr[First(d)][d],
         \A k \in Relays : l = Out(k, d) => wr[l][d] < rd[In(k, d)][d]
  PROVE  Inv'
<1> USE DEF Inv
<1>1. First(d) \in Links /\ wr[First(d)][d] <= MaxSend(d) /\ MaxSend(d) <= MaxUp + MaxDown
  BY Places, RelayAssumption DEF Flow
<1>2. wr[l][d] < MaxUp + MaxDown
  BY <1>1, Counts, RelayAssumption
<1>3. /\ ~fin[l][d] /\ UNCHANGED <<rd, fin, deaf>>
      /\ \/ /\ \A m \in Links, c \in Dirs :
                 wr'[m][c] = IF m = l /\ c = d THEN wr[m][c] + 1 ELSE wr[m][c]
            /\ link' = link
         \/ wr' = wr /\ link'[l] = "reset"
      /\ \A m \in Links : link'[m] = link[m] \/ (link[m] = "open" /\ link'[m] = "reset")
      /\ link' \in [Links -> {"none", "open", "reset"}]
      /\ wr' \in [Links -> [Dirs -> 0 .. MaxUp + MaxDown]]
  BY <1>1, <1>2, Writing
<1>4. TypeOK'
  BY <1>1, <1>3 DEF TypeOK
<1>5. Broken => Broken'
  BY <1>1, <1>3, <1>4, BrokenStays
<1>6. Flow'
  <2>1. CASE wr' = wr
    BY <1>3, <2>1 DEF Flow
  <2>2. CASE \A m \in Links, c \in Dirs :
               wr'[m][c] = IF m = l /\ c = d THEN wr[m][c] + 1 ELSE wr[m][c]
    <3>1. ASSUME NEW c \in Dirs, NEW m \in Links
          PROVE  rd[m][c] <= wr'[m][c] /\ wr'[m][c] <= wr'[First(c)][c]
      <4>1. First(c) \in Links /\ rd[m][c] <= wr[m][c] /\ wr[m][c] <= wr[First(c)][c]
        BY Places DEF Flow
      <4> QED BY <1>1, <2>2, <4>1, Counts
    <3>2. ASSUME NEW c \in Dirs, NEW k \in Relays
          PROVE  wr'[Out(k, c)][c] <= rd[In(k, c)][c]
      <4>1. Out(k, c) \in Links /\ In(k, c) \in Links /\ wr[Out(k, c)][c] <= rd[In(k, c)][c]
        BY Places DEF Flow
      <4> QED BY <2>2, <4>1, Counts
    <3>3. ASSUME NEW c \in Dirs PROVE wr'[First(c)][c] <= MaxSend(c)
      <4>1. First(c) \in Links /\ wr[First(c)][c] <= MaxSend(c)
        BY Places DEF Flow
      <4> QED BY <1>1, <2>2, <4>1, Counts
    <3> QED BY <1>3, <3>1, <3>2, <3>3 DEF Flow, First, In, Out
  <2> QED BY <1>3, <2>1, <2>2
<1>7. RelayInv'
  BY <1>1, <1>3, Places DEF RelayInv, Out
<1>8. EndInv'
  <2>1. \A c \in Dirs : fin[First(c)][c] => wr'[First(c)][c] = wr[First(c)][c]
    BY <1>3, Places
  <2>2. \A c \in Dirs, m \in Links : fin[m][c] => wr'[m][c] = wr[m][c]
    BY <1>3
  <2> QED BY <1>3, <1>5, <2>1, <2>2, EndKept
<1> QED BY <1>4, <1>6, <1>7, <1>8
(* A read of what is there.                                                      *)
LEMMA ReadStep ==
  ASSUME Inv, NEW l \in Links, NEW d \in Dirs, Read(l, d), UNCHANGED <<relay, tries, pipe, saw>>
  PROVE  Inv'
<1> USE DEF Inv
<1>1. rd[l][d] < wr[l][d] /\ UNCHANGED <<link, wr, fin, deaf>>
  BY DEF Read, Unread
<1>2. rd' = [rd EXCEPT ![l] = [rd[l] EXCEPT ![d] = rd[l][d] + 1]]
  BY DEF Read
<1>3. rd[l][d] + 1 \in 0 .. MaxUp + MaxDown
  BY <1>1, RelayAssumption DEF TypeOK
<1>4. [rd[l] EXCEPT ![d] = rd[l][d] + 1] \in [Dirs -> 0 .. MaxUp + MaxDown]
  BY <1>3 DEF TypeOK
<1>5. rd' \in [Links -> [Dirs -> 0 .. MaxUp + MaxDown]]
  BY <1>2, <1>4 DEF TypeOK
<1>6. \A m \in Links, c \in Dirs :
        rd'[m][c] = IF m = l /\ c = d THEN rd[m][c] + 1 ELSE rd[m][c]
  BY <1>2 DEF TypeOK
<1>7. TypeOK'
  BY <1>1, <1>5 DEF TypeOK
<1>8. Flow'
  <2>1. \A m \in Links, c \in Dirs : rd[m][c] <= rd'[m][c] /\ rd'[m][c] <= wr[m][c]
    BY <1>1, <1>6, Counts DEF Flow
  <2>2. ASSUME NEW c \in Dirs, NEW k \in Relays PROVE wr[Out(k, c)][c] <= rd'[In(k, c)][c]
    <3>1. Out(k, c) \in Links /\ In(k, c) \in Links /\ wr[Out(k, c)][c] <= rd[In(k, c)][c]
      BY Places DEF Flow
    <3> QED BY <1>6, <3>1, Counts
  <2> QED BY <1>1, <2>1, <2>2 DEF Flow, First, In, Out
<1>9. RelayInv'
  BY <1>1 DEF RelayInv, Out
<1>10. EndInv'
  BY <1>1 DEF EndInv, Broken, First
<1> QED BY <1>7, <1>8, <1>9, <1>10

(* A close by a sender, or by a relay whose pipes are over or which breaks.         *)
LEMMA CloseStep ==
  ASSUME Inv, NEW ends, Close(ends), Broken => Broken',
         \A l \in Links, d \in Dirs : <<l, d>> \in ends =>
           l = First(d) \/ fin[l][d] \/ Broken',
         relay' \in [Relays -> {"idle", "dial", "copy", "closed"}],
         tries' \in [Relays -> 0 .. Attempts], UNCHANGED <<pipe, saw>>
  PROVE  TypeOK' /\ Flow' /\ EndInv'
<1> USE DEF Inv
<1>1. TypeOK'
  BY Closing DEF TypeOK
<1>2. Flow'
  BY Closing DEF Flow
<1>3. EndInv'
  BY Closing, Places, EndKept
<1> QED BY <1>1, <1>2, <1>3

-------------------------------------------------------------------------------
(* One step for each action.                                                   *)

LEMMA EndpointStep ==
  ASSUME Inv, NEW d \in Dirs, Send(d) \/ HalfClose(d) \/ Abandon(d) \/ Receive(d) \/ SeeEnd(d)
  PROVE  Inv'
<1> USE DEF Inv
<1>1. CASE Send(d)
  <2>1. First(d) \in Links /\ Write(First(d), d) /\ wr[First(d)][d] < MaxSend(d)
        /\ UNCHANGED <<relay, tries, pipe, saw>>
    BY <1>1, Places DEF Send, relayVars
  <2> QED BY <2>1, Places, WriteStep
<1>2. CASE HalfClose(d)
  <2>1. fin' = [fin EXCEPT ![First(d)] = [fin[First(d)] EXCEPT ![d] = TRUE]]
        /\ UNCHANGED <<link, wr, rd, deaf, relay, tries, pipe, saw>>
    BY <1>2 DEF HalfClose, relayVars
  <2>2. [fin[First(d)] EXCEPT ![d] = TRUE] \in [Dirs -> BOOLEAN]
    BY Places DEF TypeOK
  <2>3. TypeOK'
    BY <2>1, <2>2 DEF TypeOK
  <2>4. \A l \in Links, c \in Dirs : fin'[l][c] <=> fin[l][c] \/ (l = First(d) /\ c = d)
    BY <2>1, Places DEF TypeOK
  <2>5. Broken <=> Broken'
    BY <2>1 DEF Broken
  <2>6. EndInv'
    BY <2>1, <2>4, <2>5, Places, EndKept
  <2>7. Flow'
    BY <2>1 DEF Flow, First, In, Out
  <2>8. RelayInv'
    BY <2>1, <2>4, Places DEF RelayInv, Out
  <2> QED BY <2>3, <2>6, <2>7, <2>8
<1>3. CASE Abandon(d)
  <2>1. Close({<<First(d), d>>}) /\ UNCHANGED <<relay, tries, pipe, saw>>
    BY <1>3 DEF Abandon, relayVars
  <2>2. Broken => Broken'
    BY <2>1, Closing DEF Broken
  <2>3. TypeOK' /\ Flow' /\ EndInv'
    BY <2>1, <2>2, CloseStep DEF TypeOK
  <2>4. RelayInv'
    BY <2>1, Closing, Places DEF RelayInv, Out
  <2> QED BY <2>3, <2>4
<1>4. CASE Receive(d)
  BY <1>4, Places, ReadStep DEF Receive, relayVars
<1>5. CASE SeeEnd(d)
  BY <1>5 DEF SeeEnd, linkVars, relayVars, TypeOK, Flow, RelayInv, EndInv, Broken
<1> QED BY <1>1, <1>2, <1>3, <1>4, <1>5

LEMMA BreakStep == ASSUME Inv, NEW l \in Links, Breaks(l) PROVE Inv'
<1> USE DEF Inv
<1>1. link' = [link EXCEPT ![l] = "reset"] /\ link[l] = "open"
      /\ UNCHANGED <<wr, rd, fin, deaf, relay, tries, pipe, saw>>
  BY DEF Breaks, relayVars
<1>2. TypeOK' /\ Flow' /\ Broken'
  BY <1>1 DEF TypeOK, Flow, Broken
<1>3. RelayInv' /\ EndInv'
  BY <1>1, <1>2, Places DEF RelayInv, EndInv, TypeOK
<1> QED BY <1>2, <1>3

LEMMA DialStep == ASSUME Inv, NEW k \in Relays, Accept(k) \/ Dial(k) PROVE Inv'
<1> USE DEF Inv
<1>1. CASE Accept(k)
  <2>1. relay' = [relay EXCEPT ![k] = "dial"] /\ relay[k] = "idle"
        /\ UNCHANGED <<link, wr, rd, fin, deaf, tries, pipe, saw>>
    BY <1>1 DEF Accept, linkVars
  <2> QED BY <2>1 DEF TypeOK, Flow, RelayInv, EndInv, Broken
<1>2. CASE DialOk(k)
  <2>1. /\ relay[k] = "dial" /\ link[k] = "none" /\ tries[k] < Attempts
        /\ relay' = [relay EXCEPT ![k] = "copy"] /\ link' = [link EXCEPT ![k] = "open"]
        /\ pipe' = [pipe EXCEPT ![k] = [d \in Dirs |-> TRUE]]
        /\ tries' = [tries EXCEPT ![k] = 0]
        /\ UNCHANGED <<wr, rd, fin, deaf, saw>>
    BY <1>2 DEF DialOk, RelayInv
  <2>2. k \in Links /\ [d \in Dirs |-> TRUE] \in [Dirs -> BOOLEAN]
    BY Places
  <2>3. TypeOK'
    BY <2>1, <2>2, RelayAssumption DEF TypeOK
  <2>4. Broken => Broken'
    BY <2>1, <2>2, <2>3, BrokenStays, RelayAssumption DEF TypeOK
  <2>5. RelayInv'
    BY <2>1, <2>2, Places DEF RelayInv, TypeOK, Out
  <2>6. Flow' /\ EndInv'
    BY <2>1, <2>4 DEF Flow, EndInv
  <2> QED BY <2>3, <2>5, <2>6
<1>3. CASE DialFails(k)
  <2>1. /\ relay[k] = "dial" /\ tries[k] < Attempts /\ tries' = [tries EXCEPT ![k] = @ + 1]
        /\ UNCHANGED <<pipe, saw>>
    BY <1>3 DEF DialFails, RelayInv
  <2>2. tries' \in [Relays -> 0 .. Attempts] /\ tries'[k] = tries[k] + 1
    BY <2>1, RelayAssumption DEF TypeOK
  <2>3. CASE Retries(tries'[k])
    <3>1. tries'[k] < Attempts /\ UNCHANGED <<link, wr, rd, fin, deaf, relay>>
      BY <1>3, <2>3 DEF DialFails, linkVars, Retries
    <3>2. TypeOK' /\ Flow'
      BY <2>1, <2>2, <3>1 DEF TypeOK, Flow
    <3>3. Broken => Broken'
      BY <2>1, <2>2, <3>1, <3>2, BrokenStays, RelayAssumption DEF TypeOK
    <3>4. RelayInv'
      BY <2>1, <3>1 DEF RelayInv, TypeOK
    <3>5. EndInv'
      BY <3>1, <3>3 DEF EndInv
    <3> QED BY <3>2, <3>4, <3>5
  <2>4. CASE ~Retries(tries'[k])
    <3>1. relay' = [relay EXCEPT ![k] = "closed"] /\ Close({<<k - 1, "down">>})
      BY <1>3, <2>4 DEF DialFails
    <3>2. Broken'
      BY <2>4 DEF Broken
    <3>3. relay' \in [Relays -> {"idle", "dial", "copy", "closed"}]
      BY <3>1 DEF TypeOK
    <3>4. TypeOK' /\ Flow' /\ EndInv'
      BY <2>1, <2>2, <3>1, <3>2, <3>3, CloseStep
    <3>5. RelayInv'
      BY <2>1, <3>1, Closing, Places DEF RelayInv, TypeOK, Out
    <3> QED BY <3>4, <3>5
  <2> QED BY <2>3, <2>4
<1> QED BY <1>1, <1>2, <1>3 DEF Dial

LEMMA PipeStep == ASSUME Inv, NEW k \in Relays, NEW d \in Dirs, Pipe(k, d) PROVE Inv'
<1> USE DEF Inv
<1>0. In(k, d) \in Links /\ Out(k, d) \in Links /\ Out(k, d) # First(d)
      /\ \A m \in Relays : Out(k, d) = Out(m, d) => k = m
  BY Places
<1>1. CASE CopyIn(k, d)
  BY <1>0, <1>1, ReadStep DEF CopyIn, relayVars
<1>2. CASE CopyOut(k, d)
  <2>1. Write(Out(k, d), d) /\ wr[Out(k, d)][d] < rd[In(k, d)][d]
        /\ UNCHANGED <<relay, tries, pipe, saw>>
    BY <1>2 DEF CopyOut, Holding, relayVars
  <2>2. wr[Out(k, d)][d] < wr[First(d)][d]
    BY <1>0, <2>1, Places, Counts DEF Flow
  <2>3. \A m \in Relays : Out(k, d) = Out(m, d) => wr[Out(k, d)][d] < rd[In(m, d)][d]
    BY <1>0, <2>1
  <2> QED BY <1>0, <2>1, <2>2, <2>3, WriteStep
<1>3. CASE PipeEnds(k, d)
  <2>1. /\ CopyOver(k, d)
        /\ fin' = [fin EXCEPT ![Out(k, d)] = [fin[Out(k, d)] EXCEPT ![d] = TRUE]]
        /\ pipe' = [pipe EXCEPT ![k] = [pipe[k] EXCEPT ![d] = FALSE]]
        /\ UNCHANGED <<link, wr, rd, deaf, relay, tries, saw>>
    BY <1>3 DEF PipeEnds, CloseWrite
  <2>2. [fin[Out(k, d)] EXCEPT ![d] = TRUE] \in [Dirs -> BOOLEAN]
        /\ [pipe[k] EXCEPT ![d] = FALSE] \in [Dirs -> BOOLEAN]
    BY <1>0 DEF TypeOK
  <2>3. TypeOK' /\ Flow'
    BY <2>1, <2>2 DEF TypeOK, Flow
  <2>4. \A l \in Links, c \in Dirs : fin'[l][c] <=> fin[l][c] \/ (l = Out(k, d) /\ c = d)
    BY <1>0, <2>1 DEF TypeOK
  <2>5. \A m \in Relays, c \in Dirs : ~pipe'[m][c] => ~pipe[m][c] \/ (m = k /\ c = d)
    BY <2>1 DEF TypeOK
  <2>6. Broken <=> Broken'
    BY <2>1 DEF Broken
  <2>7. RelayInv'
    BY <2>1, <2>4, <2>5, Places DEF RelayInv, Out
  <2>8. Broken \/ (fin[First(d)][d] /\ wr[Out(k, d)][d] = wr[First(d)][d])
    <3>1. CASE Holding(k, d) \/ link[In(k, d)] = "reset"
      BY <1>0, <2>1, <3>1 DEF CopyOver, Broken
    <3>2. CASE ~Holding(k, d) /\ AtEof(In(k, d), d)
      <4>1. fin[In(k, d)][d] /\ ~(rd[In(k, d)][d] < wr[In(k, d)][d])
            /\ ~(wr[Out(k, d)][d] < rd[In(k, d)][d])
        BY <3>2 DEF AtEof, Unread, Holding
      <4>2. wr[Out(k, d)][d] = wr[In(k, d)][d]
        BY <1>0, <4>1, Counts DEF Flow
      <4> QED BY <1>0, <4>1, <4>2 DEF EndInv
    <3> QED BY <2>1, <3>1, <3>2 DEF CopyOver, SourceEnded
  <2>9. EndInv'
    BY <1>0, <2>1, <2>4, <2>6, <2>8, Places, EndKept
  <2> QED BY <2>3, <2>7, <2>9
<1> QED BY <1>1, <1>2, <1>3 DEF Pipe

LEMMA RelayEndsStep == ASSUME Inv, NEW k \in Relays, RelayEnds(k) PROVE Inv'
<1> USE DEF Inv
<1>1. /\ relay[k] = "copy" /\ BothPipes(k) /\ relay' = [relay EXCEPT ![k] = "closed"]
      /\ Close({<<k - 1, "down">>, <<k, "up">>}) /\ UNCHANGED <<tries, pipe, saw>>
  BY DEF RelayEnds
<1>2. fin[k][ "up"] /\ fin[k - 1]["down"]
  BY <1>1 DEF RelayInv, BothPipes, Out, Dirs
<1>3. Broken => Broken'
  BY <1>1, Closing DEF Broken
<1>4. relay' \in [Relays -> {"idle", "dial", "copy", "closed"}] /\ tries' \in [Relays -> 0 .. Attempts]
  BY <1>1 DEF TypeOK
<1>5. TypeOK' /\ Flow' /\ EndInv'
  BY <1>1, <1>2, <1>3, <1>4, CloseStep
<1>6. RelayInv'
  BY <1>1, Closing, Places DEF RelayInv, TypeOK, Out
<1> QED BY <1>5, <1>6

LEMMA RelayNextInv == Inv /\ [Next]_vars => Inv'
<1> SUFFICES ASSUME Inv, [Next]_vars PROVE Inv'
  OBVIOUS
<1>1. CASE UNCHANGED vars
  BY <1>1 DEF vars, linkVars, relayVars, Inv, TypeOK, Flow, RelayInv, EndInv, Broken
<1> QED BY <1>1, EndpointStep, BreakStep, DialStep, PipeStep, RelayEndsStep DEF Next, Finished

(* What the theorems below rest on.                                              *)
THEOREM RelayInvariance == Spec => []Inv
BY RelayInitInv, RelayNextInv, PTL DEF Spec

(* Types and bounds, in chains of any length: no link ever carries more than its    *)
(* sender sent, no dial is tried more often than dialAttempts.                      *)
THEOREM RelayTypeCorrect == Spec => []TypeOK
BY RelayInvariance, PTL DEF Inv
-------------------------------------------------------------------------------
(* The chain implements a stream.                                              *)

(* Steps within the chain change nothing of the stream, but may break it.           *)
LEMMA InnerStep ==
  ASSUME \A d \in Dirs : /\ wr'[First(d)][d] = wr[First(d)][d]
                         /\ fin'[First(d)][d] = fin[First(d)][d]
                         /\ rd'[Last(d)][d] = rd[Last(d)][d],
         saw' = saw, Broken => Broken'
  PROVE  [End2End!Next]_(End2End!vars)
<1>1. /\ [d \in Dirs |-> wr[First(d)][d]]' = [d \in Dirs |-> wr[First(d)][d]]
      /\ [d \in Dirs |-> fin[First(d)][d]]' = [d \in Dirs |-> fin[First(d)][d]]
      /\ [d \in Dirs |-> rd[Last(d)][d]]' = [d \in Dirs |-> rd[Last(d)][d]]
  BY DEF First, Last
<1>2. CASE Broken'
  <2>1. End2End!Break
    BY <1>1, <1>2 DEF End2End!Break
  <2> QED BY <2>1 DEF End2End!Next
<1>3. CASE ~Broken'
  <2>1. Broken' = Broken
    BY <1>3 DEF Broken
  <2> QED BY <1>1, <2>1 DEF End2End!vars
<1> QED BY <1>2, <1>3

LEMMA EndpointRefines ==
  ASSUME Inv, NEW d \in Dirs, Send(d) \/ HalfClose(d) \/ Abandon(d) \/ Receive(d) \/ SeeEnd(d)
  PROVE  [End2End!Next]_(End2End!vars)
<1> USE DEF Inv
<1> DEFINE S == [c \in Dirs |-> wr[First(c)][c]]
           E == [c \in Dirs |-> fin[First(c)][c]]
           G == [c \in Dirs |-> rd[Last(c)][c]]
<1>0. d \in End2End!Dirs /\ First(d) \in Links /\ Last(d) \in Links
  BY Places DEF Dirs, End2End!Dirs
<1>1. CASE Send(d)
  <2>1. Write(First(d), d) /\ UNCHANGED <<tries, saw>>
    BY <1>1 DEF Send, relayVars
  <2>2. ~fin[First(d)][d] /\ UNCHANGED <<rd, fin>>
    BY <2>1 DEF Write
  <2>3. CASE wr' = wr /\ link' = [link EXCEPT ![First(d)] = "reset"]
    <3>1. Broken'
      BY <1>0, <2>3 DEF Broken, TypeOK
    <3> QED BY <2>1, <2>2, <2>3, <3>1, InnerStep
  <2>4. CASE wr' = [wr EXCEPT ![First(d)][d] = @ + 1] /\ link' = link
    <3>1. S' = [S EXCEPT ![d] = @ + 1]
      BY <1>0, <2>4, Places DEF TypeOK, First
    <3>2. E' = E /\ G' = G /\ ~E[d] /\ saw' = saw
      BY <2>1, <2>2 DEF First, Last
    <3>3. Broken' = Broken
      BY <2>1, <2>4 DEF Broken
    <3>4. End2End!Send(d)
      BY <3>1, <3>2, <3>3 DEF End2End!Send
    <3> QED BY <1>0, <3>4 DEF End2End!Next
  <2> QED BY <2>1, <2>3, <2>4 DEF Write
<1>2. CASE HalfClose(d) \/ Abandon(d)
  <2>1. /\ UNCHANGED <<wr, rd, saw>>
        /\ \A c \in Dirs : fin'[First(c)][c] = IF c = d THEN TRUE ELSE fin[First(c)][c]
        /\ Broken => Broken'
    <3>1. CASE HalfClose(d)
      <4>1. fin' = [fin EXCEPT ![First(d)][d] = TRUE] /\ UNCHANGED <<link, wr, rd, tries, saw>>
        BY <3>1 DEF HalfClose, relayVars
      <4>2. \A c \in Dirs : fin'[First(c)][c] = IF c = d THEN TRUE ELSE fin[First(c)][c]
        BY <1>0, <4>1, Places DEF TypeOK
      <4> QED BY <4>1, <4>2 DEF Broken
    <3>2. CASE Abandon(d)
      <4>1. Close({<<First(d), d>>}) /\ UNCHANGED <<tries, saw>>
        BY <3>2 DEF Abandon, relayVars
      <4>2. \A c \in Dirs : fin'[First(c)][c] <=> fin[First(c)][c] \/ c = d
        <5>1. \A c \in Dirs : <<First(c), c>> \in {<<First(d), d>>} <=> c = d
          OBVIOUS
        <5> QED BY <4>1, <5>1, Closing, Places
      <4>3. \A c \in Dirs : fin'[First(c)][c] \in BOOLEAN /\ fin[First(c)][c] \in BOOLEAN
        BY <4>1, Closing, Places DEF TypeOK
      <4>4. \A c \in Dirs : fin'[First(c)][c] = IF c = d THEN TRUE ELSE fin[First(c)][c]
        BY <4>2, <4>3
      <4> QED BY <4>1, <4>4, Closing DEF Broken
    <3> QED BY <1>2, <3>1, <3>2
  <2>2. S' = S /\ G' = G /\ saw' = saw
    BY <2>1 DEF First, Last
  <2>3. E' = [E EXCEPT ![d] = TRUE]
    BY <2>1 DEF First
  <2>4. Broken' \in {Broken, TRUE}
    BY <2>1 DEF Broken
  <2>5. End2End!End(d)
    BY <2>2, <2>3, <2>4 DEF End2End!End
  <2> QED BY <1>0, <2>5 DEF End2End!Next
<1>3. CASE Receive(d)
  <2>1. /\ saw[d] = "open" /\ rd[Last(d)][d] < wr[Last(d)][d]
        /\ rd' = [rd EXCEPT ![Last(d)][d] = @ + 1]
        /\ UNCHANGED <<link, wr, fin, tries, saw>>
    BY <1>3 DEF Receive, Read, Unread, relayVars
  <2>2. rd[Last(d)][d] < wr[First(d)][d]
    BY <1>0, <2>1, Counts DEF Flow
  <2>3. G' = [G EXCEPT ![d] = @ + 1] /\ G[d] < S[d]
    BY <1>0, <2>1, <2>2, Places DEF TypeOK, Last
  <2>4. S' = S /\ E' = E /\ Broken' = Broken
    BY <2>1 DEF First, Broken
  <2>5. End2End!Receive(d)
    BY <2>1, <2>3, <2>4 DEF End2End!Receive
  <2> QED BY <1>0, <2>5 DEF End2End!Next
<1>4. CASE SeeEnd(d)
  <2>1. /\ saw[d] = "open"
        /\ UNCHANGED <<link, wr, rd, fin, tries>>
        /\ \/ AtEof(Last(d), d) /\ saw' = [saw EXCEPT ![d] = "eof"]
           \/ link[Last(d)] = "reset" /\ saw' = [saw EXCEPT ![d] = "error"]
    BY <1>4 DEF SeeEnd, linkVars, relayVars
  <2>2. S' = S /\ E' = E /\ G' = G /\ Broken' = Broken
    BY <2>1 DEF First, Last, Broken
  <2>3. CASE AtEof(Last(d), d) /\ saw' = [saw EXCEPT ![d] = "eof"]
    <3>1. fin[Last(d)][d] /\ ~(rd[Last(d)][d] < wr[Last(d)][d])
      BY <2>3 DEF AtEof, Unread
    <3>2. rd[Last(d)][d] = wr[Last(d)][d]
      BY <1>0, <3>1, Counts DEF Flow
    <3>3. Broken \/ (fin[First(d)][d] /\ wr[Last(d)][d] = wr[First(d)][d])
      BY <1>0, <3>1 DEF EndInv
    <3>4. Broken \/ (E[d] /\ G[d] = S[d])
      BY <3>2, <3>3
    <3>5. End2End!SeeEnd(d)
      BY <2>1, <2>2, <2>3, <3>4 DEF End2End!SeeEnd
    <3> QED BY <1>0, <3>5 DEF End2End!Next
  <2>4. CASE link[Last(d)] = "reset" /\ saw' = [saw EXCEPT ![d] = "error"]
    <3>1. Broken
      BY <1>0, <2>4 DEF Broken
    <3>2. End2End!SeeEnd(d)
      BY <2>1, <2>2, <2>4, <3>1 DEF End2End!SeeEnd
    <3> QED BY <1>0, <3>2 DEF End2End!Next
  <2> QED BY <2>1, <2>3, <2>4
<1> QED BY <1>1, <1>2, <1>3, <1>4

(* A relay that closes its connections ends no sender's direction.                 *)
LEMMA SendersKept ==
  ASSUME TypeOK, NEW ends, Close(ends), \A d \in Dirs : <<First(d), d>> \notin ends
  PROVE  \A d \in Dirs : fin'[First(d)][d] = fin[First(d)][d]
<1>1. \A d \in Dirs : fin'[First(d)][d] <=> fin[First(d)][d]
  BY Closing, Places
<1>2. \A d \in Dirs : fin'[First(d)][d] \in BOOLEAN /\ fin[First(d)][d] \in BOOLEAN
  BY Closing, Places DEF TypeOK
<1> QED BY <1>1, <1>2

(* Every step of the chain is a step of the stream or none of its business.         *)
LEMMA StreamStep == Inv /\ [Next]_vars => [End2End!Next]_(End2End!vars)
<1> SUFFICES ASSUME Inv, [Next]_vars PROVE [End2End!Next]_(End2End!vars)
  OBVIOUS
<1> USE DEF Inv
<1>1. CASE UNCHANGED vars
  <2>1. UNCHANGED <<link, wr, rd, fin, tries, saw>>
    BY <1>1 DEF vars, linkVars, relayVars
  <2> QED BY <2>1, InnerStep DEF Broken, First, Last
<1>2. ASSUME NEW l \in Links, Breaks(l) PROVE [End2End!Next]_(End2End!vars)
  <2>1. UNCHANGED <<wr, rd, fin, saw>> /\ Broken'
    BY <1>2 DEF Breaks, relayVars, Broken, TypeOK
  <2> QED BY <2>1, InnerStep DEF First, Last
<1>3. ASSUME NEW k \in Relays, Accept(k) PROVE [End2End!Next]_(End2End!vars)
  <2>1. UNCHANGED <<link, wr, rd, fin, tries, saw>>
    BY <1>3 DEF Accept, linkVars
  <2> QED BY <2>1, InnerStep DEF Broken, First, Last
<1>4. ASSUME NEW k \in Relays, Dial(k) PROVE [End2End!Next]_(End2End!vars)
  <2>1. /\ UNCHANGED <<wr, rd, saw>>
        /\ \A l \in Links : link[l] = "reset" => link'[l] = "reset"
        /\ \A m \in Relays : tries[m] >= Attempts => tries'[m] >= Attempts
        /\ \A d \in Dirs : fin'[First(d)][d] = fin[First(d)][d]
    <3>1. relay[k] = "dial" /\ link[k] = "none" /\ tries[k] < Attempts
      BY <1>4 DEF Dial, DialOk, DialFails, RelayInv
    <3>2. CASE DialOk(k)
      BY <3>1, <3>2, RelayAssumption DEF DialOk, TypeOK
    <3>3. CASE DialFails(k) /\ UNCHANGED linkVars
      BY <3>1, <3>3, RelayAssumption DEF DialFails, linkVars, TypeOK
    <3>4. CASE DialFails(k) /\ Close({<<k - 1, "down">>})
      <4>1. \A d \in Dirs : <<First(d), d>> \notin {<<k - 1, "down">>}
        BY Places DEF First
      <4>2. \A d \in Dirs : fin'[First(d)][d] = fin[First(d)][d]
        BY <3>4, <4>1, SendersKept
      <4>3. tries' = [tries EXCEPT ![k] = @ + 1] /\ UNCHANGED <<wr, rd, saw>>
        BY <3>4 DEF DialFails, Close
      <4> QED BY <3>1, <3>4, <4>2, <4>3, Closing, RelayAssumption DEF TypeOK
    <3> QED BY <1>4, <3>2, <3>3, <3>4 DEF Dial, DialFails
  <2>2. Inv'
    BY <1>4, DialStep
  <2>3. Broken => Broken'
    BY <2>1, <2>2, BrokenStays
  <2> QED BY <2>1, <2>3, InnerStep DEF First, Last
<1>5. ASSUME NEW k \in Relays, NEW d \in Dirs, Pipe(k, d) PROVE [End2End!Next]_(End2End!vars)
  <2>0. In(k, d) \in Links /\ Out(k, d) \in Links /\ In(k, d) # Last(d) /\ Out(k, d) # First(d)
    BY Places
  <2>1. UNCHANGED <<tries, saw>> /\ \A l \in Links : link[l] = "reset" => link'[l] = "reset"
    BY <1>5, <2>0 DEF Pipe, CopyIn, CopyOut, PipeEnds, Read, Write, relayVars, TypeOK
  <2>2. Broken => Broken'
    BY <2>1 DEF Broken
  <2>3. CASE CopyIn(k, d)
    <3>1. rd' = [rd EXCEPT ![In(k, d)][d] = @ + 1] /\ UNCHANGED <<wr, fin>>
      BY <2>3 DEF CopyIn, Read
    <3>2. \A c \in Dirs : rd'[Last(c)][c] = rd[Last(c)][c]
      BY <2>0, <3>1, Places DEF TypeOK
    <3> QED BY <2>1, <2>2, <3>1, <3>2, InnerStep DEF First
  <2>4. CASE CopyOut(k, d)
    <3>1. (wr' = wr \/ wr' = [wr EXCEPT ![Out(k, d)][d] = @ + 1]) /\ UNCHANGED <<rd, fin>>
      BY <2>4 DEF CopyOut, Write
    <3>2. ASSUME NEW c \in Dirs PROVE wr'[First(c)][c] = wr[First(c)][c]
      <4>1. First(c) \in Links /\ (c = d => First(c) # Out(k, d))
        BY <2>0, Places
      <4>2. CASE wr' = [wr EXCEPT ![Out(k, d)][d] = @ + 1]
        BY <2>0, <4>1, <4>2 DEF TypeOK
      <4> QED BY <3>1, <4>2
    <3> QED BY <2>1, <2>2, <3>1, <3>2, InnerStep DEF First, Last
  <2>5. CASE PipeEnds(k, d)
    <3>1. fin' = [fin EXCEPT ![Out(k, d)][d] = TRUE] /\ UNCHANGED <<wr, rd>>
      BY <2>5 DEF PipeEnds, CloseWrite
    <3>2. \A c \in Dirs : fin'[First(c)][c] = fin[First(c)][c]
      BY <2>0, <3>1, Places DEF TypeOK
    <3> QED BY <2>1, <2>2, <3>1, <3>2, InnerStep DEF First, Last
  <2> QED BY <1>5, <2>3, <2>4, <2>5 DEF Pipe
<1>6. ASSUME NEW k \in Relays, RelayEnds(k) PROVE [End2End!Next]_(End2End!vars)
  <2>1. Close({<<k - 1, "down">>, <<k, "up">>}) /\ UNCHANGED <<tries, saw, wr, rd>>
    BY <1>6 DEF RelayEnds, Close
  <2>2. \A d \in Dirs : <<First(d), d>> \notin {<<k - 1, "down">>, <<k, "up">>}
    BY Places DEF First
  <2>3. \A d \in Dirs : fin'[First(d)][d] = fin[First(d)][d]
    BY <2>1, <2>2, SendersKept
  <2>4. Broken => Broken'
    BY <2>1, Closing DEF Broken
  <2> QED BY <2>1, <2>3, <2>4, InnerStep DEF First, Last
<1> QED BY <1>1, <1>2, <1>3, <1>4, <1>5, <1>6, EndpointRefines DEF Next, Finished

LEMMA StreamInit == Init => End2End!Init
<1> SUFFICES ASSUME Init PROVE End2End!Init
  OBVIOUS
<1>1. ~Broken
  BY Places, RelayAssumption DEF Init, Broken, Retries
<1>2. Broken = FALSE
  BY <1>1 DEF Broken
<1> QED BY <1>2, Places DEF Init, End2End!Init, Dirs, End2End!Dirs

(* End to end a chain of any length is a stream: what is read was sent, in order,    *)
(* and its end is seen only after all of it, unless something broke.                *)
THEOREM ChainIsStream == Spec => StreamSpec
BY StreamInit, StreamStep, RelayInvariance, PTL DEF Spec, StreamSpec, End2End!Spec
===============================================================================
