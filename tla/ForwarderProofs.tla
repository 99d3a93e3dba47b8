---------------------------- MODULE ForwarderProofs -----------------------------
(* Proofs about Forwarder: for any connections and any dial times, the mark is  *)
(* exactly the slowest dial recorded since Status took the last one.            *)
EXTENDS Forwarder, TLAPS

(* The part of the types the mark depends on.                                   *)
DialTimes ==
  /\ pc \in [Conns -> {"away", "dial", "load", "cas"} \cup Dialed]
  /\ tries \in [Conns -> Nat]
  /\ took \in [Conns -> Nat]
  /\ old \in [Conns -> Nat]
  /\ slowestDial \in Nat
  /\ recorded \subseteq Conns

(* A relay that has recorded its dial dials no more, so what it recorded stays;  *)
(* one about to compare and swap loaded a smaller mark than its own time.        *)
Recorded ==
  /\ \A c \in recorded : pc[c] \in Dialed
  /\ \A c \in Conns : pc[c] = "cas" => old[c] < took[c]

Inv == DialTimes /\ Recorded /\ MarkIsSlowest

LEMMA InitInv == Init => Inv
BY DEF Init, Inv, DialTimes, Recorded, MarkIsSlowest, Dialed

(* A step that records nothing and takes nothing leaves the mark what it was.    *)
LEMMA MarkKept ==
  ASSUME Inv, UNCHANGED markVars, \A c \in recorded : took'[c] = took[c]
  PROVE  MarkIsSlowest'
BY DEF Inv, MarkIsSlowest, markVars

LEMMA StepInv == Inv /\ [Next]_vars => Inv'
<1> SUFFICES ASSUME Inv, [Next]_vars PROVE Inv'
  OBVIOUS
<1> USE ForwarderAssumption DEF DialTimes, Recorded, Goes, Dialed
<1>1. ASSUME NEW c \in Conns, AcceptOk(c) PROVE Inv'
  <2>1. MarkIsSlowest'
    BY <1>1, MarkKept DEF AcceptOk, Inv
  <2> QED BY <1>1, <2>1 DEF AcceptOk, Inv, markVars
<1>2. ASSUME NEW c \in Conns, NEW d \in 0 .. AttemptTime, DialOk(c, d) PROVE Inv'
  <2>1. c \notin recorded
    BY <1>2 DEF DialOk, Inv
  <2>2. MarkIsSlowest'
    BY <1>2, <2>1, MarkKept DEF DialOk, Inv
  <2> QED BY <1>2, <2>1, <2>2 DEF DialOk, Inv, markVars
<1>3. ASSUME NEW c \in Conns, NEW d \in 0 .. AttemptTime, DialFails(c, d) PROVE Inv'
  <2>1. c \notin recorded
    BY <1>3 DEF DialFails, Inv
  <2>2. Spent(d, ~Another(tries[c] + 1)) \in Nat
    BY DEF Spent
  <2>3. MarkIsSlowest'
    BY <1>3, <2>1, MarkKept DEF DialFails, Inv
  <2> QED BY <1>3, <2>1, <2>2, <2>3 DEF DialFails, Inv, markVars
<1>4. ASSUME NEW c \in Conns, LoadMark(c) PROVE Inv'
  <2>1. DialTimes' /\ Recorded'
    BY <1>4 DEF LoadMark, Settled, Inv, markVars
  <2>2. MarkIsSlowest'
    BY <1>4 DEF LoadMark, Inv, MarkIsSlowest, markVars
  <2> QED BY <2>1, <2>2 DEF Inv
<1>5. ASSUME NEW c \in Conns, CompareAndSwap(c) PROVE Inv'
  <2>1. CASE slowestDial = old[c]
    <3>1. DialTimes' /\ Recorded'
      BY <1>5, <2>1 DEF CompareAndSwap, Settled, Inv
    <3>2. slowestDial < took[c]
      BY <1>5, <2>1 DEF CompareAndSwap, Inv
    <3>3. MarkIsSlowest'
      BY <1>5, <2>1, <3>2 DEF CompareAndSwap, Inv, MarkIsSlowest
    <3> QED BY <3>1, <3>3 DEF Inv
  <2>2. CASE slowestDial # old[c]
    <3>1. MarkIsSlowest'
      BY <1>5, <2>2, MarkKept DEF CompareAndSwap, Inv
    <3> QED BY <1>5, <2>2, <3>1 DEF CompareAndSwap, Inv, markVars
  <2> QED BY <2>1, <2>2
<1>6. ASSUME NEW c \in Conns, PipesEnd(c) PROVE Inv'
  <2>1. MarkIsSlowest'
    BY <1>6, MarkKept DEF PipesEnd, Inv
  <2> QED BY <1>6, <2>1 DEF PipesEnd, Inv, markVars
<1>7. CASE SwapMark
  BY <1>7 DEF SwapMark, Inv, MarkIsSlowest, relayVars
<1>8. CASE AcceptFails \/ AcceptClosed \/ Awake \/ Printed \/ UNCHANGED vars
  <2>1. UNCHANGED <<relayVars, markVars>>
    BY <1>8 DEF AcceptFails, AcceptClosed, Awake, Serve, Printed, vars
  <2>2. MarkIsSlowest'
    BY <2>1, MarkKept DEF relayVars
  <2> QED BY <2>1, <2>2 DEF Inv, relayVars, markVars
<1> QED BY <1>1, <1>2, <1>3, <1>4, <1>5, <1>6, <1>7, <1>8 DEF Next, Internal, RelayStep

(* No relay loses a slower dial to another, and Status takes each mark once.      *)
THEOREM MarkExact == Spec => []MarkIsSlowest
<1>1. Inv => MarkIsSlowest
  BY DEF Inv
<1> QED BY InitInv, StepInv, <1>1, PTL DEF Spec

-------------------------------------------------------------------------------
(* Types.  What bounds the times: n failed attempts take at most n times the      *)
(* longest one, and a dial makes no more than Attempts of them.                   *)
Budget(n) == n * AttemptTime

Bounded ==
  \A c \in Conns :
    /\ pc[c] = "away" => tries[c] = 0 /\ took[c] = 0
    /\ pc[c] = "dial" => tries[c] < Attempts /\ took[c] <= Budget(tries[c])

TypeInv == TypeOK /\ Bounded

LEMMA Products ==
  /\ \A a, b \in Nat : a * b \in Nat /\ (a + 1) * b = a * b + b /\ 0 * b = 0
  /\ \A a, b, c \in Nat : a <= b => a * c <= b * c
OBVIOUS

LEMMA Budgets ==
  /\ MaxTook \in Nat /\ Budget(0) = 0
  /\ \A n \in Nat : Budget(n) \in Nat /\ Budget(n + 1) = Budget(n) + AttemptTime
  /\ \A n \in Nat : n <= Attempts => Budget(n) <= MaxTook
<1>1. Attempts \in Nat /\ AttemptTime \in Nat
  BY ForwarderAssumption
<1> QED BY <1>1, Products DEF Budget, MaxTook

LEMMA TypeStep == TypeInv /\ [Next]_vars => TypeInv'
<1> SUFFICES ASSUME TypeInv, [Next]_vars PROVE TypeInv'
  OBVIOUS
<1> USE DEF TypeInv, TypeOK, Bounded, Goes, Dialed
<1>0. MaxTook \in Nat /\ AttemptTime \in Nat /\ Attempts \in Nat \ {0} /\ Pause \in 0 .. AttemptTime
  BY Budgets, ForwarderAssumption
<1>1. ASSUME NEW c \in Conns, AcceptOk(c) PROVE TypeInv'
  BY <1>0, <1>1, Budgets DEF AcceptOk, acceptVars, markVars, statusVars
<1>2. ASSUME NEW c \in Conns, NEW d \in 0 .. AttemptTime, DialOk(c, d) PROVE TypeInv'
  <2>1. tries[c] \in Nat /\ tries[c] < Attempts /\ took[c] \in Nat /\ took[c] <= Budget(tries[c])
    BY <1>2 DEF DialOk
  <2>2. took[c] + d \in 0 .. MaxTook
    <3>1. Budget(tries[c] + 1) <= MaxTook /\ Budget(tries[c] + 1) = Budget(tries[c]) + AttemptTime
      BY <1>0, <2>1, Budgets
    <3> QED BY <1>0, <2>1, <3>1, Budgets
  <2> QED BY <1>2, <2>2 DEF DialOk, acceptVars, markVars, statusVars
<1>3. ASSUME NEW c \in Conns, NEW d \in 0 .. AttemptTime, DialFails(c, d) PROVE TypeInv'
  <2> DEFINE spent == Spent(d, ~Another(tries[c] + 1))
  <2>1. tries[c] \in Nat /\ tries[c] < Attempts /\ took[c] \in Nat /\ took[c] <= Budget(tries[c])
    BY <1>3 DEF DialFails
  <2>2. spent \in 0 .. AttemptTime
    BY <1>0 DEF Spent
  <2>3. took[c] + spent <= Budget(tries[c] + 1) /\ Budget(tries[c] + 1) <= MaxTook
    <3>1. Budget(tries[c] + 1) <= MaxTook /\ Budget(tries[c] + 1) = Budget(tries[c]) + AttemptTime
      BY <1>0, <2>1, Budgets
    <3> QED BY <1>0, <2>1, <2>2, <3>1, Budgets
  <2>4. took[c] + spent \in 0 .. MaxTook /\ tries[c] + 1 \in 0 .. Attempts
    BY <1>0, <2>1, <2>2, <2>3, Budgets
  <2>5. /\ pc' = [pc EXCEPT ![c] = IF tries[c] + 1 < Attempts THEN "dial" ELSE "load"]
        /\ tries' = [tries EXCEPT ![c] = @ + 1] /\ took' = [took EXCEPT ![c] = @ + spent]
        /\ UNCHANGED <<acceptVars, old, markVars, statusVars>>
    BY <1>3 DEF DialFails, Another
  <2> HIDE DEF spent
  <2> QED BY <2>3, <2>4, <2>5 DEF acceptVars, markVars, statusVars
<1>4. ASSUME NEW c \in Conns, LoadMark(c) PROVE TypeInv'
  BY <1>4 DEF LoadMark, Settled, acceptVars, markVars, statusVars
<1>5. ASSUME NEW c \in Conns, CompareAndSwap(c) PROVE TypeInv'
  BY <1>5 DEF CompareAndSwap, Settled, acceptVars, markVars, statusVars
<1>6. ASSUME NEW c \in Conns, PipesEnd(c) PROVE TypeInv'
  BY <1>6 DEF PipesEnd, acceptVars, markVars, statusVars
<1>7. CASE SwapMark
  BY <1>0, <1>7 DEF SwapMark, acceptVars, relayVars
<1>8. CASE AcceptFails \/ AcceptClosed \/ Awake \/ Printed \/ UNCHANGED vars
  <2>1. UNCHANGED <<relayVars, markVars>>
    BY <1>8 DEF AcceptFails, AcceptClosed, Awake, Serve, Printed, vars
  <2>2. listening' \in BOOLEAN /\ serve' \in {"accept", "pause", "returned"}
    <3>1. CASE AcceptFails \/ AcceptClosed \/ Awake
      BY <3>1 DEF AcceptFails, AcceptClosed, Awake, Serve
    <3>2. CASE UNCHANGED acceptVars
      BY <3>2 DEF acceptVars
    <3> QED BY <1>8, <3>1, <3>2 DEF Printed, vars
  <2>3. report' \in {"sleep", "print"} /\ line' \in 0 .. MaxTook
    BY <1>0, <1>8 DEF AcceptFails, AcceptClosed, Awake, Serve, Printed, vars, statusVars
  <2> QED BY <2>1, <2>2, <2>3 DEF relayVars, markVars
<1> QED BY <1>1, <1>2, <1>3, <1>4, <1>5, <1>6, <1>7, <1>8 DEF Next, Internal, RelayStep

(* The forwarder's variables keep their types; no dial takes longer than all its   *)
(* attempts may.                                                                  *)
THEOREM ForwarderTypeCorrect == Spec => []TypeOK
<1>1. Init => TypeInv
  BY Budgets, ForwarderAssumption DEF Init, TypeInv, TypeOK, Bounded, Dialed
<1>2. TypeInv => TypeOK
  BY DEF TypeInv
<1> QED BY <1>1, TypeStep, <1>2, PTL DEF Spec

-------------------------------------------------------------------------------
(* The refinement.  Only the steps by which a relay settles its dial add to what  *)
(* is fresh, and only Status takes it; between them nothing that DialReport sees    *)
(* changes.                                                                       *)
timedNow == {c \in Conns : pc[c] \in Dialed}
freshNow == {<<c, took[c]>> : c \in recorded}

LEMMA TimeStep ==
  ASSUME Inv, TypeOK, NEW c \in Conns, pc[c] \in {"load", "cas"},
         pc' = [pc EXCEPT ![c] = Settled(c)], recorded' = recorded \cup {c},
         UNCHANGED <<took, statusVars>>
  PROVE  Dials!Time(c)
<1>1. c \notin timedNow /\ timedNow' = timedNow \cup {c}
  BY DEF timedNow, Settled, Dialed, TypeOK
<1>2. freshNow' = freshNow \cup {<<c, took[c]>>}
  BY DEF freshNow
<1>3. took[c] \in 0 .. MaxTook
  BY DEF TypeOK
<1> QED BY <1>1, <1>2, <1>3 DEF Dials!Time, timedNow, freshNow, statusVars

LEMMA BeginStep == ASSUME Inv, TypeOK, SwapMark PROVE Dials!Begin
<1>1. /\ report = "sleep" /\ report' = "print" /\ line' = slowestDial
      /\ recorded' = {} /\ UNCHANGED pc
  BY DEF SwapMark, relayVars
<1>2. freshNow' = {} /\ timedNow' = timedNow
  BY <1>1 DEF freshNow, timedNow
<1>3. Dials!Slowest(line', freshNow)
  BY <1>1 DEF Inv, DialTimes, MarkIsSlowest, Dials!Slowest, freshNow
<1>4. line' \in 0 .. MaxTook
  BY <1>1 DEF TypeOK
<1> QED BY <1>1, <1>2, <1>3, <1>4 DEF Dials!Begin, freshNow, timedNow

(* A step that settles nothing, of a relay that is not settled or of none.          *)
LEMMA Unseen ==
  ASSUME Inv, NEW c \in Conns, UNCHANGED <<recorded, statusVars>>,
         pc' = [pc EXCEPT ![c] = pc'[c]], took' = [took EXCEPT ![c] = took'[c]],
         pc[c] \in Dialed <=> pc'[c] \in Dialed,
         took'[c] # took[c] => pc[c] \notin Dialed
  PROVE  UNCHANGED Dials!vars
<1>1. timedNow' = timedNow
  BY DEF timedNow, Inv, DialTimes
<1>2. \A b \in recorded : took'[b] = took[b]
  BY DEF Inv, DialTimes, Recorded
<1>3. freshNow' = freshNow
  BY <1>2 DEF freshNow
<1> QED BY <1>1, <1>3 DEF Dials!vars, timedNow, freshNow, statusVars

LEMMA ReportStep == Inv /\ TypeOK /\ [Next]_vars => [Dials!Next]_(Dials!vars)
<1> SUFFICES ASSUME Inv, TypeOK, [Next]_vars PROVE [Dials!Next]_(Dials!vars)
  OBVIOUS
<1> USE DEF Inv, DialTimes, Goes, Dialed, markVars
<1>1. ASSUME NEW c \in Conns, AcceptOk(c) PROVE UNCHANGED Dials!vars
  BY <1>1, Unseen DEF AcceptOk
<1>2. ASSUME NEW c \in Conns, NEW d \in 0 .. AttemptTime, DialOk(c, d) \/ DialFails(c, d)
      PROVE  UNCHANGED Dials!vars
  <2>1. pc[c] = "dial" /\ pc'[c] \in {"dial", "load"} /\ UNCHANGED <<recorded, statusVars>>
    BY <1>2 DEF DialOk, DialFails
  <2>2. pc' = [pc EXCEPT ![c] = pc'[c]] /\ took' = [took EXCEPT ![c] = took'[c]]
    BY <1>2 DEF DialOk, DialFails
  <2> QED BY <2>1, <2>2, Unseen
<1>3. ASSUME NEW c \in Conns, LoadMark(c) PROVE [Dials!Next]_(Dials!vars)
  <2>1. CASE took[c] <= slowestDial
    BY <1>3, <2>1, TimeStep DEF LoadMark, Dials!Next
  <2>2. CASE ~(took[c] <= slowestDial)
    BY <1>3, <2>2, Unseen DEF LoadMark
  <2> QED BY <2>1, <2>2
<1>4. ASSUME NEW c \in Conns, CompareAndSwap(c) PROVE [Dials!Next]_(Dials!vars)
  <2>1. CASE slowestDial = old[c]
    BY <1>4, <2>1, TimeStep DEF CompareAndSwap, Dials!Next
  <2>2. CASE slowestDial # old[c]
    BY <1>4, <2>2, Unseen DEF CompareAndSwap
  <2> QED BY <2>1, <2>2
<1>5. ASSUME NEW c \in Conns, PipesEnd(c) PROVE UNCHANGED Dials!vars
  BY <1>5, Unseen DEF PipesEnd
<1>6. CASE SwapMark
  BY <1>6, BeginStep DEF Dials!Next
<1>7. CASE Printed
  BY <1>7 DEF Printed, relayVars, Dials!End, Dials!Next
<1>8. CASE AcceptFails \/ AcceptClosed \/ Awake \/ UNCHANGED vars
  BY <1>8 DEF AcceptFails, AcceptClosed, Awake, Serve, vars, relayVars, statusVars, Dials!vars
<1> QED BY <1>1, <1>2, <1>3, <1>4, <1>5, <1>6, <1>7, <1>8 DEF Next, Internal, RelayStep

(* The load and compare-and-swap loops of any number of relays, next to the swap of  *)
(* Status, do what timing and taking in single steps would.                          *)
THEOREM ReportsAsOne == Spec => ReportSpec
<1>1. Init => Dials!Init
  BY DEF Init, Dials!Init, Dialed
<1>2. Spec => []Inv
  BY InitInv, StepInv, PTL DEF Spec
<1> QED BY <1>1, <1>2, ForwarderTypeCorrect, ReportStep, PTL DEF Spec, ReportSpec, Dials!Spec
===============================================================================
