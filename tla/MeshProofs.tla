------------------------------ MODULE MeshProofs ------------------------------
(* Proofs about Mesh, for any set of worker jobs, whatever texts they set their    *)
(* worker-index to and whatever run-prefix the workflow has, any number of runs     *)
(* and attempts, and all numbers the inputs may hold.                             *)
EXTENDS Mesh, FiniteSetTheorems, TLAPS

JobName(j) == Hostname(j, Resolved(j[1]))
OnTailnet == {"join", "registered", "up"}

(* What a job that runs knows: the prefix of its own run, which is the present     *)
(* one, and a quorum within what it expects.                                     *)
ConfigInv ==
  \A j \in Jobs : at[j] \in Alive =>
    /\ j[1] = run
    /\ config[j] # Refused /\ config[j].prefix = Resolved(j[1])
    /\ j[2] = 0 => config[j].expected \in Int /\ config[j].min \in Int
                   /\ config[j].expected >= 1 /\ config[j].min \in 1 .. config[j].expected

(* A name is held by one node at most, of a job of this or an earlier run that has  *)
(* this name.  A job that shares its name with no other, now or earlier, and got    *)
(* past registering holds it.                                                    *)
OwnerInv ==
  /\ DOMAIN owner = Names
  /\ \A n \in Names : \A a, b \in owner[n] : a = b
  /\ \A n \in Names : \A node \in owner[n] :
       \E k \in Jobs : node = Node(k) /\ n = JobName(k) /\ k[1] <= run
  /\ \A j \in Jobs : at[j] \in {"registered", "up"} /\ Alone(j) /\ OwnPrefix(j[1]) =>
       owner[JobName(j)] = {Node(j)}

MeshInv ==
  /\ setting \in Settings /\ index \in Matrices
  /\ run \in 1 .. Runs
  /\ at \in [Jobs -> Places]
  /\ tries \in [Jobs -> 0 .. Tries - 1]
  /\ servers = [j \in Jobs |-> IF at[j] \in OnTailnet THEN 1 ELSE 0]
  /\ config = [j \in Jobs |-> config[j]]
  /\ ConfigInv /\ OwnerInv

-------------------------------------------------------------------------------
(* Names.                                                                      *)

LEMMA JobParts ==
  ASSUME NEW j \in Jobs
  PROVE  /\ j = <<j[1], j[2]>> /\ j[1] \in 1 .. Runs /\ j[2] \in Roles
         /\ j[2] # 0 => j[2] \in WorkerJobs /\ j[2] \in Nat \ {0}
<1>1. PICK r \in 1 .. Runs, w \in Roles : j = <<r, w>>
  BY DEF Jobs
<1> QED BY <1>1, MeshAssumption DEF Roles

(* Jobs of one name have one prefix; those of one run, if the name is not shared,   *)
(* are one job.                                                                  *)
LEMMA NamesApart ==
  ASSUME NEW j \in Jobs, NEW k \in Jobs, JobName(j) = JobName(k)
  PROVE  /\ JobName(j) \in Names
         /\ Resolved(j[1]) = Resolved(k[1])
         /\ j[1] = k[1] /\ (Alone(j) \/ Alone(k)) => j = k
<1>1. JobName(j) \in Names
  BY DEF JobName, Names
<1> DEFINE Triple(i) == <<Resolved(i[1]), IF i[2] = 0 THEN "coordinator" ELSE "worker",
                          IF i[2] = 0 THEN NoText ELSE index[i[2]]>>
<1>2. JobName(j) = Triple(j) /\ JobName(k) = Triple(k)
  BY DEF JobName, Hostname, CoordinatorName, WorkerName
<1>3. Triple(j)[1] = Triple(k)[1] /\ Triple(j)[2] = Triple(k)[2] /\ Triple(j)[3] = Triple(k)[3]
  BY <1>2
<1>4. Resolved(j[1]) = Resolved(k[1])
  BY <1>3
<1>5. /\ j[2] = 0 <=> k[2] = 0
      /\ j[2] # 0 => index[j[2]] = index[k[2]]
  BY <1>3
<1>6. ASSUME j[1] = k[1], Alone(j) \/ Alone(k) PROVE j = k
  <2>1. j[2] = k[2]
    BY <1>5, <1>6, JobParts DEF Alone
  <2> QED BY <1>6, <2>1, JobParts
<1> QED BY <1>1, <1>4, <1>6

(* No earlier run has the name of a job whose run has a prefix of its own.          *)
LEMMA RunsApart ==
  ASSUME NEW j \in Jobs, NEW k \in Jobs, JobName(j) = JobName(k),
         k[1] <= j[1], OwnPrefix(j[1])
  PROVE  k[1] = j[1]
<1>1. Resolved(k[1]) = Resolved(j[1]) /\ j[1] \in Nat /\ k[1] \in 1 .. Runs
  BY NamesApart, JobParts
<1>2. CASE setting = "default"
  <2>1. \A r \in Nat : Resolved(r) = 2 + r
    BY <1>2 DEF Resolved, RunPrefix, OrDefault, DefaultPrefix, Empty
  <2> QED BY <1>1, <2>1
<1>3. CASE setting # "default"
  BY <1>1, <1>3, MeshAssumption DEF OwnPrefix
<1> QED BY <1>2, <1>3

(* The workflow stays the same, and the names with it.                            *)
LEMMA NamesStay ==
  ASSUME workflow' = workflow
  PROVE  /\ setting' = setting /\ index' = index /\ Names' = Names
         /\ \A r : Resolved(r)' = Resolved(r) /\ OwnPrefix(r)' = OwnPrefix(r)
         /\ \A j : JobName(j)' = JobName(j) /\ Alone(j)' = Alone(j) /\ Node(j)' = Node(j)
<1>1. setting' = setting /\ index' = index
  BY DEF workflow
<1>2. \A r : Resolved(r)' = Resolved(r)
  BY <1>1 DEF Resolved, RunPrefix
<1>3. \A j : JobName(j)' = JobName(j)
  BY <1>1, <1>2 DEF JobName, Hostname
<1>4. Names' = Names
  <2>1. Names' = {JobName(j)' : j \in Jobs} /\ Names = {JobName(j) : j \in Jobs}
    BY DEF Names, JobName
  <2> QED BY <1>3, <2>1
<1>5. \A r : OwnPrefix(r)' = OwnPrefix(r)
  BY <1>1, <1>2 DEF OwnPrefix
<1>6. \A j : Alone(j)' = Alone(j) /\ Node(j)' = Node(j)
  BY <1>1 DEF Alone, Node, Dir
<1> QED BY <1>1, <1>2, <1>3, <1>4, <1>5, <1>6

LEMMA NodesApart ==
  ASSUME NEW j \in Jobs, NEW k \in Jobs, Node(j) = Node(k) PROVE j = k
BY DEF Node, Dir

LEMMA NameNow ==
  ASSUME ConfigInv, NEW j \in Jobs, at[j] \in Alive
  PROVE  Name(j) = JobName(j) /\ Prefix(j) = Resolved(j[1])
BY DEF ConfigInv, Name, JobName, Prefix

LEMMA Chosen == ASSUME NEW n PROVE (CHOOSE m \in {n} : TRUE) = n
OBVIOUS

(* A number that is written plainly is read back, and no two are written alike.     *)
LEMMA ReadBack ==
  ASSUME NEW n \in Int, n >= 1
  PROVE  /\ WorkerIndex(Decimal(n)) = n
         /\ \A m \in Int : Decimal(m) = Decimal(n) => m = n
<1>1. Decimal(n).num = {n} /\ {n} # {}
  BY DEF Decimal
<1>2. AtoiOr(Decimal(n).num, 1) = n
  BY <1>1, Chosen DEF AtoiOr
<1>3. ASSUME NEW m \in Int, Decimal(m) = Decimal(n) PROVE m = n
  <2>1. Decimal(m).num = {m}
    BY DEF Decimal
  <2> QED BY <1>1, <1>3, <2>1
<1> QED BY <1>2, <1>3 DEF WorkerIndex

(* loadFrom: from inputs that are unset, malformed or any number.                 *)
LEMMA ConfigMade ==
  ASSUME NEW j \in Jobs, NEW get \in Inputs(j), LoadFrom(get) # Refused
  PROVE  /\ LoadFrom(get).prefix = Resolved(j[1])
         /\ j[2] = 0 => /\ LoadFrom(get).expected \in Int /\ LoadFrom(get).min \in Int
                        /\ LoadFrom(get).expected >= 1
                        /\ LoadFrom(get).min \in 1 .. LoadFrom(get).expected
<1>1. OrDefault(get.prefix, get.runId) = Resolved(j[1])
  BY DEF Inputs, Resolved
<1>2. CASE j[2] # 0
  BY <1>1, <1>2 DEF Inputs, LoadFrom
<1>3. CASE j[2] = 0
  <2> DEFINE numbers == {{}} \cup {{n} : n \in RawNumbers}
             expected == AtoiOr(get.expected, 0)
             min == AtoiOr(get.min, expected)
  <2>1. get.mode = "coordinator" /\ get.expected \in numbers /\ get.min \in numbers
    BY <1>3 DEF Inputs
  <2>2. \A s \in numbers, d \in Int : AtoiOr(s, d) \in Int
    BY MeshAssumption, Chosen DEF AtoiOr
  <2>3. expected \in Int /\ min \in Int
    BY <2>1, <2>2
  <2>4. expected >= 1 /\ MinInRange(min, expected)
    <3>1. expected < 1 \/ ~MinInRange(min, expected) => LoadFrom(get) = Refused
      BY <2>1 DEF LoadFrom
    <3> QED BY <2>3, <3>1
  <2>5. LoadFrom(get) = [mode |-> "coordinator", prefix |-> Resolved(j[1]),
                         expected |-> expected, min |-> min]
    BY <1>1, <2>1, <2>4 DEF LoadFrom
  <2> QED BY <1>3, <2>3, <2>4, <2>5 DEF MinInRange
<1> QED BY <1>2, <1>3

-------------------------------------------------------------------------------
(* The invariant.                                                              *)

LEMMA MeshInitInv == Init => MeshInv
<1> SUFFICES ASSUME Init PROVE MeshInv
  OBVIOUS
<1> USE MeshAssumption DEF Init, Places, Alive, OnTailnet
<1>1. ConfigInv
  BY DEF ConfigInv
<1>2. OwnerInv
  BY DEF OwnerInv
<1> QED BY <1>1, <1>2 DEF MeshInv

(* A step that starts no job and leaves the configurations of those that run.       *)
LEMMA ConfigStays ==
  ASSUME ConfigInv, workflow' = workflow, run' = run,
         \A k \in Jobs : at'[k] \in Alive => at[k] \in Alive /\ config'[k] = config[k]
  PROVE  ConfigInv'
BY NamesStay DEF ConfigInv, Alive, Places

(* A step that leaves the names' holders, and lets no job past registering.         *)
LEMMA OwnerStays ==
  ASSUME OwnerInv, workflow' = workflow, owner' = owner, run' = run,
         \A k \in Jobs : at'[k] \in {"registered", "up"} => at[k] \in {"registered", "up"}
  PROVE  OwnerInv'
<1>1. DOMAIN owner' = Names' /\ \A n \in Names' : \A a, b \in owner'[n] : a = b
  BY NamesStay DEF OwnerInv
<1>2. ASSUME NEW n \in Names', NEW node \in owner'[n]
      PROVE  \E k \in Jobs : node = Node(k)' /\ n = JobName(k)' /\ k[1] <= run'
  <2>1. n \in Names /\ node \in owner[n]
    BY <1>2, NamesStay
  <2>2. PICK k \in Jobs : node = Node(k) /\ n = JobName(k) /\ k[1] <= run
    BY <2>1 DEF OwnerInv
  <2> QED BY <2>2, NamesStay
<1>3. ASSUME NEW k \in Jobs, at'[k] \in {"registered", "up"}, Alone(k)', OwnPrefix(k[1])'
      PROVE  owner'[JobName(k)'] = {Node(k)'}
  <2>1. at[k] \in {"registered", "up"} /\ Alone(k) /\ OwnPrefix(k[1])
    BY <1>3, NamesStay
  <2>2. owner[JobName(k)] = {Node(k)}
    BY <2>1 DEF OwnerInv
  <2> QED BY <2>2, NamesStay
<1> QED BY <1>1, <1>2, <1>3 DEF OwnerInv

(* A job that exits leaves everything of its own in order; the names it may hold    *)
(* are the caller's part.                                                        *)
LEMMA ExitStep ==
  ASSUME MeshInv, NEW j \in Jobs, NEW from \in SUBSET Alive, Exits(j, from),
         workflow' = workflow, run' = run, OwnerInv'
  PROVE  MeshInv'
<1> USE MeshAssumption DEF MeshInv, Exits, Goes
<1>1. run' \in 1 .. Runs /\ at' \in [Jobs -> Places]
  BY DEF Places
<1>2. tries' \in [Jobs -> 0 .. Tries - 1]
  <2>1. 0 \in 0 .. Tries - 1
    OBVIOUS
  <2> QED BY <2>1
<1>3. servers' = [k \in Jobs |-> IF at'[k] \in OnTailnet THEN 1 ELSE 0]
  <2>1. servers' = [servers EXCEPT ![j] = 0] /\ at' = [at EXCEPT ![j] = "over"]
    OBVIOUS
  <2>2. servers = [k \in Jobs |-> IF at[k] \in OnTailnet THEN 1 ELSE 0]
    OBVIOUS
  <2>3. at \in [Jobs -> Places]
    OBVIOUS
  <2> HIDE DEF MeshInv, Exits, Goes
  <2> QED BY <2>1, <2>2, <2>3 DEF OnTailnet
<1>4. config' = [k \in Jobs |-> config'[k]]
  OBVIOUS
<1>5. ConfigInv'
  BY ConfigStays DEF Places, Alive
<1>6. setting' \in Settings /\ index' \in Matrices
  BY NamesStay
<1> QED BY <1>1, <1>2, <1>3, <1>4, <1>5, <1>6

(* A step of one job within its process: who holds a name stays as it is.         *)
LEMMA QuietStep ==
  ASSUME MeshInv, NEW j \in Jobs, owner' = owner, run' = run, workflow' = workflow,
         Begin(j) \/ StartFails(j) \/ StartOk(j) \/ Joined(j) \/ Retry(j) \/ Killed(j)
  PROVE  MeshInv'
<1>0. setting' \in Settings /\ index' \in Matrices
  BY NamesStay DEF MeshInv
<1> USE MeshAssumption DEF MeshInv, Places, Alive, OnTailnet, Goes
<1>1. OwnerInv'
  BY OwnerStays DEF Begin, StartFails, StartOk, Joined, Retry, Killed, TryOver, Exits
<1>2. CASE Begin(j)
  <2>1. PICK get \in Inputs(j) :
          /\ at' = [at EXCEPT ![j] = IF LoadFrom(get) = Refused THEN "over" ELSE "start"]
          /\ config' = [config EXCEPT ![j] = LoadFrom(get)]
          /\ UNCHANGED <<run, tries, servers, owner>> /\ at[j] = "none" /\ j[1] = run
    BY <1>2 DEF Begin
  <2>2. ConfigInv'
    BY <2>1, ConfigMade, NamesStay DEF ConfigInv
  <2> QED BY <1>0, <1>1, <2>1, <2>2
<1>3. CASE StartFails(j) /\ ~Exits(j, {"start"})
  <2>1. /\ at[j] = "start" /\ at' = [at EXCEPT ![j] = "pause"] /\ Again(j)
        /\ tries' = [tries EXCEPT ![j] = @ + 1]
        /\ servers' = [servers EXCEPT ![j] = servers[j]] /\ UNCHANGED <<run, config>>
    BY <1>3 DEF StartFails, TryOver
  <2>2. ConfigInv'
    BY <2>1, ConfigStays
  <2>3. tries' \in [Jobs -> 0 .. Tries - 1]
    BY <2>1 DEF Again
  <2> QED BY <1>0, <1>1, <2>1, <2>2, <2>3
<1>4. CASE StartOk(j)
  <2>1. ConfigInv'
    BY <1>4, ConfigStays DEF StartOk
  <2> QED BY <1>0, <1>1, <1>4, <2>1 DEF StartOk
<1>5. CASE Joined(j)
  <2>1. ConfigInv'
    BY <1>5, ConfigStays DEF Joined
  <2> QED BY <1>0, <1>1, <1>5, <2>1 DEF Joined
<1>6. CASE Retry(j)
  <2>1. ConfigInv'
    BY <1>6, ConfigStays DEF Retry
  <2> QED BY <1>0, <1>1, <1>6, <2>1 DEF Retry
<1>7. CASE Killed(j) \/ Exits(j, {"start"})
  BY <1>1, <1>7, ExitStep DEF Killed
<1> QED BY <1>2, <1>3, <1>4, <1>5, <1>6, <1>7

(* A job with a name of its own finds the name free as it registers, or held by an   *)
(* earlier node of the very same job, which is the node that registers.            *)
LEMMA RegisterStep ==
  ASSUME MeshInv, NEW j \in Jobs, Register(j)
  PROVE  MeshInv'
<1> USE MeshAssumption DEF MeshInv, Places, Alive, OnTailnet, Goes
<1>1. /\ at[j] = "join" /\ at' = [at EXCEPT ![j] = "registered"]
      /\ workflow' = workflow /\ UNCHANGED <<run, tries, servers, config>>
      /\ j[1] = run
  BY DEF Register, ConfigInv
<1>2. Name(j) = JobName(j) /\ JobName(j) \in Names
  BY <1>1, NameNow, NamesApart
<1>3. owner' = [owner EXCEPT ![JobName(j)] = IF @ = {} THEN {Node(j)} ELSE @]
  BY <1>2 DEF Register
<1>4. ASSUME Alone(j), OwnPrefix(j[1]) PROVE owner'[JobName(j)] = {Node(j)}
  <2>1. ASSUME NEW node \in owner[JobName(j)] PROVE node = Node(j)
    <3>1. PICK k \in Jobs : node = Node(k) /\ JobName(j) = JobName(k) /\ k[1] <= run
      BY <1>2, <2>1 DEF OwnerInv
    <3>2. k[1] = j[1]
      BY <1>1, <1>4, <3>1, RunsApart
    <3> QED BY <1>4, <3>1, <3>2, NamesApart
  <2> QED BY <1>2, <1>3, <2>1 DEF OwnerInv
<1>5. OwnerInv'
  <2>1. DOMAIN owner' = Names
    BY <1>3 DEF OwnerInv
  <2>2. \A n \in Names : owner'[n] = owner[n] \/ (n = JobName(j) /\ owner'[n] = {Node(j)})
    BY <1>2, <1>3 DEF OwnerInv
  <2>3. \A n \in Names : \A a, b \in owner'[n] : a = b
    BY <2>2 DEF OwnerInv
  <2>4. ASSUME NEW n \in Names, NEW node \in owner'[n]
        PROVE  \E k \in Jobs : node = Node(k) /\ n = JobName(k) /\ k[1] <= run
    <3>1. j[1] <= run
      BY <1>1, JobParts
    <3> QED BY <2>2, <2>4, <3>1 DEF OwnerInv
  <2>5. ASSUME NEW k \in Jobs, at'[k] \in {"registered", "up"}, Alone(k), OwnPrefix(k[1])
        PROVE  owner'[JobName(k)] = {Node(k)}
    <3>1. CASE k = j
      BY <1>4, <2>5, <3>1
    <3>2. CASE k # j
      <4>1. at[k] \in {"registered", "up"} /\ k[1] = j[1]
        BY <1>1, <2>5, <3>2 DEF ConfigInv
      <4>2. JobName(k) # JobName(j) /\ JobName(k) \in Names
        BY <2>5, <3>2, <4>1, NamesApart
      <4>3. owner[JobName(k)] = {Node(k)}
        BY <2>5, <4>1 DEF OwnerInv
      <4> QED BY <2>2, <4>2, <4>3
    <3> QED BY <3>1, <3>2
  <2>6. DOMAIN owner' = Names' /\ \A n \in Names' : \A a, b \in owner'[n] : a = b
    BY <1>1, <2>1, <2>3, NamesStay
  <2>7. \A n \in Names' : \A node \in owner'[n] :
          \E k \in Jobs : node = Node(k)' /\ n = JobName(k)' /\ k[1] <= run'
    BY <1>1, <2>4, NamesStay
  <2>8. \A k \in Jobs : at'[k] \in {"registered", "up"} /\ Alone(k)' /\ OwnPrefix(k[1])' =>
          owner'[JobName(k)'] = {Node(k)'}
    BY <1>1, <2>5, NamesStay
  <2> HIDE DEF MeshInv
  <2> QED BY <2>6, <2>7, <2>8 DEF OwnerInv
<1>6. ConfigInv'
  BY <1>1, ConfigStays
<1>7. setting' \in Settings /\ index' \in Matrices
  BY <1>1, NamesStay
<1> QED BY <1>1, <1>5, <1>6, <1>7

(* What a step may take from the names: nodes of jobs that are not past registering. *)
LEMMA OwnerShrinks ==
  ASSUME OwnerInv, workflow' = workflow, run' = run, DOMAIN owner' = Names,
         \A n \in Names : owner'[n] \subseteq owner[n],
         \A k \in Jobs : at'[k] \in {"registered", "up"} =>
           /\ at[k] \in {"registered", "up"}
           /\ JobName(k) \in Names /\ Node(k) \in owner[JobName(k)] =>
                Node(k) \in owner'[JobName(k)]
  PROVE  OwnerInv'
<1>1. DOMAIN owner' = Names' /\ \A n \in Names' : \A a, b \in owner'[n] : a = b
  BY NamesStay DEF OwnerInv
<1>2. ASSUME NEW n \in Names', NEW node \in owner'[n]
      PROVE  \E k \in Jobs : node = Node(k)' /\ n = JobName(k)' /\ k[1] <= run'
  <2>1. n \in Names /\ node \in owner[n]
    BY <1>2, NamesStay
  <2>2. PICK k \in Jobs : node = Node(k) /\ n = JobName(k) /\ k[1] <= run
    BY <2>1 DEF OwnerInv
  <2> QED BY <2>2, NamesStay
<1>3. ASSUME NEW k \in Jobs, at'[k] \in {"registered", "up"}, Alone(k)', OwnPrefix(k[1])'
      PROVE  owner'[JobName(k)'] = {Node(k)'}
  <2>1. at[k] \in {"registered", "up"} /\ Alone(k) /\ OwnPrefix(k[1])
    BY <1>3, NamesStay
  <2>2. owner[JobName(k)] = {Node(k)} /\ JobName(k) \in Names
    BY <2>1, NamesApart DEF OwnerInv
  <2>3. owner'[JobName(k)] = {Node(k)}
    BY <1>3, <2>2
  <2> QED BY <2>3, NamesStay
<1> QED BY <1>1, <1>2, <1>3 DEF OwnerInv

(* A job that closes its node frees at most its own name.                         *)
LEMMA LogOutStep ==
  ASSUME MeshInv, NEW j \in Jobs, UpFails(j) \/ Leave(j)
  PROVE  MeshInv'
<1> USE MeshAssumption DEF MeshInv, Places, Alive, OnTailnet, Goes
<1>1. /\ at' = [at EXCEPT ![j] = at'[j]] /\ at'[j] \in {"pause", "over"}
      /\ workflow' = workflow /\ run' = run
  BY DEF UpFails, Leave, TryOver, Exits
<1>2. owner' = owner \/ owner' = [n \in Names |-> owner[n] \ {Node(j)}]
  BY DEF UpFails, Leave, LogOut
<1>3. OwnerInv'
  <2>1. DOMAIN owner' = Names /\ \A n \in Names : owner'[n] \subseteq owner[n]
    BY <1>2 DEF OwnerInv
  <2>2. ASSUME NEW k \in Jobs, at'[k] \in {"registered", "up"}
        PROVE  /\ at[k] \in {"registered", "up"}
               /\ JobName(k) \in Names /\ Node(k) \in owner[JobName(k)] =>
                    Node(k) \in owner'[JobName(k)]
    <3>1. k # j /\ at[k] \in {"registered", "up"}
      BY <1>1, <2>2
    <3>2. Node(k) # Node(j)
      BY <3>1, NodesApart
    <3> QED BY <1>2, <3>1, <3>2
  <2> HIDE DEF MeshInv
  <2>3. OwnerInv
    BY DEF MeshInv
  <2> QED BY <1>1, <2>1, <2>2, <2>3, OwnerShrinks
<1>4. CASE UpFails(j)
  <2>1. CASE Exits(j, {"join", "registered"})
    BY <1>1, <1>3, <1>4, <2>1, ExitStep
  <2>2. CASE ~Exits(j, {"join", "registered"})
    <3>1. /\ at[j] \in {"join", "registered"} /\ at' = [at EXCEPT ![j] = "pause"]
          /\ Again(j) /\ tries' = [tries EXCEPT ![j] = @ + 1]
          /\ servers' = [servers EXCEPT ![j] = Closed(j)]
          /\ UNCHANGED <<run, config>>
      BY <1>4, <2>2 DEF UpFails, TryOver
    <3>2. tries' \in [Jobs -> 0 .. Tries - 1]
      BY <3>1 DEF Again
    <3>3. ConfigInv'
      BY <1>1, <3>1, ConfigStays
    <3>4. servers' = [k \in Jobs |-> IF at'[k] \in OnTailnet THEN 1 ELSE 0]
      BY <3>1 DEF Closed
    <3>5. setting' \in Settings /\ index' \in Matrices
      BY <1>1, NamesStay
    <3> QED BY <1>3, <3>1, <3>2, <3>3, <3>4, <3>5
  <2> QED BY <2>1, <2>2
<1>5. CASE Leave(j)
  BY <1>1, <1>3, <1>5, ExitStep DEF Leave
<1> QED BY <1>4, <1>5

(* The tailnet forgets only nodes that do not run.                                *)
LEMMA ForgottenStep ==
  ASSUME MeshInv, NEW n \in Names, Forgotten(n)
  PROVE  MeshInv'
<1> USE MeshAssumption DEF MeshInv
<1>1. /\ owner' = [owner EXCEPT ![n] = {}] /\ workflow' = workflow
      /\ UNCHANGED <<run, at, tries, servers, config>>
  BY DEF Forgotten
<1>2. ASSUME NEW k \in Jobs, at'[k] \in {"registered", "up"}
      PROVE  /\ at[k] \in {"registered", "up"}
             /\ JobName(k) \in Names /\ Node(k) \in owner[JobName(k)] =>
                  Node(k) \in owner'[JobName(k)]
  <2>1. at[k] \in {"registered", "up"}
    BY <1>1, <1>2
  <2>2. Running(Node(k))
    BY <2>1 DEF Running, Node, Dir
  <2>3. JobName(k) = n => Node(k) \notin owner[JobName(k)]
    BY <2>2 DEF Forgotten
  <2> QED BY <1>1, <2>1, <2>3 DEF OwnerInv
<1>3. OwnerInv'
  <2>1. DOMAIN owner' = Names /\ \A m \in Names : owner'[m] \subseteq owner[m]
    BY <1>1 DEF OwnerInv
  <2> HIDE DEF MeshInv
  <2>2. OwnerInv
    BY DEF MeshInv
  <2> QED BY <1>1, <1>2, <2>1, <2>2, OwnerShrinks
<1>4. ConfigInv'
  BY <1>1, ConfigStays
<1>5. setting' \in Settings /\ index' \in Matrices
  BY <1>1, NamesStay
<1> QED BY <1>1, <1>3, <1>4, <1>5

(* The workflow is run again when no job of it runs: nothing holds for one that does. *)
LEMMA ReRunStep ==
  ASSUME MeshInv, ReRun
  PROVE  MeshInv'
<1>1. /\ run' = run + 1 /\ run' \in 1 .. Runs /\ workflow' = workflow
      /\ UNCHANGED <<at, tries, servers, config, owner>>
  BY MeshAssumption DEF ReRun, MeshInv
<1>2. \A j \in Jobs : at'[j] \notin Alive
  BY <1>1 DEF ReRun, MeshInv, ConfigInv, Alive
<1>3. OwnerInv'
  <2>1. DOMAIN owner' = Names' /\ \A n \in Names' : \A a, b \in owner'[n] : a = b
    BY <1>1, NamesStay DEF MeshInv, OwnerInv
  <2>2. ASSUME NEW n \in Names', NEW node \in owner'[n]
        PROVE  \E k \in Jobs : node = Node(k)' /\ n = JobName(k)' /\ k[1] <= run'
    <3>1. n \in Names /\ node \in owner[n]
      BY <1>1, <2>2, NamesStay
    <3>2. PICK k \in Jobs : node = Node(k) /\ n = JobName(k) /\ k[1] <= run
      BY <3>1 DEF MeshInv, OwnerInv
    <3>3. k[1] <= run'
      BY <1>1, <3>2, JobParts DEF MeshInv
    <3> QED BY <1>1, <3>2, <3>3, NamesStay
  <2> QED BY <1>2, <2>1, <2>2 DEF OwnerInv, Alive, Places
<1>4. ConfigInv'
  BY <1>2 DEF ConfigInv
<1>5. setting' \in Settings /\ index' \in Matrices
  BY <1>1, NamesStay DEF MeshInv
<1>6. servers' = [k \in Jobs |-> IF at'[k] \in OnTailnet THEN 1 ELSE 0]
      /\ config' = [k \in Jobs |-> config'[k]]
  BY <1>1 DEF MeshInv
<1> QED BY <1>1, <1>3, <1>4, <1>5, <1>6 DEF MeshInv

LEMMA MeshNextInv == MeshInv /\ [Next]_vars => MeshInv'
<1> SUFFICES ASSUME MeshInv, [Next]_vars PROVE MeshInv'
  OBVIOUS
<1>1. ASSUME NEW j \in Jobs, JobStep(j) PROVE MeshInv'
  <2>1. CASE Register(j)
    BY <2>1, RegisterStep
  <2>2. CASE UpFails(j) \/ Leave(j)
    BY <2>2, LogOutStep
  <2>3. CASE Begin(j) \/ StartFails(j) \/ StartOk(j) \/ Joined(j) \/ Retry(j) \/ Killed(j)
    <3>1. owner' = owner /\ run' = run /\ workflow' = workflow
      BY <2>3 DEF Begin, StartFails, StartOk, Joined, Retry, Killed
    <3> QED BY <2>3, <3>1, QuietStep
  <2> QED BY <1>1, <2>1, <2>2, <2>3 DEF JobStep
<1>2. ASSUME NEW n \in Names, Forgotten(n) PROVE MeshInv'
  BY <1>2, ForgottenStep
<1>3. CASE ReRun
  BY <1>3, ReRunStep
<1>4. CASE UNCHANGED vars
  <2>1. workflow' = workflow /\ UNCHANGED <<run, at, tries, servers, config, owner>>
    BY <1>4 DEF vars
  <2>2. ConfigInv' /\ OwnerInv' /\ setting' \in Settings /\ index' \in Matrices
    BY <2>1, ConfigStays, OwnerStays, NamesStay DEF MeshInv
  <2> QED BY <2>1, <2>2 DEF MeshInv
<1> QED BY <1>1, <1>2, <1>3, <1>4 DEF Next, Finished

-------------------------------------------------------------------------------
(* What the theorems below rest on, whatever the workflow sets its inputs to.       *)
THEOREM MeshInvariance == Spec => []MeshInv
BY MeshInitInv, MeshNextInv, PTL DEF Spec

(* In a run with a prefix of its own, a job that is up and shares its hostname with  *)
(* no other of the run is found under it, whatever stale nodes are listed; what is    *)
(* found under a shared one is a job of this run.  A run has a prefix of its own      *)
(* under action.yml's default, or if no earlier run had the text it is given.         *)
THEOREM AlwaysFindable == Spec => []Findable
<1>1. MeshInv => Findable
  <2> SUFFICES ASSUME MeshInv, NEW j \in Jobs, at[j] = "up", OwnPrefix(j[1])
               PROVE  /\ \A node \in owner[JobName(j)] :
                           node[1][1] = j[1] /\ Hostname(node[1], Resolved(j[1])) = JobName(j)
                      /\ Alone(j) => owner[JobName(j)] = {Node(j)}
    BY NameNow DEF MeshInv, Findable, Alive, Places
  <2>1. Alone(j) => owner[JobName(j)] = {Node(j)}
    BY DEF MeshInv, OwnerInv
  <2>2. ASSUME NEW node \in owner[JobName(j)]
        PROVE  node[1][1] = j[1] /\ Hostname(node[1], Resolved(j[1])) = JobName(j)
    <3>1. PICK k \in Jobs : node = Node(k) /\ JobName(j) = JobName(k) /\ k[1] <= run
      BY <2>2, NamesApart DEF MeshInv, OwnerInv
    <3>2. j[1] = run
      BY DEF MeshInv, ConfigInv, Alive, Places
    <3>3. k[1] = j[1]
      BY <3>1, <3>2, RunsApart
    <3>4. node[1] = k
      BY <3>1 DEF Node, Dir
    <3> QED BY <3>1, <3>3, <3>4 DEF JobName
  <2> QED BY <2>1, <2>2
<1> QED BY MeshInvariance, <1>1, PTL

(* No process ever runs two tsnet servers.                                        *)
THEOREM AlwaysOneServer == Spec => []OneServer
<1>1. MeshInv => OneServer
  BY DEF MeshInv, OneServer
<1> QED BY MeshInvariance, <1>1, PTL

(* Names held by one node at most, attempts below their limit, a configuration for   *)
(* everything that runs, and for a coordinator a minimum of workers between one and  *)
(* those it expects, which Coordinator and Farm assume.                            *)
THEOREM MeshTypeCorrect == Spec => []MeshTypeOK
<1>1. ASSUME MeshInv, NEW n \in Names
      PROVE  owner[n] \subseteq Jobs \X (0 .. Tries) /\ Cardinality(owner[n]) <= 1
  <2>1. ASSUME owner[n] # {} PROVE \E j \in Jobs : owner[n] = {Node(j)}
    <3>1. PICK j \in Jobs : Node(j) \in owner[n] /\ n = JobName(j)
      BY <1>1, <2>1 DEF MeshInv, OwnerInv
    <3>2. \A node \in owner[n] : node = Node(j)
      BY <1>1, <3>1 DEF MeshInv, OwnerInv
    <3> QED BY <3>1, <3>2
  <2>2. owner[n] = {} \/ \E j \in Jobs : owner[n] = {Node(j)}
    BY <2>1
  <2>3. \A j \in Jobs : Node(j) \in Jobs \X (0 .. Tries)
    BY MeshAssumption DEF Node, Dir
  <2>4. owner[n] \subseteq Jobs \X (0 .. Tries)
    BY <2>2, <2>3
  <2>5. Cardinality(owner[n]) <= 1
    <3>1. Cardinality({}) = 0 /\ \A j : Cardinality({Node(j)}) = 1
      BY FS_EmptySet, FS_Singleton
    <3> QED BY <2>2, <3>1
  <2> QED BY <2>4, <2>5
<1>2. ASSUME MeshInv PROVE servers \in [Jobs -> Nat]
  BY <1>2 DEF MeshInv
<1>3. MeshInv => MeshTypeOK
  BY <1>1, <1>2 DEF MeshInv, MeshTypeOK, ConfigInv
<1> QED BY MeshInvariance, <1>3, PTL

(* Whatever the indexes are, a forward reaches only workers that advertise its port; *)
(* and a worker whose index is one of 1 .. expected, written plainly and used once,   *)
(* is reached at the port it advertises, in a run with a prefix of its own.          *)
THEOREM ArriveHome == Spec => []JobsArriveHome
<1>1. MeshInv => JobsArriveHome
  <2> SUFFICES ASSUME MeshInv, NEW r \in 1 .. Runs, at[<<r, 0>>] = "up"
               PROVE  LET c == <<r, 0>>
                          Forwards == 1 .. config[c].expected
                          Reached(idx) == Found(ForwardTarget(Prefix(c), idx))
                      IN /\ \A idx \in Forwards : \A node \in Reached(idx) :
                              node[1][2] # 0 /\ Advertised(node[1][2]) = ForwardPort(idx)
                         /\ \A w \in WorkerJobs :
                              /\ at[<<r, w>>] = "up" /\ OwnPrefix(r) /\ Alone(<<r, w>>)
                              /\ \E n \in Forwards : index[w] = Decimal(n)
                              => \E idx \in Forwards :
                                   /\ ForwardPort(idx) = Advertised(w)
                                   /\ Reached(idx) = {Node(<<r, w>>)}
    BY DEF JobsArriveHome
  <2> DEFINE c == <<r, 0>>
             Forwards == 1 .. config[c].expected
             Reached(idx) == Found(ForwardTarget(Prefix(c), idx))
  <2>1. c \in Jobs /\ \A w \in WorkerJobs : <<r, w>> \in Jobs /\ w # 0
    BY MeshAssumption DEF Jobs, Roles
  <2>2. Prefix(c) = Resolved(r) /\ \A n \in Forwards : n \in Int /\ n >= 1
    <3>1. Prefix(c) = Resolved(r) /\ config[c].expected \in Int
      BY <2>1, NameNow DEF MeshInv, ConfigInv, Alive, Places
    <3> QED BY <3>1
  <2>3. ASSUME NEW idx \in Forwards, NEW node \in Reached(idx)
        PROVE  node[1][2] # 0 /\ Advertised(node[1][2]) = ForwardPort(idx)
    <3> DEFINE name == <<Resolved(r), "worker", Decimal(idx)>>
    <3>1. ForwardTarget(Prefix(c), idx) = name
      BY <2>2 DEF ForwardTarget, WorkerName
    <3>2. name \in Names /\ node \in owner[name]
      BY <2>3, <3>1 DEF Found, MeshInv, OwnerInv
    <3> HIDE DEF name
    <3>3. PICK k \in Jobs : node = Node(k) /\ name = JobName(k)
      BY <3>2 DEF MeshInv, OwnerInv
    <3>4. JobName(k) = <<Resolved(k[1]), IF k[2] = 0 THEN "coordinator" ELSE "worker",
                         IF k[2] = 0 THEN NoText ELSE index[k[2]]>>
      BY DEF JobName, Hostname, CoordinatorName, WorkerName
    <3>5. name[2] = JobName(k)[2] /\ name[3] = JobName(k)[3]
      BY <3>3
    <3>6. k[2] # 0 /\ index[k[2]] = Decimal(idx)
      BY <3>4, <3>5 DEF name
    <3>7. node[1] = k
      BY <3>3 DEF Node, Dir
    <3>8. WorkerIndex(index[k[2]]) = idx
      BY <2>2, <3>6, ReadBack
    <3>9. Advertised(k[2]) = ForwardPort(idx)
      BY <3>8 DEF Advertised, ServerPublicPort, ForwardPort
    <3> QED BY <3>6, <3>7, <3>9
  <2>4. ASSUME NEW w \in WorkerJobs, at[<<r, w>>] = "up", OwnPrefix(r), Alone(<<r, w>>),
               NEW n \in Forwards, index[w] = Decimal(n)
        PROVE  ForwardPort(n) = Advertised(w) /\ Reached(n) = {Node(<<r, w>>)}
    <3>1. WorkerIndex(index[w]) = n
      BY <2>2, <2>4, ReadBack
    <3>2. ForwardTarget(Prefix(c), n) = JobName(<<r, w>>)
      BY <2>1, <2>2, <2>4 DEF ForwardTarget, JobName, Hostname
    <3>3. <<r, w>> \in Jobs /\ JobName(<<r, w>>) \in Names
      BY <2>1, NamesApart
    <3>4. owner[JobName(<<r, w>>)] = {Node(<<r, w>>)} /\ DOMAIN owner = Names
      BY <2>4, <3>3 DEF MeshInv, OwnerInv
    <3>5. ForwardPort(n) = Advertised(w)
      BY <3>1 DEF Advertised, ServerPublicPort, ForwardPort
    <3> QED BY <3>2, <3>3, <3>4, <3>5 DEF Found
  <2> QED BY <2>3, <2>4
<1> QED BY MeshInvariance, <1>1, PTL
===============================================================================
