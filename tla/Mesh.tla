--------------------------------- MODULE Mesh -----------------------------------
(***************************************************************************)
(* The jobs of a workflow run on the tailnet: tsmesh.Up with its attempts,   *)
(* the hostnames and ports the jobs find each other by, and a tailnet that    *)
(* remembers nodes of jobs that are gone.  A run may be re-run, under the      *)
(* same run id, once all its jobs are over; the workflow, and with it what it   *)
(* sets run-prefix and worker-index to, stays the same.                        *)
(*                                                                           *)
(* The tailnet is external.  A node is identified by the state directory of   *)
(* its tsnet server; the first node of a name keeps it, and a later one of    *)
(* the same name is not found under it (action.yml: stale ephemeral nodes     *)
(* shadow same-named new ones).                                               *)
(***************************************************************************)
EXTENDS Config, FiniteSets

CONSTANTS
  WorkerJobs,  \* worker jobs of a run, by number
  Matrices,    \* what workflows set worker-index to, for each worker job
  Settings,    \* what workflows set run-prefix to: "default", "empty" or "fixed"
  Runs,        \* bound: times the workflow is run
  Tries,       \* attempts of tsmesh.Up
  RawNumbers   \* numbers the numeric inputs are tried with

ASSUME MeshAssumption ==
  /\ WorkerJobs \subseteq Nat \ {0}
  /\ Settings \subseteq {"default", "empty", "fixed"}
  /\ Runs \in Nat \ {0} /\ Tries \in Nat \ {0}
  /\ RawNumbers \subseteq Int

Roles == {0} \cup WorkerJobs                 \* 0 is the coordinator
Jobs == (1 .. Runs) \X Roles

VARIABLES
  setting,     \* run-prefix, of Settings
  index,       \* index[w]: worker-index of w, a text; of Matrices
  run,         \* run_attempt
  at,          \* at[j]: where job j is
  tries,       \* tries[j]: attempts of Up that came to nothing
  servers,     \* servers[j]: tsnet servers running in j's process
  config,      \* config[j]: what loadFrom returned
  owner        \* owner[n]: the node found under name n, a set of at most one

workflow == <<setting, index>>
vars == <<workflow, run, at, tries, servers, config, owner>>

(* run-prefix: action.yml's default, <run_id>-<run_attempt>; the empty text, for  *)
(* which loadFrom takes the run id; or a text of the workflow's own.             *)
RunId == 1
Fixed == 2
RunIdOnly(r) == RunId                        \* mutant
DefaultPrefix(r) == 2 + r
RunPrefix(r) == [default |-> DefaultPrefix(r), empty |-> Empty, fixed |-> Fixed][setting]
Resolved(r) == OrDefault(RunPrefix(r), RunId)

Hostname(j, prefix) ==
  IF j[2] = 0 THEN CoordinatorName(prefix) ELSE WorkerName(prefix, index[j[2]])
Prefix(j) == config[j].prefix
Name(j) == Hostname(j, Prefix(j))
Advertised(w) == ServerPublicPort(WorkerIndex(index[w]))

(* Dir: "/tmp/tsnet-" + hostname, the same in every attempt.                    *)
FreshDir(j) == <<j, tries[j]>>               \* mutant
Dir(j) == <<j, 0>>
Node(j) == Dir(j)

Names == {Hostname(j, Resolved(j[1])) : j \in Jobs}

Places == {"none", "start", "join", "registered", "pause", "up", "over"}
Alive == Places \ {"none", "over"}

MeshTypeOK ==
  /\ setting \in Settings /\ index \in Matrices
  /\ run \in 1 .. Runs
  /\ at \in [Jobs -> Places]
  /\ tries \in [Jobs -> 0 .. Tries - 1]
  /\ servers \in [Jobs -> Nat]
  /\ \A n \in Names : owner[n] \subseteq Jobs \X (0 .. Tries) /\ Cardinality(owner[n]) <= 1
  /\ \A j \in Jobs : at[j] \in Alive =>
       config[j] # Refused /\ (j[2] = 0 => config[j].min \in 1 .. config[j].expected)

Init ==
  /\ setting \in Settings /\ index \in Matrices
  /\ run = 1
  /\ at = [j \in Jobs |-> "none"]
  /\ tries = [j \in Jobs |-> 0]
  /\ servers = [j \in Jobs |-> 0]
  /\ config = [j \in Jobs |-> Refused]
  /\ owner = [n \in Names |-> {}]

-------------------------------------------------------------------------------
(* A job starts: main reads its configuration and exits if it is refused.      *)

Inputs(j) ==
  LET numbers == {{}} \cup {{n} : n \in RawNumbers}
      ofWorker == [mode : {"worker"}, prefix : {RunPrefix(j[1])}, runId : {RunId}]
      ofCoordinator == [mode : {"coordinator"}, prefix : {RunPrefix(j[1])}, runId : {RunId},
                        expected : numbers, min : numbers]
  IN IF j[2] = 0 THEN ofCoordinator ELSE ofWorker

Goes(j, from, to) == at[j] \in from /\ at' = [at EXCEPT ![j] = to]

Exits(j, from) ==                            \* the process, with all it remembers
  /\ Goes(j, from, "over")
  /\ tries' = [tries EXCEPT ![j] = 0]
  /\ servers' = [servers EXCEPT ![j] = 0]
  /\ config' = [config EXCEPT ![j] = Refused]

Begin(j) == \E get \in Inputs(j) :
  /\ j[1] = run /\ Goes(j, {"none"}, IF LoadFrom(get) = Refused THEN "over" ELSE "start")
  /\ config' = [config EXCEPT ![j] = LoadFrom(get)]
  /\ UNCHANGED <<workflow, run, tries, servers, owner>>

-------------------------------------------------------------------------------
(* tsmesh.Up: an attempt that comes to nothing is followed by a pause and        *)
(* another one, or the last one's error ends the process.                       *)

AgainOnceMore(j) == tries[j] + 1 <= Tries    \* mutant
Again(j) == tries[j] + 1 < Tries

TryOver(j, from, left) ==
  \/ ~Again(j) /\ Exits(j, from)
  \/ /\ Again(j) /\ Goes(j, from, "pause")
     /\ tries' = [tries EXCEPT ![j] = @ + 1]
     /\ servers' = [servers EXCEPT ![j] = left]
     /\ UNCHANGED config

StartFails(j) ==                             \* Start cleans up after itself
  /\ TryOver(j, {"start"}, servers[j])
  /\ UNCHANGED <<workflow, run, owner>>

StartOk(j) ==
  /\ Goes(j, {"start"}, "join")
  /\ servers' = [servers EXCEPT ![j] = @ + 1]
  /\ UNCHANGED <<workflow, run, tries, config, owner>>

Register(j) ==                               \* the control plane knows the node
  /\ Goes(j, {"join"}, "registered")
  /\ owner' = [owner EXCEPT ![Name(j)] = IF @ = {} THEN {Node(j)} ELSE @]
  /\ UNCHANGED <<workflow, run, tries, servers, config>>

Joined(j) ==                                 \* Up and LocalClient returned
  /\ Goes(j, {"registered"}, "up")
  /\ UNCHANGED <<workflow, run, tries, servers, config, owner>>

(* srv.Close logs the node out, if that still gets through.                     *)
NotClosed(j) == servers[j]                   \* mutant
Closed(j) == servers[j] - 1
LogOut(j) == owner' \in {owner, [n \in Names |-> owner[n] \ {Node(j)}]}

UpFails(j) ==                                \* Up or LocalClient did not
  /\ TryOver(j, {"join", "registered"}, Closed(j))
  /\ LogOut(j)
  /\ UNCHANGED <<workflow, run>>

Retry(j) ==
  /\ Goes(j, {"pause"}, "start")
  /\ UNCHANGED <<workflow, run, tries, servers, config, owner>>

Leave(j) ==                                  \* worker.Run returns: mesh.Close
  /\ j[2] # 0 /\ Exits(j, {"up"})
  /\ LogOut(j)
  /\ UNCHANGED <<workflow, run>>

-------------------------------------------------------------------------------
(* Around the jobs: the runner ends or loses them, the tailnet forgets nodes     *)
(* that do not answer, somebody runs the workflow again.                        *)

Killed(j) ==
  /\ Exits(j, Alive)
  /\ UNCHANGED <<workflow, run, owner>>

Running(node) == at[node[1]] \in {"join", "registered", "up"} /\ Node(node[1]) = node

Forgotten(n) ==
  /\ owner[n] # {} /\ \A node \in owner[n] : ~Running(node)
  /\ owner' = [owner EXCEPT ![n] = {}]
  /\ UNCHANGED <<workflow, run, at, tries, servers, config>>

ReRun ==
  /\ run < Runs
  /\ \A j \in Jobs : j[1] = run => at[j] = "over"
  /\ run' = run + 1
  /\ UNCHANGED <<workflow, at, tries, servers, config, owner>>

Finished ==
  /\ run = Runs /\ \A j \in Jobs : at[j] = "over"
  /\ UNCHANGED vars

JobStep(j) ==
  \/ Begin(j)
  \/ StartFails(j) \/ StartOk(j) \/ Register(j) \/ Joined(j) \/ UpFails(j) \/ Retry(j)
  \/ Leave(j) \/ Killed(j)

Next ==
  \/ \E j \in Jobs : JobStep(j)
  \/ \E n \in Names : Forgotten(n)
  \/ ReRun \/ Finished

Spec == Init /\ [][Next]_vars

-------------------------------------------------------------------------------
(* Nobody else in the run has j's name; no earlier run had the prefix of run r,  *)
(* which is so for every run under action.yml's default.                        *)
Alone(j) == j[2] = 0 \/ \A w \in WorkerJobs \ {j[2]} : index[w] # index[j[2]]
OwnPrefix(r) == setting = "default" \/ \A q \in 1 .. r - 1 : Resolved(q) # Resolved(r)

(* A job that is up in a run with a prefix of its own is found under its hostname, *)
(* whatever nodes of earlier runs, or of its own earlier attempts, are listed.      *)
(* Under a hostname that jobs of the run share, one of those is found or nobody.    *)
(* Nothing is promised to a run that has the prefix of an earlier one, as every     *)
(* re-run has if run-prefix is empty or a fixed text.                             *)
Findable ==
  \A j \in Jobs : at[j] = "up" /\ OwnPrefix(j[1]) =>
    /\ \A node \in owner[Name(j)] : node[1][1] = j[1] /\ Hostname(node[1], Prefix(j)) = Name(j)
    /\ Alone(j) => owner[Name(j)] = {Node(j)}

(* Never two tsnet servers in one process, over the same directory.              *)
OneServer == \A j \in Jobs : servers[j] <= 1

(* coordinator.go: a forward's port and target match a worker's own address and   *)
(* hostname.  What a forward reaches is a worker that advertises the forward's      *)
(* port, whatever the indexes look like; and a worker whose index is a number of    *)
(* 1 .. expected, written plainly and used once, is reached at the port it          *)
(* advertises, not another one and not nobody.  (An index that is unset, 0 or "01"   *)
(* is 1 for the port but not in the hostname: no forward reaches that worker.)      *)
Found(n) == IF n \in DOMAIN owner THEN owner[n] ELSE {}

JobsArriveHome ==
  \A r \in 1 .. Runs : at[<<r, 0>>] = "up" =>
    LET c == <<r, 0>>
        Forwards == 1 .. config[c].expected
        Reached(idx) == Found(ForwardTarget(Prefix(c), idx))
    IN /\ \A idx \in Forwards : \A node \in Reached(idx) :
            node[1][2] # 0 /\ Advertised(node[1][2]) = ForwardPort(idx)
       /\ \A w \in WorkerJobs :
            /\ at[<<r, w>>] = "up" /\ OwnPrefix(r) /\ Alone(<<r, w>>)
            /\ \E n \in Forwards : index[w] = Decimal(n)
            => \E idx \in Forwards :
                 ForwardPort(idx) = Advertised(w) /\ Reached(idx) = {Node(<<r, w>>)}
===============================================================================
