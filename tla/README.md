# Formal models of sccache-dist-action

The action runs a compile farm inside one GitHub workflow: a *coordinator* job
with the sccache-dist scheduler and the build, and *worker* jobs with one
sccache-dist server each, joined by a private tailnet. This directory models its
control logic in TLA+, checks it with TLC and proves its safety with TLAPS.

| Module | Models | Proofs |
| --- | --- | --- |
| `ServerSlot` | what the farm may assume of a worker's server (abstract) | |
| `Supervisor` | `internal/worker/supervise.go`, and the start and stop in `worker.Run` | `SupervisorProofs` |
| `Coordinator` | `main.go`, `procctl.go`, `coordinator.Run`: the setup step's two processes | `CoordinatorProofs` |
| `Farm` | the coordinator job with a `worker.Run` per worker on top of `ServerSlot` | `FarmProofs` |
| `Stream` | what two ends may expect of a relayed connection (abstract) | |
| `Relay` | `internal/proxy`: one connection through a chain of relays | `RelayProofs` |
| `DialReport` | what a reader of a forwarder's status lines may expect of `slowest-dial` (abstract) | |
| `Forwarder` | `internal/proxy`: the accept loop, the relays' dials and the slowest-dial mark they share with `Status` | `ForwarderProofs` |
| `LogSink` | `openLog` and `stdoutUntilBroken` in `coordinator.go` | in `StatusLogProofs` |
| `StatusLog` | `logStatus`: a `Forwarder` that reports into a `LogSink` | `StatusLogProofs` |
| `Config` | `loadFrom`, and the names and ports both kinds of job derive | in `MeshProofs` |
| `Mesh` | `tsmesh.Up` and `Close`, the jobs' hostnames, a tailnet that remembers old nodes | `MeshProofs` |
| `Release` | `src/index.js`: release selection, the tool cache, the engine, the spawn | `ReleaseProofs` |

Who builds on whom: `Farm` extends `Coordinator` and instantiates `ServerSlot`,
which `Supervisor` implements; `StatusLog` extends `Forwarder` and instantiates
`LogSink`; `Mesh` extends `Config`; `Relay` implements `Stream`, and `Forwarder`
implements `DialReport`. `MCSupervisor`, `MCStatusLog`, `MCMesh` and `MCRelease` add
what TLC needs: symmetry, and the worker indexes, tags and refs tried.

Run a model with `tlc -config Supervisor.cfg MCSupervisor.tla`, a proof
with `tlapm SupervisorProofs.tla`. `PROJECT.json` lists every run with its
module, the mutation that each property detects, the source lines behind each
definition, the hazards and the theorems.

## 1. Inventory

**Supervisor** (`internal/worker/supervise.go`). State: the current command, the
channel its exit arrives on, the time of the last start, the misses in a row.
Operations: `launch`, `kill`, `run`, `restart`, `probeServer`. It shares the
process with a waiting goroutine per launch, with the worker's main goroutine
(which cancels its context and waits for it) and with the server process. Hard:
exits, probes, kills and cancellation meet in any order. Correct when there is at
most one server, no exit is lost, no healthy server is restarted, starts are
paced, a server comes back, and leaving ends with nothing running.

**Worker job** (`internal/worker/worker.go`). State: the guard's misses. It joins
the mesh, opens a bridge to the scheduler and an exposure of its server, waits
for the coordinator's liveness port, starts the server, then guards. Hard: paths
come and go, the coordinator may never appear or disappear unseen. Correct when a
worker leaves if and only if the coordinator is gone.

**Coordinator forwarder** (`internal/coordinator/coordinator.go`). State: the
phase, the open ports and forwards, the count of registered servers, the files
written, and whether its stdout still takes writes. Every error ends its process.
It exports into files that a second process and the runner read, and it outlives the
step whose stdout it logs to. Correct when a build starts only on a farm that is
ready, with its outputs in place, and when the log file has everything.

**Action process** (`cmd/sccache-dist-action`). State: the deadline, the pid
file. Spawns the forwarder and polls `GITHUB_ENV`; `--teardown` signals the pid.
Correct when the step always ends and does not give up too early.

**TCP relays** (`internal/proxy`). State: per connection the dial attempts and
two copying goroutines; atomic counters that relays and `Status` share. Hard:
half-closes, resets on either side, data read but not written, errors of `Accept`,
a mark that is raised and taken at the same time. Correct when a chain of relays is a
stream, no relay outlives its ends, and no slow dial goes unreported.

**Tailnet node** (`internal/tsmesh`). State: the tsnet server and its state
directory. `Up` makes three attempts; `Dial`, `Listen`, `Close`, `Peers`. Hard: the
tailnet lists nodes of attempts and runs that are gone, and they shadow new ones of
the same name. Correct when a job that is up is found under its name, as far as the
inputs give it a name of its own.

**Inputs** (`internal/config`). Sequential: defaults, refusals, and the prefix, index
and counts from which two jobs on two machines derive matching names and ports.

**JavaScript wrapper** (`src/index.js`). State: the machine's tool cache, the engine's
directory. It resolves the ref of `uses:` to a release, once for the engine and once for
the binary, fetches three executables and runs one. Hard: cancellation while copying,
releases that are published between any two requests, versions as keys. Correct when a job
runs the release its ref stands for, whole, and no older one than it could.

**sccache-dist processes and configs** (`internal/sccachedist`) are started and
rendered sequentially. `dist/index.js` is generated, `spike/` is an earlier experiment,
and the workflows hold no state of the action.

Interactions: the parent and the forwarder meet only in the pid file and in
`GITHUB_ENV`; a worker and the coordinator only over the mesh (the liveness port
10599, the scheduler 10600, one forward per worker); the worker's main goroutine
and its supervisor through a context and a channel.

## 2. The models

### Supervisor
`pc` is the supervisor goroutine's place in `run`, `restart` and `kill`; a blocking
receive (`<-s.exited`) is a state of its own (`restart.reap`, `exit.reap`). `proc` is
what the operating system has in each process slot, `exited` the buffered channel
of each launch, `cmd` is `s.cmd`. The servers are an adversary: they may never
boot, wedge, recover, or crash at any moment. `failed` and `sinceStart` are history
variables; the code does not read them.

Three things the code does that are easy to miss and that the model keeps:
`s.launched` is set before `start` is called, so failed starts are paced too; the
context is consulted only while sleeping, so the supervisor may start a server
once more after it was cancelled, and the deferred kill must catch that one; and
when `select` has two ready cases either may win.

### Coordinator
`fpc` walks through `After`, the phases of `coordinator.Run`. `StartScheduler`,
`OpenLiveness`, `Forward` (one listener per step), the wait, the quorum test, the
client config, the outputs and each of the four `GITHUB_ENV` lines are separate
steps, since a second process can look in between. `registered` is the scheduler's
view and is changed by an arbitrary environment here. Time is counted in ticks and
passes only while a process waits; the other phases and the one-second polls are
short beside a tick. Joining the mesh has no limit in the code (`tsmesh.Up` retries
and each attempt waits for the control plane): `JoinBudget` bounds it for
TLC; no property depends on the bound. `GITHUB_ENV` is always set by the runner, so the
branches for an unset variable are left out; one that cannot be opened is not.

### Farm
Extends `Coordinator` and replaces its arbitrary registrations by workers. Each
worker's server is a `ServerSlot`; that `Supervisor` implements this is checked
(`SlotSpec`) and proved (`ImplementsSlot`), so the supervisor's interleavings need
not be explored again here. `reach` is a path that fails and recovers freely. A
dial that times out is one made while its path was down. `TeardownThresh` is at
least 1: the code behaves for smaller values as it does for 1. `unanswered` and `served`
(whose server came up at all) are history. `BuildOnServers` runs through every process of
the farm: a server that came up, its heartbeats, the scheduler's list, the forwarder's
count, the line the parent waits for, and the build.

### Relay
Nodes `0 .. N+1` and links between them; `N = 2` is the farm's chain (client,
coordinator's forward, worker's exposure, server). Data is counted, since TCP keeps
its order and a relay only copies. `CopyOver` is when `io.Copy` returns: at an end
of stream or a read error, or at a write error while holding data. A relay that
sees a reset passes it on as an ordinary half-close, as the code does; this is
why `Stream` lets a receiver see a clean end of a *broken* connection, short of
the data.

### Forwarder, LogSink and StatusLog
`Forwarder` is the inside of one `proxy.Forwarder`: the accept loop, a relay
goroutine per connection, and the status goroutine. `LoadMark` and
`CompareAndSwap` are the two atomic operations of the loop at `proxy.go:98`, each
a step; `SwapMark` is the one of `Status`. Dials take any time up to
`dialAttemptTimeout`, and a failed one that is not the last at least the 100 ms that
the code sleeps. `recorded` is history: the relays that recorded their dial since
the mark was last taken. The listener is seen as the code sees it, through what
`Accept` returns. `active`, `total`, `dialRetries` and `dialFails` are added to and
printed, never compared, and are left out. `DialReport` is the same without the mark: a
dial is timed in one step, and a line says the longest of those timed since the line
before. `ReportSpec` is the refinement: a relay has timed its dial when it leaves the loop at
`proxy.go:98`, a line is begun when the mark is swapped.

`LogSink` has a step for each write and each look at `broken`, since the log
package and the goroutine that copies the scheduler's output meet between them.
(`exec` uses one goroutine for stdout and stderr, as they are the same writer; the log
package serialises its callers.) The step's stdout may go away at any moment and the
disk may fill. A full disk makes the `MultiWriter` fail before stdout: the log
package ignores that, the copier ends. The comments promise nothing for that case,
and the properties except it.

`StatusLog` composes the two: the finished line of `Status` becomes a call of the log.
`filed` is history: what the file says of a connection. `Exhausted` stutters where
the bound on log lines is used up.

### Config and Mesh
A numeric input is the set of what it parses to, empty when it is unset or
malformed, which the code does not tell apart. `worker-index` is used twice: as a number,
for the port a worker advertises, and as a text, in its hostname. A text is what it parses
to and whether it is spelled plainly, as `%d` prints a number; so 1 and "01" are one number
and two texts, and 0 and an unset index are two texts that both count as 1. `LoadFrom` has
the inputs that decide something; the others pass through.

`Mesh` is what `tsmesh.Up` does against a tailnet: an attempt can fail at `Start`, before or
after the control plane knows the node, or at `LocalClient`; `srv.Close` logs it out, if that
still gets through. A node is identified by its state directory, as for tsnet, so that a later
attempt of the same job is the same node. A name belongs to the node that had it first (the
rule `action.yml:12` warns of) until it is logged out or forgotten, and the runner
may kill a job anywhere. A second run of the workflow has the same run id, another attempt
number, and the same jobs and settings (`workflow`: what `worker-index` and `run-prefix` are
set to, which never changes). `run-prefix` is action.yml's default, or empty, for which
`loadFrom` takes the run id, or a fixed text. Under the last two a re-run has the names of
the run before and may be shadowed by its nodes, so `Findable` and the second half of
`JobsArriveHome` promise something only to a run that has a prefix of its own (`OwnPrefix`),
and only to a job whose name no other job of the run has (`Alone`). `JobsArriveHome` reads both
ends of `forwardSpec`: the port a worker advertises, and the name the forward behind that port
dials. Its first half holds for all indexes: no forward leads to a worker that advertises
another port. Its second half is that a worker with an index from 1 to `expected-workers`,
written plainly and used once, *is* reached. The other workers are reached by no forward.

Assumed: all jobs of a workflow get the same `run-prefix`, and nodes of other workflows do
not have its names.

### Release
Tags and refs are sequences of one to three numbers and a pre-release number.
`TagToSemver` fills and drops what `semver.coerce` does. Tags that are no version at
all are left out: they match no range, and an exact one is its own key. The tool
cache is the runner's: `cacheDir` empties the entry, copies, and marks it complete; `find`
returns only complete ones. `resolveRelease` awaits the list of releases (`Hit`, `NoHit`) and,
if nothing of it fits, the latest release in a request of its own (`GotLatest`); anything may be
published between the two. Engine and binary are two separate resolutions, as in the
code: with a release published in between they may be of different releases
(`EngineWhole` is about the engine's two executables, `EngineNotNewer` about engine and
binary). `offered` is history: the tags that were published when the job began. `UpToDate`
measures what the job runs against it, since nothing can be promised of what is published
later. The list is one step, though the code fetches it in pages of a hundred.
`getLatestRelease` may return any published release that is no pre-release, since the
maintainers choose. One job runs at a time; runners that share a tool cache between
concurrent jobs are outside. Published releases are not deleted.

### Fairness
`Supervisor`: weak for every goroutine (Go runs what can run; probes have a
timeout), for time and for a killed process to die; strong for `SelectDone`, since
Go's `select` picks at random among the ready cases. `Recovers` also assumes
`Machine`: a start that is retried for ever succeeds in the end, a server started
again and again comes up in the end. `Coordinator`: weak for the parent, the
forwarder and time. `Farm`: weak for the worker's own steps, and for
`KillServer`, strong for `Finish`: both are the supervisor's `StopTerminates`, seen
from outside; a server that is dropped and booted again meanwhile must not block
leaving. Its coordinator has no fairness. `Relay`: weak for the relays and for
endpoints that read what arrives; endpoints need not send or close anything.
`Mesh`, `StatusLog` and `Release` claim no liveness: `Up` waits for a control plane that
need not answer, and the status loop and the wrapper only do one thing after another.

## 3. The runs

| Run | Instance | Shows |
| --- | --- | --- |
| `supervisor` | 2 slots, threshold 3, uptime 2 | one server, exits kept, restarts justified, starts paced, nothing left behind; a server comes back, leaving ends; implements `ServerSlot` |
| `coordinator` | 3 workers, 2 needed, joins of up to 3 ticks | a build starts on a ready farm, with its outputs; the parent outlives the wait unless joining was slow; the step ends |
| `farm` | 1 worker, threshold 3 | server after the scheduler, a build only on servers that came up, a patient guard that leaves when the coordinator is gone |
| `relay` | 2 relays, 2 units up and 1 down, 3 dial attempts, all faults | a two-way stream, a short one only if something broke; a close is noticed at the other end; no relay is left |
| `status_log` | 2 connections, 2 attempts of 0 or 1, 2 log lines and 1 of the scheduler | the mark is exact, every slow dial is filed, the file keeps all, a closed stdout stops nothing; implements `DialReport` |
| `mesh` | 2 workers with 5 pairs of indexes, 3 settings of `run-prefix`, 2 runs, 2 attempts, counts unset or 0 to 2 | jobs with a name of their own are found, one node per process, forwards reach the worker that advertises their port, quorums within what is expected |
| `release` | 3 releases and a candidate of one, 5 refs, 2 jobs | what runs is what was resolved, no older than what was offered or than the engine; engines are whole |

Bounds. Two process slots hold a server and its successor, the only way two can
exist; larger thresholds only lengthen runs of identical misses. Two ticks of
waiting and of slack let every order of the two countdowns occur; three workers
with a quorum of two give counts below, at and above it. One worker is enough in
`farm`, because workers do not interact; its invariants are proved for any number.
A link that holds one unit, with two to send, reaches every combination of unread, held
and blocked data at a close; a larger window only delays the blocking. Three dial
attempts are the code's own number; `status_log` makes two, enough to retry and to
give up, and two connections are the fewest that race for the mark, with durations 0
to 2 that are equal, smaller and larger; two lines are the first that fails on a
closed stdout and the one after it. Two runs are one re-run, with two attempts in each:
one that fails anywhere and one after it. Two workers are the fewest that share a name; the
pairs of indexes are 1 and 2, both unset, counted from zero, one spelled "01", and one index
used twice. Counts up to 2 give a minimum below, at and above the expectation. The releases have
a pair in one major version, a candidate that shares the version of one of them and a
release outside; two jobs are one that is cancelled, or fills the cache, and one that
finds what it left. `CHECK_DEADLOCK` is on in
every run: the stuttering actions `Terminated`, `Finished` and `Exhausted` mark the states
where the program, or the bound, is allowed to stop.

### Disagreements with the documentation
Five runs expect a violation. Each checks what a comment or the repository's README
says and finds a counterexample.

| Run | Claim | What the code does |
| --- | --- | --- |
| `slow_join` | the parent outlives the wait, or the fallback is unreachable (`main.go:56`) | the forwarder's wait starts only after joining, which may take longer than the parent's minute |
| `env_race` | the step exports four variables, ready for the build (`README.md:190`) | the parent returns on the first line of four separate writes |
| `forward_race` | a registered worker already has its forward (`coordinator.go:134`) | the ports that let workers register are opened first |
| `stray_worker` | workers shut down when the coordinator finishes (`README.md:107`) | a worker that never reached it keeps dialing without a limit |
| `prerelease` | pre-releases are excluded (`index.js:102`) | the version that is tested has lost its suffix, so `@v1` takes `v1.1.0-rc.1` over `v1.0.0` |

Plain from the source, without a run of their own:

- a probe implies that the scheduler is up (`coordinator.go:116`): it implies that the process
  was started (`ServerAfterScheduler`); it may not serve yet, or have exited;
- the caller keeps the scheduler to kill on teardown (`sccachedist.go:80`): nobody keeps
  it, `--teardown` signals only the forwarder, and no step of the action invokes it;
- an empty `server-log` disables logging (`config.go:25`, `action.yml:19`): `orDefault` replaces it;
- `run-prefix` is `${{ github.run_id }}` by default (`README.md:171`): action.yml:14 adds the
  attempt, without which a re-run's names would be those of the run before, as they are with an
  empty `run-prefix` (`config.go:41`); the mutant `RunIdOnly` of `Findable` is that README's default;
- `worker-index` is optional (`action.yml:10`) and 1 if unset or bad (`worker.go:45`): that is so for
  the port, but the hostname keeps the text, ends in `-worker-`, `-worker-0` or `-worker-01`, and no
  forward dials it; such a worker registers under worker 1's address, or that of another number;
- `SCCACHE_J` is the workers' slots: with `slots` unset it multiplies by the coordinator's
  own number of processors (`coordinator.go:165`); negative slots give a negative one;
- with 100 workers a forward would need port 10600, which the scheduler has.

## 4. The proofs

`SupervisorProofs` needs only `SupervisorAssumption` (any set of slots, threshold at
least 1). Its inductive invariant `Inv` adds to the types:

- `Owned` and `ExitNotLost`: only the process of `s.cmd` can exist or have an exit
  to report, and exactly one of the two holds. This is why `kill`'s receive ends and why
  a fresh launch finds every other slot free;
- `Placed`: where the goroutine is says whether there is a command. `launch` is
  reached only with none;
- `Counted`: `misses` never exceeds the probes of this server that failed in a row,
  and a restart with a live server has `Threshold` of them;
- `Timed`: the code's clock and the real one agree, since starts that fail count.

From it follow `OneServer`, `LeavesNothing`, `ExitStays`, `RestartsAreJustified`,
`StartsArePaced` and, with a step of the refinement per action, `ImplementsSlot`.

`CoordinatorProofs` needs `CoordinatorAssumption`, the ranges `loadFrom` enforces.
Its invariant says what each phase has behind it (`Progress`), what an exported
`SCCACHE_J` stands for (`Export`) and how the two countdowns relate while the
forwarder works (`Countdown`: the parent is ahead by the slack, less the time spent
joining). `ReadyToBuild` and `OutputsThere` hold for all timeouts. `FallbackInReach`
says that the parent gives up on no forwarder that could still fall back, unless
joining took the whole slack (`joined >= SlackTicks`); `slow_join` shows that the
exception is needed. Counts of servers rest on the library's facts about
finite sets.

`FarmProofs` needs `FarmAssumption` besides. `StepRefines` shows that a step of the farm is a step of
`Coordinator` or leaves it alone, so `FarmSpec => Spec` and every theorem about the
coordinator holds in the farm (`FarmReadyToBuild`). Its own invariant `FarmInv` says of
each worker that `misses` equals the probes unanswered since the last answer, and stays
below the threshold while it guards, and that a worker past its first answer has a
scheduler that was started; the forwarder's phase carries that to the liveness port.
`CountInv` is about the two together: what is registered has had a server, and the
forwarder's count is no larger than the number of workers that had one. With the
coordinator's `Inv`, which the refinement brings along, it gives `ServersBeforeBuild`.

`RelayProofs` is for chains of any length, any window, amounts and faults. `Flow`: what has
been written never exceeds what was read one place before. `RelayInv`: a relay that
does not copy yet has dialed nothing; a pipe that is over has passed on the end of its
direction. `EndInv`: a link is at its end only if something broke, or the sender has
ended and all it sent has reached that link. Stated between each link and the *sender's*
link, it needs no induction along the chain, which is what makes the length arbitrary.
`ChainIsStream` then maps every step to one of `Stream` or a stutter.

`ForwarderProofs` and `StatusLogProofs` are for any connections, dial times and numbers of
lines. `MarkExact`: a value about to be swapped in is larger than the one loaded, so whatever
else was recorded stays covered. Types need that `n` failed attempts take at most `n`
times the longest one (`Budget`). The status loop implements `Forwarder`, which carries this
over (`StatusLogForwards`), and its log is a `LogSink` by itself (`StatusLogUsesLog`).
`ReportsAsOne` maps every step of `Forwarder` to one of `DialReport` or a stutter. A relay
that leaves the loop because the mark is larger already times its dial in that step; the line
begun is the slowest of the fresh dials because the mark is (`MarkExact`), and is zero
exactly if there is none that took time. `LogInv` adds where each writer is: a call past the file has its line there; a writer
whose write failed has set `broken` or is about to, and never gets past the check
again. With `LineInv`, which relates the line being made to the dials it stands for, follow
`DialsAreFiled`, `FileIsWhole`, `StdoutOutlived` and `FailuresAreFew`.

`MeshProofs` is for any set of workers, any texts they set their index to, the three kinds of
`run-prefix`, any numbers of runs and attempts, and all integers the counts may hold.
`OwnerInv`: a name is held by one node, of a job of this or an earlier run that has this name;
a job past registering that shares its name with no job of its run or of an earlier one holds
it. It rests on `NamesApart`, jobs of one name have one prefix, and those of one run and an
unshared name are one job; and on `RunsApart`, no earlier run has the name of a job whose run has
a prefix of its own, which under the default is what the attempt in `run-prefix` is for.
`ConfigInv` carries what `loadFrom` checked. `ArriveHome` adds that a plain number is read
back as it was written (`ReadBack`); for the first half nothing is assumed of the indexes.

`ReleaseProofs` is for any tags. Two that coerce to the same version, a candidate and the
release it precedes, share a key of the tool cache, so a complete entry holds an executable
of a tag with the key's version (`CacheInv`): of the tag that was resolved if that
has its version for itself, of either otherwise (`StandsFor`). The engine's two executables come
from the release resolved before them (`EngineInv`). `StaysUpToDate` and `EngineNeverNewer` need
that there are finitely many tags: the releases above a higher one are a strict subset, and
strict inclusion of finite sets is well-founded, so that of the releases in a range one is
highest (`HighestExists`, `ListPicks`). `FreshInv` carries this over the awaited requests:
between the list and the latest release, nothing that was offered is of the range, nor is an
engine on PATH (`EmptyInv`); while something is fetched, its release fits what was offered and
the engine (`FitInv`); and everything cached or on PATH was published (`PublishedInv`), which
stays so because releases are only added (`UsableGrows`).

Only model-checked: liveness (`Recovers`, `StopTerminates`, `StepTerminates`, `GuardsLeave`,
`CloseNoticed`, `NoRelayLeft`), since the prover has no rules for fairness and ENABLED. Every
invariant and action property of the passing runs is also proved.

## 5. Not modelled

Log and status texts, the rest of the rendered configs, the HTTP contents of probes, TLS,
CI workflows, names of platforms and assets. Peer lists feed log lines only;
`FilterOnline`, `PresentOnline`, `workersReady` and `WaitForWorkers` have no caller outside the
tests. A lost worker machine is a path that fails and a server that goes down. Inputs
that are taken as they parse (`slots`, `teardown-threshold`, the durations) are constants
of the models in the range where the code does something different for each value: a
threshold below 1 acts as 1, a `wait-timeout` of zero or less ends the wait at its first
count, and `durOr` may overflow on a very large number of seconds.

Also outside: machines on which several jobs share `/tmp` or a tool cache at the
same time (the pid file has a fixed path, and two copies into one cache entry would meet),
and a pid file left by an earlier job, whose pid another process may have by the time of
`--teardown`.

What could come next: a scheduler that assigns jobs, so that a forward that is not there yet
(`forward_race`) can be followed to the client's retry or fallback; both belong to
sccache-dist rather than to this repository.
