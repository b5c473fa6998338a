# A TLA+ verification of poseidon-tests

poseidon-tests compares two HTTP client libraries in four protocol regimes. A
driver process sends paced load to a target, measures itself over a window and
writes a report; a shell script runs the eight drivers one after another; a
Python script turns the reports into verdicts. None of this is about speed: the
product is a *claim*, and what can go wrong is that the claim does not follow
from what happened. That is what the modules here are about: do the figures of a
report belong together, does a report belong to the run it is filed under, and
does a verdict follow from the files it names.

Line numbers refer to the repository at the commit in `src/`; `main.go` without
a directory is `cmd/driver/main.go`.

## 1. Inventory

| Component (source) | State it keeps | Operations | Interacts with | Modelled in |
|---|---|---|---|---|
| **load** (`internal/load/load.go`) | start time, profile, permits channel (64), `done` | `NewTicker`, `run`, `Wait`, `Stop`; `Profile.Total`, `rateAt` | generator goroutine -> channel -> workers; `ctx` | `PermitSource`, `Ticker` |
| **driver** (`cmd/driver/main.go`) | five shared atomics/once, latched baselines, two snapshots, sampler's sums under a mutex, the report | `main`, `runWorker`, `waitUntil`, `residentSampler`, `buildReport`, `writeProfile` | load, clientset, payload, scenario, selfmetrics; signals | `Driver` (with `PermitSource`), `PacedDriver` (with `Ticker`) |
| **selfmetrics** (`internal/selfmetrics`) | none but `procStart`; reads what the Go runtime and the OS hold | `Read`, `Sub`, `RuntimeCPUUsable` | garbage collector, `/proc` | `SelfMetrics` |
| **payload** (`internal/payload`) | generator with a reusable buffer; immutable pool | `NewPool`, `Generator.Next`, `Pool.For` | driver, target | `Workload` |
| **scenario** (`internal/scenario`) | per-worker mix (own generator); path pool | `MixFor`, `Mix.Next`, `NewPathPool` | driver | `Workload` |
| **api** (`internal/api`) | none | the routes | target; answers the calls | `Workload` (`Answer`) |
| **run.sh** (+ `20-driver-job.yaml`) | loop position; the result files; Jobs and pods in the cluster, all of which outlive it | delete, apply, wait, collect, summary, report | kubectl, report.py | `Matrix` |
| **report.py** | runs, replicates, extra files, load errors | `load_reports`, verdicts, `validity_findings`, `build_document` | the results directory | `Comparison` |
| **clientset** (`internal/clientset`) | response/buffer pools, connection pools of the libraries | `New`, eight `Do`/`Close` adapters | driver, target | `Calls`, `Clients` |
| **rawgrpc** | none | `Codec`, `ServiceDesc` | clientset, target | `Target` (`Begin`, `Unmarshal`, `Message`, `Answer`) |
| **target** (`cmd/target/main.go`) | four listeners, the drain's budget | serve, drain | api, rawgrpc | `Target` |
| **tlsutil** | none | one certificate at startup | target, clientset | no: no protocol |
| **metrics endpoint** (main.go:366-435) | reads the counters | scrape | Prometheus | no: feeds a dashboard only |
| **build-and-load.sh** | image archive, node list | build, import, verify | docker, run.sh | no: a pipeline around the container runtime |
| k8s manifests, Dockerfile, documents, results | declarative or data | | | no |

### What makes each of them correct, and what is hard

* **load** is shared by one generator and many workers. It must pace (a permit
  never before its time, no burst after a stall), must end soon after the
  profile although it may be blocked in a send, must not turn a worker away
  while there is work, and must never leave one waiting. Hard: select over two
  ready channels, buffered permits that survive `close`, a clock that runs on
  while the generator is blocked, integer division of a rate.
* **driver** has one goroutine per worker, main, the generator, the sampler and
  the signal handler, and no lock around its counters. Its figures are
  differences between values read at different instants. Hard: the window opens
  while calls are in flight, the four latches are not one instant, a signal can
  arrive in any state, and a call may return at any time.
* **selfmetrics** subtracts figures that are as old as the last collection.
* **payload/scenario** must give both arms the same work although the scheduler
  hands out the permits.
* **clientset** hides four libraries and twelve cells behind one method that 64
  workers call at once. Each call must be answered by its own response although
  the object it is read into wanders between workers, must give back what it
  holds on every path, and must speak the protocol its cell is named for. Hard:
  deferred calls that run after the result is evaluated, pools, failures with a
  body half read, limits on connections and streams that two sides count at
  different moments, an ALPN choice the other side makes.
* **target** drains four servers one after the other with one deadline for two of
  them, while the others still accept. Hard: a listener may have failed or not
  yet be up, a connection may be anywhere between accepted and answered, or have
  been taken from its server by h2c, a gRPC stream may wait for its message, and
  that message lies in a buffer that the next one overwrites.
* **run.sh** has no memory except the cluster and a directory, both shared with
  earlier runs, and works under `set -euo pipefail`, where it is not evident
  which failure ends what.
* **report.py** sees any subset of files, with replicates, and three overlapping
  thresholds.

The list of hazards, each with its line and the properties for it, is in
`PROJECT.json`.

## 2. Modules

| Module | What it is |
|---|---|
| `PermitSource` | Abstract: what load promises to the driver. A bounded buffer, filled until it is closed; closed once, and only when the profile is over or `Stop` was called. |
| `Ticker` | The generator and `Wait`, line by line, with a clock. Implements `PermitSource`. |
| `Driver` | The driver process, composed with `PermitSource` (`INSTANCE`). |
| `PacedDriver` | The same process with `Ticker` in the place of `PermitSource`, on one channel and one clock. Implements `Driver`. |
| `SelfMetrics` | The two CPU instruments, snapshots and their difference. |
| `Workload` | Pools, mixes and routes, for two arms side by side. |
| `Calls` | Abstract: what a client promises to the driver. A call ends with an error or with the length of its own answer. |
| `Clients` | The adapters for all twelve cells, their pools, connections and streams. Implements `Calls`. |
| `Target` | The target's listeners, calls and drain, and the gRPC codec. |
| `Matrix` | run.sh, the Jobs, the pods and the results directory over several runs of the script. |
| `Comparison` | report.py over a set of results directories. |
| `MC*` | The instances for TLC. |
| `*Proofs` | Theorems for every value of the constants: `Ticker`, `Driver`, `Clients`, `Target`, `SelfMetrics`, `Workload`, `Matrix`, `Comparison`. |

```
 Workload   what is sent            Comparison   what is concluded
     |                                   ^
   Driver ---- SelfMetrics            Matrix     what is filed
     |   \     (what is read)            ^
     |    Calls <== implements == Clients ---- Target   who answers
     |                                   |
 PermitSource <== implements == Ticker   |  one report per Job
     `-----------------------------------'
 Driver <== implements == PacedDriver, the driver with Ticker
```

A definition named `...Never`, `...Early`, `No...` and commented *Mutant* is a
plausible bug in the definition below it; each property of a passing run is
broken by one of them.

### PermitSource and Ticker

`gen` is the control point of `run()`: `poll` (the non-blocking look at `done`,
load.go:77), `measure` (clock, end of run, rate; 84-99), `idle` (rate 0), `open`
(`sliceEnd`), `send` (the select on the channel and `done`), `sleep`
(`time.Until`, 108). Returning closes the channel (`Return`, the deferred close).
`PermitsAt` is `rateAt` times the slice, with the floor of 0.02 of the target,
the truncation and the minimum of one permit, computed in integers.

Time is two saturating timers: `elapsed` counts to the end of the profile (later
instants are alike to the code) and `left` counts from the slice to its end. A
goroutine that is ready may be delayed by any number of ticks, so late wake-ups,
GC pauses and blocked sends are all behaviours. A send and the end of a sleep
are steps of their own; where both branches of a select are ready either is
taken.

What the code guarantees, and the run `ticker` checks: `NeverAhead` (never more
than one slice's permits per slice of time, however long it was blocked: the
deadline restarts from the present in each slice), `Paced` (within a slice no
permit before its predecessor's deadline), `OverrunBounded` (after the profile
at most the rest of one slice), `NoEarlyRefusal`, `StopHalts`, `WaitReturns`,
and `ImplementsPermitSource`, the refinement. The refinement maps the clock to
the phase (`ramp`, `plateau`, `over`) and hides everything else.

`NeverAhead` is stated with `MaxPermits`, the raised and truncated figure. For a
profile below ten requests per second, one permit per slice is more than the
profile asks (load.go:96), and between multiples of ten less is delivered than
the profile says (95). The default profile of 200 is not affected.

### Driver

One action per atomic operation. A worker is at `wait` (in `Ticker.Wait`),
`call` (in `c.Do`), `count` (returned, `total` not yet incremented), `tally`
(the branch on the error, main.go:256, and for an error the look at `ctx.Err()`,
258), `blame` (`ctx.Err()` was nil, `errs` not yet incremented), `body`, `sample`
(`errOnce.Do`) or `exit`. A signal, the end of the ramp and the latches may come
between any two of them. `main` walks from `start` through `ramp` (in `waitUntil`'s select), the
start profile, the snapshot, the four latches, `wg.Wait`, the end snapshot, the
end profile, `buildReport`, the sampler's result, and the deferred `Stop` and
`stop()`; the order is the function `Then`, so that a changed order is a changed
definition. `Next` stops at `exit`: the process takes its goroutines with it. The
sampler is there as a goroutine of the process, whose lock main takes for its
result (312); no property is about its readings.

What a call does is open: 2xx, other status, or error, returned at any time. A
body counts one. `served` (calls returned) stands for the work the process has
done so far, which is what the snapshots bracket: CPU and allocations of a call
are spent by the time it returns. `aborted` counts the errors of a cancelled
run, which the code leaves out of `errs` (257-260).

What it checks:

* `AccountingAtReport`: at the report every call is a body, an error or an error
  of the cancelled run; at most one of the last per worker.
* `ReportSkew`: the four latches disagree by at most the number of workers,
  although main may be delayed between two of them for any time. Within that
  bound the skew does occur: a call that is in `total` when `total` is latched and
  tallied after `errs` was latched is an error of a request outside the window, so
  a window of few requests may report more errors than requests, the "294 errors out of 250 requests" of main.go:47-50 in small.
* `NeverDiluted`: requests reported are requests served inside the snapshot
  window, except for one per worker. This is why the snapshot precedes the
  latches.
* `SampleErrorExplains`: a report with errors carries a sample, although count
  and sample are published in two steps by racing workers.
* `CountersFrozen`: nothing moves behind the end snapshot.
* `WindowOpensOnPlateau`, `WindowClosesAtTheEnd`: unless it was cancelled, a run is
  measured from the end of the ramp to the end of the profile. For the second, main
  looks at no clock: it waits for the workers, and they leave when the channel is
  closed and drained.

### PacedDriver

The driver as it runs. `Pacer` is `Ticker` with the driver's variables: the channel
(`avail`, `closed`), `stopped` and `cancelled` are shared, the workers inside `Wait`
are those at `wait`, and `phase` is no variable of its own any more but follows from
the generator's clock (`PhaseAt`): `PlateauStart` and the generator count from the
same instant (load.go:59-62, 127). `Generate` is a step of the generator goroutine,
`Clock` one of the clock, the others are `Driver`'s.

* `ImplementsDriver`: whatever the generator does is what the driver allows its
  abstract source, so that the properties of `Driver` are properties of the process.
* `CancelledRunEnds`: a cancelled run comes to its exit without the clock: from the
  ramp, with the worker blocked on an empty channel, or the generator on a full one.
* `RunEnds`: if the clock runs, every run comes to its exit.

### SelfMetrics

`stats` is what `runtime/metrics` holds since the last collection; a collection
refreshes it (`Refresh`), whether the runtime's own (`Collect`) or the one that
`writeProfile` forces (`ForcedGC`). A snapshot is three reads (runtime, OS,
clock) with the process running in between. `FrozenWithoutGC`: over a window in
which no collection ended the runtime's figures are exactly zero and are never
called usable; where there is no `/proc`, that zero is the CPU figure itself.
`FreshUsableCovers`: usable figures describe more than eight tenths of the
measured window *if* the start snapshot was taken within a tenth of the window
after a collection. The condition is needed: the test at selfmetrics.go:224
compares lengths only, and two snapshots taken equally long after a collection
give a ratio of one for a window that lies mostly before the measured one. With
`-profile-dir` the forced collection makes the start snapshot fresh.

### Workload

Two arms, one seed. `Generate` builds each arm's pool from the generator's
reused buffer, `Issue` is one turn of `runWorker`'s loop for whichever worker got
a permit, `Answer` what the target makes of a call. `Picked` is the subtraction
loop of `pickClass` and `Mix.Next`, `Left` the rest after each turn of it. `SameCallsPerWorker`: as far as both got, a
worker's calls are the same in both arms and so are the answers.
`PoolWalk`: no two workers send the same body at the same place of their
sequences, and a worker sends a body again only a whole number of pools later in
its sequence (calls without a body are places of the sequence too, so fewer bodies
than the pool holds may lie between the two).
`OnlyTheErrorPathFails`, `PoolHoldsGenerated`, and `TypeOK`, which says that no
index leaves its pool (that would be a panic of the driver).

### Calls and Clients

`regime` and `arm` are the flags; what a constructor sets follows from them:
`Adapter` (the type whose `Do` runs), `ConnLimit`, `StreamLimit`, `Offers`. A call
of a worker is at `want` (no connection yet), `sent`, `body` (parts of the body
still arrive), `closing` (the result is evaluated, the deferred calls have yet to
run) or `idle`. `hold` is the object it fills: the `Response` that `poseidonHTTP`
takes from its pool before the call, the `bytes.Buffer` that `stdHTTPPooled` takes
after the headers, or a buffer of its own. `Deferred` is what runs last: reset,
put, `Body.Close`. A call may `Break` anywhere, a connection may `Drop` under all
its calls, and a garbage collection may `Evict` any pooled object.

The libraries are external and modelled by the limits the constructors give them.
On H1 a connection is held until the body is closed, so an adapter that forgot to
close would starve the others: `CallsReturn`. On H2 the client reuses the place of
a stream when it has read its end, and the target frees it a moment later (`lag`):
with the same limit on both sides a stream would be refused now and then, which is
what the 1000 at main.go:88 of the target is for: `NoRefusedStream`.
`SpeaksItsProtocol`: H1 and H2 share one listener that prefers `h2`, and only the
client's offer keeps an H1 cell from measuring H2. `ImplementsCalls` is the
refinement: an abstract call returns the length asked for, or an error; it begins
with `Begin` and returns with `Deferred`, not when the result is evaluated, which
is when the object changes hands.

### Target

`leg` is the state of the four listeners, `main` where the drain stands. A leg may
fail at any time without ending the process (`ListenFails`), and one that was shut
before it listened never does. A slot's connection is `conn` (accepted, nothing
read yet), `begun` (a gRPC stream whose headers are read and whose message is not:
its handler is in `dec`, rawgrpc.go:74), `open` (the handler has its request), and at
the end `done`, `refused` (the gRPC message was no JSON body, main.go:118-120) or
`cut`. `on` is the server it belongs to. The cleartext handler is
`h2c.NewHandler` (77), which takes a connection that speaks HTTP/2 away from its
server: `Request` moves it from `plain` to `h2c`, where `NextStream` may begin
further calls whatever becomes of the leg.

`Drain` moves main to the next leg when the one it is at lets it (`Done`).
`Shutdown` returns when no connection *that its server knows of* is in use (`Busy`)
or the shared budget is spent; it closes a connection on which nothing was read
once that is five seconds old (`CloseIdle`, `Grace`). h2c's connections it neither
waits for nor closes. `h3Srv.Close` returns at once. `GracefulStop` sends away the
connections without a call (`GoAway`), on which a call may begin until they are
gone, and waits for every call begun. Until main comes to a leg it goes on accepting.

`CutOnlyOutOfTime`: no gRPC call is ever cut, and a call over TLS, or over HTTP/1
in cleartext, only when the ten seconds are spent. Calls over QUIC are cut out of
hand, as the code has it, and h2c's too, though no sooner than the process ends.
`DrainEnds`: the drain ends *unless* a gRPC client leaves a stream half sent for
ever. That condition is what the code leaves open: `GracefulStop` has no bound, and
without the condition TLC shows a drain that waits in it for a message for ever.
A handler that has its message answers, so nothing else can hold it up.
`EchoesOwn`: a gRPC call is answered with its own items, or refused because of its
own message, although the read buffer has been reused before its handler looked.

### Matrix

`pc` and `pos` are the script, `job` and `pods` the cluster, `file` the results
directory. Each kubectl call is an action with all its outcomes, and `Abort` is
what `set -e` makes of a failure. A deleted Job's pod may still run. `Collect`
redirects into the file before it knows whether there is anything to write: where
the pipeline fails the script ends, and the file is empty, cut off in its line, or
whole although it does not count as collected (`Remains`). A
pass (`Again`) may follow one that was finished, failed or interrupted, with the
cluster and the directory as they are. `born` and `undeleted` are history.

`CollectedIsComplete`, `CollectedIsFresh` (unless the delete, whose failure is
ignored at run.sh:75, did fail), `SequentialUnlessLeftBehind` (two drivers run at
once only after a wait gave up, a delete failed, or an earlier pass left one
behind), `EveryCellSettled`, `ScriptEnds`.

### Comparison

`LoadFile` reads one file in the order of `load_reports` (flat files, then
replicates), `Render` computes table and findings. A report is one metric, its body
volume, requests and rate, each of which it may lack (`NoValue`), and the set of its
own problems. Means are compared without division (`Diff`, `Base`), thresholds are
in per cent and per mille. The properties are stated against the directory, not
against what was loaded.

* `WinnerBeatsEveryFile`, `TieIsResolved`: what a verdict claims of the files.
* `NothingVanishes`: every file of a cell that has the metric is in the average its
  cell is judged by, once and with its value; every broken file and every readable
  file of an unknown name is named; a cell without a usable file is named as missing,
  or as unusable if it has a broken one. A file that lacks the metric is neither
  averaged nor named (report.py:333-335): only the `n` of the table shows it.
* `CleanMeansComparable`: a document without findings has a report of both arms for
  every regime, and those read first show no problem and state requests and rates
  that agree. The bodies agree where both arms state them; a report without
  `plateau_body_bytes` is passed over without a finding (459-460).

## 3. Runs

| Run | Module, cfg | Distinct states | Question |
|---|---|---|---|
| `ticker` | `MCTicker`, `Ticker.cfg` | 62 thousand | pacing, overrun, refusal, both liveness properties, refinement |
| `driver` | `MCDriver`, `Driver.cfg` | 5.6 million | the report's figures under every interleaving |
| `paced` | `MCPacedDriver`, `Paced.cfg` | 331 thousand | does the composed process do what the driver may, and does it end |
| `clients` | `MCClients`, `Clients.cfg` | 20 thousand | is every call answered by its own response, over the right protocol, and does it end |
| `target` | `MCTarget`, `Target.cfg` | 174 thousand | what a drain cuts, does it end, what gRPC echoes |
| `selfmetrics` | `MCSelfMetrics`, `SelfMetrics.cfg` | 1.2 million | what the runtime's figures describe |
| `matrix` | `MCMatrix`, `Matrix.cfg` | 185 thousand | what is filed, and does the script end |
| `comparison` | `MCComparison`, `Comparison.cfg` | 445 thousand | do verdicts follow from the files |
| `workload` | `MCWorkload`, `Workload.cfg` | 180 thousand | do the arms do the same work |
| `matrix_stale`, `matrix_empty` | `MatrixStale.cfg`, `MatrixEmpty.cfg` | violated | see findings |
| `comparison_errors` | `ComparisonErrors.cfg` | violated | see findings |

The type invariants are theorems, of every module that has one; `workload` checks its
own as well, since it says that no index leaves a pool, and no other run repeats them.

### Bounds, and why they are enough

* `ticker`: capacity 2 of 64, two workers, a slice of three time units. The
  profiles: a ramp whose slices hold 1, 2 and 3 permits (so the interval is
  truncated to 3, 1 and 1 units), a steady one, an idle one. Three permits in a
  slice exceed the buffer, so the generator blocks; two workers are the least
  that compete for one permit.
* `driver`: two workers, three calls, buffer of 1, symmetric workers. Two
  workers can straddle the latches in opposite order, and three calls let one
  worker be two calls ahead of another; the sampler keeps one reading. The proofs
  lift these bounds.
* `paced`: one worker, buffer of 1, a slice of two time units, a profile with one unit
  of ramp and one of plateau in whose slices there are one or two permits, so that the
  generator blocks behind the buffer, sleeps between two permits, is late for a
  slice and is outrun by the end. `MaxCalls` is above what this profile issues: it
  never keeps the generator from a step. The sampler is left out (`MaxSamples = 0`):
  nobody waits for it. One worker, because what the liveness is about is the chain
  from the generator over the channel to main; `ticker` has two workers that compete
  for a permit, and the theorem `PacedRefinement` any number.
* `selfmetrics`: twelve units of time, for a window of eleven is the shortest for
  which the ratio 0.9 to 1.1 admits a length other than its own; two collections
  of the runtime's own and one forced; the process keeps none or all of two
  processors busy.
* `matrix`: three cells and two passes: an overlap needs a cell before, a cell
  skipped needs one after, and a stale file an earlier pass.
* `comparison`: two regimes; one with replicates, missing and broken files,
  values 4, 7 and 12 per cent apart, which lie on either side of the bands of 5
  and 10; one whose standard arm may be absent; one stray file, absent, broken or readable.
  49,392 directories. Files that show a problem of their own, differ in one figure or
  lack one (the metric, the body, the requests, the rate) are enumerated one by one.
* `workload`: a pool of four bodies, two small and two large, two workers, six
  calls per worker and arm, both regimes' mixes. Six calls take each worker past
  the length of the pool, where a body comes again; the draws hit the first and the last number of
  every scenario. The pool of the driver has 1024 bodies: both sizes are powers of
  two, and the two multipliers of `Pool.For` are odd, which is what `PoolWalk` depends
  on and what `PoolAssumption` asks of any size.
* `clients`: all twelve cells, two workers, two objects, one connection, bodies of
  no part or one. One connection is what two workers compete for on H1, and is all
  the other clients have. Two streams per connection against the target's three:
  the least limit above the number of workers, which is the assumption under which
  `StreamsAccepted` is proved for any numbers. Two objects for two workers: an
  object changes hands as soon as it is put back.
* `target`: two connections and two different gRPC messages, the least for which
  the second overwrites the buffer under the first; one of the two is no JSON body,
  so that a handler which looked at the other's message would refuse its own. Two
  ticks, so that the budget may be spent by one `Shutdown`, by both, or by neither,
  and one of them for `Grace`, which is half of the budget in the code. All four
  legs, and h2c.

Deadlock is checked in `driver`, `paced`, `clients`, `target` and `matrix`,
where the end is an explicit stuttering step (`Exited`, `Finished`). The other systems simply stop:
the generator has returned and nobody waits, all files are read, the horizon is
reached.

### Fairness

* `Ticker`: weak fairness of the generator, the clock and each worker whose
  `Wait` can return. The Go scheduler is preemptive and runs every runnable
  goroutine. Nobody has to call `Wait` again, to cancel or to stop.
* `PacedDriver`: weak fairness of main, of the generator, of each worker's steps, and
  of the return of each call. The last is an assumption about the client libraries: a
  call has no deadline of its own (main.go:254), so a call that never returns does
  keep the run from ending. The clock is not part of it: `RunEnds` says where it is
  needed, `CancelledRunEnds` does without. `Driver` has safety properties only and
  states no fairness.
* `Clients`: strong fairness of `Connect` and of `Served` for each worker, weak of
  `Deferred` and of the target's accounting (`Settle`). Strong, because a connection
  or a stream's turn may be taken away again and again by others: the libraries
  queue their waiters in order, and the target answers what it has accepted and
  serves its streams in turn. That the target answers at all is an assumption, as a
  call has no deadline of its own. A call need not fail and nothing has to be lost.
* `Target`: weak fairness of main once the signal came, of the clock, of the answer
  to a gRPC call whose message is there (the handler decodes, encodes and returns),
  and of `GoAway` (`GracefulStop` closes the connections on which no call was begun).
  No client is asked for anything: one may leave a stream half sent or a connection
  idle and never hang up. A call on another leg may take for ever, and no signal need
  come. `DrainEnds` states its condition on the half-sent streams itself.
* `Matrix`: weak fairness of the script only. `kubectl wait` has a timeout and
  every other call ends or fails; no pod has to end.

`SelfMetrics`, `Workload` and `Comparison` state no liveness: they end by being
read to the end.

## 4. Findings

Each is a run that TLC ends with a counterexample.

* **The matrix stops at an empty log** (`matrix_empty`): under `pipefail` a log
  without a report line makes the `grep` at run.sh:94 fail the pipeline and the
  script. The check for an empty file (98) with its warning is never reached.
* **A failed cell is not always flagged** (`matrix_stale`): `continue` at
  run.sh:86 leaves the file of an earlier run with the same output directory, and
  report.py takes it for this run's.
* **An errored replicate is averaged without a word** (`comparison_errors`):
  validity is asked of the first report of a cell only (report.py:260, 434).

Met while modelling, and left as observations without a run:

* Rates below ten or not a multiple of ten (`Ticker` above); the skew of the
  latches (`ReportSkew` bounds it).
* A run cut short in the ramp reports a window all the same: waitUntil's result
  only decides about the profile and a log line (main.go:209).
  `WindowOpensOnPlateau` says that this is the only way to a window off the plateau.
* Equal requests are not equal volume: each worker's sequence is fixed, but how far
  each worker is when the window opens and closes is the scheduler's choice.
  report.py:107-109 calls any divergence a harness bug, but allows half a per cent
  (`BODY_TOLERANCE_PCT`), which a long plateau makes unlikely to be exceeded.
* The sampler keeps reading after the plateau, while the workers drain and during
  the end profile, and its average includes those readings (main.go:291-307).
* A live scrape reads the total and then the errors (main.go:416), so it may show
  an error without its request; no reported figure is affected.
* Usable figures of a shifted window (`SelfMetrics` above).
* `processCPUSplit` is tried anew at each snapshot (cpu_linux.go:29-56): if `/proc`
  could be read at one end of the window only, the CPU figure would be the difference
  of two instruments. Nothing marks such a report.
* A report without `plateau_body_bytes` is not compared for the work it did, and no
  finding says so (report.py:459-460); a report without one of the metrics drops out
  of that row of the table, where only `n` shows it (333-335).
* After a wait that timed out the next driver starts beside the one that still runs
  (run.sh:86, against "strictly sequential" in lines 4-5).
* `Conns` and `MaxStreamsPerConn` are honoured by some constructors only: the
  standard H2 client has one connection, where poseidon's has `Conns`, and neither
  the standard H3 client nor the gRPC clients look at either (`ConnLimit`,
  `StreamLimit`; clientset.go:101-106 says of both that they cap).
* A gRPC call that fails returns an error; clientset.go:78-90 speaks of a status
  mapped onto 200 and 500, which no adapter does.
* 64 workers do not reach even the default limit of 250 streams on one connection:
  the raised limit (target main.go:88-93) guards larger runs.
* A drain may spend the whole budget on the cleartext leg and leave the TLS leg
  none; calls over QUIC are cut out of hand. Calls over h2c are no concern of
  `Shutdown` and are cut when the process ends, with budget left (target main.go:77,
  149). `GracefulStop` has no deadline, and a stream whose client never sends its
  message keeps the process alive until it is killed (152, rawgrpc.go:74). And
  readiness looks at the cleartext port only, so a target whose TLS, QUIC or gRPC
  listener failed is ready (target main.go:124-153).
* build-and-load.sh:91 verifies what a command prints: if that fails the list is
  empty, and nothing is verified.

## 5. Proofs

TLAPS checks the eight `*Proofs` modules to the last leaf. They assume only the
`ASSUME`s of the modules they are about: a capacity of at least one, a slice of at
least one unit, profiles of natural numbers, finite sets of workers, natural bounds,
an order that visits each cell once, files of the shape of a report, and of the pool of
bodies that it is larger than any worker's number and that the two multipliers of
`Pool.For` can be undone modulo its size, as they can modulo 1024.

**Ticker.** `TickerTypeOK`; `Spacing`, `Overrun`, `Refusal`, from the invariant
`IInv`. `OverrunBounded` alone is not inductive: a slice could be opened after the
end with `late` already at `n`. `LateInv` says that late permits belong to the
slice that is open, since no slice is opened after the profile, and counts them
against `i`. `NoEarlyRefusal` needs that the channel is closed exactly when the
generator has returned (`ClosedOnReturn`), so that nothing is sent after a
refusal. `Paced` is inductive with the types. `Refinement` shows that every step
is a step of `PermitSource` or stutters: `Close` of the source needs that the
generator only returns when stopped or over. One lemma, `PermitsPositive`, is
about the rate: a slice holds at least one permit whatever the profile.
`NoCatchingUp` (`NeverAhead`) needs another invariant, since what bounds `sent` is
how many slices were *completed*, which no variable counts: `AheadInv` says that
there is such a number `k`, that `k` slices of time have passed and that `sent` is at
most `k` slices of permits plus what the open one has given. Its lemma
`PermitsBounded` is the other side of the rate: the ramp never asks for more than
the full rate.

**Driver.** `DriverTypeOK`; `Accounting`, `Skew`, `Undiluted`, `Sampled`,
`Frozen`, `OnPlateau`, `MeasuredToTheEnd`; and `PacedRefinement`. The first six follow
from `IInv`, in three parts. `WorkInv` is conservation: each counted call is a body, an error, an abort or still at a worker that is at `tally`, `blame` or `body`
(`Count(wk, Pending)`), and each returned call is counted or at a worker about to
count it. `WindowInv` is the heart: once the total is latched, what the later
baselines may have missed is at most one call per worker. It has to be stated for
the latches *not yet taken* as well, for which the baseline is the counter itself
(`BaseErrs`, `BaseNon2xx`, `BaseBody`); the bound on errors and statuses carries
the workers still at `tally` or `blame` (`Untallied`), each of which adds to at most
one of them.
`EndInv` says that after `wg.Wait` all workers are gone, and that the report is
the difference it was made of. The counting of workers rests on two lemmas about
`Cardinality`, `CountBound` and `CountMove` (one worker that moves changes the
count of a set of control points by what it leaves and what it enters). The step
lemmas follow the processes: `WorkerPreserves`, `MainPreserves`,
`OtherPreserves`.

`OnPlateau` has an invariant of its own, `RampInv`: main is past the ramp without a
cancellation only if the phase is. `MeasuredToTheEnd` (`WindowClosesAtTheEnd`) has
`LeaveInv`, which follows the reason for the end through the goroutines: the channel
is closed because the profile is over or main has stopped the ticker, which it does
last; a worker has left because of the channel or a cancellation; main is past
`wg.Wait` because of the workers. It asks for at least one worker: with
`-workers 0` nobody is waited for.

`PacedRefinement` shows that every step of `PacedDriver` is a step of `Driver` or
stutters. The invariant is `PaceInv` with the driver's types: the phase is the place
of the clock in the profile, and the channel is closed exactly when the generator has
returned. `GeneratorStep` takes the generator's steps one by one (a send is `Emit`, a
return is `Close`, for which the profile must be over or the ticker stopped, all
others are invisible), `ClockStep` the clock (`AdvanceClock` where it crosses a
boundary), `DriverStep` the rest. With it every theorem about `Driver` is one about
the process with its generator.

**Clients.** `ClientsTypeOK`, `Refinement`, `StreamsAccepted`, `LegsKeepTheirProtocol`.
The last is a fact about the listeners' and the adapters' offers (`FirstChoice`: what
is negotiated is the first of the server's protocols that the client offers).
`HoldInv` is what the
refinement rests on: an object is in one worker's hands or in the pool and never in
two places, what lies in the pool is empty, and the object of a call in flight holds
exactly the parts that arrived (`content = want - left`). The emptiness is the
adapter's doing (`Reset` on every path), the exclusion the pool's, and each is needed
for the other steps. For `StreamsAccepted` a worker that wants to connect holds no
connection, so the others are fewer than `Workers`, and with one unaccounted stream
still below the target's limit.

**Target.** `TargetTypeOK`, `DrainCuts`, `Echo`. `CutOnlyOutOfTime` is not inductive:
the end of the process cuts what is left, so it must be known what that can be.
`DrainInv` adds that a leg main has come to is shut and accepts no more, and that once
main has left a `Shutdown` a connection that its server knows of is in use only if the
budget is spent; nothing is said of h2c's, which may be open until the end. That no
gRPC call is left is `GracefulStopReturns` itself. `OneCall` covers the steps that move
one call and leave the drain alone. `EchoInv`: an open gRPC call's handler holds what
was sent, in a copy.

**SelfMetrics.** `SelfMetricsTypeOK`, `Frozen`, `Covers`. `Follows` orders two
readings: the later one has seen no fewer collections, and shows the same if it saw no
more. `FrozenInv` keeps it between the two snapshots and what the runtime would show
now, at each step of the reading. `Covers` follows from the dates of the figures
(`Dated`: the total of the runtime's CPU time is its capacity times the moment of the
last collection) and arithmetic.

**Workload.** `PoolIntact`, `SameWork`, `WorkloadTypeOK`, `OnlyMeantToFail`,
`OutOfStep`, with the invariants `PoolInv` (the i-th body is the copy of the i-th
numbers), `CallsInv` (a worker's i-th call is `CallAt`, a function of the worker, `i`
and the shared draws alone; no call is issued out of an unfinished pool) and
`DrawnInv` (the draws stay those of the start, and nobody draws more than it has). For `SameWork` the weighted choice stays closed: that both arms choose from the
same numbers is all that is needed. The other three need what it returns.
`WeightedChoice` says it for any weights: of the numbers below their sum, the
ones that choose an entry are consecutive and exactly as many as its weight, so an
entry of weight zero is never chosen and the choice follows the weights without a
remainder. `Left` falls from entry to entry, so the first entry that takes the number
below zero is the only one (`PickedEntry`), and starting from another number shifts
all of `Left` by the difference (`LeftShift`). `OutOfStep` (`PoolWalk`) is arithmetic: if two calls of
one worker send the same body, `Golden` times the difference of their places is a
multiple of the size of the pool, and `Cancel` undoes the factor; two workers at the
same place are told apart by the other factor in the same way.

**Matrix.** `MatrixTypeOK`, `Complete`, `Fresh`, `Sequential`, `Settled`. `JobInv`: a
Job that has ended has no pod, and a Job or pod is of this pass or an earlier one.
`TurnInv` counts: the cells settled are those of the places visited. `FreshInv` says
of the cell being waited for that, unless its delete failed, its Job was born in this
pass; `SoleInv` that a pod of this pass that nobody gave up is the one waited for.

**Comparison.** `Vanishing`, `CleanDocument`, `Winner`, `ResolvedTie`,
`ComparisonTypeOK`. `LoadedInv`: after `k` files each cell has as many reports as
files were seen of it, a representative exactly if there is one, which is then the
*first* of them, and every broken or stray file seen is noted under its name;
`RenderedInv`: the document was made of all of it. `CleanDocument` needs no more than
these: what is not among the findings follows from the definition of each. The verdicts and `Vanishing` need more, and
`ReportInv` adds it in three parts. `SeriesInv` is about the data: the values of a
series are those of the files seen of its cell that have one, and its sum is their sum (`Holds`).
`TableInv` says that each row's verdict is `Verdict` of the two series, `OutputInv` is
what is left of the types. Then the argument
leaves the state machine. `BelowMeans` is the heart: when every value of one series is
below every value of another, so are the means, although they are compared without
division and the series may differ in length; `SumBounds` gives both sums their
bounds, and the rest is `Scaled` arithmetic. `DeltaWinner` and `SeparatedWinner` say
what each way to a verdict demands, `Tie` what a tie means, and `Judged` that a row of
a finished document was judged on all files of its cell. `Winner` is what a
reader of the report relies on: the arm that wins has the lower mean of all its files,
and among replicates every file of it beats every file of the other.

**Induction over data.** The induction theorems of the library take an operator and
cannot be used. `Workload` and `Comparison` are proved with the set form of the same
principle: a set of numbers that is not empty has a least element (`LeastNat`, from
`NatLessThanWellFounded` and `WFMin`), so a set that holds 0 and with each number the
next holds them all (`Induction`), and `RemovalInduction` likewise for finite sets.
The values of `Left` and of `Sum` come from there: a `Sum` is *the* function on the
subsets of a finite set that adds one value at a time, which exists and does not
depend on the order (`FoldsExists`, `FoldsUnique`, `SumRemove`).

**Only model-checked.** The liveness properties (`StopHalts`, `WaitReturns`,
`CancelledRunEnds`, `RunEnds`, `CallsReturn`, `DrainEnds`, `ScriptEnds`):
liveness under fairness is out of the prover's reach. Every safety property that a
passing run checks is also a theorem.

## 6. What is not modelled

* The client and server libraries, the kernel, the network, Kubernetes beyond the
  Job's states: not in the repository. `Clients` and `Target` model them by how the
  code sets them up and calls them, with failures anywhere.
* Flags, logging, JSON, the figures of the tables, Prometheus text: formatting.
* Allocation, memory and GC counters of a snapshot: read and subtracted, with no
  interplay. The peak and average of the sampler: a count of readings stands for
  them.
* The metrics endpoint, the certificate, the manifests, build-and-load.sh: see the
  inventory. The last is a pipeline of shell around the container runtime without a
  promise of its own to check (see the observations).
* The arguments of a request (method, headers, path text) and the content of bodies:
  `Workload` has their choice and size, `Clients` the length of the answer.
* Integer overflow: the counters are 64 bits wide and a run of 25 minutes at a
  few hundred requests per second does not come near; `Pool.For` multiplies a
  32-bit constant with a sequence number that would need to exceed 2^32.

## 7. Plan

Done, in this order: `PermitSource` and `Ticker` with its proofs; `Driver` with
its proofs; `SelfMetrics`; `Matrix`; `Comparison`; `Workload`; `Calls` and `Clients`;
`Target`; the proofs about all of these; `PacedDriver`.

What would come next:

1. `PacedDriver` with `Clients` in place of its open calls: then "every call returns"
   is no assumption of `RunEnds` but a property of the adapters.
2. That the pacing invariants of `Ticker` hold of the generator inside `PacedDriver`,
   where the workers call `Wait` again.
3. An abstract specification of the matrix (each cell settled once per pass) with
   `Matrix` shown to implement it.
