# mrkit-go: TLA+ models, model checking and proofs

mrkit-go is a MapReduce runtime in Go (a master, workers, gRPC between them) and
a layer of batch flows on top of it that reads a table from MySQL or Redis into
shard files, runs a job over them and writes the reduce outputs back. This
directory holds TLA+ modules of its core, the TLC configurations that check them
on small instances, and proofs for TLAPS. `PROJECT.json` maps every definition to
the lines of `src/` it models and lists runs, mutants, findings, hazards and
theorems.

    tlc -workers 2 -config MapJob.cfg MCMapJob          # one run
    tlapm MapPhaseProofs.tla                            # the proofs of one module

## 1. The system

### Parts, state and operations

| Part | Code | State | Operations |
|---|---|---|---|
| worker table | `master/master.go`, `master/workerInfo.go` | `ms.Workers`: UUID, IP, `WORKER_IDLE`, `WORKER_BUSY` or `WORKER_UNKNOWN` | `WorkerRegister`, `waitForEnoughWorker`, `availableWorkers(n)`, `SetState`, `endWorkers` |
| work distribution | `master.distributeWork`, `fileLineOffsets` | `ms.MapTasks[i].Files` | one slice of every file for every map task |
| map phase | `master.distributeMapTask`, `orDone` | goroutines, `finish`, `ms.crashChan`, `taskStates` | call a worker, report, re-execute after a crash |
| reduce phase | `master.distributeReduceTask`, `orDone` | the same, and the captured `workers` | the same |
| map handler | `worker.Map`, `emit.go`, `partialContent`, `writeIMDToLocalFile` | `mapChan`, `done`, `imdKV`, files `imd-<UUID>-<r>.txt` | run `Mapf` per slice, partition, write, `UpdateIMDInfo` |
| reduce handler | `worker.Reduce`, `GetIMDData` | file `mr-out-<ID>.txt` | fetch, sort, reduce, write |
| registration | `worker.StartWorker`, `WorkerRegister`, `master.StartMaster` | ports, IDs, registrations under way | look for a port, load the plugin, register with retries, wait for `End` |
| applications | `mrapps/*.go` | none | Map and Reduce of agg, count, merge, minmax, topn, wc |
| single machine | `singleMachine.go`, `util.go` | ports, goroutines for master and workers | start, wait, report errors |
| flow | `batch/flow.go`, `pipeline.go`, `runner.go` | shard files, `mr-out-*` files, environment | source, job, cleanup, sink |
| MySQL source | `batch/mysql_batch/source.go` | key ranges, `jobs`, `errCh`, shard files | export the ranges in parallel |
| MySQL sink | `batch/mysql_batch/sink.go` | staging table, target table | load, sum, upsert |
| Redis source and sink | `batch/redis_batch` | connection, SCAN cursor, shard file, target hash keys | export, import |
| plugin cache | `batch/plugin_build.go`, `flow_v1.go` | mutex, lock file, `.so` file | build if stale |
| codec | `worker/imd_codec.go` | none | encode and decode pairs |

### How they interact

The master waits for workers, cuts the input into slices, and runs the map phase
and then the reduce phase. In a phase, each task has a goroutine that calls a
worker; the goroutine sets the worker's state from the outcome and sends the
worker's UUID on `finish` or on `ms.crashChan`. `orDone` merges the two channels:
it counts finishes and passes crashes to the phase's loop, which asks
`availableWorkers` for another worker and starts a goroutine for the task that
`taskStates` remembers for the UUID. `Worker.Map` reports its files to the master
(`UpdateIMDInfo`) before it answers; `Worker.Reduce` fetches them from the workers
that hold them. A flow calls the source, then the runtime, then the sink, and
communicates with them through files named by prefix and number.

### What is hard

* Concurrency: tasks, `orDone`, the phase and the scan of the worker table run at
  once; entries' states are changed without a lock that spans test and set;
  the goroutines of the reduce phase share captured variables.
* Failure: a call can fail for the master (600 s deadline, broken connection)
  while its handler goes on, writes files and reports them; a registration is
  repeated after its answer was lost; a Redis connection breaks within a reply.
* Ordering: finishes, crashes, re-executions and the closing of channels; calls
  that reach a worker before it knows its ID.
* Bounded channels of 100 to 1000 elements, filled by more senders than that.
* Files and tables that survive a failure and are found by the next attempt.
* Arithmetic at its limits: fewer lines than workers, key ranges near 2^63.

`PROJECT.json` lists these hazards one by one, at their lines.

## 2. The modules

| Module | Models | Uses |
|---|---|---|
| `WorkerPool` | entries' states and `availableWorkers`, one entry per step | |
| `OrDone` | the two channels, the count, the stream to the loop | |
| `TaskPhase` | abstract: what a phase promises | |
| `MapPhase` | `distributeMapTask` | `WorkerPool`, `OrDone`, implements `TaskPhase` |
| `ReducePhase` | `distributeReduceTask` | `WorkerPool`, `OrDone`, `TaskPhase` while undisturbed |
| `MapJob` | handlers at the workers, their files, the reducers' lists | extends `MapPhase` |
| `ReduceJob` | the Reduce handlers, `mr-out` files, holders that die | extends `ReducePhase` |
| `Registry` | ports, registration and its retries, the growing table, `setID`, `End` | |
| `DistributeWork` | `distributeWork`, `fileLineOffsets`, `partialContent` | |
| `Apps` | Map and Reduce of the applications | extends `DistributeWork` |
| `IMDCodec` | the text of intermediate files (pure) | |
| `WorkerMap` | the handler `Worker.Map` | |
| `WorkerReduce` | the handler `Worker.Reduce` after `Worker.Map` | extends `WorkerMap`, `IMDCodec` |
| `ShardExport` | `ExportSourceByPKRange` | |
| `MySQLSink` | `ImportReduceOutputs` of MySQL | |
| `RESP` | `readResp`, replies as tokens (pure) | |
| `RedisBatch` | Redis source, count, Redis sink | extends `RESP` |
| `PluginBuild` | `ensureBuiltinPlugin`, `buildPluginIfNeeded` | |
| `Flow` | `RunFlow`, `withTransformParams`, `LegacyRunner.Run`, `singleMachineJob` | |
| `MapPhaseProofs` | theorems about `MapPhase` and `MapJob` | extends `MapJob` |
| `ReduceProofs` | theorems about `ReducePhase` and `ReduceJob` | extends `ReduceJob` |
| `WorkerProofs` | theorems about `WorkerMap`, `IMDCodec` and `WorkerReduce` | extends `WorkerReduce` |
| `MySQLProofs` | theorems about `ShardExport` and `MySQLSink` | extends both |
| `MasterProofs` | theorems about `DistributeWork` and `Registry` | extends both |
| `RedisProofs` | theorems about `RESP` and `RedisBatch` | extends `RedisBatch` |
| `PluginBuildProofs`, `FlowProofs` | theorems about the modules they are named after | |
| `MC*` | constants for TLC | |

A definition that comes before another of a similar name (`CountFinishEarly`
before `CountFinish`) and is called a faulty variant is no part of the
specification: it is the same operation with a plausible mistake, and shows that
the property it belongs to notices that mistake.

### The phases

`MapPhase` has three kinds of processes: the phase (`pc`: it acquires workers,
spawns goroutines, ranges over the stream, reacquires), `orDone` (`orState`), and
the task goroutines (`gor[g].pc`: store, call, send). Each statement that reads or
writes what another process can see is an action. `Health()` and `SetState(BUSY)` of
the scan are one step, because nothing but the scan takes an entry out of `IDLE`; the
one exception, a goroutine of a disturbed reduce phase that marks a worker of the
overwritten slice, also sets `BUSY`, so both orders have the same result. `finish` is a set
of senders because `orDone` only counts what it receives; `crashChan` is FIFO. A
Map call may fail at any time. UUIDs are a function of the entries, because a
registration that is retried appends the same UUID again.

`ReducePhase` differs where the code does. `workers, _ = availableWorkers(1)`
overwrites the slice that all goroutines captured, so every `workers[id]` is a
read of the current value, and an index beyond it is a panic; `crashUUID` is the
loop's variable (go 1.17), which a re-executing goroutine reads when it deletes.
The phase is *undisturbed* as long as the slice has its first length: always with
one reduce task (as in `master_test.go`), until the first re-execution with more. The properties that fail
once it is disturbed are stated for the undisturbed phase, and one run shows how
it fails: the master panics. In a phase that goes on, wrong tasks are re-executed, and
it may even return; `NothingOutlivesPhase` is about what such a phase leaves behind.

`MapJob` adds the handler of each attempt. A failed call says nothing about the
handler; it may never start, stop anywhere or run on, so handlers have no
fairness. One content per worker and one list stand for the R files of an attempt,
which are written and listed together. The error of `WriteString` is ignored, so a
file may also come out as `LostWrite` and the handler go on as if nothing had
happened. The liveness of the phase is checked in `MapPhase`: a call whose handler
stops fails by its deadline, so that the handlers of `MapJob` make no difference to it.

`ReduceJob` does the same for the reduce phase: a handler fetches the files of all
holders, creates `mr-out-<ID>.txt` and writes it. A worker may die at any time, and
dies by `log.Panic` when a holder cannot be reached. `out[w]` says whose output the
file of `w` holds, whether it is whole and whether it was made from all files. The
errors of `os.Create` and `Fprintf` are ignored in the code: such a handler ends
`lost` and answers with success (`OutputLost`).

### Registration

`Registry` is the life of a single machine job around the phases. A worker
(`wpc`) tries its candidate ports, loads the plugin, sends a registration, waits for
its answer or sends another, sets its ID and waits for `End`. Registrations are
`inflight` until the master handles them, which may be after the worker has given
them up. `ms.Workers` is a slice: an append that has to grow copies the array in
one step (`RegisterCopy`) and puts it in place in another (`RegisterPublish`), and
what the phases write in between to the old array is lost (`stale`). A pass of
`availableWorkers` ranges over the entries there were when it began (`pass`). Of the phases
only the use of the table and the names of the outputs are there.

### Work distribution and applications

`DistributeWork` is a sequential loop over sequences of line lengths. `Apps` runs
the applications on the slices it cuts. A line's content is a function of its length
(`RowOf`), so that no variable is added: its key, its metric (a number, a word or
blank), its words, and whether it has all its fields. Each Map is an operator from
the rows of a slice to pairs, each Reduce one from the values of a key to a number.
`Output` is the job: all slices, tasks in any order, grouped by key. It is compared
with the sum, number of rows, minimum, maximum, range, n-th largest and number of
occurrences defined on the whole input.

### The handlers and the codec

`WorkerMap` has the handler's loop and one goroutine per slice; `Mapf` is any
function of the slice to a sequence of pairs. `WorkerReduce` goes on with what it
partitioned: the files are the text that `IMDCodec` makes of the pairs, a sequence of
code points because the property is about the cuts at tabs and line ends and about
`strings.TrimSpace`, whose blanks are those of `unicode.IsSpace`: carriage return,
vertical tab, form feed, U+0085, U+00A0 and the others of Unicode as well (`Blank`). One reduce
handler merges its part with that of another worker and sorts by key. `sort.Sort` is
not stable, so the result is any arrangement of the pairs (`Sorted`) in which the keys
ascend. The handler then calls a `Reducef` that emits `ReduceEmits` times into the
channel from which the same goroutine receives once.

### Sources and sinks

`ShardExport` has the dispatcher and its goroutines, and key arithmetic that wraps
around at `Half`, which stands for 2^63. `MySQLSink` has one action per statement: a DDL statement of MySQL
commits implicitly (external, as the code uses it), so a failure leaves what was
done so far. Several imports into one target share the staging table. Its names
(`ImportInit`, `ImportNext`, `ImportSpec`, `stmt` for the next statement) are its own
so that one module can prove about the source and the sink; those of
`DistributeWork` (`WorkInit`, `WorkNext`, `WorkSpec`) are for the same reason.

`RESP` parses replies: a token is a header line, a byte of a bulk string (a word stands
for a byte) or one of the two bytes of the line break behind it, so the `n + 2` of
`ReadBulk` is there and reading one too many or too few shows. Texts are sequences over
`Word`, whatever words there are. Of `toString` the branches for integers and other
types are left out: it is applied to cursors, keys and fields, which are strings or nil in every reply the server sends. `readResp` is a recursive function of the tokens, and `Encode` (external) writes
arrays that nest once, as the replies of SCAN do. `RedisBatch` is a flow from Redis to Redis. The server
(external) answers SCAN page by page, with every key that is there throughout at
least once; a command may get an error, a connection that breaks before, within or
after the reply, or no answer, which may also happen to the AUTH, SELECT or PING of
`openRedis`. What the client ignores is history: `ignored`
(failed HMGET and DEL), `flushed`. The job in between is the builtin count.

### The plugin cache

`PluginBuild` has callers in several processes. A caller takes the mutex of its
process and the flock, compares modification times, builds into a file of its
own and renames it. The source is edited and the clock ticks at any time; a process
may die at any step, which frees its flock. To load is `plugin.Open`, which keeps the
plugins of a process by path: the first call of a process loads the file (`opener`), and
every later one gets what that call got, rebuilt or not. `hidden` is history: an edit that the
comparison of times cannot see.

### The flows

`Flow` has the flows of one process and what they share: the environment, in which
`withTransformParams` puts a flow's parameters under `transformEnvMu`; the shard
files and the files `mr-out-<ID>.txt`; and the runtime under `legacyRuntimeMu`. Each
flow is a process (`pc`) and so is its job (`job`), because `LegacyRunner.Run` runs
the job in a goroutine of its own. A file is the record of what it was made from:
the flow whose job wrote it, the flow whose rows were read, the parameters in
force. The variable `disturbed` is history: it collects the flows that overlapped
with one while at least one of the two did not hold `transformEnvMu`. The job is
one whose Map and Reduce calls do not fail (the phases' modules have those); its
master may fail to listen, which is a panic (`ListenFails`). The
flow's export and import are short (`ShardExport`, `MySQLSink` and `RedisBatch` have them). Local
variables are reset when their function returns, to keep the state space small.

## 3. What the runs check

| Run | Instance | Shows |
|---|---|---|
| `map_job` | 2 tasks, 4 workers, buffers of 2, any failures, handlers that go on, a write that fails | no task lost (`MapComplete`), no worker shared or leaked (`WorkersLentOnce`), each task succeeds once (`ImplementsTaskPhase`); if the successful attempts could write, the reducers' lists hold each output once when failed calls left no report and no worker ran twice (`ExactlyOnceWithCleanFailures`), and none is missing when no worker ran twice (`NothingLostWithSpares`); `IInv` is the invariant of the proofs |
| `map_twice` | 3 tasks, buffers of 1, 5 entries of which the last two have one UUID | with the put-back branch still nothing outlives the phase, and it ends (`Terminates`) unless all workers failed or were put aside, or it waits for itself |
| `reduce_job` | 2 reduce tasks, 3 workers of which 1 to 3 answer, one process that dies, two timeouts | the undisturbed phase implements `TaskPhase` and ends; nothing outlives it even when disturbed; at the end of an undisturbed one every task's output is whole, made from all files and in one `mr-out` file, unless a worker wrote two, a failed call wrote or a write failed (`OutputsComplete`) |
| `reduce_panic` | 2 reduce tasks, 1 failure | **violated**: one failed call panics the master |
| `distribute_work` | up to 2 files of 4 lines, 3 workers; rows of 6 kinds | every byte in one slice, offsets in range; the applications compute the statistic of the whole input whatever the cuts and the order of the tasks (`AppsExact`) |
| `map_reduce` | no slice, 1 slice of any two pairs over six texts, or 2 slices of plain pairs; buffers of 2 and 1; 2 reducers; `Reducef` emits 0, 1 or 2 times | no send on the closed channel; decoding gives back what was encoded exactly for transportable pairs (`CodecExact`); `Reducef` is called once per key with all its values (`ReducedOnce`); both handlers end (`Finishes`) |
| `shard_export` | intervals of 4-bit keys (`Half` = 8), 3 shards, 2 goroutines | a success means that every row is in one file, whichever goroutine failed and when; it returns unless stranded |
| `mysql_sink` | 2 imports, up to 3 lines, batches of 2, failures and reruns without bound | with Replace a success leaves the totals and nothing else, without it it adds its keys and leaves the others (`RerunsIdempotent`); with Replace no partial sum is visible (`NoPartialSums`); as long as imports do not overlap, and again after they did |
| `flow` | 2 flows with parameters and 1 without, 1 or 2 reducers on 2 workers, old output files, failures and cancellation anywhere | jobs never overlap or outlive their flow (`OneJob`), the environment is restored (`EnvRestored`), an undisturbed flow imports its own files, all of them and no others (`ImportsOwn`), every flow ends (`AllEnd`) |
| `registry` | 2 workers, 2 candidate ports each, 2 registrations each, 2 reducers | a worker that knows its ID owns it (`IdsOwned`); outputs are kept unless a worker is registered twice or reduced before it knew its ID (`OutputsKept`); the job ends with all workers except for the five reasons `JobEnds` names |
| `redis` | 2 keys, 2 pages, 1 expiry, 2 runs, targets empty or not, replace or not | commands and replies stay in step, to the byte (`InStep`); lines are as many as SCAN returned a key (`LinesMatchScans`); a success leaves exactly the counts (`ImportExact`); a run returns unless Redis stalls (`Returns`) |
| `plugin_build` | 3 calls in 2 processes, 1 edit, 1 tick, deaths anywhere | the file a call is told of is complete and current, and what it runs is what the first call of its process found (`LoadsCurrent`); the file is never replaced by an older one (`NeverOlder`), every call returns (`CallsReturn`) |

**Why the bounds suffice.** With two tasks and four workers both tasks can crash, one
of them twice, while the other is in the stream, and two spares let both be
re-executed on workers of their own. In `map_twice` the two entries of one worker
are the spares: without a crash, or with one, the table is as good as one
without repetition, with more the twins are lent one after the other or at once. Its
channels hold one of up to three reports, so senders block, and the loop as well.
Two is the least number of reduce tasks for which the shared slice matters; with two
timeouts the phase can re-execute a wrong task and return. Two slices
with two pairs each on a buffer of two let pairs be left in the channel when it is
closed; two pairs over six texts (empty, a letter, a tab, a no-break space, a letter and
a carriage return, a letter and a line end) put each kind of blank and each separator
first, last and in the middle of a file. Four lines on three workers give a
remainder, empty slices and slices of two lines; six kinds of rows include every
branch of the applications. Two registrations per worker give every mixture of lost, late and
repeated ones, and a table that is full when the third arrives. Two flows with
parameters contend for the mutex and a third without walks past it; a flow with two
reducers leaves a file that a flow with one has to clean up. Four-bit keys include
every kind of overflow. Two pages have a first, a last and a key that is returned
in both; the second run starts from whatever the first left. One edit and one tick
give an edit before, within and after a build, in its unit of time or in the next.
`MaxLostWrites`, `MaxFailures`, `MaxCrashes`, `MaxTimeouts`, `MaxFiles`, `MaxLines`, `MaxRegister`,
`MaxPages`, `MaxExpired`, `MaxRuns`, `MaxEdits` and `MaxClock` are the bounds; the
others are parameters of the program.

**Deadlock** is checked in all runs; a stuttering action `Terminated` stands for
the states in which the code has returned. In `ShardExport` it also covers
`Stranded`, the one state in which the export hangs: all goroutines gave up after
the dispatcher's last look at `errCh`, and its send has no receiver. In `WorkerReduce` it
covers a handler that waits for an emit that does not come, in `MapPhase` a loop that
waits for itself, in `RedisBatch` a stalled
server.

**Fairness** is weak fairness of each goroutine: Go's scheduler runs every
runnable goroutine, a select with a ready case proceeds, and calls return because
they have deadlines (600 s for Map and Reduce, two for a registration, one for
`End`). No fairness is assumed of an outcome: a call may always fail, a registration
may always be lost, a process may always die, and handlers have none of their own.
Termination is therefore stated up to the states in which the code does wait for
ever: no worker left (`MapPhase`), a loop that waits for itself (`SelfWait`), more workers requested than are left
(`TooFewWorkers`), a disturbed reduce phase, a map task without files (`NoInput`), a
`Reducef` that does not emit once, a stranded export, a stalled Redis, for flows a
job that waits for workers that could not be started (`Stuck`) or the death of the
process, and for the job the cases of `JobEnds`. Mutexes and flocks are assumed to be
given to their waiters, which weak fairness suffices for: each flow takes each mutex
once and each caller the flock once.

### A disagreement with what the repository says

`reduce_panic`: the tests call the reduce phase fault tolerant
(`master/master_test.go:116`); with two tasks one failure can panic the master.

### Seen in the models

The conditions in the properties are there because the code does otherwise without
them:

* A Map call that failed for the master and whose handler reported all the same is
  listed twice; a worker that executes two map tasks overwrites the files of the
  first (`ExactlyOnce` fails in both cases, where `mrapps/wc.go:36-39` speaks of all
  the values created by any map task).
* With one UUID registered twice `MapComplete` fails and a worker can overwrite its
  own reduce output. A Reduce before `setID` writes to `mr-out-0.txt`.
* A registration that arrives during the phases can make the master wait for ever
  for an entry whose state was set in the old array; one that arrives after
  `endWorkers` leaves its worker running.
* A disturbed reduce phase can also end with a task that was never completed: the
  wrong task is executed again and one output is missing. `reduce_job` contains
  such phases, which no property but `NothingOutlivesPhase` speaks of; the
  case came up when the invariant of `ReduceProofs` turned out not to be inductive. Fewer
  healthy workers than reducers make the master spin while it holds the ones it has;
  the death of one holder of files brings that about.
* A row with a blank metric is counted or not, depending on whether it is the last of
  its slice, so on the number of workers. `merge` panics on files with fewer lines
  than there are workers.
* A write of an intermediate or output file that fails is answered with success.
* With a UUID in the table twice the loop of the map phase puts a crash back on
  `crashChan` although it is the only consumer, and waits for itself when the channel is
  full and `orDone` has another crash for it (`SelfWait`): with a capacity of 100 that
  takes 102 map tasks that fail at once. The worker it had found stays busy for ever
  (`PutAside`).
* A `Reducef` that emits twice shifts all later outputs of its task by one.
* Without `KeysFit`, tables whose keys span half of the integers lose rows without an
  error, and so do a failed last `Flush` and, for Redis, a failed HMGET.
* Between `TRUNCATE` and the upsert a failed import leaves the target empty.
  Overlapping imports into one target lose or mix rows. With `replace=false` the upsert
  overwrites totals (`sink.go:89`), and so does the HSET of the Redis sink, where
  `docs/config-driven-flow.md:119` says "For accumulation mode, set `replace=false`": the
  two properties of the MySQL sink speak of totals with Replace only.
* A flow without parameters that overlaps with another can import the other's
  output, compute with its parameters, remove its files or make it panic on missing
  shards; a failed `os.Setenv` leaves the parameters set before it; a flow with an
  empty source returns before its sink, so a target to be replaced stays as it was.
* An edit of a plugin's source during its build, in the same unit of time, or of a
  package it imports leaves a stale plugin that every later call accepts. A second
  flow of one process builds the plugin anew after an edit and still runs the code its
  process opened first.

## 4. What is proved

Eight modules hold theorems, each for every value of the constants: any number of
workers, tasks, shards, flows or callers, any capacity of the channels, any bound
on failures. The assumptions are the named ones of the modules, which validation or
the code before the modelled part establishes (at least one worker, channels with
room, at least one shard, positive line lengths); further ones are named below.

| Module | Theorems | State |
|---|---|---|
| `MapPhaseProofs` | `TypeCorrect` | `TypeOK`; also when UUIDs repeat |
| | `InductiveInvariant` | `IInv` |
| | `MapCompleteHolds`, `NothingOutlivesHolds`, `WorkersLentOnceHolds` | the safety properties of the map phase |
| | `Refinement` | the map phase implements `TaskPhase` |
| | `JobInvariant`, `NothingLostHolds`, `ExactlyOnceHolds` | what the reducers find of the map outputs |
| `ReduceProofs` | `InductiveInvariant`, `NothingOutlivesHolds` | the reduce phase, disturbed or not |
| | `WorkersGivenBackHolds`, `Refinement` | the reduce phase while undisturbed |
| | `JobInvariant`, `OutputsCompleteHolds` | the `mr-out` files at its end |
| `WorkerProofs` | `InductiveInvariant`, `NoSendOnClosedHolds` | no send on the closed `mapChan` |
| | `PartitionsExactHolds` | every emitted pair is in its reducer's partition, once |
| | `RoundTrip` | what `encodeIMDKVs` writes is read back exactly if it is transportable |
| | `ReduceInvariant`, `CodecExactHolds`, `ReducedOnceHolds` | one call of `Reducef` per key with all its values |
| `MasterProofs` | `LoopInvariant`, `InBoundsHolds`, `FileExhaustedHolds` | offsets in range, all lines handed out |
| | `EveryByteOnceHolds` | every byte of every file is read by one map task |
| | `IdsOwnedHolds`, `OutputsKeptHolds` | IDs and outputs under repeated registrations |
| `MySQLProofs` | `InductiveInvariant`, `EveryRowOnceHolds` | the export |
| | `SinkInvariant`, `NoPartialSumsHolds`, `RerunsIdempotentHolds` | the import |
| `RedisProofs` | `ReplyReads` | `readResp` reads what the server sent, and notices where it breaks off |
| | `InStepHolds`, `LinesMatchScansHolds`, `ImportExactHolds` | the connection, the export and the import |
| `PluginBuildProofs` | `TypeInvariant`, `InductiveInvariant`, `LoadsCurrentHolds`, `NeverOlderHolds` | the plugin cache |
| `FlowProofs` | `MutexesHeld`, `OneJobHolds`, `EnvRestoredHolds` | the mutexes of the flows |
| | `ImportsOwnHolds` | an undisturbed flow imports its own files |

**The map phase.** All but `TypeCorrect` assume `UniqueUuid`, without which
`MapComplete` is false. `MapComplete` is not inductive: that the phase has counted as
many finishes as there are tasks says nothing by itself. The argument is that a task
is always in exactly one place (`TaskOwnedOnce`): with a goroutine that has not
crashed, or on its way as a UUID in `crashChan`, in `held` or in the loop. A UUID on
its way is there once and belongs to one crashed goroutine (`CrashesPendingOnce`),
because a worker fails once and never returns to the pool (`FailedOnce`), and the
loop finds the right task because `taskStates` still has it (`Remembered`): nobody
else used the worker since (`Users`, `Taken`, `BusyAccounted`). So finished
goroutines have different tasks, and as many finishes as tasks are all the tasks: a
pigeonhole argument by the library's cardinality theorems. The same count shows that
nothing is left over. `PoolSize`, `SpawnOrder` and `FinishesCounted` tie the counters
to this. With the handlers, the lists have an element for every handler that
reported and for no other (`Listed`); while each worker runs one attempt its file is
that attempt's and is listed once (`FilesOwned`). With `MapComplete` this gives what
the reducers find.

**The reduce phase.** Its goroutines index a slice that changes under them, so what a
disturbed phase re-executes is not under control, and tasks cannot be followed as in
the map phase. What can be is a balance: every goroutine beyond one per task answers
a crash, and every crash that is not answered is in `crashChan`, at `orDone` or in
the loop (`Balance`). As many finishes as tasks then leave nothing under way,
whatever was executed. While undisturbed (`Straight`), goroutine `g` has task `g`
and each busy worker a user: so none is left busy (`WorkersGivenBack`, which says most of
one reduce task that is executed again and again; no run checks it). The handlers and files of `ReduceJob` are tied to the
goroutines by `Handlers` and `Outputs`.

**`Worker.Map`.** The reports in `done` and the ones received are together the
goroutines that have returned (`Counted`), so the last report is received after all
of them have sent everything (`Sent`): the channel may be closed with pairs in it,
never with a sender left. Then every pair sent is in `mapChan` or in its partition,
not in both and in one place (`Followed`), and the loop ends with an empty channel.
`PartitionsExact` is the first half of `ReducedOnce`.

**The codec.** `RoundTrip` is about all texts and all sequences of pairs. The library's
induction theorems cannot be used (they take an operator), but its theorem that `<` on
the natural numbers is well-founded can: `Induct` states induction for a set of numbers,
and `Recursion` that a function defined by recursion over `0..N` exists, without which
nothing is known of it. From there, the text of n pairs is that of n - 1 and a
line; splitting it gives the lines back because no line has a line end in it, and a
line is cut at the tab that ends its key. In the other direction, whatever is decoded
has no line end inside and no tab in a key (`DecodeClean`), and its text is no longer
than the one it was decoded from (`DecodeShort`): if more was trimmed than the last line
end, the pairs that arrive have a shorter text than those that were written.

**`Worker.Reduce`.** The file of a partition is the text of its pairs (`Written`), what
is fetched are the pairs of both files if they are transportable (`Fetched`), and the
sort rearranges them (`InOrder`). `Less` is the order of strings, of which the proof
needs that of two different keys one is less: equal keys are then next to each other. `Progress` says that the outputs so far are those of the
groups before `next`, one for each of their keys and with as many copies of a value as
there are pairs with it; a `Reducef` that emits once per call leaves its channel empty
after each group. With `PartitionsExact` the values are the emitted ones, counted.

**Work distribution.** `from` is the closed form `Start` (`FromInv`), which quotient
and remainder place within the file. `SlicesInv` says that the slices made so far
are those between consecutive starts, in bytes. That a byte lies in one of them needs a last
start before it: the least element of a set of tasks, from the library's
well-foundedness theorem, takes the place of an induction.

**The export.** Two arguments meet. As long as nothing wraps around (`KeysFit`), the
ranges from `min + (k-1)*step` to `min + k*step` partition the rows, which is
arithmetic with a quotient. And a task that was handed out is in its file, or some
goroutine has it, or there is an error on its way to the result (`HandedOut`); so a
return without an error has all files. A failed last `Flush` is excluded (`lost`),
as in the run.

**The import.** An import that overlaps with no other finds at each statement what it
left there (`Working`): the staging table and its batch, one after the other, are the
rows of the lines it has read (`RowsUpTo`, a recursive function as in the codec), so at
the upsert the table has the rows of all lines, whatever the size of the batches and
whatever an import that failed had put there before. Two imports that are under way at
once are both marked (`Overlaps`). Values reach the target by the upsert alone, with
complete totals; which sum a total is plays no part.

**Redis.** Nothing is known of `readResp` before it is shown that a function as its
definition describes exists (`ReadRespExists`): what follows a header is shorter, so a
reader for up to m tokens makes one for m + 1, and any two agree. Then each
kind of reply is read as `Encode` wrote it whatever follows, and the end of the bytes is
read from any part of it (`ReplyReads`), element by element for arrays and, within a
bulk string, for any number of bytes and the line break behind them. So between
commands nothing is unread, and what `do` returned is the answer to the command at hand
or an error (`LinkInv`). On that rest the other two invariants. In `ExportInv`, a key has as
many lines as it was returned times, less one if it is still due in the page at hand
(`Matching`), and no key is left unseen after the last page. In `ImportInv`, the target
holds at each HSET the counts of exactly those keys whose lines are done, over what was
there before or over nothing (`SetSoFar`); with Replace the keys seen and not on the page
at hand are gone (`DeletedSoFar`). Two keys have two lines because a line is a key and one
more word. The assumptions say that keys and values are texts, that there are
finitely many keys, and that the cursors `0` and `7` are texts.

**Registration.** The table only grows, so an answer stays right once it was made
(`Owned`), also while the array is copied. When the phases run, the table has as many
entries as there are workers; if none is in it twice nothing can be added (a
pigeonhole argument), the array is the one the phases point into, and their tasks
have different entries (`Phases`).

**The plugin cache.** Mutex and flock make the stretch from the comparison to the
rename exclusive (`Locks`), also when a process dies in it. So what a call has read
is no older than the output it replaces, and the times of the files tell which
output is current unless an edit is hidden (`Files`, `CallInv`). What a process has opened
was current for the call that opened it and stays what the others get (`Opened`).

**The flows.** That jobs do not overlap needs that `legacyRuntimeMu` is held exactly by
the flow in `running` (`RuntimeHeld`) and that a job is only alive while its flow is
there (`JobsWaitedFor`), which is what waiting for the job after a cancellation is
for. That the environment comes back needs that `transformEnvMu` is held exactly
between `start` and `ended` (`EnvHeld`), so that the one flow inside has the original
value to restore (`EnvKept`); a flow whose `os.Setenv` failed is excluded
(`EnvErrorLast`). For `ImportsOwn`, two flows that are under way at once are both
disturbed, because two with parameters cannot be (`Alone`); so an undisturbed flow
finds at each point what it left there (`Working`), up to the files its import has
read and the ones it still has to read.

**Only model-checked.** Liveness under fairness (`Terminates`, `Finishes`, `Returns`,
`AllEnd`, `JobEnds`, `CallsReturn`) is out of the prover's reach. `AppsExact` compares
sums, minima and n-th largest values over all ways to cut the input, for seven
applications at once, each of which would need a theory of its own.

## 5. Not modelled, and the plan

Left out for good: generated RPC stubs; command lines; `prepare_validate.go` and
`benchmark.go`, sequential tooling around the pipeline; validation of configurations
(its guarantees are assumptions here); the health check, whose body is empty;
`crash.go`, which dies at random to exercise the master; and the stand-alone nodes
`masterNode.go` and `workerNode.go`, which make the calls of `singleMachine.go` one by
one. Together with the generated code these are most of the lines no definition
maps.

Theorems that would be worth having:

1. `Apps`: that a count or a sum does not depend on the cuts, for one application.
2. `Registry`: the type invariant as a theorem of its own, and that a worker gets one
   ID for all its life.
