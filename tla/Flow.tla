-------------------------------- MODULE Flow --------------------------------
(***************************************************************************)
(* Flows of one process: source, MapReduce job and sink, one after the     *)
(* other (RunFlow, and RunPipeline as a flow without parameters).  They    *)
(* meet in what the process has only once:                                 *)
(*  - the environment, in which withTransformParams puts a flow's          *)
(*    parameters for its plugin to read, under transformEnvMu;             *)
(*  - the shard files of the source and the files mr-out-<ID>.txt, in the  *)
(*    directories and with the prefixes and globs of the defaults;         *)
(*  - the runtime, one job at a time under legacyRuntimeMu (runtimeMu is   *)
(*    taken inside it and never contended).                                *)
(*                                                                         *)
(* A job here is one whose Map and Reduce calls do not fail: each reduce   *)
(* task is done by a worker of its own, which numbers the output file.  A  *)
(* file is the record of what it was made from: the flow whose job wrote   *)
(* it, the flow whose rows were read and the parameters in force.  The     *)
(* variables of all parameters together are one value, env.  Local         *)
(* variables of a function that has returned are reset.                    *)
(***************************************************************************)
EXTENDS Naturals, FiniteSets

CONSTANTS
  Flows,        \* the flows
  NoFlow,       \* no flow: nobody holds, nobody wrote, the original environment
  WithParams,   \* the flows that have Transform.Params
  NumWorkers,   \* Transform.Workers, the same for all
  Reducers      \* Transform.Reducers of each flow

ASSUME NoFlowAssumption == NoFlow \notin Flows
ASSUME WithParamsAssumption == WithParams \subseteq Flows
ASSUME NumWorkersAssumption == NumWorkers \in Nat \ {0}
ASSUME ReducersAssumption == Reducers \in [Flows -> Nat \ {0}]

\* The worker IDs, and so the possible numbers of output files.
Id == 0..(NumWorkers - 1)

Made == [by : Flows \cup {NoFlow}, rows : Flows \cup {NoFlow}, env : Flows \cup {NoFlow}]
NoFile == [by |-> NoFlow]

VARIABLES
  pc,          \* where each flow is
  result,      \* "none" | "ok" | "error" | "envError", of each flow
  canceled,    \* the flows whose runner has seen their context end
  env,         \* whose parameters the environment has
  restore,     \* the environment each flow will put back
  envMu,       \* holder of transformEnvMu
  runtimeMu,   \* holder of legacyRuntimeMu
  shards,      \* whose rows the shard files have
  mrOut,       \* the output files
  job,         \* the job of each flow
  input,       \* whose rows the job of each flow has read
  written,     \* the files it has written
  todo,        \* the files the sink of each flow has still to read
  imported,    \* what it has read
  disturbed,   \* history: flows that overlapped with one not under transformEnvMu
  crashed      \* a panic has ended the process

flowVars == <<pc, result, restore, canceled, todo, imported>>
jobVars == <<job, input, written>>
sharedVars == <<env, envMu, runtimeMu, shards, mrOut>>
vars == <<flowVars, jobVars, sharedVars, disturbed, crashed>>

\* Holders, owners and files are flows and files of the process.
TypeOK ==
  /\ pc \in [Flows -> {"start", "setenv", "source", "export", "cleanup", "run", "wait",
                       "running", "sink", "read", "restore", "unlock", "ended"}]
  /\ result \in [Flows -> {"none", "ok", "error", "envError"}]
  /\ canceled \subseteq Flows /\ disturbed \subseteq Flows
  /\ {env, envMu, runtimeMu, shards} \subseteq Flows \cup {NoFlow}
  /\ restore \in [Flows -> Flows \cup {NoFlow}]
  /\ mrOut \in [Id -> Made \cup {NoFile}]
  /\ job \in [Flows -> {"none", "starting", "map", "reduce", "ended", "stuck"}]
  /\ input \in [Flows -> Flows \cup {NoFlow}]
  /\ \A f \in Flows : written[f] \subseteq Id /\ Cardinality(written[f]) <= Reducers[f]
  /\ \A f \in Flows : todo[f] \subseteq Id /\ imported[f] \subseteq Id \X Made
  /\ crashed \in BOOLEAN

\* An earlier process may have left output files behind.
Init ==
  /\ pc = [f \in Flows |-> "start"]
  /\ result = [f \in Flows |-> "none"]
  /\ canceled = {} /\ disturbed = {}
  /\ env = NoFlow /\ envMu = NoFlow /\ runtimeMu = NoFlow /\ shards = NoFlow
  /\ restore = [f \in Flows |-> NoFlow]
  /\ mrOut \in [Id -> {NoFile, [by |-> NoFlow, rows |-> NoFlow, env |-> NoFlow]}]
  /\ job = [f \in Flows |-> "none"]
  /\ input = [f \in Flows |-> NoFlow]
  /\ written = [f \in Flows |-> {}]
  /\ todo = [f \in Flows |-> {}]
  /\ imported = [f \in Flows |-> {}]
  /\ crashed = FALSE

-----------------------------------------------------------------------------
GoTo(f, from, to) == pc[f] = from /\ pc' = [pc EXCEPT ![f] = to]

\* run() returns, and with parameters its deferred functions follow.
Leave(f, from, r) ==
  /\ GoTo(f, from, IF f \in WithParams THEN "restore" ELSE "ended")
  /\ result' = [result EXCEPT ![f] = r]

Active(f) == pc[f] \notin {"start", "ended"}

\* History: f starts; it and the flows it overlaps with disturb each other
\* unless both are under transformEnvMu.
Overlap(f) ==
  LET others == {g \in Flows \ {f} : Active(g) /\ ~({f, g} \subseteq WithParams)}
  IN  disturbed' = disturbed \cup others \cup (IF others = {} THEN {} ELSE {f})

\* withTransformParams without parameters calls run() directly.
StartPlain(f) ==
  /\ f \notin WithParams
  /\ GoTo(f, "start", "source")
  /\ Overlap(f)
  /\ UNCHANGED <<result, restore, canceled, todo, imported, jobVars, sharedVars, crashed>>

\* transformEnvMu.Lock()
LockEnv(f) ==
  /\ f \in WithParams
  /\ envMu = NoFlow
  /\ envMu' = f
  /\ GoTo(f, "start", "setenv")
  /\ Overlap(f)
  /\ UNCHANGED <<result, restore, canceled, todo, imported, jobVars,
                 env, runtimeMu, shards, mrOut, crashed>>

SetEnv(f) ==
  /\ GoTo(f, "setenv", "source")
  /\ restore' = [restore EXCEPT ![f] = env]
  /\ env' = f
  /\ UNCHANGED <<result, canceled, todo, imported, jobVars,
                 envMu, runtimeMu, shards, mrOut, disturbed, crashed>>

\* os.Setenv fails for one of the parameters: the function that restores the
\* others is not deferred yet.
SetEnvFails(f) ==
  /\ GoTo(f, "setenv", "unlock")
  /\ result' = [result EXCEPT ![f] = "envError"]
  /\ env' \in {env, f}
  /\ UNCHANGED <<restore, canceled, todo, imported, jobVars,
                 envMu, runtimeMu, shards, mrOut, disturbed, crashed>>

\* Faulty variant of SourceFails: a failed export is tried again, for ever.
SourceFailsRetries(f) ==
  /\ GoTo(f, "export", "source")
  /\ UNCHANGED <<result, restore, canceled, todo, imported, jobVars, sharedVars, disturbed, crashed>>

\* The plugin, the database or the export fails.
SourceFails(f) ==
  /\ \E at \in {"source", "export"} : Leave(f, at, "error")
  /\ UNCHANGED <<restore, canceled, todo, imported, jobVars, sharedVars, disturbed, crashed>>

\* The export removes the shard files that are there.
RemoveShards(f) ==
  /\ GoTo(f, "source", "export")
  /\ shards' = NoFlow
  /\ UNCHANGED <<result, restore, canceled, todo, imported, jobVars,
                 env, envMu, runtimeMu, mrOut, disturbed, crashed>>

Export(f) ==
  /\ GoTo(f, "export", "cleanup")
  /\ shards' = f
  /\ UNCHANGED <<result, restore, canceled, todo, imported, jobVars,
                 env, envMu, runtimeMu, mrOut, disturbed, crashed>>

\* len(files) == 0: the source is empty and the flow is done.
ExportEmpty(f) ==
  /\ Leave(f, "export", "ok")
  /\ UNCHANGED <<restore, canceled, todo, imported, jobVars, sharedVars, disturbed, crashed>>

\* Faulty variant of cleanupReduceOutputs: only as many files as the job will
\* write are removed.
CleanupFew(f) ==
  /\ GoTo(f, "cleanup", "run")
  /\ mrOut' = [i \in Id |-> IF i < Reducers[f] THEN NoFile ELSE mrOut[i]]
  /\ UNCHANGED <<result, restore, canceled, todo, imported, jobVars,
                 env, envMu, runtimeMu, shards, disturbed, crashed>>

cleanupReduceOutputs(f) ==
  /\ GoTo(f, "cleanup", "run")
  /\ mrOut' = [i \in Id |-> NoFile]
  /\ UNCHANGED <<result, restore, canceled, todo, imported, jobVars,
                 env, envMu, runtimeMu, shards, disturbed, crashed>>

-----------------------------------------------------------------------------
(* LegacyRunner.Run.                                                       *)

\* ctx.Err() is looked at once before the lock; the context may end at any time.
CheckContext(f) ==
  /\ \/ Leave(f, "run", "error")
     \/ GoTo(f, "run", "wait") /\ UNCHANGED result
  /\ UNCHANGED <<restore, canceled, todo, imported, jobVars, sharedVars, disturbed, crashed>>

\* legacyRuntimeMu.Lock(), and the job is started.
LockRuntime(f) ==
  /\ runtimeMu = NoFlow
  /\ runtimeMu' = f
  /\ GoTo(f, "wait", "running")
  /\ job' = [job EXCEPT ![f] = "starting"]
  /\ UNCHANGED <<result, restore, canceled, todo, imported, input, written,
                 env, envMu, shards, mrOut, disturbed, crashed>>

\* Faulty variant of ObserveCancel: Run returns and leaves the job to itself.
ObserveCancelReturns(f) ==
  /\ f \notin canceled
  /\ canceled' = canceled \cup {f}
  /\ Leave(f, "running", "error")
  /\ runtimeMu' = NoFlow
  /\ UNCHANGED <<restore, todo, imported, jobVars,
                 env, envMu, shards, mrOut, disturbed, crashed>>

\* case <-ctx.Done(): Run remembers and goes on waiting for the job.
ObserveCancel(f) ==
  /\ pc[f] = "running"
  /\ f \notin canceled
  /\ canceled' = canceled \cup {f}
  /\ UNCHANGED <<pc, result, restore, todo, imported, jobVars, sharedVars, disturbed, crashed>>

\* case err := <-done
JobReturned(f) ==
  /\ job[f] = "ended"
  /\ IF f \in canceled
       THEN Leave(f, "running", "error")
       ELSE GoTo(f, "running", "sink") /\ UNCHANGED result
  /\ canceled' = canceled \ {f}
  /\ runtimeMu' = NoFlow
  /\ UNCHANGED <<restore, todo, imported, jobVars, env, envMu, shards, mrOut, disturbed, crashed>>

-----------------------------------------------------------------------------
(* The job of flow f: singleMachineJob.                                    *)

JobTo(f, from, to) == job[f] = from /\ job' = [job EXCEPT ![f] = to]

\* Master and workers are up and the workers registered.
WorkersStart(f) ==
  /\ Reducers[f] <= NumWorkers
  /\ JobTo(f, "starting", "map")
  /\ UNCHANGED <<flowVars, input, written, sharedVars, disturbed, crashed>>

\* A worker cannot be started, or there are to be fewer than reducers: its error
\* waits in errCh behind the master, which waits for workers for ever.
WorkersFail(f) ==
  /\ JobTo(f, "starting", "stuck")
  /\ UNCHANGED <<flowVars, input, written, sharedVars, disturbed, crashed>>

\* StartMaster cannot listen, and panics in its own goroutine.
ListenFails(f) ==
  /\ JobTo(f, "starting", "stuck")
  /\ crashed' = TRUE
  /\ UNCHANGED <<flowVars, input, written, sharedVars, disturbed>>

\* distributeWork and the Map calls read the shard files; a missing one panics.
ReadShards(f) ==
  /\ JobTo(f, "map", "reduce")
  /\ input' = [input EXCEPT ![f] = shards]
  /\ crashed' = (shards = NoFlow)
  /\ UNCHANGED <<flowVars, written, sharedVars, disturbed>>

\* Worker i does one of the reduce tasks and writes mr-out-i.txt.
WriteOutput(f, i) ==
  /\ job[f] = "reduce"
  /\ i \notin written[f] /\ Cardinality(written[f]) < Reducers[f]
  /\ written' = [written EXCEPT ![f] = @ \cup {i}]
  /\ mrOut' = [mrOut EXCEPT ![i] = [by |-> f, rows |-> input[f], env |-> env]]
  /\ UNCHANGED <<flowVars, job, input, env, envMu, runtimeMu, shards, disturbed, crashed>>

\* endWorkers; both goroutines return and errCh is empty.
EndJob(f) ==
  /\ Cardinality(written[f]) = Reducers[f]
  /\ JobTo(f, "reduce", "ended")
  /\ input' = [input EXCEPT ![f] = NoFlow]
  /\ written' = [written EXCEPT ![f] = {}]
  /\ UNCHANGED <<flowVars, sharedVars, disturbed, crashed>>

-----------------------------------------------------------------------------
(* The sink, and the end of the flow.                                      *)

\* filepath.Glob; without a match the import is an error.
Glob(f) ==
  /\ todo' = [todo EXCEPT ![f] = {i \in Id : mrOut[i] # NoFile}]
  /\ IF todo'[f] = {}
       THEN Leave(f, "sink", "error")
       ELSE GoTo(f, "sink", "read") /\ UNCHANGED result
  /\ UNCHANGED <<restore, canceled, imported, jobVars, sharedVars, disturbed, crashed>>

\* os.Open fails when the file has been removed since.
ReadFile(f, i) ==
  /\ pc[f] = "read" /\ i \in todo[f] /\ mrOut[i] # NoFile
  /\ todo' = [todo EXCEPT ![f] = @ \ {i}]
  /\ imported' = [imported EXCEPT ![f] = @ \cup {<<i, mrOut[i]>>}]
  /\ UNCHANGED <<pc, result, restore, canceled, jobVars, sharedVars, disturbed, crashed>>

\* All files are in the target.
Imported(f) ==
  /\ todo[f] = {}
  /\ Leave(f, "read", "ok")
  /\ UNCHANGED <<restore, canceled, todo, imported, jobVars, sharedVars, disturbed, crashed>>

\* The database fails, the context ends or a file is gone; what was read before
\* that is of no further interest (MySQLSink has the details).
SinkFails(f) ==
  /\ \E at \in {"sink", "read"} : Leave(f, at, "error")
  /\ todo' = [todo EXCEPT ![f] = {}]
  /\ imported' = [imported EXCEPT ![f] = {}]
  /\ UNCHANGED <<restore, canceled, jobVars, sharedVars, disturbed, crashed>>

\* Faulty variant of RestoreEnv: it is skipped when the flow failed.
RestoreEnvIfOk(f) ==
  /\ GoTo(f, "restore", "unlock")
  /\ env' = IF result[f] = "ok" THEN restore[f] ELSE env
  /\ restore' = [restore EXCEPT ![f] = NoFlow]
  /\ UNCHANGED <<result, canceled, todo, imported, jobVars,
                 envMu, runtimeMu, shards, mrOut, disturbed, crashed>>

\* The deferred functions run last in, first out: the environment, then the mutex.
RestoreEnv(f) ==
  /\ GoTo(f, "restore", "unlock")
  /\ env' = restore[f]
  /\ restore' = [restore EXCEPT ![f] = NoFlow]
  /\ UNCHANGED <<result, canceled, todo, imported, jobVars,
                 envMu, runtimeMu, shards, mrOut, disturbed, crashed>>

UnlockEnv(f) ==
  /\ GoTo(f, "unlock", "ended")
  /\ envMu' = NoFlow
  /\ UNCHANGED <<result, restore, canceled, todo, imported, jobVars,
                 env, runtimeMu, shards, mrOut, disturbed, crashed>>

-----------------------------------------------------------------------------
FlowStep(f) ==
  \/ StartPlain(f) \/ LockEnv(f) \/ SetEnv(f) \/ SetEnvFails(f)
  \/ SourceFails(f) \/ RemoveShards(f) \/ Export(f) \/ ExportEmpty(f)
  \/ cleanupReduceOutputs(f)
  \/ CheckContext(f) \/ LockRuntime(f) \/ ObserveCancel(f) \/ JobReturned(f)
  \/ Glob(f) \/ (\E i \in Id : ReadFile(f, i)) \/ Imported(f) \/ SinkFails(f)
  \/ RestoreEnv(f) \/ UnlockEnv(f)

JobStep(f) ==
  \/ WorkersStart(f) \/ WorkersFail(f) \/ ListenFails(f) \/ ReadShards(f)
  \/ (\E i \in Id : WriteOutput(f, i)) \/ EndJob(f)

Ended == \A f \in Flows : pc[f] = "ended"
Stuck == \E f \in Flows : job[f] = "stuck"

Terminated == (Ended \/ Stuck \/ crashed) /\ UNCHANGED vars

Next ==
  \/ \E f \in Flows : ~crashed /\ (FlowStep(f) \/ JobStep(f))
  \/ Terminated

Spec == Init /\ [][Next]_vars

\* Goroutines are scheduled, mutexes are given to their waiters, queries return.
FairSpec ==
  /\ Spec
  /\ \A f \in Flows : WF_vars(~crashed /\ FlowStep(f)) /\ WF_vars(~crashed /\ JobStep(f))

-----------------------------------------------------------------------------
(* Properties.                                                             *)

\* The environment is the original one whenever no flow is inside
\* withTransformParams: a failed or cancelled flow leaves no parameter behind for
\* the flows without parameters to compute with, except where os.Setenv failed.
EnvRestored ==
  envMu = NoFlow /\ (\A f \in Flows : result[f] # "envError") => env = NoFlow

\* A flow that succeeds with an import has imported the files of its own job, all
\* of them and no others, made from its own rows with its own parameters, if
\* no flow outside transformEnvMu overlapped with it.
ImportsOwn ==
  \A f \in Flows \ disturbed :
    /\ result[f] = "ok" /\ imported[f] # {}
    /\ \A g \in Flows : result[g] # "envError"
    =>
    /\ Cardinality(imported[f]) = Reducers[f]
    /\ \A made \in imported[f] :
         made[2] = [by |-> f, rows |-> f, env |-> IF f \in WithParams THEN f ELSE NoFlow]

\* Jobs never overlap, whether flows do, and none outlives its flow, cancelled
\* or not: the runtime's package variables and ports belong to one job.
Running(f) == job[f] \in {"starting", "map", "reduce", "stuck"}
OneJob ==
  \A f \in Flows : Running(f) =>
    pc[f] = "running" /\ \A g \in Flows \ {f} : ~Running(g)

\* Every flow ends, unless the job of one is stuck or the process has died.
AllEnd == <>(Ended \/ Stuck \/ crashed)
=============================================================================
