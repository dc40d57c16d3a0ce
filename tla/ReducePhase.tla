----------------------------- MODULE ReducePhase -----------------------------
(***************************************************************************)
(* Master.distributeReduceTask.  It has the shape of distributeMapTask     *)
(* with two differences that decide its behaviour under failures.          *)
(*                                                                         *)
(*  - The loop over orDone's stream assigns the outer variable workers     *)
(*    (= and not :=).  Every goroutine captured that variable and indexes  *)
(*    it again at each use, so the model keeps workers as shared state and *)
(*    every workers[id] is a read of its current value.                    *)
(*  - The re-executing goroutine deletes taskStates[crashUUID], and        *)
(*    crashUUID is the loop's variable, shared by all iterations (go 1.17).*)
(*                                                                         *)
(* An index out of range and the type assertion on a missing taskStates    *)
(* entry panic, which ends the master process.  Entries here are identified*)
(* with their UUIDs; MapPhase covers a UUID registered twice.  The race on *)
(* the slice variable workers is taken at the granularity of whole slices. *)
(***************************************************************************)
EXTENDS WorkerPool, OrDone

CONSTANTS
  NumReducer,    \* ms.numReducer = len(ms.ReduceTasks)
  MinHealthy,    \* the map phase leaves at least so many entries in WORKER_IDLE
  MaxFailures    \* bound on the Reduce calls that fail

ASSUME NumReducerAssumption == NumReducer \in Nat \ {0}
ASSUME MinHealthyAssumption == MinHealthy \in 1..NWorkers
ASSUME MaxFailuresAssumption == MaxFailures \in Nat

Task == 1..NumReducer

\* One goroutine per task and one per failure.
Gid == 1..(NumReducer + MaxFailures)

VARIABLES
  pc,           \* where distributeReduceTask is
  next,         \* the next task to start a goroutine for
  workers,      \* the captured variable workers
  gor,          \* the goroutines started so far
  taskStates,   \* the sync.Map from UUID to task; 0 where nothing is stored
  crashUUID     \* the range loop's variable

vars == <<poolVars, orVars, pc, next, workers, gor, taskStates, crashUUID>>

GorPc == {"delete", "store", "busy", "dial", "call",
          "sendFinish", "sendCrash", "finished", "crashed"}

\* Every task, entry and goroutine the phase names exists.
TypeOK ==
  /\ PoolTypeOK
  /\ finish \in SUBSET Gid /\ counted \in SUBSET Gid
  /\ crashChan \in Seq(Entry) /\ held \in Entry
  /\ orState \in {"off", "select", "deliver", "closed"}
  /\ pc \in {"acquire", "spawn", "range", "reacquire", "done", "panicked"}
  /\ next \in 1..(NumReducer + 1)
  /\ workers \in Seq(Entry)
  /\ gor \in Seq([task : Task, id : 1..NumReducer, again : BOOLEAN, pc : GorPc])
  /\ taskStates \in [Entry -> 0..NumReducer]
  /\ crashUUID \in Entry

Init ==
  /\ workerState \in [Entry -> {"IDLE", "UNKNOWN"}]
  /\ Cardinality({w \in Entry : workerState[w] = "IDLE"}) >= MinHealthy
  /\ num = NumReducer /\ scan = 1 /\ retInfo = <<>>
  /\ finish = {} /\ crashChan = <<>> /\ counted = {}
  /\ orState = "off" /\ held = 1
  /\ pc = "acquire" /\ next = 1
  /\ workers = <<>>
  /\ gor = <<>>
  /\ taskStates = [w \in Entry |-> 0]
  /\ crashUUID = 1

-----------------------------------------------------------------------------
(* The phase's own thread.                                                 *)

Go(t, i, again) ==
  gor' = Append(gor, [task |-> t, id |-> i, again |-> again,
                      pc |-> IF again THEN "delete" ELSE "store"])

Acquire ==
  /\ pc \in {"acquire", "reacquire"}
  /\ ScanEntry
  /\ UNCHANGED <<orVars, pc, next, workers, gor, taskStates, crashUUID>>

\* workers, nWorkers := ms.availableWorkers(ms.numReducer) has returned.
Acquired ==
  /\ pc = "acquire"
  /\ Enough
  /\ workers' = retInfo
  /\ pc' = "spawn"
  /\ UNCHANGED <<poolVars, orVars, next, gor, taskStates, crashUUID>>

\* One turn of the loop over ms.ReduceTasks; ids count from 1 here.
Spawn ==
  /\ pc = "spawn"
  /\ next <= NumReducer
  /\ Go(next, ((next - 1) % Len(retInfo)) + 1, FALSE)
  /\ next' = next + 1
  /\ UNCHANGED <<poolVars, orVars, pc, workers, taskStates, crashUUID>>

StartRange ==
  /\ pc = "spawn"
  /\ next > NumReducer
  /\ StartOrDone
  /\ pc' = "range"
  /\ UNCHANGED <<poolVars, finish, crashChan, counted, held,
                 next, workers, gor, taskStates, crashUUID>>

ReceiveCrash ==
  /\ pc = "range"
  /\ Deliver
  /\ crashUUID' = held
  /\ Request(1)
  /\ pc' = "reacquire"
  /\ UNCHANGED <<workerState, finish, crashChan, counted, held,
                 next, workers, gor, taskStates>>

\* A panic ends the master's process with all its goroutines.
Panic == pc' = "panicked" /\ gor' = <<>> /\ orState' = "off"

\* workers, _ = ms.availableWorkers(1) overwrites what the goroutines read;
\* without an entry for crashUUID the type assertion of the go statement panics.
Reexecute ==
  /\ pc = "reacquire"
  /\ Enough
  /\ workers' = retInfo
  /\ IF taskStates[crashUUID] # 0
       THEN Go(taskStates[crashUUID], 1, TRUE) /\ pc' = "range" /\ UNCHANGED orState
       ELSE Panic
  /\ UNCHANGED <<poolVars, finish, crashChan, counted, held, next, taskStates, crashUUID>>

Return ==
  /\ pc = "range"
  /\ orState = "closed"
  /\ pc' = "done"
  /\ UNCHANGED <<poolVars, orVars, next, workers, gor, taskStates, crashUUID>>

-----------------------------------------------------------------------------
(* orDone's goroutine.                                                     *)

\* Faulty variant of CountFinish: the stream is closed one finish early.
CountFinishEarly ==
  /\ OrDoneFinish(NumReducer - 1)
  /\ UNCHANGED <<poolVars, pc, next, workers, gor, taskStates, crashUUID>>

CountFinish ==
  /\ OrDoneFinish(NumReducer)
  /\ UNCHANGED <<poolVars, pc, next, workers, gor, taskStates, crashUUID>>

TakeCrash ==
  /\ OrDoneCrash
  /\ UNCHANGED <<poolVars, pc, next, workers, gor, taskStates, crashUUID>>

-----------------------------------------------------------------------------
(* Task goroutine g.  W(g) is its workers[id], read anew in every step.    *)

W(g) == workers[gor[g].id]
InRange(g) == gor[g].id <= Len(workers)

GoTo(g, from, to) ==
  /\ gor[g].pc = from
  /\ gor' = [gor EXCEPT ![g].pc = to]

\* taskStates.Delete(crashUUID), only when re-executing.
Delete(g) ==
  /\ GoTo(g, "delete", "store")
  /\ taskStates' = [taskStates EXCEPT ![crashUUID] = 0]
  /\ UNCHANGED <<poolVars, orVars, pc, next, workers, crashUUID>>

\* taskStates.Store(workers[id].UUID, task)
Store(g) ==
  /\ InRange(g)
  /\ GoTo(g, "store", IF gor[g].again THEN "dial" ELSE "busy")
  /\ taskStates' = [taskStates EXCEPT ![W(g)] = gor[g].task]
  /\ UNCHANGED <<poolVars, orVars, pc, next, workers, crashUUID>>

\* workers[id].SetState(WORKER_BUSY), only the first time.
MarkBusy(g) ==
  /\ InRange(g)
  /\ GoTo(g, "busy", "dial")
  /\ SetState(W(g), "BUSY")
  /\ UNCHANGED <<scan, retInfo, num, orVars, pc, next, workers, taskStates, crashUUID>>

\* workers[id].IP is read and the call is under way.
Dial(g) ==
  /\ InRange(g)
  /\ GoTo(g, "dial", "call")
  /\ UNCHANGED <<poolVars, orVars, pc, next, workers, taskStates, crashUUID>>

\* client.Reduce returns true; SetState(WORKER_IDLE)
ReduceDone(g) ==
  /\ InRange(g)
  /\ GoTo(g, "call", "sendFinish")
  /\ SetState(W(g), "IDLE")
  /\ UNCHANGED <<scan, retInfo, num, orVars, pc, next, workers, taskStates, crashUUID>>

Failures == Cardinality({g \in DOMAIN gor : gor[g].pc \in {"sendCrash", "crashed"}})

\* client.Reduce returns false; SetState(WORKER_UNKNOWN)
ReduceFailed(g) ==
  /\ Failures < MaxFailures
  /\ InRange(g)
  /\ GoTo(g, "call", "sendCrash")
  /\ SetState(W(g), "UNKNOWN")
  /\ UNCHANGED <<scan, retInfo, num, orVars, pc, next, workers, taskStates, crashUUID>>

\* finish <- workers[id].UUID
ReportFinish(g) ==
  /\ InRange(g)
  /\ GoTo(g, "sendFinish", "finished")
  /\ SendFinish(g)
  /\ UNCHANGED <<poolVars, crashChan, counted, orState, held,
                 pc, next, workers, taskStates, crashUUID>>

\* ms.crashChan <- workers[id].UUID
ReportCrash(g) ==
  /\ InRange(g)
  /\ GoTo(g, "sendCrash", "crashed")
  /\ SendCrash(W(g))
  /\ UNCHANGED <<poolVars, finish, counted, orState, held,
                 pc, next, workers, taskStates, crashUUID>>

\* workers[id] with the slice cut down to one element.
IndexPanic(g) ==
  /\ ~InRange(g)
  /\ gor[g].pc \notin {"delete", "finished", "crashed"}
  /\ Panic
  /\ UNCHANGED <<poolVars, finish, crashChan, counted, held, next, workers, taskStates, crashUUID>>

-----------------------------------------------------------------------------
Main == Acquire \/ Acquired \/ Spawn \/ StartRange \/ ReceiveCrash \/ Reexecute \/ Return

OrDoneStep == CountFinish \/ TakeCrash

Goroutine(g) ==
  \/ Delete(g) \/ Store(g) \/ MarkBusy(g) \/ Dial(g)
  \/ ReduceDone(g) \/ ReduceFailed(g)
  \/ ReportFinish(g) \/ ReportCrash(g) \/ IndexPanic(g)

\* The phase has returned, or the process is gone.
Terminated == pc \in {"done", "panicked"} /\ UNCHANGED vars

Next == Main \/ OrDoneStep \/ (\E g \in DOMAIN gor : Goroutine(g)) \/ Terminated

Spec == Init /\ [][Next]_vars

\* As in MapPhase: goroutines are scheduled and client.Reduce has a deadline.
Fairness ==
  /\ WF_vars(Main)
  /\ WF_vars(OrDoneStep)
  /\ \A g \in Gid : WF_vars(g \in DOMAIN gor /\ Goroutine(g))

-----------------------------------------------------------------------------
(* Properties.                                                             *)

Succeeded(g) == gor[g].pc \in {"sendFinish", "finished"}

Successes == {[task |-> gor[g].task, attempt |-> g] : g \in {h \in DOMAIN gor : Succeeded(h)}}

\* The slice the goroutines index is the one they were started with.  With one
\* reduce task that is always so, because its replacement has the same length;
\* with more it ends with the first re-execution.
Undisturbed == Len(workers) \in {0, NumReducer}

\* A failed Reduce call never takes the master down.
NoPanic == pc # "panicked"

\* At the return no goroutine is left that could send on the closed finish, and
\* the channels are empty, disturbed or not.
NothingOutlivesPhase ==
  pc = "done" =>
    /\ \A g \in DOMAIN gor : gor[g].pc \in {"finished", "crashed"}
    /\ finish = {} /\ crashChan = <<>> /\ orState = "closed"

\* At the return of an undisturbed phase every worker taken from the table was given
\* back or is marked unknown, the ones taken for re-executions too: with one reduce
\* task a phase is undisturbed however often its worker crashes.
WorkersGivenBack ==
  pc = "done" /\ Undisturbed => \A w \in Entry : workerState[w] # "BUSY"

Phase == INSTANCE TaskPhase WITH
  Tasks <- Task,
  successes <- Successes,
  ended <- pc = "done"

\* As long as it is undisturbed the reduce phase implements TaskPhase: each task
\* succeeds once, the phase ends after all of them and none succeeds later.
ImplementsTaskPhase ==
  Phase!Init /\ [][Undisturbed' => Phase!Next]_(Phase!phaseVars)

\* availableWorkers waits for more workers than have not failed.
TooFewWorkers ==
  /\ pc \in {"acquire", "reacquire"}
  /\ Cardinality({w \in Entry : workerState[w] # "UNKNOWN"}) < num

\* An undisturbed phase ends, unless availableWorkers waits in vain.
Terminates == <>(pc = "done" \/ TooFewWorkers \/ ~Undisturbed)
=============================================================================
