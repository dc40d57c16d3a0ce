------------------------------ MODULE MapPhase ------------------------------
(***************************************************************************)
(* Master.distributeMapTask: one goroutine per map task calls a worker,    *)
(* sets the worker's state from the outcome and reports on finish or on    *)
(* ms.crashChan; the loop over orDone's stream gives the task of every     *)
(* crashed worker to another one.                                          *)
(*                                                                         *)
(* Processes: the phase itself (pc), the goroutine of orDone and the task  *)
(* goroutines, which stay in gor after they return so that properties can  *)
(* speak of them.  A call of client.Map may fail at any time (the worker   *)
(* crashed, the connection broke, 600 s passed).                           *)
(***************************************************************************)
EXTENDS WorkerPool, OrDone

CONSTANTS
  TotalWorkers,   \* ms.totalWorkers, which is also len(ms.MapTasks)
  Uuid            \* the UUID of every entry, as the first entry that has it

ASSUME TotalWorkersAssumption == TotalWorkers \in 1..NWorkers
ASSUME UuidAssumption == Uuid \in [Entry -> Entry]

Task == 1..TotalWorkers

\* Every entry was registered by a worker process of its own.
UniqueUuid == \A v, w \in Entry : Uuid[v] = Uuid[w] => v = w

VARIABLES
  pc,           \* where distributeMapTask is
  next,         \* the next task to start a goroutine for
  gor,          \* the goroutines started so far, in order
  taskStates,   \* the sync.Map from UUID to task; 0 where nothing is stored
  crashUUID     \* the value the range loop is handling

vars == <<poolVars, orVars, pc, next, gor, taskStates, crashUUID>>

GorPc == {"store", "call", "sendFinish", "sendCrash", "finished", "crashed"}

GorRecord == [task : Task, w : Entry, pc : GorPc]

\* Every task, entry and goroutine the phase names exists.
TypeOK ==
  /\ PoolTypeOK
  /\ finish \in SUBSET (1..Len(gor))
  /\ crashChan \in Seq(Entry)
  /\ counted \in SUBSET (1..Len(gor))
  /\ orState \in {"off", "select", "deliver", "closed"}
  /\ held \in Entry
  /\ pc \in {"acquire", "spawn", "range", "reacquire", "done"}
  /\ next \in 1..(TotalWorkers + 1)
  /\ gor \in Seq(GorRecord)
  /\ taskStates \in [Entry -> 0..TotalWorkers]
  /\ crashUUID \in Entry

Init ==
  /\ workerState = [w \in Entry |-> "IDLE"]
  /\ num = TotalWorkers /\ scan = 1 /\ retInfo = <<>>
  /\ finish = {} /\ crashChan = <<>> /\ counted = {}
  /\ orState = "off" /\ held = 1
  /\ pc = "acquire"
  /\ next = 1
  /\ gor = <<>>
  /\ taskStates = [u \in Entry |-> 0]
  /\ crashUUID = 1

-----------------------------------------------------------------------------
(* The phase's own thread.                                                 *)

\* go func(task, id): it will use worker w.
Go(t, w) == gor' = Append(gor, [task |-> t, w |-> w, pc |-> "store"])

\* A step inside availableWorkers.
Acquire ==
  /\ pc \in {"acquire", "reacquire"}
  /\ ScanEntry
  /\ UNCHANGED <<orVars, pc, next, gor, taskStates, crashUUID>>

\* workers, nWorkers := ms.availableWorkers(ms.totalWorkers) has returned.
Acquired ==
  /\ pc = "acquire"
  /\ Enough
  /\ pc' = "spawn"
  /\ UNCHANGED <<poolVars, orVars, next, gor, taskStates, crashUUID>>

\* One turn of the loop over ms.MapTasks; workerID counts modulo nWorkers.
Spawn ==
  /\ pc = "spawn"
  /\ next <= TotalWorkers
  /\ Go(next, retInfo[((next - 1) % Len(retInfo)) + 1])
  /\ next' = next + 1
  /\ UNCHANGED <<poolVars, orVars, pc, taskStates, crashUUID>>

StartRange ==
  /\ pc = "spawn"
  /\ next > TotalWorkers
  /\ StartOrDone
  /\ pc' = "range"
  /\ UNCHANGED <<poolVars, finish, crashChan, counted, held, next, gor, taskStates, crashUUID>>

\* The loop receives a crash and asks for one worker.
ReceiveCrash ==
  /\ pc = "range"
  /\ Deliver
  /\ crashUUID' = held
  /\ Request(1)
  /\ pc' = "reacquire"
  /\ UNCHANGED <<workerState, finish, crashChan, counted, held, next, gor, taskStates>>

\* The worker found has the UUID that crashed: the crash is put back, and the
\* worker, marked busy by the scan, is not released.
PutBack ==
  /\ pc = "reacquire"
  /\ Enough
  /\ Uuid[retInfo[1]] = crashUUID
  /\ SendCrash(crashUUID)
  /\ pc' = "range"
  /\ UNCHANGED <<poolVars, finish, counted, orState, held, next, gor, taskStates, crashUUID>>

\* The crashed worker's task goes to the worker found; without an entry for
\* the UUID (!ok) the loop only continues.
Reexecute ==
  /\ pc = "reacquire"
  /\ Enough
  /\ Uuid[retInfo[1]] # crashUUID
  /\ IF taskStates[crashUUID] # 0
       THEN Go(taskStates[crashUUID], retInfo[1])
       ELSE UNCHANGED gor
  /\ pc' = "range"
  /\ UNCHANGED <<poolVars, orVars, next, taskStates, crashUUID>>

\* valStream is closed: the range loop ends and the function returns.
Return ==
  /\ pc = "range"
  /\ orState = "closed"
  /\ pc' = "done"
  /\ UNCHANGED <<poolVars, orVars, next, gor, taskStates, crashUUID>>

-----------------------------------------------------------------------------
(* orDone's goroutine.                                                     *)

\* Faulty variant of CountFinish: the stream is closed one finish early.
CountFinishEarly ==
  /\ OrDoneFinish(TotalWorkers - 1)
  /\ UNCHANGED <<poolVars, pc, next, gor, taskStates, crashUUID>>

CountFinish ==
  /\ OrDoneFinish(TotalWorkers)
  /\ UNCHANGED <<poolVars, pc, next, gor, taskStates, crashUUID>>

TakeCrash ==
  /\ OrDoneCrash
  /\ UNCHANGED <<poolVars, pc, next, gor, taskStates, crashUUID>>

-----------------------------------------------------------------------------
(* Task goroutine g.                                                       *)

GoTo(g, from, to) ==
  /\ gor[g].pc = from
  /\ gor' = [gor EXCEPT ![g].pc = to]

\* taskStates.Store(workers[id].UUID, task)
Store(g) ==
  /\ GoTo(g, "store", "call")
  /\ taskStates' = [taskStates EXCEPT ![Uuid[gor[g].w]] = gor[g].task]
  /\ UNCHANGED <<poolVars, orVars, pc, next, crashUUID>>

\* Faulty variants: a worker that is done is not set idle, and one that failed is.
MapDoneKept(g) ==
  /\ GoTo(g, "call", "sendFinish")
  /\ UNCHANGED <<poolVars, orVars, pc, next, taskStates, crashUUID>>

MapFailedIdle(g) ==
  /\ GoTo(g, "call", "sendCrash")
  /\ SetState(gor[g].w, "IDLE")
  /\ UNCHANGED <<scan, retInfo, num, orVars, pc, next, taskStates, crashUUID>>

\* client.Map returns true; SetState(WORKER_IDLE)
MapDone(g) ==
  /\ GoTo(g, "call", "sendFinish")
  /\ SetState(gor[g].w, "IDLE")
  /\ UNCHANGED <<scan, retInfo, num, orVars, pc, next, taskStates, crashUUID>>

\* client.Map returns false; SetState(WORKER_UNKNOWN)
MapFailed(g) ==
  /\ GoTo(g, "call", "sendCrash")
  /\ SetState(gor[g].w, "UNKNOWN")
  /\ UNCHANGED <<scan, retInfo, num, orVars, pc, next, taskStates, crashUUID>>

ReportFinish(g) ==
  /\ GoTo(g, "sendFinish", "finished")
  /\ SendFinish(g)
  /\ UNCHANGED <<poolVars, crashChan, counted, orState, held, pc, next, taskStates, crashUUID>>

\* Faulty variant of ReportCrash: without the else, a finish follows the crash.
ReportCrashThenFinish(g) ==
  /\ GoTo(g, "sendCrash", "sendFinish")
  /\ SendCrash(Uuid[gor[g].w])
  /\ UNCHANGED <<poolVars, finish, counted, orState, held, pc, next, taskStates, crashUUID>>

ReportCrash(g) ==
  /\ GoTo(g, "sendCrash", "crashed")
  /\ SendCrash(Uuid[gor[g].w])
  /\ UNCHANGED <<poolVars, finish, counted, orState, held, pc, next, taskStates, crashUUID>>

-----------------------------------------------------------------------------
Main == Acquire \/ Acquired \/ Spawn \/ StartRange \/ ReceiveCrash \/ PutBack \/ Reexecute \/ Return

OrDoneStep == CountFinish \/ TakeCrash

Goroutine(g) == Store(g) \/ MapDone(g) \/ MapFailed(g) \/ ReportFinish(g) \/ ReportCrash(g)

\* The loop puts a crash back on a full crashChan, from which only orDone receives,
\* and orDone has a crash for the loop.
SelfWait ==
  /\ pc = "reacquire" /\ Enough /\ Uuid[retInfo[1]] = crashUUID
  /\ Len(crashChan) = ChanCap /\ orState = "deliver"

\* The job goes on with the reduce phase, or waits for itself for ever.
Terminated == (pc = "done" \/ SelfWait) /\ UNCHANGED vars

Next == Main \/ OrDoneStep \/ (\E g \in DOMAIN gor : Goroutine(g)) \/ Terminated

Spec == Init /\ [][Next]_vars

\* Every goroutine is scheduled, and client.Map returns: the call has a deadline.
\* A phase starts at most one goroutine per task and one per failed worker.
Fairness ==
  /\ WF_vars(Main)
  /\ WF_vars(OrDoneStep)
  /\ \A g \in 1..(TotalWorkers + NWorkers) : WF_vars(g \in DOMAIN gor /\ Goroutine(g))

FairSpec == Spec /\ Fairness

-----------------------------------------------------------------------------
(* Properties.                                                             *)

Live(g) == gor[g].pc \in {"store", "call", "sendFinish", "sendCrash"}
Succeeded(g) == gor[g].pc \in {"sendFinish", "finished"}

\* Goroutine g has the use of its worker.
Using(g) == gor[g].pc \in {"store", "call"}

\* Element k of retInfo is taken but no goroutine has been started for it.
Unassigned(k) == pc \in {"acquire", "reacquire"} \/ (pc = "spawn" /\ k >= next)

\* distributeMapTask returns only when an attempt of every map task has
\* returned success: a crash is never lost between taskStates, crashChan, the
\* stream and the loop, and no finish is counted twice in place of another.
MapComplete ==
  pc = "done" => \A t \in Task : \E g \in DOMAIN gor : gor[g].task = t /\ Succeeded(g)

\* When distributeMapTask returns, and its deferred close(finish) runs, every
\* goroutine it started has done its last send and both channels are empty: no
\* send on the closed finish, no crash left in ms.crashChan for the reduce
\* phase to take for one of its own.
NothingOutlivesPhase ==
  pc = "done" =>
    /\ \A g \in DOMAIN gor : ~Live(g)
    /\ finish = {} /\ crashChan = <<>> /\ orState = "closed"

\* A worker is lent to one goroutine at a time, from the scan that takes it to
\* the SetState that returns it, and every busy entry has its goroutine or is
\* still in the hands of the phase: none is shared and none leaks.
WorkersLentOnce ==
  /\ \A g, h \in DOMAIN gor : Using(g) /\ Using(h) /\ gor[g].w = gor[h].w => g = h
  /\ \A w \in Entry :
       workerState[w] = "BUSY" <=>
         \/ \E g \in DOMAIN gor : Using(g) /\ gor[g].w = w
         \/ \E k \in DOMAIN retInfo : Unassigned(k) /\ retInfo[k] = w

Successes == {[task |-> gor[g].task, attempt |-> g] : g \in {h \in DOMAIN gor : Succeeded(h)}}

\* The map phase, seen as its set of successful attempts, implements TaskPhase: no
\* task succeeds twice although failed ones are started again, and none
\* succeeds after the end.
Phase == INSTANCE TaskPhase WITH
  Tasks <- Task,
  successes <- Successes,
  ended <- pc = "done"

ImplementsTaskPhase == Phase!Spec

\* The worker found for a crash had the UUID of the crashed one, and PutBack has left
\* it busy with nothing to do.
PutAside(w) ==
  /\ workerState[w] = "BUSY"
  /\ \E v \in Entry \ {w} : Uuid[v] = Uuid[w]
  /\ \A i \in DOMAIN retInfo : retInfo[i] # w
  /\ \A g \in DOMAIN gor : Live(g) => gor[g].w # w

\* The phase ends, unless every worker has failed or, having been registered twice, is
\* put aside, when availableWorkers spins, or the loop waits for itself.
Terminates ==
  <>(pc = "done" \/ SelfWait \/ \A w \in Entry : workerState[w] = "UNKNOWN" \/ PutAside(w))

-----------------------------------------------------------------------------
(***************************************************************************)
(* The inductive invariant behind the safety properties, for unique UUIDs. *)
(* Its core is TaskOwnedOnce: at any time a task is in one place only, with *)
(* a goroutine that has not failed, or on its way from a crashed goroutine *)
(* through crashChan and the stream to the loop.                           *)
(***************************************************************************)
InChan(u) == \E k \in 1..Len(crashChan) : crashChan[k] = u

\* A crash of u has been reported and not yet answered by a new goroutine.
Pending(u) ==
  \/ InChan(u)
  \/ orState = "deliver" /\ held = u
  \/ pc = "reacquire" /\ crashUUID = u

Failed(g) == gor[g].pc \in {"sendCrash", "crashed"}

Owner(g) == gor[g].pc # "crashed" \/ Pending(Uuid[gor[g].w])

TaskOwnedOnce ==
  \A g, h \in 1..Len(gor) : Owner(g) /\ Owner(h) /\ gor[g].task = gor[h].task => g = h

\* Up to the range loop, tasks are handed out in order.
SpawnOrder ==
  /\ pc = "acquire" => next = 1 /\ gor = <<>>
  /\ pc \in {"acquire", "spawn"} => \A g \in 1..Len(gor) : gor[g].task < next

\* How many entries availableWorkers has been asked for and has taken.
PoolSize ==
  /\ pc \in {"acquire", "spawn"} => num = TotalWorkers
  /\ pc = "reacquire" => num = 1
  /\ Len(retInfo) <= num
  /\ pc = "spawn" => Len(retInfo) = num

\* What is taken and not yet assigned is nobody else's.
Taken ==
  \A k \in 1..Len(retInfo) : Unassigned(k) =>
    /\ workerState[retInfo[k]] = "BUSY"
    /\ \A g \in 1..Len(gor) : Using(g) => gor[g].w # retInfo[k]
    /\ \A l \in 1..Len(retInfo) : Unassigned(l) /\ retInfo[k] = retInfo[l] => k = l

Users ==
  /\ \A g \in 1..Len(gor) : Using(g) => workerState[gor[g].w] = "BUSY"
  /\ \A g, h \in 1..Len(gor) : Using(g) /\ Using(h) /\ gor[g].w = gor[h].w => g = h

\* Every busy entry is accounted for.
BusyAccounted ==
  \A w \in Entry : workerState[w] = "BUSY" =>
    \/ \E g \in 1..Len(gor) : Using(g) /\ gor[g].w = w
    \/ \E k \in 1..Len(retInfo) : Unassigned(k) /\ retInfo[k] = w

\* taskStates remembers the task of a running and of a failed worker.
Remembered ==
  \A g \in 1..Len(gor) :
    gor[g].pc = "call" \/ Failed(g) => taskStates[Uuid[gor[g].w]] = gor[g].task

\* A worker fails once and is out of the pool from then on.
FailedOnce ==
  /\ \A g \in 1..Len(gor) : Failed(g) => workerState[gor[g].w] = "UNKNOWN"
  /\ \A g, h \in 1..Len(gor) : Failed(g) /\ Failed(h) /\ gor[g].w = gor[h].w => g = h

\* A crash that is under way was reported by a goroutine, and is under way once.
CrashesPendingOnce ==
  /\ \A u \in Entry : Pending(u) =>
       \E g \in 1..Len(gor) : gor[g].pc = "crashed" /\ Uuid[gor[g].w] = u
  /\ \A k, l \in 1..Len(crashChan) : crashChan[k] = crashChan[l] => k = l
  /\ orState = "deliver" => ~InChan(held)
  /\ pc = "reacquire" =>
       /\ ~InChan(crashUUID)
       /\ orState = "deliver" => held # crashUUID

\* orDone counts each finished goroutine once and stops at the last.
FinishesCounted ==
  /\ \A g \in finish \cup counted : gor[g].pc = "finished"
  /\ finish \cap counted = {}
  /\ orState = "closed" => Cardinality(counted) = TotalWorkers
  /\ pc = "done" => orState = "closed"

\* Inductive: it holds initially and every step of the phase keeps it.
IInv ==
  /\ TypeOK
  /\ PoolSize
  /\ SpawnOrder
  /\ Taken
  /\ Users
  /\ BusyAccounted
  /\ Remembered
  /\ FailedOnce
  /\ CrashesPendingOnce
  /\ FinishesCounted
  /\ TaskOwnedOnce
=============================================================================
