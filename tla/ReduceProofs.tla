--------------------------- MODULE ReduceProofs ---------------------------
(***************************************************************************)
(* Proofs about ReducePhase and ReduceJob, for any number of workers, any  *)
(* number of reduce tasks, any channel capacity and any number of          *)
(* failures.                                                               *)
(*                                                                         *)
(* The argument is one of balance: every goroutine beyond one per task     *)
(* replaces a crashed one, and every crash that has not been answered is   *)
(* somewhere between the channel, orDone and the loop.  So when as many    *)
(* finishes have been counted as there are tasks, nothing is under way.    *)
(* What is re-executed does not matter for that, which is why it holds for *)
(* a disturbed phase too.                                                  *)
(***************************************************************************)
EXTENDS ReduceJob, SequenceTheorems, FiniteSetTheorems, TLAPS

Started == 1..Len(gor)
Crashed == {g \in Started : gor[g].pc = "crashed"}

\* The reports of crashes that no goroutine has been started for.
One(b) == IF b THEN 1 ELSE 0
Unanswered == Len(crashChan) + One(orState = "deliver") + One(pc = "reacquire")

GorRecord == [task : Task, id : 1..NumReducer, again : BOOLEAN, pc : GorPc]

Types ==
  /\ PoolTypeOK
  /\ crashChan \in Seq(Entry) /\ held \in Entry
  /\ orState \in {"off", "select", "deliver", "closed"}
  /\ pc \in {"acquire", "spawn", "range", "reacquire", "done", "panicked"}
  /\ next \in 1..(NumReducer + 1)
  /\ workers \in Seq(Entry)
  /\ gor \in Seq(GorRecord)
  /\ taskStates \in [Entry -> 0..NumReducer]
  /\ crashUUID \in Entry

\* What the phase knows at each of its points.
Points ==
  /\ Len(retInfo) <= num
  /\ pc \in {"acquire", "spawn"} => num = NumReducer /\ orState = "off"
  /\ pc = "acquire" => next = 1 /\ gor = <<>> /\ workers = <<>>
  /\ pc = "spawn" => Len(retInfo) = NumReducer /\ workers = retInfo
  /\ pc \in {"range", "reacquire", "done"} => next = NumReducer + 1
  /\ pc = "reacquire" => num = 1
  /\ pc = "done" => orState = "closed"
  /\ pc \notin {"acquire", "panicked"} => Len(workers) \in {1, NumReducer}
  /\ pc = "panicked" => gor = <<>>

\* orDone counts each finished goroutine once and stops at the last.
FinishesCounted ==
  pc # "panicked" =>
    /\ finish \subseteq Started /\ counted \subseteq Started
    /\ \A g \in finish \cup counted : gor[g].pc = "finished"
    /\ finish \cap counted = {}
    /\ orState = "closed" => Cardinality(counted) = NumReducer

Balance ==
  pc # "panicked" => Len(gor) + Unanswered = (next - 1) + Cardinality(Crashed)

\* Goroutine g has the use of its worker.
Using(g) == gor[g].pc \in {"delete", "store", "busy", "dial", "call"}

\* Element k of retInfo is taken but no goroutine has been started for it.
Unassigned(k) == pc \in {"acquire", "reacquire"} \/ (pc = "spawn" /\ k >= next)

\* As long as several goroutines index the slice they were started with there is
\* one for each task, and every busy worker is accounted for.
OneEach ==
  NumReducer > 1 => Len(gor) = next - 1 /\ \A g \in Started : gor[g].task = g /\ gor[g].id = g

BusyAccounted ==
  \A w \in Entry : workerState[w] = "BUSY" =>
    \/ \E g \in Started : Using(g) /\ W(g) = w
    \/ \E k \in 1..Len(retInfo) : Unassigned(k) /\ retInfo[k] = w

Straight == pc # "panicked" /\ Undisturbed => OneEach /\ BusyAccounted

IInv == Types /\ Points /\ FinishesCounted /\ Balance /\ Straight

-----------------------------------------------------------------------------
(* The phase with its handlers and files (ReduceJob).                      *)

FailedSet == {g \in Started : Failed(g)}
FailuresBounded == Cardinality(FailedSet) <= MaxFailures

\* Attempts that have not called a worker.
Early == {"delete", "store", "busy", "dial"}

File == [task : 0..NumReducer, whole : BOOLEAN, all : BOOLEAN]

JobTypes ==
  /\ dialed \in [Gid -> 0..NWorkers]
  /\ handler \in [Gid -> {"none", "fetching", "writing", "wrote", "lost"}]
  /\ out \in [Entry -> File]

\* A handler belongs to a goroutine that has called, is done before the goroutine
\* succeeds, and what is in a file was begun by a handler.
Handlers ==
  /\ \A g \in Gid \ Started : handler[g] = "none" /\ dialed[g] = 0
  /\ \A g \in Started : gor[g].pc \in Early => dialed[g] = 0
  /\ \A g \in Started : handler[g] # "none" => dialed[g] # 0
  /\ \A g \in Started : Succeeded(g) => handler[g] \in {"wrote", "lost"}
  /\ \A w \in Entry : out[w].task # 0 => \E g \in Started : Writing(g) /\ dialed[g] = w

\* What one output per worker makes of the files.
Outputs ==
  OneOutputPerTask =>
    \A g \in Started : Writing(g) =>
      /\ out[dialed[g]].task = gor[g].task
      /\ out[dialed[g]].all = TRUE
      /\ handler[g] = "wrote" => out[dialed[g]].whole = TRUE

JobInv ==
  /\ FailuresBounded
  /\ JobTypes
  /\ pc # "panicked" => Handlers /\ Outputs

-----------------------------------------------------------------------------
(* What the ways of changing gor do.                                       *)

\* A natural number between one and one.
LEMMA ExactlyOne == ASSUME NEW n \in Nat, n <= 1, n >= 1 PROVE n = 1
  OBVIOUS

\* A step of goroutine g changes its program counter and nothing else in gor.
LEMMA GoToProperties ==
  ASSUME gor \in Seq(GorRecord), NEW g \in Started,
         NEW from, NEW to \in GorPc, GoTo(g, from, to)
  PROVE  /\ gor' \in Seq(GorRecord)
         /\ Started' = Started /\ Len(gor') = Len(gor)
         /\ gor[g].pc = from /\ gor'[g].pc = to
         /\ \A h \in Started : gor'[h].task = gor[h].task /\ gor'[h].id = gor[h].id
         /\ \A h \in Started : h # g => gor'[h] = gor[h]
<1> DEFINE r == [gor[g] EXCEPT !.pc = to]
<1>1. gor[g] \in GorRecord
  BY ElementOfSeq DEF Started
<1>2. r \in GorRecord /\ r.pc = to /\ r.task = gor[g].task /\ r.id = gor[g].id
  BY <1>1 DEF GorRecord
<1>3. gor' = [gor EXCEPT ![g] = r]
  BY DEF GoTo
<1>4. /\ [gor EXCEPT ![g] = r] \in Seq(GorRecord)
      /\ Len([gor EXCEPT ![g] = r]) = Len(gor)
      /\ \A j \in 1..Len(gor) : [gor EXCEPT ![g] = r][j] = IF j = g THEN r ELSE gor[j]
  <2> HIDE DEF r
  <2> QED BY <1>2, ExceptSeq DEF Started
<1> HIDE DEF r
<1>5. Started' = Started /\ Len(gor') = Len(gor) /\ gor' \in Seq(GorRecord)
  BY <1>3, <1>4 DEF Started
<1>6. \A j \in Started : gor'[j] = IF j = g THEN r ELSE gor[j]
  BY <1>3, <1>4 DEF Started
<1> QED
  BY <1>2, <1>5, <1>6 DEF GoTo

\* A go statement adds one goroutine.
LEMMA GoProperties ==
  ASSUME gor \in Seq(GorRecord), NEW t \in Task, NEW i \in 1..NumReducer, NEW again \in BOOLEAN,
         Go(t, i, again)
  PROVE  /\ gor' \in Seq(GorRecord)
         /\ Len(gor) \in Nat /\ Len(gor') = Len(gor) + 1
         /\ Started' = Started \cup {Len(gor) + 1} /\ Len(gor) + 1 \notin Started
         /\ \A h \in Started : gor'[h] = gor[h]
         /\ LET n == Len(gor) + 1
            IN  gor'[n].pc \in {"delete", "store"} /\ gor'[n].task = t /\ gor'[n].id = i
<1> DEFINE r == [task |-> t, id |-> i, again |-> again, pc |-> IF again THEN "delete" ELSE "store"]
<1>1. r \in GorRecord /\ r.pc \in {"delete", "store"} /\ r.task = t /\ r.id = i
  BY DEF GorRecord, GorPc
<1>2. gor' = Append(gor, r)
  BY DEF Go
<1> HIDE DEF r
<1>3. /\ gor' \in Seq(GorRecord) /\ Len(gor) \in Nat /\ Len(gor') = Len(gor) + 1
      /\ \A h \in 1..Len(gor) : gor'[h] = gor[h]
      /\ gor'[Len(gor) + 1] = r
  BY <1>1, <1>2, AppendProperties, LenProperties
<1>4. Started' = Started \cup {Len(gor) + 1} /\ Len(gor) + 1 \notin Started
  BY <1>3 DEF Started
<1> QED
  BY <1>1, <1>3, <1>4 DEF Started

\* What the types say of the elements of the sequences.
WellFormed ==
  /\ Len(retInfo) \in Nat /\ Len(gor) \in Nat /\ Len(crashChan) \in Nat /\ Len(workers) \in Nat
  /\ DOMAIN gor = Started
  /\ \A k \in 1..Len(retInfo) : retInfo[k] \in Entry
  /\ \A k \in 1..Len(workers) : workers[k] \in Entry
  /\ \A g \in Started : gor[g].task \in 1..NumReducer /\ gor[g].id \in 1..NumReducer /\ gor[g].pc \in GorPc

\* The facts about the sequences that the later proofs use, without their types.
LEMMA TypesWellFormed == Types => WellFormed
<1> SUFFICES ASSUME Types PROVE WellFormed
  OBVIOUS
<1>1. \A g \in 1..Len(gor) : gor[g] \in GorRecord
  BY ElementOfSeq DEF Types
<1> QED
  BY <1>1, LenProperties, ElementOfSeq DEF Types, PoolTypeOK, GorRecord, WellFormed, Started, Task

-----------------------------------------------------------------------------
(* Types and points.                                                       *)

\* The phase begins with nothing taken and nothing started.
LEMMA TypesInit == Init => Types /\ Points
<1> SUFFICES ASSUME Init PROVE Types /\ Points
  OBVIOUS
<1> USE NWorkersAssumption, NumReducerAssumption
<1>1. /\ retInfo \in Seq(Entry) /\ crashChan \in Seq(Entry) /\ gor \in Seq(GorRecord)
      /\ workers \in Seq(Entry) /\ Len(retInfo) = 0
  BY EmptySeq DEF Init
<1>2. workerState \in [Entry -> WorkerStates]
  BY DEF Init, WorkerStates
<1>3. 1 \in Entry /\ 1 \in 1..(NumReducer + 1) /\ NumReducer \in Nat
  BY DEF Entry
<1>4. taskStates \in [Entry -> 0..NumReducer]
  BY <1>3 DEF Init
<1> QED
  BY <1>1, <1>2, <1>3, <1>4 DEF Init, Types, Points, PoolTypeOK

\* Where a goroutine's id is in range its worker is an entry.
LEMMA WorkerOf ==
  ASSUME Types, NEW g \in Started, InRange(g)
  PROVE  W(g) \in Entry
<1>1. WellFormed
  BY TypesWellFormed
<1> QED
  BY <1>1 DEF WellFormed, InRange, W

\* The steps of distributeReduceTask itself keep types and points.
LEMMA TypesMain == ASSUME Types, Points, Main PROVE Types' /\ Points'
<1>wf. WellFormed
  BY TypesWellFormed
<1> USE NWorkersAssumption, NumReducerAssumption
<1>1. CASE Acquire
  <2>0. scan \in Entry /\ retInfo \in Seq(Entry) /\ workerState \in [Entry -> WorkerStates]
    BY DEF Types, PoolTypeOK
  <2>1. scan' \in Entry
    BY <1>1, <2>0 DEF Acquire, ScanEntry, Entry
  <2>2. Len(retInfo') <= num /\ retInfo' \in Seq(Entry) /\ workerState' \in [Entry -> WorkerStates]
    <3>1. CASE workerState[scan] = "IDLE"
      <4>1. retInfo' = Append(retInfo, scan) /\ workerState' = [workerState EXCEPT ![scan] = "BUSY"]
            /\ Len(retInfo) < num
        BY <1>1, <3>1 DEF Acquire, ScanEntry, SetState
      <4>2. retInfo' \in Seq(Entry) /\ Len(retInfo') = Len(retInfo) + 1
        BY <2>0, <4>1, AppendProperties
      <4> QED
        BY <1>wf, <2>0, <4>1, <4>2 DEF WellFormed, WorkerStates, Types, PoolTypeOK
    <3>2. CASE workerState[scan] # "IDLE"
      BY <1>1, <2>0, <3>2 DEF Acquire, ScanEntry, Points
    <3> QED
      BY <3>1, <3>2
  <2>3. pc \in {"acquire", "reacquire"} /\ UNCHANGED <<orVars, pc, next, workers, gor, taskStates, crashUUID, num>>
    BY <1>1 DEF Acquire, ScanEntry
  <2>4. Types'
    BY <2>1, <2>2, <2>3 DEF Types, PoolTypeOK, orVars
  <2> QED
    BY <2>2, <2>3, <2>4 DEF Points, orVars
<1>2. CASE Acquired
  <2>1. Types'
    BY <1>2 DEF Acquired, Types, PoolTypeOK, poolVars, orVars
  <2>2. Len(retInfo) = NumReducer
    BY <1>wf, <1>2 DEF Acquired, Enough, Points, WellFormed
  <2> QED
    BY <1>2, <2>1, <2>2 DEF Acquired, Points, poolVars, orVars
<1>3. CASE Spawn
  <2>0. Len(retInfo) = NumReducer /\ next \in 1..NumReducer
    BY <1>3 DEF Spawn, Points, Types
  <2>1. ((next - 1) % Len(retInfo)) + 1 \in 1..NumReducer
    BY <2>0
  <2>2. gor' \in Seq(GorRecord)
    BY <1>3, <2>0, <2>1, GoProperties DEF Spawn, Types, Task
  <2>3. next' \in 1..(NumReducer + 1)
    BY <1>3, <2>0 DEF Spawn
  <2>4. Types'
    BY <1>3, <2>2, <2>3 DEF Spawn, Types, PoolTypeOK, poolVars, orVars
  <2> QED
    BY <1>3, <2>4 DEF Spawn, Points, poolVars, orVars
<1>4. CASE StartRange
  BY <1>4 DEF StartRange, StartOrDone, Types, PoolTypeOK, Points, poolVars
<1>5. CASE ReceiveCrash
  <2>1. retInfo' \in Seq(Entry) /\ Len(retInfo') = 0 /\ 1 \in Entry /\ num' = 1 /\ scan' = 1
    BY <1>5, EmptySeq DEF ReceiveCrash, Request, Entry
  <2> QED
    BY <1>5, <2>1 DEF ReceiveCrash, Deliver, Types, PoolTypeOK, Points
<1>6. CASE Reexecute
  <2>1. Len(retInfo) = 1
    <3>1. num = 1 /\ Len(retInfo) <= num /\ Len(retInfo) >= num
      BY <1>6 DEF Reexecute, Enough, Points
    <3>2. Len(retInfo) \in Nat
      BY <1>wf DEF WellFormed
    <3>3. Len(retInfo) <= 1 /\ Len(retInfo) >= 1
      BY <3>1, Zenon
    <3> QED
      BY <3>2, <3>3, ExactlyOne, Zenon
  <2>2. CASE taskStates[crashUUID] # 0
    <3>1. taskStates[crashUUID] \in Task
      BY <2>2 DEF Types, Task
    <3>2. gor' \in Seq(GorRecord)
      <4>1. Go(taskStates[crashUUID], 1, TRUE)
        BY <1>6, <2>2, Zenon DEF Reexecute
      <4>2. 1 \in 1..NumReducer /\ gor \in Seq(GorRecord)
        BY DEF Types
      <4> QED
        BY <3>1, <4>1, <4>2, GoProperties
    <3>3. Types'
      BY <1>6, <2>2, <3>2 DEF Reexecute, Types, PoolTypeOK, poolVars
    <3> QED
      BY <1>6, <2>1, <2>2, <3>3 DEF Reexecute, Points, poolVars
  <2>3. CASE taskStates[crashUUID] = 0
    <3>1. gor' \in Seq(GorRecord)
      BY <1>6, <2>3, EmptySeq DEF Reexecute, Panic
    <3>2. Types'
      BY <1>6, <2>3, <3>1 DEF Reexecute, Panic, Types, PoolTypeOK, poolVars
    <3> QED
      BY <1>6, <2>1, <2>3, <3>2 DEF Reexecute, Panic, Points, poolVars
  <2> QED
    BY <2>2, <2>3
<1>7. CASE Return
  BY <1>7 DEF Return, Types, PoolTypeOK, Points, poolVars, orVars
<1> QED
  BY <1>1, <1>2, <1>3, <1>4, <1>5, <1>6, <1>7 DEF Main

\* The steps of orDone's goroutine keep types and points.
LEMMA TypesOrDone == ASSUME Types, Points, OrDoneStep PROVE Types' /\ Points'
<1> USE NumReducerAssumption
<1>1. CASE CountFinish
  BY <1>1 DEF CountFinish, OrDoneFinish, Types, PoolTypeOK, Points, poolVars
<1>2. CASE TakeCrash
  <2>1. Head(crashChan) \in Entry /\ Tail(crashChan) \in Seq(Entry)
    BY <1>2, HeadTailProperties DEF TakeCrash, OrDoneCrash, Types
  <2> QED
    BY <1>2, <2>1 DEF TakeCrash, OrDoneCrash, Types, PoolTypeOK, Points, poolVars
<1> QED
  BY <1>1, <1>2 DEF OrDoneStep

\* What a step of goroutine g may do, other than panic.
Moves(g) ==
  \/ Delete(g) \/ Store(g) \/ MarkBusy(g) \/ Dial(g)
  \/ ReduceDone(g) \/ ReduceFailed(g) \/ ReportFinish(g) \/ ReportCrash(g)

\* Such a step takes g from one point to the next, before the phase has returned
\* or at least without changing where the phase is.
LEMMA MovesProperties ==
  ASSUME Types, NEW g \in Started, Moves(g)
  PROVE  /\ UNCHANGED <<scan, retInfo, num, counted, orState, held, pc, next, workers, crashUUID>>
         /\ \E from, to \in GorPc :
              /\ GoTo(g, from, to) /\ from \notin {"finished", "crashed"}
              /\ Using(g) <=> from \in {"delete", "store", "busy", "dial", "call"}
              /\ to = "crashed" <=> ReportCrash(g)
              /\ to = "finished" <=> ReportFinish(g)
              /\ to \in {"sendFinish", "finished"} /\ from \notin {"sendFinish", "finished"} <=> ReduceDone(g)
              /\ to \in {"sendFinish", "sendCrash"} <=> ReduceDone(g) \/ ReduceFailed(g)
<1> USE DEF GorPc, Using, GoTo
<1>1. CASE Delete(g)
  BY <1>1 DEF Delete, poolVars, orVars, ReportCrash, ReportFinish, ReduceDone, ReduceFailed
<1>2. CASE Store(g)
  <2>1. CASE gor[g].again
    BY <1>2, <2>1 DEF Store, poolVars, orVars, ReportCrash, ReportFinish, ReduceDone, ReduceFailed
  <2>2. CASE ~gor[g].again
    BY <1>2, <2>2 DEF Store, poolVars, orVars, ReportCrash, ReportFinish, ReduceDone, ReduceFailed
  <2> QED
    BY <2>1, <2>2
<1>3. CASE MarkBusy(g)
  BY <1>3 DEF MarkBusy, poolVars, orVars, ReportCrash, ReportFinish, ReduceDone, ReduceFailed
<1>4. CASE Dial(g)
  BY <1>4 DEF Dial, poolVars, orVars, ReportCrash, ReportFinish, ReduceDone, ReduceFailed
<1>5. CASE ReduceDone(g)
  BY <1>5 DEF poolVars, orVars, ReportCrash, ReportFinish, ReduceDone, ReduceFailed
<1>6. CASE ReduceFailed(g)
  BY <1>6 DEF poolVars, orVars, ReportCrash, ReportFinish, ReduceDone, ReduceFailed
<1>7. CASE ReportFinish(g)
  BY <1>7 DEF poolVars, orVars, ReportCrash, ReportFinish, ReduceDone, ReduceFailed
<1>8. CASE ReportCrash(g)
  BY <1>8 DEF poolVars, orVars, ReportCrash, ReportFinish, ReduceDone, ReduceFailed
<1> QED
  BY <1>1, <1>2, <1>3, <1>4, <1>5, <1>6, <1>7, <1>8 DEF Moves

\* The steps of a task goroutine that goes on keep types and points.
LEMMA TypesMoves == ASSUME Types, Points, NEW g \in Started, Moves(g) PROVE Types' /\ Points'
<1>wf. WellFormed
  BY TypesWellFormed
<1> USE NumReducerAssumption
<1>1. UNCHANGED <<scan, retInfo, num, counted, orState, held, pc, next, workers, crashUUID>>
  BY MovesProperties
<1>2. gor' \in Seq(GorRecord) /\ (gor = <<>> => gor' = <<>>)
  <2>1. PICK from \in GorPc, to \in GorPc : GoTo(g, from, to)
    BY MovesProperties
  <2>2. gor' \in Seq(GorRecord) /\ Len(gor') = Len(gor)
    BY <2>1, GoToProperties DEF Types
  <2> QED
    BY <1>wf, <2>2, EmptySeq DEF WellFormed, Started
<1>3. workerState' \in [Entry -> WorkerStates]
  <2>1. ASSUME NEW s \in WorkerStates, InRange(g), SetState(W(g), s)
        PROVE  workerState' \in [Entry -> WorkerStates]
    BY <2>1, WorkerOf DEF SetState, Types, PoolTypeOK
  <2> QED
    BY <2>1 DEF Moves, Delete, Store, MarkBusy, Dial, ReduceDone, ReduceFailed, ReportFinish, ReportCrash,
                poolVars, Types, PoolTypeOK, WorkerStates
<1>4. taskStates' \in [Entry -> 0..NumReducer]
  <2>1. CASE Delete(g)
    BY <2>1 DEF Delete, Types
  <2>2. CASE Store(g)
    <3>1. gor[g].task \in 0..NumReducer
      BY <1>wf DEF WellFormed
    <3> QED
      BY <2>2, <3>1, WorkerOf DEF Store, Types
  <2>3. CASE taskStates' = taskStates
    BY <2>3 DEF Types
  <2> QED
    BY <2>1, <2>2, <2>3 DEF Moves, MarkBusy, Dial, ReduceDone, ReduceFailed, ReportFinish, ReportCrash
<1>5. crashChan' \in Seq(Entry)
  <2>1. CASE ReportCrash(g)
    <3>1. W(g) \in Entry /\ crashChan' = Append(crashChan, W(g)) /\ crashChan \in Seq(Entry)
      BY <2>1, WorkerOf DEF ReportCrash, SendCrash, Types
    <3> QED
      BY <3>1, AppendProperties
  <2>2. CASE crashChan' = crashChan
    BY <2>2 DEF Types
  <2> QED
    BY <2>1, <2>2 DEF Moves, Delete, Store, MarkBusy, Dial, ReduceDone, ReduceFailed, ReportFinish, orVars
<1>6. Types'
  BY <1>1, <1>2, <1>3, <1>4, <1>5 DEF Types, PoolTypeOK
<1> QED
  BY <1>1, <1>2, <1>6 DEF Points

\* A panic empties the set of goroutines and ends the phase.
LEMMA TypesPanic == ASSUME Types, Points, NEW g \in Started, IndexPanic(g) PROVE Types' /\ Points'
<1>1. gor' \in Seq(GorRecord)
  BY EmptySeq DEF IndexPanic, Panic
<1> QED
  BY <1>1, NumReducerAssumption DEF IndexPanic, Panic, Types, PoolTypeOK, Points, poolVars

\* Every step keeps the types and what is known at each point of the phase.
LEMMA TypesNext == ASSUME Types, Points, [Next]_vars PROVE Types' /\ Points'
<1>1. DOMAIN gor = Started
  BY TypesWellFormed DEF WellFormed
<1>2. CASE UNCHANGED vars
  BY <1>2 DEF vars, poolVars, orVars, Types, PoolTypeOK, Points
<1>3. ASSUME NEW g \in Started, Goroutine(g) PROVE Types' /\ Points'
  BY <1>3, TypesMoves, TypesPanic DEF Goroutine, Moves
<1> QED
  BY <1>1, <1>2, <1>3, TypesMain, TypesOrDone DEF Next, Terminated

-----------------------------------------------------------------------------
(* The balance.                                                            *)

\* The started goroutines, and the crashed ones among them, can be counted.
LEMMA CrashedFinite ==
  ASSUME Types
  PROVE  /\ IsFiniteSet(Started) /\ Cardinality(Started) = Len(gor)
         /\ IsFiniteSet(Crashed) /\ Cardinality(Crashed) \in Nat
<1>1. Len(gor) \in Nat
  BY TypesWellFormed DEF WellFormed
<1>2. IsFiniteSet(1..Len(gor)) /\ Cardinality(1..Len(gor)) = IF 1 > Len(gor) THEN 0 ELSE Len(gor) - 1 + 1
  <2>1. 1 \in Int /\ Len(gor) \in Int
    BY ONLY <1>1
  <2> QED
    BY ONLY <2>1, FS_Interval, Zenon
<1>3. IsFiniteSet(Started) /\ Cardinality(Started) = Len(gor)
  BY <1>1, <1>2 DEF Started
<1>4. IsFiniteSet(Crashed)
  BY <1>3, FS_Subset DEF Crashed
<1> QED
  BY <1>3, <1>4, FS_CardinalityType

\* A goroutine that is started has not crashed.
LEMMA GoCrashed ==
  ASSUME Types, NEW t \in Task, NEW i \in 1..NumReducer, NEW again \in BOOLEAN, Go(t, i, again)
  PROVE  Crashed' = Crashed
<1>1. gor \in Seq(GorRecord)
  BY DEF Types
<1>2. /\ Started' = Started \cup {Len(gor) + 1} /\ Len(gor) + 1 \notin Started
      /\ \A h \in Started : gor'[h] = gor[h]
      /\ gor'[Len(gor) + 1].pc \in {"delete", "store"}
  BY <1>1, GoProperties
<1> QED
  BY <1>2 DEF Crashed

\* Only the report of a crash adds to the crashed goroutines.
LEMMA MovesCrashed ==
  ASSUME Types, NEW g \in Started, Moves(g)
  PROVE  /\ Started' = Started /\ Len(gor') = Len(gor)
         /\ ~ReportCrash(g) => Crashed' = Crashed
         /\ ReportCrash(g) => Cardinality(Crashed') = Cardinality(Crashed) + 1
<1>1. PICK from \in GorPc, to \in GorPc :
        GoTo(g, from, to) /\ from \notin {"finished", "crashed"} /\ (to = "crashed" <=> ReportCrash(g))
  BY MovesProperties
<1>2. /\ Started' = Started /\ Len(gor') = Len(gor)
      /\ gor[g].pc = from /\ gor'[g].pc = to
      /\ \A h \in Started : h # g => gor'[h] = gor[h]
  BY <1>1, GoToProperties DEF Types
<1>3. CASE ~ReportCrash(g)
  BY <1>1, <1>2, <1>3 DEF Crashed
<1>4. CASE ReportCrash(g)
  <2>1. Crashed' = Crashed \cup {g} /\ g \notin Crashed
    BY <1>1, <1>2, <1>4 DEF Crashed
  <2> QED
    BY <1>2, <1>4, <2>1, CrashedFinite, FS_AddElement
<1> QED
  BY <1>2, <1>3, <1>4

\* Every step keeps the balance of goroutines and crashes.
LEMMA BalanceNext == ASSUME Types, Points, Balance, [Next]_vars PROVE Balance'
<1>wf. WellFormed
  BY TypesWellFormed
<1>0. /\ Len(gor) \in Nat /\ Len(crashChan) \in Nat
      /\ Cardinality(Crashed) \in Nat /\ next \in Nat
  BY <1>wf, CrashedFinite, NumReducerAssumption DEF Types, WellFormed
<1>n. Unanswered \in Nat
  <2>1. One(orState = "deliver") \in Nat /\ One(pc = "reacquire") \in Nat
    BY DEF One
  <2> QED
    BY <1>0, <2>1 DEF Unanswered
<1> SUFFICES ASSUME pc' # "panicked"
             PROVE  Len(gor') + Unanswered' = (next' - 1) + Cardinality(Crashed')
  BY DEF Balance
<1>1. CASE Acquire \/ Acquired \/ StartRange \/ Return \/ CountFinish \/ UNCHANGED vars
  <2>1. UNCHANGED <<gor, crashChan, next>> /\ pc # "panicked" /\ Crashed' = Crashed
    BY <1>1 DEF Acquire, Acquired, StartRange, Return, CountFinish, OrDoneFinish, vars, orVars, poolVars,
                Crashed, Started
  <2>2. One(orState = "deliver")' = One(orState = "deliver") /\ One(pc = "reacquire")' = One(pc = "reacquire")
    BY <1>1 DEF Acquire, Acquired, StartRange, StartOrDone, Return, CountFinish, OrDoneFinish, vars, orVars, poolVars, One
  <2> QED
    BY <2>1, <2>2 DEF Balance, Unanswered
<1>2. CASE Spawn
  <2>1. Len(retInfo) = NumReducer /\ next \in 1..NumReducer
    BY <1>2 DEF Spawn, Points, Types
  <2>2. ((next - 1) % Len(retInfo)) + 1 \in 1..NumReducer
    BY <2>1, NumReducerAssumption
  <2>3. Len(gor') = Len(gor) + 1 /\ Crashed' = Crashed /\ next' = next + 1 /\ pc # "panicked"
    BY <1>2, <2>1, <2>2, GoProperties, GoCrashed DEF Spawn, Types, Task
  <2>4. Unanswered' = Unanswered
    BY <1>2 DEF Spawn, Unanswered, orVars, One
  <2>5. Len(gor) + Unanswered = (next - 1) + Cardinality(Crashed)
    BY <2>3 DEF Balance
  <2> QED
    BY <1>0, <1>n, <2>3, <2>4, <2>5
<1>3. CASE ReceiveCrash
  <2>1. UNCHANGED <<gor, crashChan, next>> /\ pc # "panicked" /\ Crashed' = Crashed
    BY <1>3 DEF ReceiveCrash, Crashed, Started
  <2>2. Unanswered' = Unanswered
    BY <1>3 DEF ReceiveCrash, Deliver, Unanswered, One
  <2> QED
    BY <2>1, <2>2 DEF Balance
<1>4. CASE Reexecute
  <2>1. taskStates[crashUUID] # 0
    BY <1>4 DEF Reexecute, Panic
  <2>2. taskStates[crashUUID] \in Task
    BY <2>1 DEF Types, Task
  <2>3. Go(taskStates[crashUUID], 1, TRUE) /\ pc' = "range"
    BY <1>4, <2>1, Zenon DEF Reexecute
  <2>4. pc = "reacquire" /\ UNCHANGED <<crashChan, next, orState>>
    BY <1>4, <2>1 DEF Reexecute
  <2>5. 1 \in 1..NumReducer /\ gor \in Seq(GorRecord)
    BY NumReducerAssumption DEF Types
  <2>6. Len(gor') = Len(gor) + 1 /\ Crashed' = Crashed
    BY <2>2, <2>3, <2>5, GoProperties, GoCrashed
  <2>7. Unanswered = Unanswered' + 1 /\ Unanswered' \in Nat
    BY <1>0, <2>3, <2>4 DEF Unanswered, One
  <2>8. Len(gor) + Unanswered = (next - 1) + Cardinality(Crashed)
    BY <2>4 DEF Balance
  <2> QED
    BY <1>0, <2>4, <2>6, <2>7, <2>8
<1>5. CASE TakeCrash
  <2>1. UNCHANGED <<gor, pc, next>> /\ Crashed' = Crashed
    BY <1>5 DEF TakeCrash, Crashed, Started
  <2>2. Len(crashChan') = Len(crashChan) - 1 /\ orState = "select" /\ orState' = "deliver"
    BY <1>5, HeadTailProperties DEF TakeCrash, OrDoneCrash, Types
  <2>3. Unanswered' = Unanswered
    BY <2>1, <2>2 DEF Unanswered, One
  <2> QED
    BY <2>1, <2>3 DEF Balance
<1>6. ASSUME NEW g \in Started, Moves(g) PROVE Len(gor') + Unanswered' = (next' - 1) + Cardinality(Crashed')
  <2>1. UNCHANGED <<orState, pc, next>>
    BY <1>6, MovesProperties
  <2>2. CASE ReportCrash(g)
    <3>1. Len(crashChan') = Len(crashChan) + 1
      BY <2>2, WorkerOf, AppendProperties DEF ReportCrash, SendCrash, Types
    <3>2. Unanswered' = Unanswered + 1
      <4>1. /\ One(orState = "deliver")' = One(orState = "deliver") /\ One(orState = "deliver") \in Nat
            /\ One(pc = "reacquire")' = One(pc = "reacquire") /\ One(pc = "reacquire") \in Nat
        BY <2>1 DEF One
      <4> QED
        BY <1>0, <3>1, <4>1 DEF Unanswered
    <3>3. Len(gor') = Len(gor) /\ Cardinality(Crashed') = Cardinality(Crashed) + 1
      BY <1>6, <2>2, MovesCrashed
    <3>4. Len(gor) + Unanswered = (next - 1) + Cardinality(Crashed)
      BY <2>1 DEF Balance
    <3> QED
      BY <1>0, <1>n, <2>1, <3>2, <3>3, <3>4
  <2>3. CASE ~ReportCrash(g)
    <3>1. crashChan' = crashChan
      BY <1>6, <2>3 DEF Moves, Delete, Store, MarkBusy, Dial, ReduceDone, ReduceFailed, ReportFinish, orVars
    <3>2. Unanswered' = Unanswered
      BY <2>1, <3>1 DEF Unanswered, One
    <3>3. Len(gor') = Len(gor) /\ Crashed' = Crashed
      BY <1>6, <2>3, MovesCrashed
    <3> QED
      BY <2>1, <3>2, <3>3 DEF Balance
  <2> QED
    BY <2>2, <2>3
<1>7. ASSUME NEW g \in Started, Goroutine(g) PROVE Moves(g)
  BY <1>7 DEF Goroutine, Moves, IndexPanic, Panic
<1> QED
  BY <1>wf, <1>1, <1>2, <1>3, <1>4, <1>5, <1>6, <1>7 DEF WellFormed, Next, Main, OrDoneStep, Terminated

\* Every step keeps the account of finishes.
LEMMA FinishesNext == ASSUME Types, Points, FinishesCounted, [Next]_vars PROVE FinishesCounted'
<1>wf. DOMAIN gor = Started
  BY TypesWellFormed DEF WellFormed
<1> SUFFICES ASSUME pc' # "panicked"
             PROVE  /\ finish' \subseteq Started' /\ counted' \subseteq Started'
                    /\ \A g \in finish' \cup counted' : gor'[g].pc = "finished"
                    /\ finish' \cap counted' = {}
                    /\ orState' = "closed" => Cardinality(counted') = NumReducer
  BY DEF FinishesCounted
<1>1. ASSUME UNCHANGED <<gor, finish, counted>>, pc # "panicked", orState' = "closed" => orState = "closed"
      PROVE  FinishesCounted'
  BY <1>1 DEF FinishesCounted, Started
<1>2. CASE Acquire \/ Acquired \/ StartRange \/ ReceiveCrash \/ Return \/ TakeCrash \/ UNCHANGED vars
  <2>1. UNCHANGED <<gor, finish, counted>> /\ pc # "panicked" /\ (orState' = "closed" => orState = "closed")
    BY <1>2 DEF Acquire, Acquired, StartRange, StartOrDone, ReceiveCrash, Deliver, Return, TakeCrash, OrDoneCrash,
                vars, orVars
  <2> QED
    BY <1>1, <2>1 DEF FinishesCounted
<1>3. ASSUME NEW t \in Task, NEW i \in 1..NumReducer, NEW again \in BOOLEAN, Go(t, i, again),
             UNCHANGED <<finish, counted, orState>>, pc # "panicked"
      PROVE  FinishesCounted'
  <2>1. gor \in Seq(GorRecord)
    BY DEF Types
  <2>2. Started \subseteq Started' /\ \A h \in Started : gor'[h] = gor[h]
    BY <1>3, <2>1, GoProperties
  <2> QED
    BY <1>3, <2>2 DEF FinishesCounted
<1>4. CASE Spawn
  <2>1. Len(retInfo) = NumReducer /\ next \in Task
    BY <1>4 DEF Spawn, Points, Types, Task
  <2>2. ((next - 1) % Len(retInfo)) + 1 \in 1..NumReducer
    BY <2>1, NumReducerAssumption DEF Task
  <2>3. UNCHANGED <<finish, counted, orState>> /\ pc # "panicked"
    BY <1>4 DEF Spawn, orVars
  <2>4. FinishesCounted'
    BY <1>3, <1>4, <2>1, <2>2, <2>3 DEF Spawn
  <2> QED
    BY <2>4 DEF FinishesCounted
<1>5. CASE Reexecute
  <2>1. taskStates[crashUUID] # 0
    BY <1>5 DEF Reexecute, Panic
  <2>2. taskStates[crashUUID] \in Task
    BY <2>1 DEF Types, Task
  <2>3. Go(taskStates[crashUUID], 1, TRUE)
    BY <1>5, <2>1, Zenon DEF Reexecute
  <2>4. UNCHANGED <<finish, counted, orState>> /\ pc # "panicked"
    BY <1>5, <2>1 DEF Reexecute
  <2>5. 1 \in 1..NumReducer
    BY NumReducerAssumption
  <2>6. FinishesCounted'
    BY <1>3, <2>2, <2>3, <2>4, <2>5
  <2> QED
    BY <2>6 DEF FinishesCounted
<1>6. CASE CountFinish
  <2>1. PICK g \in finish : finish' = finish \ {g} /\ counted' = counted \cup {g}
    BY <1>6 DEF CountFinish, OrDoneFinish
  <2>2. UNCHANGED <<gor, pc>> /\ (orState' = "closed" => Cardinality(counted') = NumReducer)
    BY <1>6 DEF CountFinish, OrDoneFinish
  <2> QED
    BY <2>1, <2>2 DEF FinishesCounted, Started
<1>7. ASSUME NEW g \in Started, Moves(g) PROVE FinishesCounted'
  <2>1. PICK from \in GorPc, to \in GorPc :
          GoTo(g, from, to) /\ from \notin {"finished", "crashed"} /\ (to = "finished" <=> ReportFinish(g))
    BY <1>7, MovesProperties
  <2>2. /\ Started' = Started /\ gor[g].pc = from /\ gor'[g].pc = to
        /\ \A h \in Started : h # g => gor'[h] = gor[h]
    BY <2>1, GoToProperties DEF Types
  <2>3. UNCHANGED <<counted, orState, pc>>
    BY <1>7, MovesProperties
  <2>4. CASE ReportFinish(g)
    <3>1. finish' = finish \cup {g} /\ to = "finished"
      BY <2>1, <2>4 DEF ReportFinish, SendFinish
    <3> QED
      BY <2>1, <2>2, <2>3, <3>1 DEF FinishesCounted
  <2>5. CASE ~ReportFinish(g)
    <3>1. finish' = finish
      BY <1>7, <2>5 DEF Moves, Delete, Store, MarkBusy, Dial, ReduceDone, ReduceFailed, ReportCrash, orVars
    <3> QED
      BY <2>1, <2>2, <2>3, <3>1 DEF FinishesCounted
  <2> QED
    BY <2>4, <2>5
<1>8. ASSUME NEW g \in Started, Goroutine(g) PROVE Moves(g)
  BY <1>8 DEF Goroutine, Moves, IndexPanic, Panic
<1>9. CASE \E g \in Started : Goroutine(g)
  BY <1>7, <1>8, <1>9 DEF FinishesCounted
<1> QED
  BY <1>wf, <1>2, <1>4, <1>5, <1>6, <1>9 DEF Next, Main, OrDoneStep, Terminated

-----------------------------------------------------------------------------
(* The undisturbed phase.                                                  *)

\* With one reduce task, whoever asks for a worker again finds all goroutines
\* crashed.
LEMMA AllCrashed ==
  ASSUME Types, Points, Balance, NumReducer = 1, pc = "reacquire"
  PROVE  Crashed = Started
<1>1. /\ IsFiniteSet(Started) /\ Cardinality(Started) = Len(gor) /\ Cardinality(Crashed) \in Nat
      /\ Len(gor) \in Nat /\ Len(crashChan) \in Nat
  BY CrashedFinite, TypesWellFormed DEF WellFormed
<1>2. next = 2 /\ Len(gor) + Unanswered = (next - 1) + Cardinality(Crashed)
  BY DEF Points, Balance
<1>3. One(orState = "deliver") \in Nat /\ One(pc = "reacquire") = 1
  BY DEF One
<1>4. Unanswered >= 1 /\ Unanswered \in Nat
  BY <1>1, <1>3 DEF Unanswered
<1>5. Cardinality(Crashed) >= Cardinality(Started)
  BY <1>1, <1>2, <1>4
<1>6. Crashed \subseteq Started
  BY DEF Crashed
<1> QED
  BY <1>1, <1>5, <1>6, FS_Subset

\* A step of the undisturbed phase comes from the undisturbed phase.
LEMMA UndisturbedBefore ==
  ASSUME Types, Points, [Next]_vars, pc' # "panicked", Undisturbed'
  PROVE  /\ Undisturbed /\ pc # "panicked"
         /\ Reexecute => NumReducer = 1
<1>1. DOMAIN gor = Started /\ Len(retInfo) \in Nat /\ Len(workers) \in Nat
  BY TypesWellFormed DEF WellFormed
<1>2. CASE Reexecute
  <2>1. pc = "reacquire" /\ workers' = retInfo
    BY <1>2 DEF Reexecute
  <2>2. Len(retInfo) = 1
    <3>1. Len(retInfo) <= 1 /\ Len(retInfo) >= 1
      BY <1>2 DEF Reexecute, Enough, Points
    <3>2. Len(retInfo) \in Nat
      BY <1>1
    <3> QED
      BY <3>1, <3>2, ExactlyOne
  <2>3. Len(workers') = 1
    BY <2>1, <2>2
  <2>4. NumReducer = 1
    BY <2>3 DEF Undisturbed
  <2>5. Len(workers) \in {1, NumReducer}
    BY <2>1 DEF Points
  <2> QED
    BY <2>1, <2>4, <2>5 DEF Undisturbed
<1>3. CASE Acquired
  <2>1. Len(workers) = 0 /\ pc # "panicked"
    BY <1>3, EmptySeq DEF Acquired, Points
  <2>2. ~Reexecute
    BY <1>3 DEF Acquired, Reexecute
  <2> QED
    BY <2>1, <2>2 DEF Undisturbed
<1>4. CASE ~Reexecute /\ workers' = workers /\ pc # "panicked"
  BY <1>4 DEF Undisturbed
<1>5. ASSUME NEW g \in Started, Goroutine(g) PROVE workers' = workers /\ pc' = pc
  <2>1. Moves(g)
    BY <1>5 DEF Goroutine, Moves, IndexPanic, Panic
  <2> QED
    BY <2>1, MovesProperties
<1>6. Reexecute \/ Acquired \/ (workers' = workers /\ pc # "panicked")
  BY <1>1, <1>5 DEF Next, Main, OrDoneStep, Terminated, Acquire, Spawn, StartRange, ReceiveCrash, Return,
                    CountFinish, TakeCrash, vars
<1> QED
  BY <1>2, <1>3, <1>4, <1>6

\* Every step of the undisturbed phase keeps what is known of it.
LEMMA OneEachNext ==
  ASSUME Types, Points, Balance, Straight, [Next]_vars, pc' # "panicked", Undisturbed'
  PROVE  OneEach'
<1>0. Undisturbed /\ pc # "panicked" /\ (Reexecute => NumReducer = 1)
  BY UndisturbedBefore
<1>wf. DOMAIN gor = Started /\ Len(gor) \in Nat
  BY TypesWellFormed DEF WellFormed
<1> SUFFICES ASSUME NumReducer > 1
             PROVE  Len(gor') = next' - 1 /\ \A g \in Started' : gor'[g].task = g /\ gor'[g].id = g
  BY DEF OneEach
<1>1. Len(gor) = next - 1 /\ \A g \in Started : gor[g].task = g /\ gor[g].id = g
  BY <1>0 DEF Straight, OneEach
<1>2. ~Reexecute
  BY <1>0, NumReducerAssumption
<1>3. CASE Spawn
  <2>1. Len(retInfo) = NumReducer /\ next \in 1..NumReducer
    BY <1>3 DEF Spawn, Points, Types
  <2>2. ((next - 1) % Len(retInfo)) + 1 = next
    BY <2>1, NumReducerAssumption
  <2>3. Go(next, next, FALSE) /\ gor \in Seq(GorRecord) /\ next \in Task /\ next' = next + 1
    BY <1>3, <2>1, <2>2 DEF Spawn, Types, Task
  <2>4. /\ Len(gor') = Len(gor) + 1 /\ Started' = Started \cup {Len(gor) + 1}
        /\ \A h \in Started : gor'[h] = gor[h]
        /\ gor'[Len(gor) + 1].task = next /\ gor'[Len(gor) + 1].id = next
    BY <2>1, <2>3, GoProperties
  <2>5. Len(gor) + 1 = next /\ Len(gor') = next' - 1
    BY <1>wf, <1>1, <2>1, <2>3, <2>4
  <2> QED
    BY <1>1, <2>4, <2>5
<1>4. CASE UNCHANGED <<gor, next>>
  BY <1>1, <1>4 DEF Started
<1>5. ASSUME NEW g \in Started, Goroutine(g)
      PROVE  Len(gor') = next' - 1 /\ \A h \in Started' : gor'[h].task = h /\ gor'[h].id = h
  <2>1. Moves(g)
    BY <1>5 DEF Goroutine, Moves, IndexPanic, Panic
  <2>2. PICK from \in GorPc, to \in GorPc : GoTo(g, from, to)
    BY <2>1, MovesProperties
  <2>3. /\ Started' = Started /\ Len(gor') = Len(gor)
        /\ \A h \in Started : gor'[h].task = gor[h].task /\ gor'[h].id = gor[h].id
    BY <2>2, GoToProperties DEF Types
  <2>4. next' = next
    BY <2>1, MovesProperties
  <2> QED
    BY <1>1, <2>3, <2>4
<1>6. Spawn \/ UNCHANGED <<gor, next>> \/ \E g \in Started : Goroutine(g)
  BY <1>wf, <1>2 DEF Next, Main, OrDoneStep, Terminated, Acquire, Acquired, StartRange, ReceiveCrash, Return,
                     CountFinish, TakeCrash, vars
<1> QED
  BY <1>3, <1>4, <1>5, <1>6

\* After a step of distributeReduceTask every busy worker is still accounted for.
LEMMA BusyMain ==
  ASSUME Types, Points, Balance, Straight, Main, pc' # "panicked", Undisturbed'
  PROVE  BusyAccounted'
<1>0. Undisturbed /\ pc # "panicked" /\ (Reexecute => NumReducer = 1)
  BY UndisturbedBefore DEF Next
<1>b. BusyAccounted
  BY <1>0 DEF Straight
<1>wf. WellFormed
  BY TypesWellFormed
<1>1. CASE Acquire
  <2>1. UNCHANGED <<gor, pc, next, workers>> /\ pc \in {"acquire", "reacquire"}
    BY <1>1 DEF Acquire
  <2>2. CASE workerState[scan] = "IDLE"
    <3>1. retInfo' = Append(retInfo, scan) /\ workerState' = [workerState EXCEPT ![scan] = "BUSY"]
          /\ scan \in Entry /\ retInfo \in Seq(Entry) /\ workerState \in [Entry -> WorkerStates]
      BY <1>1, <2>2 DEF Acquire, ScanEntry, SetState, Types, PoolTypeOK
    <3>2. /\ Len(retInfo') = Len(retInfo) + 1 /\ retInfo'[Len(retInfo) + 1] = scan
          /\ Len(retInfo) \in Nat
          /\ \A k \in 1..Len(retInfo) : retInfo'[k] = retInfo[k]
      BY <3>1, AppendProperties, LenProperties
    <3>3. ASSUME NEW w \in Entry, workerState'[w] = "BUSY", w # scan
          PROVE  \/ \E g \in Started : Using(g) /\ W(g) = w
                 \/ \E k \in 1..Len(retInfo) : Unassigned(k) /\ retInfo[k] = w
      BY <1>b, <3>1, <3>3 DEF BusyAccounted
    <3>4. ASSUME NEW w \in Entry, workerState'[w] = "BUSY"
          PROVE  \/ \E g \in Started : Using(g) /\ W(g) = w
                 \/ \E k \in 1..Len(retInfo') : retInfo'[k] = w
      <4>1. CASE w = scan
        BY <3>2, <4>1
      <4>2. CASE w # scan
        BY <3>2, <3>3, <3>4, <4>2
      <4> QED
        BY <4>1, <4>2
    <3> QED
      BY <2>1, <3>4 DEF BusyAccounted, Using, W, Unassigned, Started
  <2>3. CASE workerState[scan] # "IDLE"
    <3>1. UNCHANGED <<retInfo, workerState>>
      BY <1>1, <2>3 DEF Acquire, ScanEntry
    <3> QED
      BY <1>b, <2>1, <3>1 DEF BusyAccounted, Using, W, Unassigned, Started
  <2> QED
    BY <2>2, <2>3
<1>2. CASE Acquired
  <2>1. gor = <<>> /\ next = 1 /\ UNCHANGED <<workerState, retInfo, gor, next>> /\ pc' = "spawn"
    BY <1>2 DEF Acquired, Points, poolVars
  <2>2. Started = {}
    BY <2>1, EmptySeq DEF Started
  <2> QED
    BY <1>b, <2>1, <2>2 DEF BusyAccounted, Unassigned
<1>3. CASE Spawn
  <2>1. Len(retInfo) = NumReducer /\ next \in 1..NumReducer /\ workers = retInfo
    BY <1>3 DEF Spawn, Points, Types
  <2>2. ((next - 1) % Len(retInfo)) + 1 = next
    BY <2>1, NumReducerAssumption
  <2>3. Go(next, next, FALSE) /\ gor \in Seq(GorRecord) /\ next \in Task
    BY <1>3, <2>1, <2>2 DEF Spawn, Types, Task
  <2>4. /\ Started' = Started \cup {Len(gor) + 1}
        /\ \A h \in Started : gor'[h] = gor[h]
        /\ gor'[Len(gor) + 1].pc \in {"delete", "store"} /\ gor'[Len(gor) + 1].id = next
    BY <2>1, <2>3, GoProperties
  <2>5. pc = "spawn" /\ pc' = "spawn" /\ next' = next + 1 /\ UNCHANGED <<workerState, retInfo, workers>>
    BY <1>3 DEF Spawn, poolVars
  <2>6. ASSUME NEW w \in Entry, workerState[w] = "BUSY"
        PROVE  \/ \E g \in Started' : Using(g)' /\ W(g)' = w
               \/ \E k \in 1..Len(retInfo) : k >= next + 1 /\ retInfo[k] = w
    <3>1. CASE \E g \in Started : Using(g) /\ W(g) = w
      BY <2>4, <2>5, <3>1 DEF Using, W
    <3>2. CASE \E k \in 1..Len(retInfo) : k >= next /\ retInfo[k] = w
      <4>1. PICK k \in 1..Len(retInfo) : k >= next /\ retInfo[k] = w
        BY <3>2
      <4>2. CASE k = next
        BY <2>1, <2>4, <2>5, <4>1, <4>2 DEF Using, W
      <4>3. CASE k # next
        BY <2>1, <4>1, <4>3
      <4> QED
        BY <4>2, <4>3
    <3> QED
      BY <1>b, <2>5, <2>6, <3>1, <3>2 DEF BusyAccounted, Unassigned
  <2> QED
    BY <2>5, <2>6 DEF BusyAccounted, Unassigned
<1>4. CASE StartRange
  <2>1. Len(retInfo) = NumReducer /\ next > NumReducer /\ pc = "spawn" /\ next \in Nat
        /\ UNCHANGED <<workerState, retInfo, gor, workers>>
    BY <1>4, NumReducerAssumption DEF StartRange, Points, poolVars, Types
  <2>2. \A k \in 1..Len(retInfo) : ~Unassigned(k)
    BY <2>1, NumReducerAssumption DEF Unassigned
  <2> QED
    BY <1>b, <2>1, <2>2 DEF BusyAccounted, Using, W, Started
<1>5. CASE ReceiveCrash
  <2>1. pc = "range" /\ UNCHANGED <<workerState, gor, workers>>
    BY <1>5 DEF ReceiveCrash
  <2> QED
    BY <1>b, <2>1 DEF BusyAccounted, Unassigned, Using, W, Started
<1>6. CASE Reexecute
  <2>1. pc = "reacquire" /\ num = 1 /\ Len(retInfo) <= num /\ Len(retInfo) \in Nat
        /\ workers' = retInfo /\ UNCHANGED <<workerState, retInfo>>
    BY <1>6, <1>wf DEF Reexecute, Points, poolVars, WellFormed
  <2>2. taskStates[crashUUID] # 0
    BY <1>6 DEF Reexecute, Panic
  <2>3. taskStates[crashUUID] \in Task
    BY <2>2 DEF Types, Task
  <2>4. Go(taskStates[crashUUID], 1, TRUE)
    BY <1>6, <2>2, Zenon DEF Reexecute
  <2>5. 1 \in 1..NumReducer /\ gor \in Seq(GorRecord)
    BY NumReducerAssumption DEF Types
  <2>6. /\ Len(gor) + 1 \in Started'
        /\ gor'[Len(gor) + 1].pc \in {"delete", "store"} /\ gor'[Len(gor) + 1].id = 1
    BY <2>3, <2>4, <2>5, GoProperties
  <2>7. \A g \in Started : ~Using(g)
    BY <1>0, <1>6, <2>1, AllCrashed DEF Crashed, Using
  <2>8. ASSUME NEW w \in Entry, workerState[w] = "BUSY" PROVE retInfo[1] = w
    <3>1. PICK k \in 1..Len(retInfo) : retInfo[k] = w
      BY <1>b, <2>7, <2>8 DEF BusyAccounted
    <3>2. k = 1
      BY <2>1, <3>1
    <3> QED
      BY <3>1, <3>2
  <2> QED
    BY <2>1, <2>6, <2>8 DEF BusyAccounted, Using, W
<1>7. CASE Return
  BY <1>b, <1>7 DEF Return, BusyAccounted, Unassigned, Using, W, Started, poolVars
<1> QED
  BY <1>1, <1>2, <1>3, <1>4, <1>5, <1>6, <1>7 DEF Main

\* After a step of a task goroutine every busy worker is still accounted for.
LEMMA BusyMoves ==
  ASSUME Types, Points, Straight, NEW g \in Started, Moves(g), pc' # "panicked", Undisturbed'
  PROVE  BusyAccounted'
<1>1. UNCHANGED <<retInfo, pc, next, workers>>
  BY MovesProperties
<1>b. BusyAccounted
  BY <1>1 DEF Straight, Undisturbed
<1>2. PICK from \in GorPc, to \in GorPc :
        /\ GoTo(g, from, to) /\ (Using(g) <=> from \in {"delete", "store", "busy", "dial", "call"})
        /\ to = "crashed" <=> ReportCrash(g)
        /\ to = "finished" <=> ReportFinish(g)
        /\ to \in {"sendFinish", "sendCrash"} <=> ReduceDone(g) \/ ReduceFailed(g)
  BY MovesProperties
<1>3. /\ Started' = Started /\ gor[g].pc = from /\ gor'[g].pc = to
      /\ \A h \in Started : gor'[h].id = gor[h].id
      /\ \A h \in Started : h # g => gor'[h] = gor[h]
  BY <1>2, GoToProperties DEF Types
<1>4. \A h \in Started : W(h)' = W(h)
  BY <1>1, <1>3 DEF W
<1>5. \A h \in Started : h # g => (Using(h)' <=> Using(h))
  BY <1>3 DEF Using
<1>6. workerState \in [Entry -> WorkerStates]
  BY DEF Types, PoolTypeOK
<1>7. SUFFICES ASSUME NEW w \in Entry, workerState'[w] = "BUSY"
               PROVE  \/ \E h \in Started : Using(h)' /\ W(h) = w
                      \/ \E k \in 1..Len(retInfo) : Unassigned(k) /\ retInfo[k] = w
  BY <1>1, <1>3, <1>4 DEF BusyAccounted, Unassigned
<1>8. CASE ReduceDone(g) \/ ReduceFailed(g)
  <2>1. PICK s \in {"IDLE", "UNKNOWN"} : workerState' = [workerState EXCEPT ![W(g)] = s] /\ W(g) \in Entry
    BY <1>8, WorkerOf DEF ReduceDone, ReduceFailed, SetState
  <2>2. w # W(g) /\ workerState[w] = "BUSY"
    BY <1>6, <1>7, <2>1
  <2> QED
    BY <1>b, <1>5, <2>2 DEF BusyAccounted
<1>9. CASE MarkBusy(g)
  <2>0. GoTo(g, "busy", "dial") /\ "dial" \in GorPc /\ gor \in Seq(GorRecord)
    BY <1>9 DEF MarkBusy, GorPc, Types
  <2>1. workerState' = [workerState EXCEPT ![W(g)] = "BUSY"] /\ W(g) \in Entry /\ gor'[g].pc = "dial"
    BY <1>9, <2>0, WorkerOf, GoToProperties DEF MarkBusy, SetState
  <2>2. Using(g)'
    BY <2>1 DEF Using
  <2>3. w = W(g) \/ workerState[w] = "BUSY"
    BY <1>6, <1>7, <2>1
  <2> QED
    BY <1>b, <1>5, <2>2, <2>3 DEF BusyAccounted
<1>10. CASE Delete(g) \/ Store(g) \/ Dial(g) \/ ReportFinish(g) \/ ReportCrash(g)
  <2>1. workerState' = workerState
    BY <1>10 DEF Delete, Store, Dial, ReportFinish, ReportCrash, poolVars
  <2>2. Using(g)' \/ ~Using(g)
    <3>1. CASE ReportFinish(g) \/ ReportCrash(g)
      BY <3>1 DEF ReportFinish, ReportCrash, GoTo, Using
    <3>2. CASE Delete(g) \/ Store(g) \/ Dial(g)
      <4>1. ~ReportFinish(g) /\ ~ReportCrash(g) /\ ~ReduceDone(g) /\ ~ReduceFailed(g)
        <5>1. gor[g].pc = "delete" \/ gor[g].pc = "store" \/ gor[g].pc = "dial"
          BY <3>2 DEF Delete, Store, Dial, GoTo
        <5> QED
          BY <5>1 DEF ReportFinish, ReportCrash, ReduceDone, ReduceFailed, GoTo
      <4>2. to \in {"delete", "store", "busy", "dial", "call"}
        BY <1>2, <4>1 DEF GorPc
      <4> QED
        BY <1>3, <4>2 DEF Using
    <3> QED
      BY <1>10, <3>1, <3>2
  <2>3. \A h \in Started : Using(h) => Using(h)'
    BY <1>5, <2>2
  <2> QED
    BY <1>b, <1>7, <2>1, <2>3 DEF BusyAccounted
<1> QED
  BY <1>8, <1>9, <1>10 DEF Moves

\* As long as the slice of workers is not replaced by a shorter one, what is known
\* of goroutines and busy workers is kept.
LEMMA StraightNext ==
  ASSUME Types, Points, Balance, Straight, [Next]_vars
  PROVE  Straight'
<1> SUFFICES ASSUME pc' # "panicked", Undisturbed' PROVE OneEach' /\ BusyAccounted'
  BY DEF Straight
<1>0. Undisturbed /\ pc # "panicked"
  BY UndisturbedBefore
<1>b. BusyAccounted
  BY <1>0 DEF Straight
<1>wf. DOMAIN gor = Started
  BY TypesWellFormed DEF WellFormed
<1>1. ASSUME Main PROVE BusyAccounted'
  BY <1>1, BusyMain
<1>2. ASSUME OrDoneStep \/ UNCHANGED vars PROVE BusyAccounted'
  <2>1. UNCHANGED <<workerState, retInfo, gor, pc, next, workers>>
    BY <1>2 DEF OrDoneStep, CountFinish, TakeCrash, vars, poolVars
  <2> QED
    BY <1>b, <2>1 DEF BusyAccounted, Unassigned, Using, W, Started
<1>3. ASSUME NEW g \in Started, Goroutine(g) PROVE BusyAccounted'
  <2>1. Moves(g)
    BY <1>3 DEF Goroutine, Moves, IndexPanic, Panic
  <2> QED
    BY <2>1, BusyMoves
<1>4. BusyAccounted'
  BY <1>wf, <1>1, <1>2, <1>3 DEF Next, Terminated
<1> QED
  BY <1>4, OneEachNext

\* The balance holds when no goroutine has been started.
LEMMA IInvInit == Init => IInv
<1> SUFFICES ASSUME Init PROVE IInv
  OBVIOUS
<1>1. Types /\ Points
  BY TypesInit
<1>2. Started = {} /\ Len(gor) = 0 /\ Len(crashChan) = 0
  BY EmptySeq DEF Init, Started
<1>3. Crashed = {} /\ Cardinality(Crashed) = 0
  BY <1>2, FS_EmptySet DEF Crashed
<1>4. FinishesCounted
  BY DEF Init, FinishesCounted
<1>5. Unanswered = 0 /\ next = 1
  BY <1>2 DEF Init, Unanswered, One
<1>6. Balance
  BY <1>2, <1>3, <1>5 DEF Balance
<1>7. OneEach
  BY <1>2, <1>5 DEF OneEach
<1>8. BusyAccounted
  BY DEF Init, BusyAccounted
<1> QED
  BY <1>1, <1>4, <1>6, <1>7, <1>8 DEF IInv, Straight

\* Every step of the phase preserves the invariant.
LEMMA IInvNext == ASSUME IInv, [Next]_vars PROVE IInv'
  BY TypesNext, FinishesNext, BalanceNext, StraightNext DEF IInv

\* IInv is an invariant of the reduce phase.
THEOREM InductiveInvariant == Spec => []IInv
<1>1. IInv /\ [Next]_vars => IInv'
  BY IInvNext
<1> QED
  BY <1>1, IInvInit, PTL DEF Spec

-----------------------------------------------------------------------------
(* What follows from it.                                                   *)

\* When orDone has counted as many finishes as there are tasks, no crash is
\* unanswered and every goroutine has been counted or has crashed.
LEMMA AllAccounted ==
  ASSUME IInv, orState = "closed", pc # "panicked"
  PROVE  /\ Unanswered = 0 /\ Started = counted \cup Crashed
         /\ finish = {} /\ pc # "reacquire" /\ crashChan = <<>>
<1>1. /\ IsFiniteSet(Started) /\ Cardinality(Started) = Len(gor) /\ Len(gor) \in Nat
      /\ IsFiniteSet(Crashed) /\ Cardinality(Crashed) \in Nat /\ Len(crashChan) \in Nat
  BY CrashedFinite, TypesWellFormed DEF IInv, WellFormed
<1>2. /\ counted \subseteq Started /\ finish \subseteq Started /\ Cardinality(counted) = NumReducer
      /\ counted \cap Crashed = {} /\ finish \cap counted = {} /\ finish \cap Crashed = {}
  BY DEF IInv, FinishesCounted, Crashed
<1>3. IsFiniteSet(counted)
  BY <1>1, <1>2, FS_Subset
<1>4. next - 1 = NumReducer
  <2>1. pc \in {"range", "reacquire", "done"}
    BY DEF IInv, Points, Types
  <2> QED
    BY <2>1, NumReducerAssumption DEF IInv, Points
<1>5. Len(gor) + Unanswered = NumReducer + Cardinality(Crashed)
  BY <1>4 DEF IInv, Balance
<1>6. Cardinality(counted \cup Crashed) = NumReducer + Cardinality(Crashed)
  <2>1. Cardinality(counted \cap Crashed) = 0
    BY <1>2, FS_EmptySet
  <2>2. Cardinality(counted \cup Crashed)
          = Cardinality(counted) + Cardinality(Crashed) - Cardinality(counted \cap Crashed)
    BY <1>1, <1>3, FS_Union
  <2> QED
    BY <1>1, <1>2, <2>1, <2>2, NumReducerAssumption
<1>7. counted \cup Crashed \subseteq Started
  BY <1>2 DEF Crashed
<1>8. /\ One(orState = "deliver") \in Nat /\ One(pc = "reacquire") \in Nat
      /\ (pc = "reacquire" => One(pc = "reacquire") = 1)
  BY DEF One
<1>9. Unanswered \in Nat /\ Unanswered >= Len(crashChan) /\ Unanswered >= One(pc = "reacquire")
  BY <1>1, <1>8 DEF Unanswered
<1>10. Cardinality(counted \cup Crashed) <= Cardinality(Started)
  BY <1>1, <1>7, FS_Subset
<1>11. Unanswered = 0 /\ Cardinality(counted \cup Crashed) = Cardinality(Started)
  BY <1>1, <1>5, <1>6, <1>9, <1>10, NumReducerAssumption
<1>12. Started = counted \cup Crashed
  BY <1>1, <1>7, <1>11, FS_Subset
<1>13. finish = {}
  BY <1>2, <1>12
<1>14. Len(crashChan) = 0 /\ pc # "reacquire"
  BY <1>1, <1>8, <1>9, <1>11
<1>15. crashChan = <<>>
  BY <1>14, EmptySeq DEF IInv, Types
<1> QED
  BY <1>11, <1>12, <1>13, <1>14, <1>15

\* Where all is accounted for, nothing outlives the phase.
LEMMA IInvNothingOutlives == IInv => NothingOutlivesPhase
<1> SUFFICES ASSUME IInv, pc = "done"
             PROVE  /\ \A g \in DOMAIN gor : gor[g].pc \in {"finished", "crashed"}
                    /\ finish = {} /\ crashChan = <<>> /\ orState = "closed"
  BY DEF NothingOutlivesPhase
<1>1. orState = "closed" /\ DOMAIN gor = Started
  BY TypesWellFormed DEF IInv, Points, WellFormed
<1>2. Started = counted \cup Crashed /\ finish = {} /\ crashChan = <<>>
  BY <1>1, AllAccounted
<1>3. \A g \in counted : gor[g].pc = "finished"
  BY DEF IInv, FinishesCounted
<1> QED
  BY <1>1, <1>2, <1>3 DEF Crashed

\* Where nothing outlives the phase, no goroutine has the use of a worker.
LEMMA IInvWorkersGivenBack == IInv => WorkersGivenBack
<1> SUFFICES ASSUME IInv, pc = "done", Undisturbed, NEW w \in Entry, workerState[w] = "BUSY"
             PROVE  FALSE
  BY DEF WorkersGivenBack
<1>1. BusyAccounted /\ DOMAIN gor = Started
  BY TypesWellFormed DEF IInv, Straight, WellFormed
<1>2. \A g \in Started : gor[g].pc \in {"finished", "crashed"}
  BY <1>1, IInvNothingOutlives DEF NothingOutlivesPhase
<1> QED
  BY <1>1, <1>2 DEF BusyAccounted, Using, Unassigned

\* When distributeReduceTask returns, no goroutine is left that could send on the
\* closed finish, and no crash is left in ms.crashChan, whatever was re-executed
\* and however the slice of workers was overwritten.
THEOREM NothingOutlivesHolds == Spec => []NothingOutlivesPhase
  BY IInvNothingOutlives, InductiveInvariant, PTL

\* An undisturbed phase leaves no worker busy behind.
THEOREM WorkersGivenBackHolds == Spec => []WorkersGivenBack
  BY IInvWorkersGivenBack, InductiveInvariant, PTL

-----------------------------------------------------------------------------
(* The refinement.                                                         *)

\* In an undisturbed phase two goroutines for the same task are two attempts of a
\* single task, the first of which has crashed.
LEMMA TaskOwnedOnce ==
  ASSUME IInv, pc # "panicked", Undisturbed, NEW g \in Started, NEW h \in Started,
         gor[g].pc # "crashed", gor[h].pc # "crashed", gor[g].task = gor[h].task
  PROVE  g = h
<1>1. CASE NumReducer > 1
  BY <1>1 DEF IInv, Straight, OneEach
<1>2. CASE NumReducer = 1
  <2> SUFFICES ASSUME g # h PROVE FALSE
    OBVIOUS
  <2>1. /\ IsFiniteSet(Started) /\ Cardinality(Started) = Len(gor) /\ Len(gor) \in Nat
        /\ IsFiniteSet(Crashed) /\ Cardinality(Crashed) \in Nat /\ Len(crashChan) \in Nat
    BY CrashedFinite, TypesWellFormed DEF IInv, WellFormed
  <2>2. next \in 1..2 /\ Len(gor) + Unanswered = (next - 1) + Cardinality(Crashed)
    BY <1>2 DEF IInv, Types, Balance
  <2>3. One(orState = "deliver") \in Nat /\ One(pc = "reacquire") \in Nat
    BY DEF One
  <2>4. Unanswered \in Nat
    BY <2>1, <2>3 DEF Unanswered
  <2>5. g \notin Crashed /\ h \notin Crashed /\ Crashed \cup {g, h} \subseteq Started
    BY DEF Crashed
  <2>6. IsFiniteSet(Crashed \cup {g}) /\ Cardinality(Crashed \cup {g}) = Cardinality(Crashed) + 1
    BY <2>1, <2>5, FS_AddElement
  <2>7. Cardinality((Crashed \cup {g}) \cup {h}) = Cardinality(Crashed \cup {g}) + 1
    BY <2>5, <2>6, FS_AddElement
  <2>8. (Crashed \cup {g}) \cup {h} \subseteq Started
    BY <2>5
  <2>9. Cardinality((Crashed \cup {g}) \cup {h}) <= Cardinality(Started)
    BY <2>1, <2>8, FS_Subset
  <2> QED
    BY <2>1, <2>2, <2>4, <2>6, <2>7, <2>9
<1> QED
  BY <1>1, <1>2, NumReducerAssumption

\* When the stream of an undisturbed phase is closed, every task has succeeded.
LEMMA AllSucceeded ==
  ASSUME IInv, orState = "closed", pc # "panicked", Undisturbed, NEW t \in Task
  PROVE  \E g \in Started : gor[g].task = t /\ gor[g].pc = "finished"
<1>1. /\ Started = counted \cup Crashed /\ counted \subseteq Started
      /\ \A g \in counted : gor[g].pc = "finished"
      /\ Cardinality(counted) = NumReducer
  BY AllAccounted DEF IInv, FinishesCounted
<1>2. CASE NumReducer > 1
  <2>1. next = NumReducer + 1
    BY DEF IInv, Points, Types
  <2>2. /\ Len(gor) = next - 1 /\ \A g \in Started : gor[g].task = g
        /\ Len(gor) + Unanswered = (next - 1) + Cardinality(Crashed) /\ Unanswered = 0
    BY <1>2, AllAccounted DEF IInv, Straight, OneEach, Balance
  <2>3. IsFiniteSet(Crashed) /\ Cardinality(Crashed) \in Nat
    BY CrashedFinite DEF IInv
  <2>4. Cardinality(Crashed) = 0
    BY <2>1, <2>2, <2>3, NumReducerAssumption
  <2>5. Crashed = {}
    BY <2>3, <2>4, FS_EmptySet
  <2>6. t \in Started
    BY <2>1, <2>2, NumReducerAssumption DEF Started, Task
  <2> QED
    BY <1>1, <2>2, <2>5, <2>6
<1>3. CASE NumReducer = 1
  <2>1. counted # {}
    BY <1>1, <1>3, FS_EmptySet
  <2>2. PICK g \in counted : TRUE
    BY <2>1
  <2>3. gor[g].task \in 1..1 /\ t \in 1..1
    BY <1>1, <1>3, TypesWellFormed DEF IInv, WellFormed, Task
  <2> QED
    BY <1>1, <2>3
<1> QED
  BY <1>2, <1>3, NumReducerAssumption

\* The goroutine whose call returns true completes a task that had no success.
LEMMA CompletesOnce ==
  ASSUME IInv, NEW g \in Started, ReduceDone(g), Undisturbed'
  PROVE  Phase!Next
<1>1. Moves(g)
  BY DEF Moves
<1>2. UNCHANGED <<pc, workers>>
  BY <1>1, MovesProperties DEF IInv
<1>3. /\ GoTo(g, "call", "sendFinish") /\ gor \in Seq(GorRecord) /\ "sendFinish" \in GorPc
      /\ gor[g].pc = "call"
  BY DEF ReduceDone, GoTo, IInv, Types, GorPc
<1>4. /\ Started' = Started /\ gor'[g].pc = "sendFinish" /\ gor' \in Seq(GorRecord)
      /\ \A h \in Started : gor'[h].task = gor[h].task
      /\ \A h \in Started : h # g => gor'[h] = gor[h]
  BY <1>3, GoToProperties
<1>5. DOMAIN gor = Started /\ DOMAIN gor' = Started /\ gor[g].task \in Task
  <2>1. DOMAIN gor = Started /\ gor[g].task \in 1..NumReducer
    BY TypesWellFormed DEF IInv, WellFormed
  <2>2. DOMAIN gor' = Started'
    BY <1>4, LenProperties DEF Started
  <2> QED
    BY <1>4, <2>1, <2>2 DEF Task
<1>6. pc \notin {"done", "panicked"} /\ Undisturbed
  <2>1. pc # "done"
    BY <1>3, <1>5, IInvNothingOutlives DEF NothingOutlivesPhase
  <2>2. pc # "panicked"
    BY EmptySeq DEF IInv, Points, Started
  <2> QED
    BY <1>2, <2>1, <2>2 DEF Undisturbed
<1> DEFINE s == [task |-> gor[g].task, attempt |-> g]
<1>7. \A x \in Successes : x.task # gor[g].task
  <2> SUFFICES ASSUME NEW h \in Started, Succeeded(h), gor[h].task = gor[g].task PROVE FALSE
    BY <1>5 DEF Successes
  <2>1. gor[h].pc # "crashed" /\ gor[h].pc # "call"
    BY DEF Succeeded
  <2> QED
    BY <1>3, <1>6, <2>1, TaskOwnedOnce
<1>8. s \in Successes' /\ Successes' = Successes \cup {s}
  <2>1. \A h \in Started : Succeeded(h)' <=> Succeeded(h) \/ h = g
    BY <1>4 DEF Succeeded
  <2> QED
    BY <1>4, <1>5, <2>1 DEF Successes
<1>9. s.task = gor[g].task
  OBVIOUS
<1> HIDE DEF s
<1>10. Phase!Complete(gor[g].task)
  BY <1>2, <1>6, <1>7, <1>8, <1>9 DEF Phase!Complete
<1> QED
  BY <1>5, <1>10 DEF Phase!Next

\* The phase's return comes after all successes.
LEMMA ReturnsComplete ==
  ASSUME IInv, Return, Undisturbed'
  PROVE  Phase!Next
<1>1. pc = "range" /\ orState = "closed" /\ pc' = "done" /\ UNCHANGED <<workers, gor>>
  BY DEF Return
<1>2. Undisturbed /\ DOMAIN gor = Started
  BY <1>1, TypesWellFormed DEF Undisturbed, IInv, WellFormed
<1>3. ASSUME NEW t \in Task PROVE \E s \in Successes : s.task = t
  <2>1. PICK g \in Started : gor[g].task = t /\ gor[g].pc = "finished"
    BY <1>1, <1>2, AllSucceeded
  <2>2. [task |-> gor[g].task, attempt |-> g] \in Successes
    BY <1>2, <2>1 DEF Successes, Succeeded
  <2> QED
    BY <2>1, <2>2
<1>4. Successes' = Successes
  BY <1>1 DEF Successes, Succeeded
<1>5. Phase!End
  BY <1>1, <1>3, <1>4 DEF Phase!End
<1> QED
  BY <1>5 DEF Phase!Next

\* A panic of an undisturbed phase takes no success with it.
LEMMA PanicsEmpty ==
  ASSUME IInv, Undisturbed', pc # "panicked", pc' = "panicked",
         Reexecute \/ \E g \in Started : IndexPanic(g)
  PROVE  UNCHANGED Phase!phaseVars
<1>wf. WellFormed
  BY TypesWellFormed DEF IInv
<1>1. CASE \E g \in Started : IndexPanic(g)
  <2>1. PICK g \in Started : IndexPanic(g)
    BY <1>1
  <2>2. ~(gor[g].id <= Len(workers)) /\ workers' = workers
    BY <2>1 DEF IndexPanic, InRange
  <2>3. gor[g].id \in 1..NumReducer /\ Len(workers) \in Nat
    BY <1>wf DEF WellFormed
  <2>4. Len(workers) = 0
    BY <2>2, <2>3, NumReducerAssumption DEF Undisturbed
  <2>5. pc = "acquire"
    BY <2>4, NumReducerAssumption DEF IInv, Points
  <2> QED
    BY <2>5, EmptySeq DEF IInv, Points, Started
<1>2. CASE Reexecute
  <2>1. pc = "reacquire" /\ Panic
    <3>1. taskStates[crashUUID] = 0
      BY <1>2 DEF Reexecute
    <3> QED
      BY <1>2, <3>1, Zenon DEF Reexecute
  <2>2. NumReducer = 1
    <3>1. Len(retInfo) <= 1 /\ Len(retInfo) >= 1
      BY <1>2 DEF Reexecute, Enough, IInv, Points
    <3>2. Len(retInfo) \in Nat
      BY <1>wf DEF WellFormed
    <3>3. Len(retInfo) = 1
      BY <3>1, <3>2, ExactlyOne
    <3>4. Len(workers') = 1
      BY <1>2, <3>3 DEF Reexecute
    <3> QED
      BY <3>4 DEF Undisturbed
  <2>3. \A g \in Started : gor[g].pc = "crashed"
    BY <2>1, <2>2, AllCrashed DEF IInv, Crashed
  <2>4. Successes = {}
    BY <1>wf, <2>3 DEF Successes, Succeeded, WellFormed
  <2>5. DOMAIN gor' = {} /\ pc' = "panicked"
    BY <2>1, EmptySeq DEF Panic
  <2>6. Successes' = {}
    BY <2>5 DEF Successes
  <2> QED
    BY <2>1, <2>4, <2>5, <2>6 DEF Phase!phaseVars
<1> QED
  BY <1>1, <1>2

\* All other steps leave the successes alone.
LEMMA Stutters ==
  ASSUME IInv, [Next]_vars, pc' # "panicked" \/ pc = "panicked", ~Return, \A g \in Started : ~ReduceDone(g)
  PROVE  UNCHANGED Phase!phaseVars
<1>wf. DOMAIN gor = Started /\ gor \in Seq(GorRecord)
  BY TypesWellFormed DEF IInv, WellFormed, Types
<1>1. CASE UNCHANGED <<gor, pc>>
  BY <1>1 DEF Phase!phaseVars, Successes, Succeeded
<1>2. ASSUME NEW t \in Task, NEW i \in 1..NumReducer, NEW again \in BOOLEAN, Go(t, i, again),
             pc # "done", pc' # "done"
      PROVE  UNCHANGED Phase!phaseVars
  <2>1. /\ Started' = Started \cup {Len(gor) + 1} /\ gor' \in Seq(GorRecord)
        /\ \A h \in Started : gor'[h] = gor[h]
        /\ gor'[Len(gor) + 1].pc \in {"delete", "store"}
    BY <1>wf, <1>2, GoProperties
  <2>2. DOMAIN gor' = Started'
    BY <2>1, LenProperties DEF Started
  <2>3. {h \in DOMAIN gor' : Succeeded(h)'} = {h \in DOMAIN gor : Succeeded(h)}
    BY <1>wf, <2>1, <2>2 DEF Succeeded
  <2>4. Successes' = Successes
    BY <1>wf, <2>1, <2>3 DEF Successes
  <2> QED
    BY <1>2, <2>4 DEF Phase!phaseVars
<1>3. CASE Spawn
  <2>1. Len(retInfo) = NumReducer /\ next \in Task
    BY <1>3 DEF Spawn, IInv, Points, Types, Task
  <2>2. ((next - 1) % Len(retInfo)) + 1 \in 1..NumReducer
    BY <2>1, NumReducerAssumption DEF Task
  <2>3. pc = "spawn" /\ pc' = "spawn"
    BY <1>3 DEF Spawn
  <2> QED
    BY <1>2, <1>3, <2>1, <2>2, <2>3 DEF Spawn
<1>4. CASE Reexecute
  <2>1. pc' # "panicked" /\ taskStates[crashUUID] # 0
    BY <1>4 DEF Reexecute, Panic
  <2>2. taskStates[crashUUID] \in Task
    BY <2>1 DEF IInv, Types, Task
  <2>3. Go(taskStates[crashUUID], 1, TRUE) /\ pc' = "range"
    BY <1>4, <2>1, Zenon DEF Reexecute
  <2>4. pc = "reacquire" /\ 1 \in 1..NumReducer
    BY <1>4, NumReducerAssumption DEF Reexecute
  <2> QED
    BY <1>2, <2>2, <2>3, <2>4
<1>5. ASSUME NEW g \in Started, Moves(g) PROVE UNCHANGED Phase!phaseVars
  <2>1. PICK from \in GorPc, to \in GorPc :
          /\ GoTo(g, from, to)
          /\ from \notin {"finished", "crashed"}
          /\ to \in {"sendFinish", "finished"} /\ from \notin {"sendFinish", "finished"} <=> ReduceDone(g)
          /\ to = "finished" <=> ReportFinish(g)
    BY <1>5, MovesProperties DEF IInv
  <2>2. /\ Started' = Started /\ gor[g].pc = from /\ gor'[g].pc = to /\ gor' \in Seq(GorRecord)
        /\ \A h \in Started : gor'[h].task = gor[h].task
        /\ \A h \in Started : h # g => gor'[h] = gor[h]
    BY <1>wf, <2>1, GoToProperties
  <2>3. from = "sendFinish" => to = "finished"
    <3>1. CASE from = "sendFinish"
      <4>1. ReportFinish(g)
        BY <1>5, <2>2, <3>1 DEF Moves, Delete, Store, MarkBusy, Dial, ReduceDone, ReduceFailed, ReportCrash, GoTo
      <4> QED
        BY <2>1, <4>1
    <3> QED
      BY <3>1
  <2>4. \A h \in Started : Succeeded(h)' <=> Succeeded(h)
    BY <2>1, <2>2, <2>3 DEF Succeeded
  <2>5. DOMAIN gor' = Started
    BY <2>2, LenProperties DEF Started
  <2>6. {h \in DOMAIN gor' : Succeeded(h)'} = {h \in DOMAIN gor : Succeeded(h)}
    BY <1>wf, <2>4, <2>5
  <2>7. Successes' = Successes
    BY <1>wf, <2>2, <2>6 DEF Successes
  <2>8. pc' = pc
    BY <1>5, MovesProperties DEF IInv
  <2> QED
    BY <2>7, <2>8 DEF Phase!phaseVars
<1>6. ASSUME NEW g \in Started, Goroutine(g) PROVE Moves(g)
  <2>1. pc # "panicked"
    BY EmptySeq DEF IInv, Points, Started
  <2> QED
    BY <1>6, <2>1 DEF Goroutine, Moves, IndexPanic, Panic
<1>7. CASE Acquired \/ StartRange \/ ReceiveCrash
  <2>1. UNCHANGED gor /\ pc # "done" /\ pc' # "done"
    BY <1>7 DEF Acquired, StartRange, ReceiveCrash
  <2> QED
    BY <2>1 DEF Phase!phaseVars, Successes, Succeeded
<1>8. UNCHANGED <<gor, pc>> \/ Acquired \/ StartRange \/ ReceiveCrash \/ Spawn \/ Reexecute
      \/ \E g \in Started : Goroutine(g)
  BY <1>wf DEF Next, Main, OrDoneStep, Terminated, Acquire, CountFinish, TakeCrash, vars
<1> QED
  BY <1>1, <1>3, <1>4, <1>5, <1>6, <1>7, <1>8

\* As long as it is undisturbed, the reduce phase implements TaskPhase.
THEOREM Refinement == Spec => ImplementsTaskPhase
<1>1. Init => Phase!Init
  <2> SUFFICES ASSUME Init PROVE Phase!Init
    OBVIOUS
  <2>1. DOMAIN gor = {} /\ pc # "done"
    BY DEF Init
  <2> QED
    BY <2>1 DEF Phase!Init, Successes
<1>2. IInv /\ [Next]_vars => [Undisturbed' => Phase!Next]_(Phase!phaseVars)
  <2> SUFFICES ASSUME IInv, [Next]_vars, Undisturbed' PROVE Phase!Next \/ UNCHANGED Phase!phaseVars
    OBVIOUS
  <2>0. DOMAIN gor = Started
    BY TypesWellFormed DEF IInv, WellFormed
  <2>1. CASE \E g \in Started : ReduceDone(g)
    BY <2>1, CompletesOnce
  <2>2. CASE Return
    BY <2>2, ReturnsComplete
  <2>3. CASE pc # "panicked" /\ pc' = "panicked"
    <3>1. Reexecute \/ \E g \in Started : IndexPanic(g)
      BY <2>0, <2>3, MovesProperties
         DEF Next, Main, OrDoneStep, Terminated, Acquire, Acquired, Spawn, StartRange, ReceiveCrash, Return,
             CountFinish, TakeCrash, vars, Goroutine, Moves, IInv
    <3> QED
      BY <2>3, <3>1, PanicsEmpty
  <2>4. CASE /\ pc' # "panicked" \/ pc = "panicked"
             /\ ~Return /\ \A g \in Started : ~ReduceDone(g)
    BY <2>4, Stutters
  <2> QED
    BY <2>1, <2>2, <2>3, <2>4
<1> QED
  BY <1>1, <1>2, InductiveInvariant, PTL DEF Spec, ImplementsTaskPhase

-----------------------------------------------------------------------------
(* The job: handlers and files.                                            *)

\* The steps of the job are steps of the phase, or leave it alone.
LEMMA JobRefinesPhase == JobNext => [Next]_vars
  BY DEF JobNext, PhaseStep, Call, StartReduce, Fetch, FetchPanics, WriteOutput, OutputLost, Answer, CallFails, Crash,
         Next, Goroutine

\* What the steps of a phase that goes on do to the goroutines.
LEMMA GorStep ==
  ASSUME IInv, [Next]_vars, pc' # "panicked"
  PROVE  /\ pc # "panicked" /\ Started \subseteq Started'
         /\ \A g \in Started : gor'[g].task = gor[g].task
         /\ \A g \in Started : gor[g].pc \in {"sendCrash", "crashed"} => gor'[g].pc \in {"sendCrash", "crashed"}
         /\ \A g \in Started : gor'[g].pc \in {"sendFinish", "finished"} =>
              gor[g].pc \in {"sendFinish", "finished"} \/ ReduceDone(g)
         /\ \A g \in Started : gor'[g].pc \in Early => gor[g].pc \in Early
         /\ \A g \in Started' \ Started : gor'[g].pc \in {"delete", "store"}
<1> DEFINE Goal ==
      /\ Started \subseteq Started'
      /\ \A g \in Started : gor'[g].task = gor[g].task
      /\ \A g \in Started : gor[g].pc \in {"sendCrash", "crashed"} => gor'[g].pc \in {"sendCrash", "crashed"}
      /\ \A g \in Started : gor'[g].pc \in {"sendFinish", "finished"} =>
           gor[g].pc \in {"sendFinish", "finished"} \/ ReduceDone(g)
      /\ \A g \in Started : gor'[g].pc \in Early => gor[g].pc \in Early
      /\ \A g \in Started' \ Started : gor'[g].pc \in {"delete", "store"}
<1>wf. DOMAIN gor = Started /\ gor \in Seq(GorRecord)
  BY TypesWellFormed DEF IInv, WellFormed, Types
<1>1. ASSUME gor' = gor PROVE Goal
  BY <1>1 DEF Started
<1>2. ASSUME NEW t \in Task, NEW i \in 1..NumReducer, NEW again \in BOOLEAN, Go(t, i, again) PROVE Goal
  <2>1. /\ Started' = Started \cup {Len(gor) + 1}
        /\ \A h \in Started : gor'[h] = gor[h]
        /\ gor'[Len(gor) + 1].pc \in {"delete", "store"}
    BY <1>wf, <1>2, GoProperties
  <2> QED
    BY <2>1
<1>3. ASSUME Spawn PROVE Goal
  <2>1. Len(retInfo) = NumReducer /\ next \in Task
    BY <1>3 DEF Spawn, IInv, Points, Types, Task
  <2>2. ((next - 1) % Len(retInfo)) + 1 \in 1..NumReducer
    BY <2>1, NumReducerAssumption DEF Task
  <2>3. Go(next, ((next - 1) % Len(retInfo)) + 1, FALSE)
    BY <1>3 DEF Spawn
  <2> HIDE DEF Goal
  <2> QED
    BY <1>2, <2>1, <2>2, <2>3
<1>4. ASSUME Reexecute PROVE Goal
  <2>1. taskStates[crashUUID] # 0
    BY <1>4 DEF Reexecute, Panic
  <2>2. taskStates[crashUUID] \in Task
    BY <2>1 DEF IInv, Types, Task
  <2>3. Go(taskStates[crashUUID], 1, TRUE)
    BY <1>4, <2>1, Zenon DEF Reexecute
  <2>4. 1 \in 1..NumReducer
    BY NumReducerAssumption
  <2> HIDE DEF Goal
  <2> QED
    BY <1>2, <2>2, <2>3, <2>4
<1>5. ASSUME NEW g \in Started, Goroutine(g) PROVE Goal
  <2>0. Moves(g)
    BY <1>5 DEF Goroutine, Moves, IndexPanic, Panic
  <2>1. PICK from \in GorPc, to \in GorPc :
          /\ GoTo(g, from, to)
          /\ to \in {"sendFinish", "finished"} /\ from \notin {"sendFinish", "finished"} <=> ReduceDone(g)
    BY <2>0, MovesProperties DEF IInv
  <2>2. /\ Started' = Started /\ gor[g].pc = from /\ gor'[g].pc = to
        /\ \A h \in Started : gor'[h].task = gor[h].task
        /\ \A h \in Started : h # g => gor'[h] = gor[h]
    BY <1>wf, <2>1, GoToProperties
  <2>3. /\ from \in {"sendCrash", "crashed"} => to \in {"sendCrash", "crashed"}
        /\ to \in Early => from \in Early
    <3>1. CASE ReportCrash(g)
      <4>1. GoTo(g, "sendCrash", "crashed") /\ "crashed" \in GorPc
        BY <3>1 DEF ReportCrash, GorPc
      <4>2. from = "sendCrash" /\ to = "crashed"
        BY <1>wf, <2>2, <4>1, GoToProperties
      <4> QED
        BY <4>2 DEF Early
    <3>2. CASE ~ReportCrash(g)
      <4>1. from \notin {"sendCrash", "crashed"}
        BY <2>0, <2>2, <3>2 DEF Moves, Delete, Store, MarkBusy, Dial, ReduceDone, ReduceFailed, ReportFinish, GoTo
      <4>2. CASE Delete(g) \/ Store(g) \/ MarkBusy(g) \/ Dial(g)
        <5>1. from \in Early
          BY <2>2, <4>2 DEF Delete, Store, MarkBusy, Dial, GoTo, Early
        <5> QED
          BY <4>1, <5>1
      <4>3. CASE ReduceDone(g) \/ ReduceFailed(g) \/ ReportFinish(g)
        <5>1. PICK f \in GorPc, x \in {"sendFinish", "sendCrash", "finished"} : GoTo(g, f, x)
          BY <4>3 DEF ReduceDone, ReduceFailed, ReportFinish, GorPc
        <5>2. x \in GorPc
          BY <5>1 DEF GorPc
        <5>3. to = x
          BY <1>wf, <2>2, <5>1, <5>2, GoToProperties
        <5> QED
          BY <4>1, <5>1, <5>3 DEF Early
      <4> QED
        BY <2>0, <3>2, <4>2, <4>3 DEF Moves
    <3> QED
      BY <3>1, <3>2
  <2> QED
    BY <2>1, <2>2, <2>3
<1>6. gor' = gor \/ Spawn \/ Reexecute \/ \E g \in Started : Goroutine(g)
  BY <1>wf DEF Next, Main, OrDoneStep, Terminated, Acquire, Acquired, StartRange, ReceiveCrash, Return,
               CountFinish, TakeCrash, vars
<1>7. Goal
  <2> HIDE DEF Goal
  <2> QED
    BY <1>1, <1>3, <1>4, <1>5, <1>6
<1>8. pc # "panicked"
  <2>1. ASSUME NEW g \in Started PROVE pc # "panicked"
    BY EmptySeq DEF IInv, Points, Started
  <2> QED
    BY <1>wf, <2>1 DEF Next, Main, OrDoneStep, Terminated, Acquire, Acquired, Spawn, Reexecute, StartRange,
                       ReceiveCrash, Return, CountFinish, TakeCrash, vars
<1> QED
  BY <1>7, <1>8

\* Only the failure of a call makes a goroutine a failed one.
LEMMA FailsOnly ==
  ASSUME IInv, [Next]_vars, pc' # "panicked", \A g \in Started : ~ReduceFailed(g)
  PROVE  \A g \in Started : gor'[g].pc \in {"sendCrash", "crashed"} => gor[g].pc \in {"sendCrash", "crashed"}
<1> DEFINE Goal ==
      \A g \in Started : gor'[g].pc \in {"sendCrash", "crashed"} => gor[g].pc \in {"sendCrash", "crashed"}
<1>wf. DOMAIN gor = Started /\ gor \in Seq(GorRecord)
  BY TypesWellFormed DEF IInv, WellFormed, Types
<1>1. ASSUME \A g \in Started : gor'[g] = gor[g] PROVE Goal
  BY <1>1
<1>2. ASSUME NEW g \in Started, Goroutine(g) PROVE Goal
  <2>0. Moves(g)
    BY <1>2 DEF Goroutine, Moves, IndexPanic, Panic
  <2>1. PICK from \in GorPc, to \in GorPc :
          /\ GoTo(g, from, to)
          /\ to = "crashed" <=> ReportCrash(g)
          /\ to \in {"sendFinish", "finished"} /\ from \notin {"sendFinish", "finished"} <=> ReduceDone(g)
          /\ to \in {"sendFinish", "sendCrash"} <=> ReduceDone(g) \/ ReduceFailed(g)
    BY <2>0, MovesProperties DEF IInv
  <2>2. /\ gor[g].pc = from /\ gor'[g].pc = to
        /\ \A h \in Started : h # g => gor'[h] = gor[h]
    BY <1>wf, <2>1, GoToProperties
  <2>3. to # "sendCrash"
    BY <2>1
  <2>4. to = "crashed" => from = "sendCrash"
    BY <2>1, <2>2 DEF ReportCrash, GoTo
  <2> QED
    BY <2>2, <2>3, <2>4
<1>3. \/ \A g \in Started : gor'[g] = gor[g]
      \/ \E g \in Started : Goroutine(g)
  <2>1. ASSUME NEW t \in Task, NEW i \in 1..NumReducer, NEW again \in BOOLEAN, Go(t, i, again)
        PROVE  \A g \in Started : gor'[g] = gor[g]
    BY <1>wf, <2>1, GoProperties
  <2>2. ASSUME Spawn PROVE \A g \in Started : gor'[g] = gor[g]
    <3>1. Len(retInfo) = NumReducer /\ next \in Task
      BY <2>2 DEF Spawn, IInv, Points, Types, Task
    <3>2. ((next - 1) % Len(retInfo)) + 1 \in 1..NumReducer
      BY <3>1, NumReducerAssumption DEF Task
    <3> QED
      BY <2>1, <2>2, <3>1, <3>2 DEF Spawn
  <2>3. ASSUME Reexecute PROVE \A g \in Started : gor'[g] = gor[g]
    <3>1. taskStates[crashUUID] # 0
      BY <2>3 DEF Reexecute, Panic
    <3>2. taskStates[crashUUID] \in Task /\ 1 \in 1..NumReducer
      BY <3>1, NumReducerAssumption DEF IInv, Types, Task
    <3>3. Go(taskStates[crashUUID], 1, TRUE)
      BY <2>3, <3>1, Zenon DEF Reexecute
    <3> QED
      BY <2>1, <3>2, <3>3
  <2> QED
    BY <1>wf, <2>2, <2>3 DEF Next, Main, OrDoneStep, Terminated, Acquire, Acquired, StartRange, ReceiveCrash,
                             Return, CountFinish, TakeCrash, vars
<1> HIDE DEF Goal
<1>4. Goal
  BY <1>1, <1>2, <1>3
<1> QED
  BY <1>4 DEF Goal

\* No more calls fail than the bound allows, and each goroutine has a number.
LEMMA FailuresNext == ASSUME IInv, FailuresBounded, [Next]_vars PROVE FailuresBounded'
<1>wf. /\ DOMAIN gor = Started /\ gor \in Seq(GorRecord) /\ IsFiniteSet(FailedSet)
       /\ Cardinality(FailedSet) \in Nat /\ Failures = Cardinality(FailedSet)
  <2>1. IsFiniteSet(Started) /\ DOMAIN gor = Started /\ gor \in Seq(GorRecord)
    BY TypesWellFormed, CrashedFinite DEF IInv, WellFormed, Types
  <2>2. FailedSet \subseteq Started
    BY DEF FailedSet
  <2>3. IsFiniteSet(FailedSet)
    BY <2>1, <2>2, FS_Subset
  <2>4. Failures = Cardinality(FailedSet)
    BY <2>1 DEF Failures, FailedSet, Failed
  <2> QED
    BY <2>1, <2>3, <2>4, FS_CardinalityType
<1>1. ASSUME FailedSet' = FailedSet PROVE FailuresBounded'
  BY <1>1 DEF FailuresBounded
<1>2. CASE pc' # "panicked"
  <2>1. CASE \E g \in Started : ReduceFailed(g)
    <3>1. PICK g \in Started : ReduceFailed(g)
      BY <2>1
    <3>2. GoTo(g, "call", "sendCrash") /\ "sendCrash" \in GorPc /\ Failures < MaxFailures
      BY <3>1 DEF ReduceFailed, GorPc
    <3>3. /\ Started' = Started /\ gor[g].pc = "call" /\ gor'[g].pc = "sendCrash"
          /\ \A h \in Started : h # g => gor'[h] = gor[h]
      BY <1>wf, <3>2, GoToProperties
    <3>4. FailedSet' = FailedSet \cup {g} /\ g \notin FailedSet
      BY <3>3 DEF FailedSet, Failed
    <3>5. Cardinality(FailedSet') = Cardinality(FailedSet) + 1
      BY <1>wf, <3>4, FS_AddElement
    <3> QED
      BY <1>wf, <3>2, <3>5, MaxFailuresAssumption DEF FailuresBounded
  <2>2. CASE \A g \in Started : ~ReduceFailed(g)
    <3>1. /\ Started \subseteq Started'
          /\ \A g \in Started : gor[g].pc \in {"sendCrash", "crashed"} => gor'[g].pc \in {"sendCrash", "crashed"}
          /\ \A g \in Started' \ Started : gor'[g].pc \in {"delete", "store"}
      BY <1>2, GorStep
    <3>2. \A g \in Started : gor'[g].pc \in {"sendCrash", "crashed"} => gor[g].pc \in {"sendCrash", "crashed"}
      BY <1>2, <2>2, FailsOnly
    <3>3. FailedSet' = FailedSet
      BY <3>1, <3>2 DEF FailedSet, Failed
    <3> QED
      BY <1>1, <3>3
  <2> QED
    BY <2>1, <2>2
<1>3. CASE pc' = "panicked"
  <2>1. gor' = <<>>
    BY <1>3, TypesNext DEF IInv, Points
  <2>2. FailedSet' = {}
    BY <2>1, EmptySeq DEF FailedSet, Started
  <2>3. Cardinality(FailedSet') = 0
    BY <2>2, FS_EmptySet
  <2> QED
    BY <2>3, MaxFailuresAssumption DEF FailuresBounded
<1> QED
  BY <1>2, <1>3

\* Every goroutine beyond one per task replaces a failed one.
LEMMA StartedBounded == ASSUME IInv, FailuresBounded, pc # "panicked" PROVE Started \subseteq Gid
<1>1. /\ IsFiniteSet(Started) /\ Cardinality(Crashed) \in Nat
      /\ Len(gor) \in Nat /\ Len(crashChan) \in Nat
  BY CrashedFinite, TypesWellFormed DEF IInv, WellFormed
<1>2. One(orState = "deliver") \in Nat /\ One(pc = "reacquire") \in Nat
  BY DEF One
<1>3. Unanswered \in Nat
  BY <1>1, <1>2 DEF Unanswered
<1>4. next \in 1..(NumReducer + 1) /\ Len(gor) + Unanswered = (next - 1) + Cardinality(Crashed)
  BY DEF IInv, Types, Balance
<1>5. Crashed \subseteq FailedSet /\ FailedSet \subseteq Started
  BY DEF Crashed, FailedSet, Failed
<1>6. IsFiniteSet(FailedSet)
  BY <1>1, <1>5, FS_Subset
<1>7. Cardinality(Crashed) <= Cardinality(FailedSet) /\ Cardinality(FailedSet) \in Nat
  BY <1>5, <1>6, FS_Subset, FS_CardinalityType
<1>8. Cardinality(FailedSet) <= MaxFailures
  BY DEF FailuresBounded
<1>9. Len(gor) <= NumReducer + MaxFailures
  BY <1>1, <1>3, <1>4, <1>7, <1>8, NumReducerAssumption, MaxFailuresAssumption
<1> QED
  BY <1>1, <1>9, NumReducerAssumption, MaxFailuresAssumption DEF Started, Gid

StartedIn == Started \subseteq Gid
Going == pc # "panicked"

\* The same as an implication between state predicates, to be used after a step.
LEMMA StartedBoundedIn == IInv /\ FailuresBounded /\ Going => StartedIn
  BY StartedBounded DEF StartedIn, Going

\* If no worker has begun two outputs after a step that undoes no output and no
\* failure, none had before it.
LEMMA OneOutputBefore ==
  ASSUME IInv, IInv', [Next]_vars, pc' # "panicked", OneOutputPerTask',
         \A g \in Started : Writing(g) => Writing(g)' /\ dialed'[g] = dialed[g],
         \A g \in Started : handler[g] = "lost" => handler'[g] = "lost"
  PROVE  OneOutputPerTask
<1>1. DOMAIN gor = Started /\ DOMAIN gor' = Started'
  BY LenProperties DEF IInv, Types, Started
<1>2. /\ Started \subseteq Started'
      /\ \A g \in Started : gor[g].pc \in {"sendCrash", "crashed"} => gor'[g].pc \in {"sendCrash", "crashed"}
  BY GorStep
<1>3. ASSUME NEW g \in Started, NEW h \in Started, Writing(g), Writing(h), dialed[g] = dialed[h] PROVE g = h
  <2>1. Writing(g)' /\ Writing(h)' /\ dialed'[g] = dialed'[h] /\ g \in Started' /\ h \in Started'
    BY <1>2, <1>3
  <2> QED
    BY <1>1, <2>1 DEF OneOutputPerTask, Writing
<1>4. ASSUME NEW g \in Started, Failed(g) PROVE ~Writing(g)
  <2>1. Failed(g)' /\ g \in Started'
    BY <1>2, <1>4 DEF Failed
  <2> QED
    BY <1>1, <2>1 DEF OneOutputPerTask, Writing
<1>5. \A g \in Started : handler[g] # "lost"
  BY <1>1, <1>2 DEF OneOutputPerTask
<1> QED
  BY <1>1, <1>3, <1>4, <1>5 DEF OneOutputPerTask, Writing

\* A step of the master's side: the handlers and the files do not change.
LEMMA MasterJobInv ==
  ASSUME IInv, IInv', JobInv, FailuresBounded', [Next]_vars, UNCHANGED <<handler, out>>, pc' # "panicked",
         \/ dialed' = dialed /\ \A g \in Started : ReduceDone(g) => handler[g] \in {"wrote", "lost"}
         \/ \E g \in Started : Dial(g) /\ dialed' = [dialed EXCEPT ![g] = W(g)]
  PROVE  JobInv'
<1>1. /\ pc # "panicked" /\ Started \subseteq Started'
      /\ \A g \in Started : gor'[g].task = gor[g].task
      /\ \A g \in Started : gor'[g].pc \in {"sendFinish", "finished"} =>
           gor[g].pc \in {"sendFinish", "finished"} \/ ReduceDone(g)
      /\ \A g \in Started : gor'[g].pc \in Early => gor[g].pc \in Early
      /\ \A g \in Started' \ Started : gor'[g].pc \in {"delete", "store"}
  BY GorStep
<1>2. Handlers /\ Outputs /\ JobTypes
  BY <1>1 DEF JobInv
<1>3. Started' \subseteq Gid /\ Started \subseteq Gid
  <2>0. Going'
    BY DEF Going
  <2>1. StartedIn'
    BY <2>0, StartedBoundedIn, PTL
  <2>2. StartedIn
    BY <1>1, StartedBounded DEF JobInv, StartedIn
  <2> QED
    BY <2>1, <2>2 DEF StartedIn, Gid
<1>4. /\ \A g \in Gid \ Started : dialed'[g] = dialed[g]
      /\ \A g \in Started : handler[g] # "none" => dialed'[g] = dialed[g]
      /\ \A g \in Started : gor'[g].pc \in Early => dialed'[g] = dialed[g]
      /\ \A g \in Started : ReduceDone(g) => handler[g] \in {"wrote", "lost"}
      /\ dialed' \in [Gid -> 0..NWorkers]
  <2>1. CASE dialed' = dialed /\ \A g \in Started : ReduceDone(g) => handler[g] \in {"wrote", "lost"}
    BY <1>2, <2>1 DEF JobTypes
  <2>2. CASE \E g \in Started : Dial(g) /\ dialed' = [dialed EXCEPT ![g] = W(g)]
    <3>1. PICK g \in Started : Dial(g) /\ dialed' = [dialed EXCEPT ![g] = W(g)]
      BY <2>2
    <3>2. GoTo(g, "dial", "call") /\ "call" \in GorPc /\ gor \in Seq(GorRecord)
      BY <3>1 DEF Dial, IInv, Types, GorPc
    <3>3. gor[g].pc = "dial" /\ gor'[g].pc = "call" /\ \A h \in Started : h # g => gor'[h] = gor[h]
      BY <3>2, GoToProperties
    <3>4. dialed[g] = 0 /\ handler[g] = "none"
      BY <1>2, <3>3 DEF Handlers, Early
    <3>5. W(g) \in 0..NWorkers
      BY <3>1, WorkerOf, NWorkersAssumption DEF Dial, IInv, Entry
    <3>6. \A h \in Gid : h # g => dialed'[h] = dialed[h]
      BY <1>2, <3>1 DEF JobTypes
    <3>7. dialed' \in [Gid -> 0..NWorkers]
      BY <1>2, <3>1, <3>5 DEF JobTypes
    <3>8. \A h \in Started : ~ReduceDone(h)
      <4> SUFFICES ASSUME NEW h \in Started, ReduceDone(h) PROVE FALSE
        OBVIOUS
      <4>1. GoTo(h, "call", "sendFinish") /\ "sendFinish" \in GorPc
        BY DEF ReduceDone, GorPc
      <4>2. gor[h].pc = "call" /\ gor'[h].pc = "sendFinish"
        BY <3>2, <4>1, GoToProperties
      <4> QED
        BY <3>3, <4>2
    <3>9. g \notin Gid \ Started /\ gor'[g].pc \notin Early
      BY <3>3 DEF Early
    <3> QED
      BY <1>3, <3>4, <3>6, <3>7, <3>8, <3>9
  <2> QED
    BY <2>1, <2>2
<1>5. JobTypes'
  BY <1>2, <1>4 DEF JobTypes
<1>6. /\ \A g \in Gid \ Started : handler[g] = "none" /\ dialed[g] = 0
      /\ \A g \in Started : gor[g].pc \in Early => dialed[g] = 0
      /\ \A g \in Started : handler[g] # "none" => dialed[g] # 0
      /\ \A g \in Started : gor[g].pc \in {"sendFinish", "finished"} => handler[g] \in {"wrote", "lost"}
      /\ \A w \in Entry : out[w].task # 0 => \E g \in Started : handler[g] \in {"writing", "wrote", "lost"} /\ dialed[g] = w
  BY <1>2 DEF Handlers, Succeeded, Writing
<1>7. /\ \A g \in Gid \ Started' : handler'[g] = "none" /\ dialed'[g] = 0
      /\ \A g \in Started' : gor'[g].pc \in Early => dialed'[g] = 0
      /\ \A g \in Started' : handler'[g] # "none" => dialed'[g] # 0
  BY <1>1, <1>3, <1>4, <1>6
<1>8. \A g \in Started' : gor'[g].pc \in {"sendFinish", "finished"} => handler'[g] \in {"wrote", "lost"}
  BY <1>1, <1>4, <1>6
<1>9. \A w \in Entry : out'[w].task # 0 => \E g \in Started' : handler'[g] \in {"writing", "wrote", "lost"} /\ dialed'[g] = w
  BY <1>1, <1>4, <1>6
<1>10. Handlers'
  BY <1>7, <1>8, <1>9 DEF Handlers, Succeeded, Writing
<1>11. Outputs'
  <2> SUFFICES ASSUME OneOutputPerTask', NEW g \in Started', handler[g] \in {"writing", "wrote", "lost"}
               PROVE  /\ out[dialed'[g]].task = gor'[g].task
                      /\ out[dialed'[g]].all = TRUE
                      /\ handler[g] = "wrote" => out[dialed'[g]].whole = TRUE
    BY DEF Outputs, Writing
  <2>1. \A h \in Started : Writing(h) => Writing(h)' /\ dialed'[h] = dialed[h]
    BY <1>4 DEF Writing
  <2>2. OneOutputPerTask
    BY <2>1, OneOutputBefore
  <2>3. g \in Started /\ dialed'[g] = dialed[g] /\ gor'[g].task = gor[g].task
    BY <1>1, <1>3, <1>4, <1>6
  <2> QED
    BY <1>2, <2>2, <2>3 DEF Outputs, Writing
<1> QED
  BY <1>5, <1>10, <1>11 DEF JobInv


\* A step of a handler: the phase does not change, and neither do the entries the
\* attempts called.
LEMMA HandlerJobInv ==
  ASSUME IInv, IInv', JobInv, FailuresBounded', UNCHANGED vars, dialed' = dialed, pc # "panicked",
         NEW g \in Started, StartReduce(g) \/ Fetch(g) \/ WriteOutput(g) \/ OutputLost(g)
  PROVE  JobInv'
<1>1. Handlers /\ Outputs /\ JobTypes /\ g \in Gid /\ gor[g].task \in Task /\ DOMAIN gor = Started
  <2>1. DOMAIN gor = Started /\ gor[g] \in GorRecord
    <3>1. gor \in Seq(GorRecord)
      BY DEF IInv, Types
    <3>2. DOMAIN gor = Started
      BY TypesWellFormed DEF IInv, WellFormed
    <3> QED
      BY <3>1, <3>2, ElementOfSeq DEF Started
  <2>2. Started \subseteq Gid
    BY StartedBounded DEF JobInv
  <2>3. gor[g].task \in Task
    BY <2>1 DEF GorRecord
  <2> QED
    BY <2>1, <2>2, <2>3 DEF JobInv
<1>2. gor' = gor /\ pc' = pc /\ Started' = Started
  BY DEF vars, Started
<1>3. dialed[g] \in Entry
  <2>1. dialed[g] # 0
    BY DEF StartReduce, Fetch, WriteOutput, OutputLost, HandlerTo
  <2>2. dialed[g] \in 0..NWorkers
    BY <1>1 DEF JobTypes
  <2> QED
    BY <2>1, <2>2, NWorkersAssumption DEF Entry
<1>4. PICK to \in {"fetching", "writing", "wrote", "lost"} : handler' = [handler EXCEPT ![g] = to]
  BY DEF StartReduce, Fetch, WriteOutput, OutputLost, HandlerTo
<1>5. handler'[g] = to /\ \A h \in Gid : h # g => handler'[h] = handler[h]
  BY <1>1, <1>4 DEF JobTypes
<1>6. Started \subseteq Gid
  BY StartedBounded DEF JobInv
<1>7. out' \in [Entry -> File]
  <2>1. CASE StartReduce(g)
    BY <1>1, <2>1 DEF StartReduce, JobTypes
  <2>2. CASE Fetch(g)
    <3>1. [task |-> gor[g].task, whole |-> FALSE, all |-> TRUE] \in File
      BY <1>1 DEF File, Task
    <3> QED
      BY <1>1, <1>3, <2>2, <3>1 DEF Fetch, CreateOutput, JobTypes
  <2>3. CASE WriteOutput(g)
    <3>1. (out[dialed[g]].task = gor[g].task) \in BOOLEAN
      OBVIOUS
    <3> DEFINE b == out[dialed[g]].task = gor[g].task
    <3>2. b \in BOOLEAN /\ out' = [out EXCEPT ![dialed[g]] = [out[dialed[g]] EXCEPT !.whole = b]]
      BY <2>3 DEF WriteOutput
    <3> HIDE DEF b
    <3>3. [out[dialed[g]] EXCEPT !.whole = b] \in File
      BY <1>1, <1>3, <3>2 DEF JobTypes, File
    <3> QED
      BY <1>1, <1>3, <3>2, <3>3 DEF JobTypes
  <2>4. CASE OutputLost(g)
    BY <1>1, <2>4 DEF OutputLost, JobTypes
  <2> QED
    BY <2>1, <2>2, <2>3, <2>4
<1>8. JobTypes'
  BY <1>1, <1>4, <1>7 DEF JobTypes
<1>9. \A h \in Started : handler[h] \in {"writing", "wrote", "lost"} => handler'[h] \in {"writing", "wrote", "lost"}
  <2>1. handler[g] \in {"writing", "wrote", "lost"} => to \in {"wrote", "lost"}
    <3>1. CASE StartReduce(g)
      BY <3>1 DEF StartReduce, HandlerTo
    <3>2. CASE Fetch(g)
      BY <3>2 DEF Fetch, HandlerTo
    <3>3. CASE WriteOutput(g)
      <4>1. handler' = [handler EXCEPT ![g] = "wrote"]
        BY <3>3 DEF WriteOutput, HandlerTo
      <4> QED
        BY <1>1, <1>5, <4>1 DEF JobTypes
    <3>4. CASE OutputLost(g)
      <4>1. handler' = [handler EXCEPT ![g] = "lost"]
        BY <3>4 DEF OutputLost, HandlerTo
      <4> QED
        BY <1>1, <1>5, <4>1 DEF JobTypes
    <3> QED
      BY <3>1, <3>2, <3>3, <3>4
  <2> QED
    BY <1>5, <1>6, <2>1
<1>10. handler[g] \notin {"wrote", "lost"}
  BY DEF StartReduce, Fetch, WriteOutput, OutputLost, HandlerTo
<1>11. \A w \in Entry : out'[w].task # 0 => \E h \in Started : handler'[h] \in {"writing", "wrote", "lost"} /\ dialed[h] = w
  <2> SUFFICES ASSUME NEW w \in Entry, out'[w].task # 0
               PROVE  \E h \in Started : handler'[h] \in {"writing", "wrote", "lost"} /\ dialed[h] = w
    OBVIOUS
  <2>1. ASSUME out[w].task # 0 PROVE \E h \in Started : handler'[h] \in {"writing", "wrote", "lost"} /\ dialed[h] = w
    BY <1>1, <1>9, <2>1 DEF Handlers, Writing
  <2>2. CASE StartReduce(g)
    BY <2>1, <2>2 DEF StartReduce
  <2>3. CASE Fetch(g)
    <3>1. handler'[g] = "writing"
      BY <1>1, <2>3 DEF Fetch, HandlerTo, JobTypes
    <3>2. w # dialed[g] => out'[w] = out[w]
      BY <1>1, <2>3 DEF Fetch, CreateOutput, JobTypes
    <3> QED
      BY <2>1, <3>1, <3>2
  <2>4. CASE WriteOutput(g)
    <3>1. out'[w].task = out[w].task
      BY <1>1, <1>3, <2>4 DEF WriteOutput, JobTypes, File
    <3> QED
      BY <2>1, <3>1
  <2>5. CASE OutputLost(g)
    BY <2>1, <2>5 DEF OutputLost
  <2> QED
    BY <2>2, <2>3, <2>4, <2>5
<1>12. Handlers'
  <2>1. /\ \A h \in Gid \ Started : handler'[h] = "none" /\ dialed[h] = 0
        /\ \A h \in Started : handler'[h] # "none" => dialed[h] # 0
        /\ \A h \in Started : gor[h].pc \in {"sendFinish", "finished"} => handler'[h] \in {"wrote", "lost"}
    <3>1. dialed[g] # 0
      BY <1>3 DEF Entry
    <3>2. gor[g].pc \in {"sendFinish", "finished"} => handler[g] \in {"wrote", "lost"}
      BY <1>1 DEF Handlers, Succeeded
    <3> QED
      BY <1>1, <1>5, <1>6, <1>10, <3>1, <3>2 DEF Handlers, Succeeded
  <2> QED
    BY <1>1, <1>2, <1>11, <2>1 DEF Handlers, Succeeded, Writing
<1>13. Outputs'
  <2> SUFFICES ASSUME OneOutputPerTask', NEW h \in Started, handler'[h] \in {"writing", "wrote", "lost"}
               PROVE  /\ out'[dialed[h]].task = gor[h].task
                      /\ out'[dialed[h]].all = TRUE
                      /\ handler'[h] = "wrote" => out'[dialed[h]].whole = TRUE
    BY <1>2 DEF Outputs, Writing
  <2>1. OneOutputPerTask
    <3>1. \A k \in Started : Writing(k) => Writing(k)' /\ dialed'[k] = dialed[k]
      BY <1>9 DEF Writing
    <3>2. [Next]_vars
      OBVIOUS
    <3>3. \A k \in Started : handler[k] = "lost" => handler'[k] = "lost"
      BY <1>5, <1>6, <1>10
    <3> QED
      BY <1>2, <3>1, <3>2, <3>3, OneOutputBefore
  <2>2. h # g /\ handler'[g] \in {"writing", "wrote", "lost"} => dialed[h] # dialed[g]
    BY <1>1, <1>2 DEF OneOutputPerTask, Writing
  <2>3. handler[h] \in {"writing", "wrote", "lost"} =>
          /\ out[dialed[h]].task = gor[h].task
          /\ out[dialed[h]].all = TRUE
          /\ handler[h] = "wrote" => out[dialed[h]].whole = TRUE
    BY <1>1, <2>1 DEF Outputs, Writing
  <2>4. ASSUME h # g PROVE handler[h] \in {"writing", "wrote", "lost"} /\ handler'[h] = handler[h]
    BY <1>5, <1>6, <2>4
  <2>5. CASE StartReduce(g)
    <3>1. out' = out /\ handler'[g] = "fetching"
      BY <1>1, <2>5 DEF StartReduce, HandlerTo, JobTypes
    <3>2. h # g
      BY <3>1
    <3> QED
      BY <2>3, <2>4, <3>1, <3>2
  <2>6. CASE Fetch(g)
    <3>1. /\ handler'[g] = "writing" /\ out'[dialed[g]] = [task |-> gor[g].task, whole |-> FALSE, all |-> TRUE]
          /\ \A w \in Entry : w # dialed[g] => out'[w] = out[w]
      BY <1>1, <1>3, <2>6 DEF Fetch, HandlerTo, CreateOutput, JobTypes
    <3>2. CASE h = g
      BY <3>1, <3>2
    <3>3. CASE h # g
      <4>1. dialed[h] \in Entry /\ dialed[h] # dialed[g]
        BY <1>1, <1>6, <2>2, <2>4, <3>1, <3>3 DEF Handlers, JobTypes, Entry
      <4> QED
        BY <2>3, <2>4, <3>1, <3>3, <4>1
    <3> QED
      BY <3>2, <3>3
  <2>7. CASE WriteOutput(g)
    <3> DEFINE b == out[dialed[g]].task = gor[g].task
    <3>1. handler[g] = "writing" /\ handler'[g] = "wrote"
      BY <1>1, <2>7 DEF WriteOutput, HandlerTo, JobTypes
    <3>2. b = TRUE
      <4>1. out[dialed[g]].task = gor[g].task
        BY <1>1, <2>1, <3>1 DEF Outputs, Writing
      <4> QED
        BY <4>1, Zenon
    <3>3. out' = [out EXCEPT ![dialed[g]] = [out[dialed[g]] EXCEPT !.whole = b]]
      BY <2>7 DEF WriteOutput
    <3>4. out' = [out EXCEPT ![dialed[g]] = [out[dialed[g]] EXCEPT !.whole = TRUE]]
      <4> HIDE DEF b
      <4> QED
        BY <3>2, <3>3
    <3>5. /\ out'[dialed[g]].whole = TRUE /\ out'[dialed[g]].task = out[dialed[g]].task
          /\ out'[dialed[g]].all = out[dialed[g]].all
          /\ \A w \in Entry : w # dialed[g] => out'[w] = out[w]
      BY <1>1, <1>3, <3>4 DEF JobTypes, File
    <3>6. CASE h = g
      BY <2>3, <3>1, <3>5, <3>6
    <3>7. CASE h # g
      <4>1. dialed[h] \in Entry /\ dialed[h] # dialed[g]
        BY <1>1, <1>6, <2>2, <2>4, <3>1, <3>7 DEF Handlers, JobTypes, Entry
      <4> QED
        BY <2>3, <2>4, <3>5, <3>7, <4>1
    <3> QED
      BY <3>6, <3>7
  <2>8. CASE OutputLost(g)
    <3>1. handler'[g] = "lost"
      BY <1>1, <2>8 DEF OutputLost, HandlerTo, JobTypes
    <3> QED
      BY <1>1, <1>2, <3>1 DEF OneOutputPerTask
  <2> QED
    BY <2>5, <2>6, <2>7, <2>8
<1> QED
  BY <1>8, <1>12, <1>13 DEF JobInv


\* A call returns true in a step of its own goroutine only, which it takes from its
\* call to the report of its success.
LEMMA DoneOwn ==
  ASSUME IInv, [Next]_vars, pc' # "panicked", NEW h \in Started, ReduceDone(h)
  PROVE  /\ gor[h].pc = "call" /\ gor'[h].pc = "sendFinish"
         /\ \A g \in Started : Moves(g) => g = h
<1>1. GoTo(h, "call", "sendFinish") /\ "sendFinish" \in GorPc /\ gor \in Seq(GorRecord)
  BY DEF ReduceDone, GorPc, IInv, Types
<1>2. gor[h].pc = "call" /\ gor'[h].pc = "sendFinish"
  BY <1>1, GoToProperties
<1>3. ASSUME NEW g \in Started, Moves(g), g # h PROVE FALSE
  <2>1. PICK from \in GorPc, to \in GorPc : GoTo(g, from, to)
    BY <1>3, MovesProperties DEF IInv
  <2>2. gor'[h] = gor[h]
    BY <1>1, <1>3, <2>1, GoToProperties
  <2> QED
    BY <1>2, <2>2
<1> QED
  BY <1>2, <1>3

\* No call returns in the steps PhaseStep stands for.
LEMMA PhaseStepNoReturn ==
  ASSUME IInv, PhaseStep, pc' # "panicked", NEW h \in Started
  PROVE  ~ReduceDone(h)
<1> SUFFICES ASSUME ReduceDone(h) PROVE FALSE
  OBVIOUS
<1>wf. DOMAIN gor = Started /\ gor \in Seq(GorRecord)
  BY TypesWellFormed DEF IInv, WellFormed, Types
<1>0. [Next]_vars
  BY DEF PhaseStep, Next, Goroutine
<1>1. gor[h].pc = "call" /\ gor'[h].pc = "sendFinish" /\ \A g \in Started : Moves(g) => g = h
  BY <1>0, DoneOwn
<1>2. pc' = pc /\ workers' = workers /\ next' = next /\ UNCHANGED <<orState, counted>>
  BY DEF ReduceDone, orVars
<1>3. ~Spawn /\ ~Reexecute /\ ~Acquired /\ ~StartRange /\ ~ReceiveCrash /\ ~Return
  <2>1. next \in Nat
    BY DEF IInv, Types
  <2>2. ~Spawn
    <3>1. next # next + 1
      BY <2>1
    <3>2. Spawn => next' = next + 1
      BY DEF Spawn
    <3> QED
      BY <1>2, <3>1, <3>2
  <2>3. ~Reexecute
    <3>1. Reexecute => pc = "reacquire" /\ pc' \in {"range", "panicked"}
      BY DEF Reexecute, Panic
    <3> QED
      BY <1>2, <3>1
  <2> QED
    BY <1>2, <2>2, <2>3 DEF Acquired, StartRange, ReceiveCrash, Return
<1>4. gor' # gor
  BY <1>1
<1>5. \E g \in Started : Delete(g) \/ Store(g) \/ MarkBusy(g) \/ ReportFinish(g) \/ ReportCrash(g) \/ IndexPanic(g)
  BY <1>wf, <1>3, <1>4 DEF PhaseStep, Main, OrDoneStep, Terminated, Acquire, CountFinish, TakeCrash, vars
<1>6. PICK g \in Started : Delete(g) \/ Store(g) \/ MarkBusy(g) \/ ReportFinish(g) \/ ReportCrash(g)
  BY <1>5 DEF IndexPanic, Panic
<1>7. g = h
  BY <1>1, <1>6 DEF Moves
<1> QED
  BY <1>1, <1>6, <1>7 DEF Delete, Store, MarkBusy, ReportFinish, ReportCrash, GoTo

\* Nothing is under way and no file is written when the reduce phase begins.
LEMMA JobInvInit == JobInit => JobInv
<1> SUFFICES ASSUME JobInit PROVE JobInv
  OBVIOUS
<1>1. Started = {}
  BY EmptySeq DEF JobInit, Init, Started
<1>2. Cardinality(FailedSet) = 0
  BY <1>1, FS_EmptySet DEF FailedSet
<1>3. FailuresBounded
  BY <1>2, MaxFailuresAssumption DEF FailuresBounded
<1>4. JobTypes
  <2>1. NoFile \in File
    BY NumReducerAssumption DEF NoFile, File
  <2> QED
    BY <2>1, NWorkersAssumption DEF JobInit, JobTypes
<1>5. Handlers
  BY <1>1 DEF JobInit, Handlers, NoFile
<1>6. Outputs
  BY <1>1 DEF Outputs
<1> QED
  BY <1>3, <1>4, <1>5, <1>6 DEF JobInv

\* Every step of the job preserves what is known of handlers and files.
LEMMA JobInvNext == ASSUME IInv, JobInv, [JobNext]_jobVars PROVE IInv' /\ JobInv'
<1>wf. DOMAIN gor = Started
  BY TypesWellFormed DEF IInv, WellFormed
<1>1. [Next]_vars
  BY JobRefinesPhase DEF jobVars
<1>2. IInv'
  BY <1>1, IInvNext
<1>3. FailuresBounded'
  BY <1>1, FailuresNext DEF JobInv
<1>4. CASE pc' # "panicked"
  <2>1. CASE PhaseStep
    <3>1. \A g \in Started : ~ReduceDone(g)
      BY <1>4, <2>1, PhaseStepNoReturn
    <3>2. UNCHANGED <<handler, out>> /\ dialed' = dialed
      BY <2>1 DEF PhaseStep, outside
    <3> QED
      BY <1>1, <1>2, <1>3, <1>4, <3>1, <3>2, MasterJobInv
  <2>2. ASSUME NEW g \in Started, Call(g) PROVE JobInv'
    <3>1. Dial(g) /\ dialed' = [dialed EXCEPT ![g] = W(g)] /\ UNCHANGED <<handler, out>>
      BY <2>2 DEF Call
    <3> QED
      BY <1>1, <1>2, <1>3, <1>4, <3>1, MasterJobInv
  <2>3. ASSUME NEW g \in Started, StartReduce(g) \/ Fetch(g) \/ WriteOutput(g) \/ OutputLost(g) PROVE JobInv'
    <3>1. UNCHANGED vars /\ dialed' = dialed
      BY <2>3 DEF StartReduce, Fetch, WriteOutput, OutputLost
    <3>2. pc # "panicked"
      BY <1>4, <3>1 DEF vars
    <3> QED
      BY <1>2, <1>3, <2>3, <3>1, <3>2, HandlerJobInv
  <2>4. ASSUME UNCHANGED <<vars, dialed, handler, out>> PROVE JobInv'
    <3>1. gor' = gor /\ pc' = pc /\ DOMAIN gor' = DOMAIN gor
      BY <2>4 DEF vars
    <3>2. \A g \in Started : ~ReduceDone(g)
      <4> SUFFICES ASSUME NEW g \in Started, ReduceDone(g) PROVE FALSE
        OBVIOUS
      <4>1. gor[g].pc = "call" /\ gor'[g].pc = "sendFinish"
        BY <1>1, <1>4, DoneOwn
      <4> QED
        BY <3>1, <4>1
    <3> QED
      BY <1>1, <1>2, <1>3, <1>4, <2>4, <3>2, MasterJobInv
  <2>5. ASSUME NEW g \in Started, Answer(g) PROVE JobInv'
    <3>1. handler[g] \in {"wrote", "lost"} /\ Moves(g) /\ UNCHANGED <<handler, out>> /\ dialed' = dialed
      BY <2>5 DEF Answer, outside, Moves
    <3>2. \A h \in Started : ReduceDone(h) => h = g
      BY <1>1, <1>4, <3>1, DoneOwn
    <3>3. \A h \in Started : ReduceDone(h) => handler[h] \in {"wrote", "lost"}
      BY <3>1, <3>2
    <3> QED
      BY <1>1, <1>2, <1>3, <1>4, <3>1, <3>3, MasterJobInv
  <2>6. ASSUME NEW g \in Started, CallFails(g) PROVE JobInv'
    <3>1. ReduceFailed(g) /\ Moves(g) /\ UNCHANGED <<handler, out>> /\ dialed' = dialed
      BY <2>6 DEF CallFails, Moves
    <3>2. GoTo(g, "call", "sendCrash") /\ "sendCrash" \in GorPc /\ gor \in Seq(GorRecord)
      BY <3>1 DEF ReduceFailed, GorPc, IInv, Types
    <3>3. gor'[g].pc = "sendCrash"
      BY <3>2, GoToProperties
    <3>4. \A h \in Started : ~ReduceDone(h)
      <4> SUFFICES ASSUME NEW h \in Started, ReduceDone(h) PROVE FALSE
        OBVIOUS
      <4>1. gor'[h].pc = "sendFinish" /\ g = h
        BY <1>1, <1>4, <3>1, DoneOwn
      <4> QED
        BY <3>3, <4>1
    <3> QED
      BY <1>1, <1>2, <1>3, <1>4, <3>1, <3>4, MasterJobInv
  <2>7. ASSUME NEW g \in Started, FetchPanics(g) PROVE JobInv'
    BY <2>4, <2>7 DEF FetchPanics
  <2>8. ASSUME NEW w \in Entry, Crash(w) PROVE JobInv'
    BY <2>4, <2>8 DEF Crash
  <2>9. ASSUME UNCHANGED jobVars PROVE JobInv'
    BY <2>4, <2>9 DEF jobVars, outside
  <2> QED
    BY <1>wf, <1>2, <2>1, <2>2, <2>3, <2>5, <2>6, <2>7, <2>8, <2>9 DEF JobNext
<1>5. CASE pc' = "panicked"
  <2>1. UNCHANGED <<dialed, handler, out>>
    <3>1. CASE pc = "panicked"
      <4>1. Started = {}
        BY <3>1, EmptySeq DEF IInv, Points, Started
      <4> QED
        BY <1>wf, <4>1 DEF JobNext, PhaseStep, Crash, jobVars, outside
    <3>2. CASE pc # "panicked"
      <4>1. ASSUME NEW g \in Started PROVE ~Call(g) /\ ~StartReduce(g) /\ ~Fetch(g) /\ ~WriteOutput(g) /\ ~OutputLost(g)
        BY <1>5, <3>2 DEF Call, Dial, StartReduce, Fetch, WriteOutput, OutputLost, vars
      <4> QED
        BY <1>wf, <4>1 DEF JobNext, PhaseStep, FetchPanics, Answer, CallFails, Crash, jobVars, outside
    <3> QED
      BY <3>1, <3>2
  <2>2. JobTypes'
    BY <2>1 DEF JobInv, JobTypes
  <2> QED
    BY <1>2, <1>3, <1>5, <2>2 DEF JobInv
<1> QED
  BY <1>2, <1>4, <1>5

\* The reduce phase with its handlers and files keeps both invariants.
THEOREM JobInvariant == JobSpec => [](IInv /\ JobInv)
<1>1. JobInit => IInv /\ JobInv
  BY IInvInit, JobInvInit DEF JobInit
<1>2. IInv /\ JobInv /\ [JobNext]_jobVars => IInv' /\ JobInv'
  BY JobInvNext
<1> QED
  BY <1>1, <1>2, PTL DEF JobSpec

\* What is known at the return gives the files of the job.
LEMMA JobInvOutputs == IInv /\ JobInv => OutputsComplete
<1> SUFFICES ASSUME IInv, JobInv, pc = "done", Undisturbed, OneOutputPerTask, NEW t \in Task
             PROVE  \E w \in Entry :
                      /\ out[w] = [task |-> t, whole |-> TRUE, all |-> TRUE]
                      /\ \A v \in Entry : out[v].task = t => v = w
  BY DEF OutputsComplete
<1>1. Handlers /\ Outputs /\ JobTypes /\ orState = "closed" /\ DOMAIN gor = Started
  BY TypesWellFormed DEF JobInv, IInv, Points, WellFormed
<1>2. PICK g \in Started : gor[g].task = t /\ gor[g].pc = "finished"
  BY <1>1, AllSucceeded
<1>3. handler[g] = "wrote" /\ g \in Gid
  BY <1>1, <1>2, StartedBounded DEF Handlers, Succeeded, JobInv, OneOutputPerTask
<1>4. dialed[g] \in Entry
  <2>1. dialed[g] # 0 /\ dialed[g] \in 0..NWorkers
    BY <1>1, <1>3 DEF Handlers, JobTypes
  <2> QED
    BY <2>1, NWorkersAssumption DEF Entry
<1>5. out[dialed[g]] = [task |-> t, whole |-> TRUE, all |-> TRUE]
  <2>1. out[dialed[g]].task = t /\ out[dialed[g]].all = TRUE /\ out[dialed[g]].whole = TRUE
    BY <1>1, <1>2, <1>3 DEF Outputs, Writing
  <2>2. out[dialed[g]] \in File
    BY <1>1, <1>4 DEF JobTypes
  <2> QED
    BY <2>1, <2>2 DEF File
<1>6. ASSUME NEW v \in Entry, out[v].task = t PROVE v = dialed[g]
  <2>1. PICK h \in Started : Writing(h) /\ dialed[h] = v
    BY <1>1, <1>6 DEF Handlers, Task
  <2>2. gor[h].task = t
    BY <1>1, <1>6, <2>1 DEF Outputs
  <2>3. gor[h].pc # "crashed"
    BY <1>1, <2>1 DEF OneOutputPerTask, Failed, Writing
  <2>4. h = g
    BY <1>2, <2>2, <2>3, TaskOwnedOnce
  <2> QED
    BY <2>1, <2>4
<1> QED
  BY <1>4, <1>5, <1>6

\* At the return of an undisturbed phase every task has one complete mr-out file,
\* computed from the files of all holders, whichever workers died and whichever
\* calls failed meanwhile, as long as no worker wrote twice, no failed call wrote
\* and no write failed.
THEOREM OutputsCompleteHolds == JobSpec => []OutputsComplete
  BY JobInvariant, JobInvOutputs, PTL

=============================================================================
