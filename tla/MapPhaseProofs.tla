--------------------------- MODULE MapPhaseProofs ---------------------------
(***************************************************************************)
(* Proofs about MapPhase and MapJob, for any number of workers, any number *)
(* of map tasks, any channel capacity and, where it is said, unique UUIDs. *)
(***************************************************************************)
EXTENDS MapJob, SequenceTheorems, FiniteSetTheorems, TLAPS

-----------------------------------------------------------------------------
(* What the two ways of changing gor do.                                   *)

\* A step of goroutine g changes its program counter and nothing else in gor.
LEMMA GoToProperties ==
  ASSUME gor \in Seq(GorRecord), NEW g \in 1..Len(gor),
         NEW from, NEW to \in GorPc, GoTo(g, from, to)
  PROVE  /\ gor' \in Seq(GorRecord)
         /\ Len(gor') = Len(gor)
         /\ gor[g].pc = from
         /\ gor'[g].pc = to /\ gor'[g].task = gor[g].task /\ gor'[g].w = gor[g].w
         /\ \A h \in 1..Len(gor) : h # g => gor'[h] = gor[h]
<1> DEFINE r == [gor[g] EXCEPT !.pc = to]
<1>1. gor[g] \in GorRecord
  BY ElementOfSeq
<1>2. r \in GorRecord /\ r.pc = to /\ r.task = gor[g].task /\ r.w = gor[g].w
  BY <1>1 DEF GorRecord
<1>3. gor' = [gor EXCEPT ![g] = r]
  BY DEF GoTo
<1>4. /\ [gor EXCEPT ![g] = r] \in Seq(GorRecord)
      /\ Len([gor EXCEPT ![g] = r]) = Len(gor)
      /\ \A j \in 1..Len(gor) : [gor EXCEPT ![g] = r][j] = IF j = g THEN r ELSE gor[j]
  <2> HIDE DEF r
  <2> QED BY <1>2, ExceptSeq
<1> HIDE DEF r
<1> QED
  BY <1>2, <1>3, <1>4 DEF GoTo

\* A go statement adds one goroutine, which starts by storing its task.
LEMMA GoProperties ==
  ASSUME gor \in Seq(GorRecord), NEW t \in Task, NEW w \in Entry, Go(t, w)
  PROVE  /\ gor' \in Seq(GorRecord)
         /\ Len(gor') = Len(gor) + 1
         /\ \A h \in 1..Len(gor) : gor'[h] = gor[h]
         /\ LET n == Len(gor) + 1
            IN  gor'[n].pc = "store" /\ gor'[n].task = t /\ gor'[n].w = w
<1> DEFINE r == [task |-> t, w |-> w, pc |-> "store"]
<1>1. r \in GorRecord /\ r.pc = "store" /\ r.task = t /\ r.w = w
  BY DEF GorRecord, GorPc
<1>2. gor' = Append(gor, r)
  BY DEF Go
<1> HIDE DEF r
<1> QED
  BY <1>1, <1>2, AppendProperties

-----------------------------------------------------------------------------
(* Type correctness.                                                       *)

TypeInv == TypeOK /\ PoolSize

\* Initially every variable has its type.
LEMMA TypeInit == Init => TypeInv
<1> SUFFICES ASSUME Init PROVE TypeInv
  OBVIOUS
<1> USE NWorkersAssumption, TotalWorkersAssumption DEF Entry
<1>1. retInfo \in Seq(Entry) /\ crashChan \in Seq(Entry) /\ gor \in Seq(GorRecord)
      /\ Len(retInfo) = 0
  BY EmptySeq DEF Init
<1>2. 1 \in Entry /\ TotalWorkers \in Nat
  OBVIOUS
<1> QED
  BY <1>1, <1>2 DEF Init, TypeInv, TypeOK, PoolTypeOK, PoolSize, WorkerStates

\* Every step keeps the types and the sizes availableWorkers works with.
LEMMA TypeNext == TypeInv /\ [Next]_vars => TypeInv'
<1> SUFFICES ASSUME TypeInv, [Next]_vars PROVE TypeInv'
  OBVIOUS
<1> USE NWorkersAssumption, TotalWorkersAssumption, UuidAssumption
<1> USE DEF TypeInv, TypeOK, PoolTypeOK
<1>0. Len(retInfo) \in Nat /\ Len(gor) \in Nat /\ \A k \in 1..Len(retInfo) : retInfo[k] \in Entry
  BY LenProperties, ElementOfSeq
<1>1. CASE Acquire
  <2>0. scan \in Entry
    OBVIOUS
  <2>1. CASE workerState[scan] = "IDLE"
    <3>1. retInfo' = Append(retInfo, scan) /\ workerState' = [workerState EXCEPT ![scan] = "BUSY"]
      BY <1>1, <2>1 DEF Acquire, ScanEntry, SetState
    <3>2. retInfo' \in Seq(Entry) /\ Len(retInfo') = Len(retInfo) + 1
      BY <2>0, <3>1, AppendProperties
    <3>3. workerState' \in [Entry -> WorkerStates]
      BY <3>1 DEF WorkerStates
    <3>4. scan' \in Entry
      BY <1>1 DEF Acquire, ScanEntry, Entry
    <3>5. PoolSize'
      BY <1>0, <1>1, <3>2 DEF Acquire, ScanEntry, PoolSize
    <3> QED
      BY <1>1, <3>2, <3>3, <3>4, <3>5 DEF Acquire, ScanEntry, orVars
  <2>2. CASE workerState[scan] # "IDLE"
    <3>1. UNCHANGED <<retInfo, workerState>>
      BY <1>1, <2>2 DEF Acquire, ScanEntry
    <3>2. scan' \in Entry
      BY <1>1 DEF Acquire, ScanEntry, Entry
    <3> QED
      BY <1>1, <3>1, <3>2 DEF Acquire, ScanEntry, orVars, PoolSize
  <2> QED
    BY <2>1, <2>2
<1>2. CASE Acquired
  BY <1>0, <1>2 DEF Acquired, Enough, poolVars, orVars, PoolSize
<1>3. CASE Spawn
  <2>1. Len(retInfo) = TotalWorkers /\ ((next - 1) % Len(retInfo)) + 1 \in 1..Len(retInfo)
    BY <1>3 DEF Spawn, PoolSize
  <2>2. next \in Task /\ retInfo[((next - 1) % Len(retInfo)) + 1] \in Entry
    BY <1>0, <1>3, <2>1 DEF Spawn, Task
  <2>3. gor' \in Seq(GorRecord) /\ Len(gor') = Len(gor) + 1
    BY <1>3, <2>2, GoProperties DEF Spawn
  <2>4. finish' \in SUBSET (1..Len(gor')) /\ counted' \in SUBSET (1..Len(gor'))
    <3>1. finish' = finish /\ counted' = counted
      BY <1>3 DEF Spawn, orVars
    <3>2. finish \in SUBSET (1..Len(gor)) /\ counted \in SUBSET (1..Len(gor)) /\ Len(gor) \in Nat
      BY <1>0
    <3>3. 1..Len(gor) \subseteq 1..Len(gor')
      BY <2>3, <3>2
    <3> QED
      BY <3>1, <3>2, <3>3
  <2> QED
    BY <1>3, <2>3, <2>4 DEF Spawn, poolVars, orVars, PoolSize
<1>4. CASE StartRange
  BY <1>4 DEF StartRange, StartOrDone, poolVars, PoolSize
<1>5. CASE ReceiveCrash
  <2>1. retInfo' \in Seq(Entry) /\ Len(retInfo') = 0 /\ 1 \in Entry
    BY <1>5, EmptySeq DEF ReceiveCrash, Request, Entry
  <2> QED
    BY <1>5, <2>1 DEF ReceiveCrash, Request, Deliver, PoolSize
<1>6. CASE PutBack
  <2>1. crashChan' \in Seq(Entry)
    BY <1>6, AppendProperties DEF PutBack, SendCrash
  <2> QED
    BY <1>6, <2>1 DEF PutBack, poolVars, PoolSize
<1>7. CASE Reexecute
  <2>1. retInfo[1] \in Entry
    BY <1>0, <1>7 DEF Reexecute, Enough, PoolSize
  <2>2. CASE taskStates[crashUUID] # 0
    <3>1. taskStates[crashUUID] \in Task
      BY <2>2 DEF Task
    <3>2. gor' \in Seq(GorRecord) /\ Len(gor') = Len(gor) + 1
      BY <1>7, <2>1, <2>2, <3>1, GoProperties DEF Reexecute
    <3>3. finish' \in SUBSET (1..Len(gor')) /\ counted' \in SUBSET (1..Len(gor'))
      BY <1>0, <1>7, <3>2 DEF Reexecute, orVars
    <3> QED
      BY <1>7, <3>2, <3>3 DEF Reexecute, poolVars, orVars, PoolSize
  <2>3. CASE taskStates[crashUUID] = 0
    BY <1>7, <2>3 DEF Reexecute, poolVars, orVars, PoolSize
  <2> QED
    BY <2>2, <2>3
<1>8. CASE Return
  BY <1>8 DEF Return, poolVars, orVars, PoolSize
<1>9. CASE CountFinish
  BY <1>9 DEF CountFinish, OrDoneFinish, poolVars, PoolSize
<1>10. CASE TakeCrash
  <2>1. Head(crashChan) \in Entry /\ Tail(crashChan) \in Seq(Entry)
    BY <1>10, HeadTailProperties DEF TakeCrash, OrDoneCrash
  <2> QED
    BY <1>10, <2>1 DEF TakeCrash, OrDoneCrash, poolVars, PoolSize
<1>11. ASSUME NEW g \in DOMAIN gor, Goroutine(g) PROVE TypeInv'
  <2>0. g \in 1..Len(gor) /\ gor[g] \in GorRecord
    BY LenProperties, ElementOfSeq
  <2>1. gor[g].w \in Entry /\ gor[g].task \in Task /\ Uuid[gor[g].w] \in Entry
    BY <2>0 DEF GorRecord
  <2>2. CASE Store(g)
    <3>1. gor' \in Seq(GorRecord) /\ Len(gor') = Len(gor)
      BY <2>0, <2>2, GoToProperties DEF Store, GorPc
    <3>2. taskStates' \in [Entry -> 0..TotalWorkers]
      BY <2>1, <2>2 DEF Store, Task
    <3> QED
      BY <2>2, <3>1, <3>2 DEF Store, poolVars, orVars, PoolSize
  <2>3. CASE MapDone(g)
    <3>1. gor' \in Seq(GorRecord) /\ Len(gor') = Len(gor)
      BY <2>0, <2>3, GoToProperties DEF MapDone, GorPc
    <3>2. workerState' \in [Entry -> WorkerStates]
      BY <2>1, <2>3 DEF MapDone, SetState, WorkerStates
    <3> QED
      BY <2>3, <3>1, <3>2 DEF MapDone, orVars, PoolSize
  <2>4. CASE MapFailed(g)
    <3>1. gor' \in Seq(GorRecord) /\ Len(gor') = Len(gor)
      BY <2>0, <2>4, GoToProperties DEF MapFailed, GorPc
    <3>2. workerState' \in [Entry -> WorkerStates]
      BY <2>1, <2>4 DEF MapFailed, SetState, WorkerStates
    <3> QED
      BY <2>4, <3>1, <3>2 DEF MapFailed, orVars, PoolSize
  <2>5. CASE ReportFinish(g)
    <3>1. gor' \in Seq(GorRecord) /\ Len(gor') = Len(gor)
      BY <2>0, <2>5, GoToProperties DEF ReportFinish, GorPc
    <3> QED
      BY <2>0, <2>5, <3>1 DEF ReportFinish, SendFinish, poolVars, PoolSize
  <2>6. CASE ReportCrash(g)
    <3>1. gor' \in Seq(GorRecord) /\ Len(gor') = Len(gor)
      BY <2>0, <2>6, GoToProperties DEF ReportCrash, GorPc
    <3>2. crashChan' \in Seq(Entry)
      BY <2>1, <2>6, AppendProperties DEF ReportCrash, SendCrash
    <3> QED
      BY <2>6, <3>1, <3>2 DEF ReportCrash, poolVars, PoolSize
  <2> QED
    BY <1>11, <2>2, <2>3, <2>4, <2>5, <2>6 DEF Goroutine
<1>12. CASE UNCHANGED vars
  BY <1>12 DEF vars, poolVars, orVars, PoolSize
<1> QED
  BY <1>1, <1>2, <1>3, <1>4, <1>5, <1>6, <1>7, <1>8, <1>9, <1>10, <1>11, <1>12
     DEF Next, Main, OrDoneStep, Terminated

\* Every reachable state of the map phase is well typed, whatever the UUIDs; in
\* particular the indexings of retInfo in Spawn and Reexecute are in range.
THEOREM TypeCorrect == Spec => []TypeOK
<1>1. TypeInv => TypeOK
  BY DEF TypeInv
<1> QED
  BY <1>1, TypeInit, TypeNext, PTL DEF Spec

-----------------------------------------------------------------------------
(* The inductive invariant.                                                *)

\* The parts of IInv beside the types.
Safety ==
  /\ SpawnOrder
  /\ Taken
  /\ Users
  /\ BusyAccounted
  /\ Remembered
  /\ FailedOnce
  /\ CrashesPendingOnce
  /\ FinishesCounted
  /\ TaskOwnedOnce

\* The invariant holds initially.
LEMMA SafetyInit == Init => Safety
<1> SUFFICES ASSUME Init PROVE Safety
  OBVIOUS
<1>1. Len(retInfo) = 0 /\ Len(gor) = 0 /\ Len(crashChan) = 0
  BY EmptySeq DEF Init
<1>2. SpawnOrder /\ Taken /\ Users /\ Remembered /\ FailedOnce /\ TaskOwnedOnce
  BY <1>1 DEF Init, SpawnOrder, Taken, Users, Remembered, FailedOnce, TaskOwnedOnce
<1>3. BusyAccounted
  BY DEF Init, BusyAccounted
<1>4. CrashesPendingOnce /\ FinishesCounted
  BY <1>1 DEF Init, CrashesPendingOnce, FinishesCounted, Pending, InChan
<1> QED
  BY <1>2, <1>3, <1>4 DEF Safety

\* What the types say of the elements of the sequences.
WellFormed ==
  /\ Len(retInfo) \in Nat /\ Len(gor) \in Nat /\ Len(crashChan) \in Nat
  /\ DOMAIN gor = 1..Len(gor)
  /\ \A k \in 1..Len(retInfo) : retInfo[k] \in Entry
  /\ \A k \in 1..Len(crashChan) : crashChan[k] \in Entry
  /\ \A g \in 1..Len(gor) :
       gor[g].task \in Task /\ gor[g].w \in Entry /\ Uuid[gor[g].w] \in Entry

\* Where an element of a sequence was before the first one was taken off.
LEMMA Shifted == ASSUME NEW n \in Nat, NEW m, m = n - 1, NEW k \in 1..m PROVE k + 1 \in 1..n
  OBVIOUS

\* The sequences of a well-typed state are well formed.
LEMMA TypesWellFormed == TypeInv => WellFormed
<1> SUFFICES ASSUME TypeInv PROVE WellFormed
  OBVIOUS
<1>1. \A g \in 1..Len(gor) : gor[g] \in GorRecord
  BY ElementOfSeq DEF TypeInv, TypeOK
<1> QED
  BY <1>1, UuidAssumption, LenProperties, ElementOfSeq
     DEF TypeInv, TypeOK, PoolTypeOK, GorRecord, WellFormed

\* A step that leaves the goroutines and the set of pending crashes alone keeps
\* every task where it is.
LEMMA SamePending ==
  ASSUME Safety, UNCHANGED gor, \A u : Pending(u)' <=> Pending(u)
  PROVE  /\ TaskOwnedOnce'
         /\ \A u \in Entry : Pending(u)' =>
              \E g \in 1..Len(gor') : gor'[g].pc = "crashed" /\ Uuid[gor'[g].w] = u
<1>1. TaskOwnedOnce'
  BY DEF Safety, TaskOwnedOnce, Owner
<1>2. \A u \in Entry : Pending(u)' =>
        \E g \in 1..Len(gor') : gor'[g].pc = "crashed" /\ Uuid[gor'[g].w] = u
  BY DEF Safety, CrashesPendingOnce
<1> QED
  BY <1>1, <1>2

\* availableWorkers takes an idle entry, which is no one else's.
LEMMA SafetyAcquire == TypeInv /\ Safety /\ Acquire => Safety'
<1> SUFFICES ASSUME TypeInv, Safety, Acquire PROVE Safety'
  OBVIOUS
<1>wf. WellFormed
  BY TypesWellFormed
<1> USE <1>wf DEF WellFormed, Safety
<1>1. UNCHANGED <<orVars, pc, next, gor, taskStates, crashUUID>>
  BY DEF Acquire
<1>2. scan \in Entry /\ workerState \in [Entry -> WorkerStates]
  BY DEF TypeInv, TypeOK, PoolTypeOK
<1>3. SpawnOrder' /\ Remembered' /\ CrashesPendingOnce' /\ FinishesCounted' /\ TaskOwnedOnce'
  <2>1. \A u : Pending(u)' <=> Pending(u)
    BY <1>1 DEF Pending, InChan, orVars
  <2>2. CrashesPendingOnce' /\ TaskOwnedOnce'
    BY <1>1, <2>1, SamePending DEF CrashesPendingOnce, InChan, orVars
  <2>3. SpawnOrder' /\ Remembered' /\ FinishesCounted'
    BY <1>1 DEF SpawnOrder, Remembered, Failed, FinishesCounted, orVars
  <2> QED
    BY <2>2, <2>3
<1>4. CASE workerState[scan] = "IDLE"
  <2>1. /\ workerState' = [workerState EXCEPT ![scan] = "BUSY"]
        /\ retInfo' = Append(retInfo, scan)
    BY <1>4 DEF Acquire, ScanEntry, SetState
  <2>2. /\ Len(retInfo') = Len(retInfo) + 1
        /\ \A k \in 1..Len(retInfo) : retInfo'[k] = retInfo[k]
        /\ retInfo'[Len(retInfo) + 1] = scan
    BY <1>2, <2>1, AppendProperties DEF TypeInv, TypeOK, PoolTypeOK
  <2>3. Taken'
    BY <1>1, <1>2, <1>4, <2>1, <2>2 DEF Taken, Users, Using, Unassigned, Acquire
  <2>4. Users' /\ FailedOnce'
    BY <1>1, <1>2, <1>4, <2>1 DEF Users, FailedOnce, Using, Failed
  <2>5. BusyAccounted'
    BY <1>1, <1>2, <2>1, <2>2 DEF BusyAccounted, Using, Unassigned, Acquire
  <2> QED
    BY <1>3, <2>3, <2>4, <2>5
<1>5. CASE workerState[scan] # "IDLE"
  <2>1. UNCHANGED <<workerState, retInfo>>
    BY <1>5 DEF Acquire, ScanEntry
  <2>2. Taken' /\ Users' /\ FailedOnce'
    BY <1>1, <2>1 DEF Taken, Users, FailedOnce, Using, Failed, Unassigned
  <2>3. BusyAccounted'
    BY <1>1, <2>1 DEF BusyAccounted, Using, Unassigned
  <2> QED
    BY <1>3, <2>2, <2>3
<1> QED
  BY <1>4, <1>5

\* The steps of the phase that change neither the pool nor the goroutines.
LEMMA SafetyMain ==
  ASSUME UniqueUuid, TypeInv, Safety,
         Acquired \/ StartRange \/ ReceiveCrash \/ PutBack \/ Return
  PROVE  Safety'
<1>wf. WellFormed
  BY TypesWellFormed
<1> USE <1>wf DEF WellFormed, Safety
<1>1. CASE Acquired
  <2>1. UNCHANGED <<poolVars, orVars, next, gor, taskStates, crashUUID>> /\ pc' = "spawn" /\ pc = "acquire"
    BY <1>1 DEF Acquired
  <2>2. SpawnOrder' /\ Remembered' /\ FinishesCounted' /\ Users' /\ FailedOnce'
    BY <2>1 DEF SpawnOrder, Remembered, Failed, FinishesCounted, Users, FailedOnce, Using, orVars, poolVars
  <2>3. CrashesPendingOnce' /\ TaskOwnedOnce'
    <3>1. \A u : Pending(u)' <=> Pending(u)
      BY <2>1 DEF Pending, InChan, orVars
    <3> QED
      BY <2>1, <3>1, SamePending DEF CrashesPendingOnce, InChan, orVars
  <2>4. Taken' /\ BusyAccounted'
    BY <2>1 DEF Taken, BusyAccounted, Using, Unassigned, poolVars, SpawnOrder
  <2> QED
    BY <2>2, <2>3, <2>4
<1>2. CASE StartRange
  <2>1. /\ UNCHANGED <<poolVars, finish, crashChan, counted, held, next, gor, taskStates, crashUUID>>
        /\ pc = "spawn" /\ pc' = "range" /\ orState = "off" /\ orState' = "select"
        /\ next > TotalWorkers
    BY <1>2 DEF StartRange, StartOrDone
  <2>2. SpawnOrder' /\ Remembered' /\ FinishesCounted' /\ Users' /\ FailedOnce'
    BY <2>1 DEF SpawnOrder, Remembered, Failed, FinishesCounted, Users, FailedOnce, Using, poolVars
  <2>3. CrashesPendingOnce' /\ TaskOwnedOnce'
    <3>1. \A u : Pending(u)' <=> Pending(u)
      BY <2>1 DEF Pending, InChan
    <3> QED
      BY <2>1, <3>1, SamePending DEF CrashesPendingOnce, InChan
  <2>4. \A k \in 1..Len(retInfo) : ~Unassigned(k)
    BY <2>1, TotalWorkersAssumption DEF Unassigned, TypeInv, TypeOK, PoolSize
  <2>5. Taken' /\ BusyAccounted'
    BY <2>1, <2>4 DEF Taken, BusyAccounted, Using, Unassigned, poolVars
  <2> QED
    BY <2>2, <2>3, <2>5
<1>3. CASE ReceiveCrash
  <2>1. /\ UNCHANGED <<workerState, finish, crashChan, counted, held, next, gor, taskStates>>
        /\ pc = "range" /\ pc' = "reacquire" /\ orState = "deliver" /\ orState' = "select"
        /\ crashUUID' = held /\ retInfo' = <<>>
    BY <1>3 DEF ReceiveCrash, Deliver, Request
  <2>2. SpawnOrder' /\ Remembered' /\ FinishesCounted' /\ Users' /\ FailedOnce'
    BY <2>1 DEF SpawnOrder, Remembered, Failed, FinishesCounted, Users, FailedOnce, Using
  <2>3. \A u : Pending(u)' <=> Pending(u)
    BY <2>1 DEF Pending, InChan
  <2>4. CrashesPendingOnce' /\ TaskOwnedOnce'
    BY <2>1, <2>3, SamePending DEF CrashesPendingOnce, InChan
  <2>6. Len(retInfo') = 0
    BY <2>1, EmptySeq
  <2>7. Taken' /\ BusyAccounted'
    BY <2>1, <2>6 DEF Taken, BusyAccounted, Using, Unassigned
  <2> QED
    BY <2>2, <2>4, <2>7
<1>4. CASE PutBack
  \* The crashed worker is unknown and the one just taken is busy.
  <2>1. /\ pc = "reacquire" /\ 1 \in 1..Len(retInfo)
        /\ Uuid[retInfo[1]] = crashUUID /\ crashUUID \in Entry
    BY <1>4 DEF PutBack, Enough, TypeInv, TypeOK, PoolSize
  <2>2. PICK g \in 1..Len(gor) : gor[g].pc = "crashed" /\ Uuid[gor[g].w] = crashUUID
    BY <2>1 DEF CrashesPendingOnce, Pending
  <2>3. gor[g].w = retInfo[1]
    BY <2>1, <2>2, UniqueUuid DEF UniqueUuid
  <2>4. workerState[retInfo[1]] = "UNKNOWN" /\ workerState[retInfo[1]] = "BUSY"
    BY <2>1, <2>2, <2>3 DEF FailedOnce, Failed, Taken, Unassigned
  <2> QED
    BY <2>4
<1>5. CASE Return
  <2>1. /\ UNCHANGED <<poolVars, orVars, next, gor, taskStates, crashUUID>>
        /\ pc = "range" /\ pc' = "done" /\ orState = "closed"
    BY <1>5 DEF Return
  <2>2. SpawnOrder' /\ Remembered' /\ FinishesCounted' /\ Users' /\ FailedOnce'
    BY <2>1 DEF SpawnOrder, Remembered, Failed, FinishesCounted, Users, FailedOnce, Using, orVars, poolVars
  <2>3. CrashesPendingOnce' /\ TaskOwnedOnce'
    <3>1. \A u : Pending(u)' <=> Pending(u)
      BY <2>1 DEF Pending, InChan, orVars
    <3> QED
      BY <2>1, <3>1, SamePending DEF CrashesPendingOnce, InChan, orVars
  <2>4. Taken' /\ BusyAccounted'
    BY <2>1 DEF Taken, BusyAccounted, Using, Unassigned, poolVars
  <2> QED
    BY <2>2, <2>3, <2>4
<1> QED
  BY <1>1, <1>2, <1>3, <1>4, <1>5

\* The steps of orDone.
LEMMA SafetyOrDone == TypeInv /\ Safety /\ OrDoneStep => Safety'
<1> SUFFICES ASSUME TypeInv, Safety, OrDoneStep PROVE Safety'
  OBVIOUS
<1>wf. WellFormed
  BY TypesWellFormed
<1> USE <1>wf DEF WellFormed, Safety
<1>1. UNCHANGED <<poolVars, pc, next, gor, taskStates, crashUUID>>
  BY DEF OrDoneStep, CountFinish, TakeCrash
<1>2. SpawnOrder' /\ Remembered' /\ Users' /\ FailedOnce' /\ Taken' /\ BusyAccounted'
  BY <1>1 DEF SpawnOrder, Remembered, Failed, Users, FailedOnce, Using, Taken, BusyAccounted,
              Unassigned, poolVars
<1>3. CASE CountFinish
  <2>1. /\ UNCHANGED <<crashChan, held>> /\ orState = "select" /\ orState' \in {"select", "closed"}
        /\ orState' = "closed" => Cardinality(counted') = TotalWorkers
    BY <1>3 DEF CountFinish, OrDoneFinish
  <2>2. PICK g \in finish : finish' = finish \ {g} /\ counted' = counted \cup {g}
    BY <1>3 DEF CountFinish, OrDoneFinish
  <2>3. CrashesPendingOnce' /\ TaskOwnedOnce'
    <3>1. \A u : Pending(u)' <=> Pending(u)
      BY <1>1, <2>1 DEF Pending, InChan
    <3> QED
      BY <1>1, <2>1, <3>1, SamePending DEF CrashesPendingOnce, InChan
  <2>4. finish' \cup counted' = finish \cup counted /\ finish' \cap counted' = {}
    BY <2>2 DEF FinishesCounted
  <2>5. FinishesCounted'
    BY <1>1, <2>1, <2>4 DEF FinishesCounted
  <2> QED
    BY <1>2, <2>3, <2>5
<1>4. CASE TakeCrash
  <2>1. /\ UNCHANGED <<finish, counted>> /\ orState = "select" /\ orState' = "deliver"
        /\ held' = Head(crashChan) /\ crashChan' = Tail(crashChan) /\ crashChan # <<>>
    BY <1>4 DEF TakeCrash, OrDoneCrash
  <2>2. /\ Len(crashChan) >= 1 /\ Head(crashChan) = crashChan[1]
        /\ Len(crashChan') = Len(crashChan) - 1
        /\ \A k \in 1..Len(crashChan') : crashChan'[k] = crashChan[k + 1]
    BY <2>1, HeadTailProperties, EmptySeq DEF TypeInv, TypeOK
  <2>3. \A u : InChan(u) <=> InChan(u)' \/ u = held'
    <3>1. ASSUME NEW u, InChan(u) PROVE InChan(u)' \/ u = held'
      <4>1. PICK k \in 1..Len(crashChan) : crashChan[k] = u
        BY <3>1 DEF InChan
      <4>2. CASE k = 1
        BY <2>1, <2>2, <4>1, <4>2
      <4>3. CASE k # 1
        <5>1. k - 1 \in 1..Len(crashChan') /\ crashChan'[k - 1] = u
          BY <2>2, <4>1, <4>3
        <5> QED
          BY <5>1 DEF InChan
      <4> QED
        BY <4>2, <4>3
    <3>2. ASSUME NEW u, InChan(u)' PROVE InChan(u)
      BY <2>2, <3>2 DEF InChan
    <3>3. InChan(held')
      BY <2>1, <2>2 DEF InChan
    <3> QED
      BY <3>1, <3>2, <3>3
  <2>4. ~InChan(held)'
    BY <2>1, <2>2 DEF InChan, CrashesPendingOnce
  <2>5. \A u : Pending(u)' <=> Pending(u)
    BY <1>1, <2>1, <2>3 DEF Pending
  <2>6. CrashesPendingOnce'
    <3>2. \A k, l \in 1..Len(crashChan') : crashChan'[k] = crashChan'[l] => k = l
      <4> SUFFICES ASSUME NEW k \in 1..Len(crashChan'), NEW l \in 1..Len(crashChan'), crashChan'[k] = crashChan'[l]
                   PROVE  k = l
        OBVIOUS
      <4>0. k + 1 \in 1..Len(crashChan) /\ l + 1 \in 1..Len(crashChan)
        BY <2>2, Shifted
      <4>1. crashChan[k + 1] = crashChan[l + 1]
        BY <2>2
      <4>2. k + 1 = l + 1
        BY <4>0, <4>1 DEF CrashesPendingOnce
      <4> QED
        BY <4>2
    <3>3. pc' = "reacquire" => ~InChan(crashUUID)' /\ held' # crashUUID'
      BY <1>1, <2>3 DEF CrashesPendingOnce
    <3> QED
      BY <1>1, <2>4, <2>5, <3>2, <3>3, SamePending DEF CrashesPendingOnce
  <2>7. TaskOwnedOnce' /\ FinishesCounted'
    BY <1>1, <2>1, <2>5, SamePending DEF FinishesCounted
  <2> QED
    BY <1>2, <2>6, <2>7
<1> QED
  BY <1>3, <1>4 DEF OrDoneStep

\* Adding one element adds one index.
LEMMA LastIndex == \A m \in Nat : \A k \in 1..(m + 1) : k # m + 1 => k \in 1..m
  OBVIOUS

\* A go statement that gives task t to worker w keeps the invariant's parts about
\* goroutines when w is taken, unassigned and lent to nobody.
LEMMA SafetyGo ==
  ASSUME TypeInv, Safety, NEW t \in Task, NEW w \in Entry, Go(t, w),
         UNCHANGED <<workerState, taskStates, crashChan, finish, counted, orState>>,
         workerState[w] = "BUSY",
         \A g \in 1..Len(gor) : Using(g) => gor[g].w # w
  PROVE  Users' /\ Remembered' /\ FailedOnce' /\ (\A g \in finish' \cup counted' : gor'[g].pc = "finished")
<1>wf. WellFormed
  BY TypesWellFormed
<1> USE <1>wf DEF WellFormed, Safety
<1>1. /\ Len(gor') = Len(gor) + 1
      /\ \A h \in 1..Len(gor) : gor'[h] = gor[h]
      /\ LET n == Len(gor) + 1
         IN  gor'[n].pc = "store" /\ gor'[n].task = t /\ gor'[n].w = w
  BY GoProperties DEF TypeInv, TypeOK
<1>2. Users'
  BY <1>1 DEF Users, Using
<1>2a. \A h \in 1..Len(gor') : ((gor[h].pc = "call" \/ Failed(h))' => h \in 1..Len(gor))
  BY <1>1, LastIndex DEF Failed
<1>3. Remembered'
  BY <1>1, <1>2a DEF Remembered, Failed
<1>3a. FailedOnce'
  BY <1>1, <1>2a DEF FailedOnce, Failed
<1>4. finish \cup counted \subseteq 1..Len(gor)
  BY DEF TypeInv, TypeOK
<1>5. \A g \in finish' \cup counted' : gor'[g].pc = "finished"
  BY <1>1, <1>4 DEF FinishesCounted
<1> QED
  BY <1>2, <1>3, <1>3a, <1>5

\* Starting the goroutine of the next task.
LEMMA SafetySpawn == TypeInv /\ Safety /\ Spawn => Safety'
<1> SUFFICES ASSUME TypeInv, Safety, Spawn PROVE Safety'
  OBVIOUS
<1>wf. WellFormed
  BY TypesWellFormed
<1> USE <1>wf DEF WellFormed, Safety
<1> DEFINE w == retInfo[next]
           n == Len(gor) + 1
<1>1. next \in 1..TotalWorkers /\ Len(retInfo) = TotalWorkers /\ TotalWorkers \in Nat \ {0}
  BY TotalWorkersAssumption, NWorkersAssumption DEF Spawn, PoolSize, TypeInv, TypeOK
<1>2. ((next - 1) % Len(retInfo)) + 1 = next
  BY <1>1
<1>3. /\ Go(next, w) /\ next' = next + 1 /\ pc = "spawn" /\ pc' = "spawn"
      /\ UNCHANGED <<workerState, retInfo, orState, finish, counted, held, crashChan, taskStates, crashUUID>>
  BY <1>2 DEF Spawn, poolVars, orVars
<1>4. w \in Entry /\ next \in Task
  BY <1>1 DEF Task
<1>5. workerState[w] = "BUSY" /\ \A g \in 1..Len(gor) : Using(g) => gor[g].w # w
  BY <1>1, <1>3 DEF Taken, Unassigned
<1>6. /\ Len(gor') = n
      /\ \A h \in 1..Len(gor) : gor'[h] = gor[h]
      /\ gor'[n].pc = "store" /\ gor'[n].task = next /\ gor'[n].w = w
  BY <1>3, <1>4, GoProperties DEF TypeInv, TypeOK
<1>7. Users' /\ Remembered' /\ FailedOnce' /\ (\A g \in finish' \cup counted' : gor'[g].pc = "finished")
  <2> HIDE DEF w
  <2> QED BY <1>3, <1>4, <1>5, SafetyGo
<1>8. SpawnOrder'
  BY <1>1, <1>3, <1>6 DEF SpawnOrder, Task
<1>9. Taken'
  <2> SUFFICES ASSUME NEW k \in 1..Len(retInfo), Unassigned(k)'
               PROVE  /\ workerState[retInfo[k]] = "BUSY"
                      /\ \A g \in 1..Len(gor') : Using(g)' => gor'[g].w # retInfo[k]
                      /\ \A l \in 1..Len(retInfo) : Unassigned(l)' /\ retInfo[k] = retInfo[l] => k = l
    BY <1>3 DEF Taken
  <2>1. /\ Unassigned(k) /\ Unassigned(next) /\ k # next
        /\ \A l \in 1..Len(retInfo) : Unassigned(l)' => Unassigned(l)
    BY <1>1, <1>3 DEF Unassigned
  <2>2. /\ workerState[retInfo[k]] = "BUSY" /\ retInfo[k] # w
        /\ \A g \in 1..Len(gor) : Using(g) => gor[g].w # retInfo[k]
        /\ \A l \in 1..Len(retInfo) : Unassigned(l) /\ retInfo[k] = retInfo[l] => k = l
    BY <1>1, <2>1 DEF Taken
  <2>3. \A g \in 1..Len(gor') : Using(g)' => gor'[g].w # retInfo[k]
    <3> SUFFICES ASSUME NEW g \in 1..Len(gor'), Using(g)' PROVE gor'[g].w # retInfo[k]
      OBVIOUS
    <3>1. CASE g = n
      BY <1>6, <2>2, <3>1
    <3>2. CASE g # n
      BY <1>6, <2>2, <3>2 DEF Using
    <3> QED
      BY <3>1, <3>2
  <2> QED
    BY <2>1, <2>2, <2>3
<1>10. BusyAccounted'
  <2> SUFFICES ASSUME NEW v \in Entry, workerState[v] = "BUSY"
               PROVE  \/ \E g \in 1..Len(gor') : Using(g)' /\ gor'[g].w = v
                      \/ \E k \in 1..Len(retInfo') : Unassigned(k)' /\ retInfo'[k] = v
    BY <1>3 DEF BusyAccounted
  <2>1. CASE v = w
    BY <1>6, <2>1 DEF Using
  <2>2. CASE \E g \in 1..Len(gor) : Using(g) /\ gor[g].w = v
    BY <1>6, <2>2 DEF Using
  <2>3. CASE v # w /\ \E k \in 1..Len(retInfo) : Unassigned(k) /\ retInfo[k] = v
    BY <1>1, <1>3, <2>3 DEF Unassigned
  <2> QED
    BY <2>1, <2>2, <2>3 DEF BusyAccounted
<1>11. \A u : Pending(u)' <=> Pending(u)
  BY <1>3 DEF Pending, InChan
<1>12. CrashesPendingOnce'
  <2>1. \A u \in Entry : Pending(u)' =>
          \E g \in 1..Len(gor') : gor'[g].pc = "crashed" /\ Uuid[gor'[g].w] = u
    BY <1>6, <1>11 DEF CrashesPendingOnce
  <2> QED
    BY <1>3, <2>1 DEF CrashesPendingOnce, InChan
<1>13. FinishesCounted'
  BY <1>3, <1>7 DEF FinishesCounted
<1>14. TaskOwnedOnce'
  <2>1. \A g \in 1..Len(gor) : Owner(g)' <=> Owner(g)
    BY <1>6, <1>11 DEF Owner
  <2>2. \A g \in 1..Len(gor) : gor'[g].task # next
    BY <1>3, <1>6, <1>1 DEF SpawnOrder, Task
  <2> QED
    BY <1>6, <2>1, <2>2 DEF TaskOwnedOnce
<1> QED
  BY <1>7, <1>8, <1>9, <1>10, <1>12, <1>13, <1>14

\* Re-execution moves the crashed goroutine's task to a new goroutine.
LEMMA SafetyReexecute ==
  ASSUME UniqueUuid, TypeInv, Safety, Reexecute
  PROVE  Safety'
<1>wf. WellFormed
  BY TypesWellFormed
<1> USE <1>wf DEF WellFormed, Safety
<1> DEFINE w == retInfo[1]
           n == Len(gor) + 1
           t == taskStates[crashUUID]
<1>0. pc = "reacquire" /\ Len(retInfo) = 1
  <2>1. pc = "reacquire" /\ Len(retInfo) >= num
    BY DEF Reexecute, Enough
  <2>2. num = 1 /\ Len(retInfo) <= num
    BY <2>1 DEF TypeInv, PoolSize
  <2>3. \A k \in Nat : k >= 1 /\ k <= 1 => k = 1
    OBVIOUS
  <2> QED
    BY <2>1, <2>2, <2>3
<1>1. /\ pc = "reacquire" /\ pc' = "range" /\ 1 \in 1..Len(retInfo) /\ Len(retInfo) = 1
      /\ crashUUID \in Entry
      /\ UNCHANGED <<workerState, retInfo, orState, finish, counted, held, crashChan, next, taskStates, crashUUID>>
  BY <1>0 DEF Reexecute, TypeInv, TypeOK, poolVars, orVars
<1>2. PICK c \in 1..Len(gor) : gor[c].pc = "crashed" /\ Uuid[gor[c].w] = crashUUID
  BY <1>1 DEF CrashesPendingOnce, Pending
<1>3. t = gor[c].task /\ t \in Task /\ t # 0
  BY <1>2 DEF Remembered, Failed, Task
<1>4. w \in Entry /\ Go(t, w)
  BY <1>1, <1>3 DEF Reexecute
<1>5. workerState[w] = "BUSY" /\ \A g \in 1..Len(gor) : Using(g) => gor[g].w # w
  BY <1>1 DEF Taken, Unassigned
<1>6. /\ Len(gor') = n
      /\ \A h \in 1..Len(gor) : gor'[h] = gor[h]
      /\ gor'[n].pc = "store" /\ gor'[n].task = t /\ gor'[n].w = w
  <2> HIDE DEF w, t
  <2> QED BY <1>3, <1>4, GoProperties DEF TypeInv, TypeOK
<1>7. Users' /\ Remembered' /\ FailedOnce' /\ (\A g \in finish' \cup counted' : gor'[g].pc = "finished")
  <2> HIDE DEF w, t
  <2> QED BY <1>1, <1>3, <1>4, <1>5, SafetyGo
<1>8. SpawnOrder' /\ Taken'
  BY <1>1 DEF SpawnOrder, Taken, Unassigned
<1>9. BusyAccounted'
  <2> SUFFICES ASSUME NEW v \in Entry, workerState[v] = "BUSY"
               PROVE  \E g \in 1..Len(gor') : Using(g)' /\ gor'[g].w = v
    BY <1>1 DEF BusyAccounted
  <2>1. CASE v = w
    BY <1>6, <2>1 DEF Using
  <2>2. CASE \E g \in 1..Len(gor) : Using(g) /\ gor[g].w = v
    BY <1>6, <2>2 DEF Using
  <2>3. CASE \E k \in 1..Len(retInfo) : Unassigned(k) /\ retInfo[k] = v
    BY <1>1, <1>6, <2>1, <2>3
  <2> QED
    BY <2>1, <2>2, <2>3 DEF BusyAccounted
<1>10. \A u : Pending(u)' <=> Pending(u) /\ u # crashUUID
  BY <1>1 DEF Pending, InChan, CrashesPendingOnce
<1>11. CrashesPendingOnce'
  <2>1. ASSUME NEW u \in Entry, Pending(u)'
        PROVE  \E g \in 1..Len(gor') : gor'[g].pc = "crashed" /\ Uuid[gor'[g].w] = u
    <3>1. PICK g \in 1..Len(gor) : gor[g].pc = "crashed" /\ Uuid[gor[g].w] = u
      BY <1>10, <2>1 DEF CrashesPendingOnce
    <3>2. g \in 1..Len(gor') /\ gor'[g] = gor[g]
      BY <1>6
    <3> QED
      BY <3>1, <3>2
  <2> QED
    BY <1>1, <2>1 DEF CrashesPendingOnce, InChan
<1>12. FinishesCounted'
  BY <1>1, <1>7 DEF FinishesCounted
<1>13. TaskOwnedOnce'
  <2>1. \A g \in 1..Len(gor) : Owner(g)' => Owner(g) /\ g # c
    BY <1>2, <1>6, <1>10 DEF Owner
  <2>2. Owner(c)
    BY <1>1, <1>2 DEF Owner, Pending
  <2>3. \A g \in 1..Len(gor) : Owner(g)' => gor'[g].task # t
    BY <1>3, <1>6, <2>1, <2>2 DEF TaskOwnedOnce
  <2> SUFFICES ASSUME NEW g \in 1..Len(gor'), NEW h \in 1..Len(gor'),
                      Owner(g)', Owner(h)', gor'[g].task = gor'[h].task
               PROVE  g = h
    BY DEF TaskOwnedOnce
  <2>4. CASE g = n \/ h = n
    BY <1>6, <2>3, <2>4
  <2>5. CASE g # n /\ h # n
    <3>1. \A k \in 1..Len(gor') : k # n => k \in 1..Len(gor)
      BY <1>6, LastIndex
    <3>2. g \in 1..Len(gor) /\ h \in 1..Len(gor)
      BY <2>5, <3>1
    <3> QED
      BY <1>6, <2>1, <3>2 DEF TaskOwnedOnce
  <2> QED
    BY <2>4, <2>5
<1> QED
  BY <1>7, <1>8, <1>9, <1>11, <1>12, <1>13

\* A step that changes neither who uses a worker, nor which attempts failed, nor
\* the pool keeps the parts about workers.
LEMMA SameUse ==
  ASSUME Safety, UNCHANGED <<workerState, retInfo, pc, next>>, Len(gor') = Len(gor),
         \A h \in 1..Len(gor) : /\ Using(h)' <=> Using(h)
                                /\ Failed(h)' <=> Failed(h)
                                /\ gor'[h].w = gor[h].w
  PROVE  Taken' /\ Users' /\ BusyAccounted' /\ FailedOnce'
<1>0. \A k : Unassigned(k)' <=> Unassigned(k)
  BY DEF Unassigned
<1>1. Taken'
  BY <1>0 DEF Safety, Taken
<1>2. Users'
  BY DEF Safety, Users
<1>3. BusyAccounted'
  <2> SUFFICES ASSUME NEW v \in Entry, workerState[v] = "BUSY"
               PROVE  \/ \E h \in 1..Len(gor') : Using(h)' /\ gor'[h].w = v
                      \/ \E k \in 1..Len(retInfo') : Unassigned(k)' /\ retInfo'[k] = v
    BY DEF BusyAccounted
  <2>1. CASE \E h \in 1..Len(gor) : Using(h) /\ gor[h].w = v
    BY <2>1
  <2>2. CASE \E k \in 1..Len(retInfo) : Unassigned(k) /\ retInfo[k] = v
    BY <1>0, <2>2
  <2> QED
    BY <2>1, <2>2 DEF Safety, BusyAccounted
<1>4. FailedOnce'
  BY DEF Safety, FailedOnce
<1> QED
  BY <1>1, <1>2, <1>3, <1>4

\* The steps of the task goroutines: only the report of a crash changes what is
\* pending, and it leaves the ownership of its task with the reporter.
LEMMA SafetyGoroutine ==
  ASSUME UniqueUuid, TypeInv, Safety, NEW g \in DOMAIN gor, Goroutine(g)
  PROVE  Safety'
<1>wf. WellFormed
  BY TypesWellFormed
<1> USE <1>wf DEF WellFormed, Safety
<1>0. g \in 1..Len(gor) /\ UNCHANGED <<scan, retInfo, num, counted, orState, held, pc, next, crashUUID>>
  BY DEF Goroutine, Store, MapDone, MapFailed, ReportFinish, ReportCrash, poolVars, orVars
<1> DEFINE w == gor[g].w
<1>a. /\ w \in Entry /\ Uuid[w] \in Entry /\ workerState \in [Entry -> WorkerStates]
      /\ taskStates \in [Entry -> 0..TotalWorkers] /\ Uuid \in [Entry -> Entry]
      /\ gor \in Seq(GorRecord)
      /\ finish \cup counted \subseteq 1..Len(gor)
  BY <1>0, UuidAssumption DEF TypeInv, TypeOK, PoolTypeOK
<1>1. CASE Store(g)
  <2>1. /\ Len(gor') = Len(gor) /\ gor[g].pc = "store"
        /\ gor'[g].pc = "call" /\ gor'[g].task = gor[g].task /\ gor'[g].w = w
        /\ \A h \in 1..Len(gor) : h # g => gor'[h] = gor[h]
    BY <1>0, <1>1, <1>a, GoToProperties DEF Store, GorPc
  <2>2. /\ UNCHANGED <<workerState, crashChan, finish>>
        /\ taskStates' = [taskStates EXCEPT ![Uuid[w]] = gor[g].task]
    BY <1>1 DEF Store, poolVars, orVars
  <2>3. \A h \in 1..Len(gor) :
          /\ Using(h)' <=> Using(h)
          /\ Failed(h)' <=> Failed(h)
          /\ gor'[h].pc = "crashed" <=> gor[h].pc = "crashed"
          /\ gor'[h].pc = "finished" <=> gor[h].pc = "finished"
          /\ gor'[h].w = gor[h].w /\ gor'[h].task = gor[h].task
    BY <2>1 DEF Using, Failed
  <2>4. SpawnOrder'
    BY <1>0, <2>1, <2>3, EmptySeq DEF SpawnOrder
  <2>5. Taken' /\ Users' /\ BusyAccounted' /\ FailedOnce'
    BY <1>0, <2>1, <2>2, <2>3, SameUse
  <2>6. Remembered'
    <3> SUFFICES ASSUME NEW h \in 1..Len(gor), (gor[h].pc = "call" \/ Failed(h))'
                 PROVE  taskStates'[Uuid[gor[h].w]] = gor[h].task
      BY <2>1, <2>3 DEF Remembered
    <3>1. CASE h = g
      BY <1>a, <2>2, <3>1
    <3>2. CASE h # g
      <4>1. gor[h].pc = "call" \/ Failed(h)
        BY <2>1, <3>2 DEF Failed
      <4>2. gor[h].w # w
        BY <1>0, <2>1, <3>2, <4>1 DEF Users, FailedOnce, Using
      <4>3. Uuid[gor[h].w] # Uuid[w]
        BY <1>a, <4>2 DEF UniqueUuid
      <4> QED
        BY <1>a, <2>2, <4>1, <4>3 DEF Remembered
    <3> QED
      BY <3>1, <3>2
  <2>7. \A u : Pending(u)' <=> Pending(u)
    BY <1>0, <2>2 DEF Pending, InChan
  <2>8. CrashesPendingOnce'
    <3>1. \A u \in Entry : Pending(u)' =>
            \E h \in 1..Len(gor') : gor'[h].pc = "crashed" /\ Uuid[gor'[h].w] = u
      BY <2>1, <2>3, <2>7 DEF CrashesPendingOnce
    <3> QED
      BY <1>0, <2>2, <3>1 DEF CrashesPendingOnce, InChan
  <2>9. TaskOwnedOnce'
    BY <2>1, <2>3, <2>7 DEF TaskOwnedOnce, Owner
  <2>10. FinishesCounted'
    BY <1>0, <1>a, <2>2, <2>3 DEF FinishesCounted
  <2> QED
    BY <2>4, <2>5, <2>6, <2>8, <2>9, <2>10
<1>2. CASE MapDone(g)
  <2>1. /\ Len(gor') = Len(gor) /\ gor[g].pc = "call"
        /\ gor'[g].pc = "sendFinish" /\ gor'[g].task = gor[g].task /\ gor'[g].w = w
        /\ \A h \in 1..Len(gor) : h # g => gor'[h] = gor[h]
    BY <1>0, <1>2, <1>a, GoToProperties DEF MapDone, GorPc
  <2>2. UNCHANGED <<crashChan, finish, taskStates>> /\ workerState' = [workerState EXCEPT ![w] = "IDLE"]
    BY <1>2 DEF MapDone, SetState, orVars
  <2>3. \A h \in 1..Len(gor) :
          /\ Using(h)' <=> Using(h) /\ h # g
          /\ gor'[h].pc = "crashed" <=> gor[h].pc = "crashed"
          /\ gor'[h].pc = "finished" <=> gor[h].pc = "finished"
          /\ gor'[h].pc = "call" => gor[h].pc = "call"
          /\ gor'[h].w = gor[h].w /\ gor'[h].task = gor[h].task
    BY <2>1 DEF Using
  <2>4. Using(g) /\ workerState[w] = "BUSY"
    BY <1>0, <2>1 DEF Users, Using
  <2>5. SpawnOrder'
    BY <1>0, <2>1, <2>3, EmptySeq DEF SpawnOrder
  <2>6. Taken'
    BY <1>0, <1>a, <2>1, <2>2, <2>3, <2>4 DEF Taken, Unassigned
  <2>7. Users'
    <3>1. \A h \in 1..Len(gor) : Using(h)' => Using(h) /\ gor[h].w # w
      BY <1>0, <2>3, <2>4 DEF Users
    <3>2. \A h \in 1..Len(gor) : Using(h)' => workerState'[gor'[h].w] = "BUSY"
      BY <1>a, <2>2, <2>3, <3>1 DEF Users
    <3>3. \A h, j \in 1..Len(gor) : Using(h) /\ Using(j) /\ gor[h].w = gor[j].w => h = j
      BY DEF Users
    <3>4. \A h, j \in 1..Len(gor) : Using(h)' /\ Using(j)' /\ gor'[h].w = gor'[j].w => h = j
      BY <2>3, <3>1, <3>3
    <3> QED
      BY <2>1, <3>2, <3>4 DEF Users
  <2>8. BusyAccounted'
    <3> SUFFICES ASSUME NEW v \in Entry, workerState'[v] = "BUSY"
                 PROVE  \/ \E h \in 1..Len(gor') : Using(h)' /\ gor'[h].w = v
                        \/ \E k \in 1..Len(retInfo') : Unassigned(k)' /\ retInfo'[k] = v
      BY DEF BusyAccounted
    <3>1. v # w /\ workerState[v] = "BUSY"
      BY <1>a, <2>2
    <3>2. CASE \E h \in 1..Len(gor) : Using(h) /\ gor[h].w = v
      BY <2>1, <2>3, <3>1, <3>2
    <3>3. CASE \E k \in 1..Len(retInfo) : Unassigned(k) /\ retInfo[k] = v
      BY <1>0, <3>3 DEF Unassigned
    <3> QED
      BY <3>1, <3>2, <3>3 DEF BusyAccounted
  <2>9. \A h \in 1..Len(gor) : Failed(h)' <=> Failed(h)
    BY <2>1 DEF Failed
  <2>10. Remembered'
    BY <2>1, <2>2, <2>3, <2>9 DEF Remembered
  <2>11. FailedOnce'
    <3>1. \A h \in 1..Len(gor) : Failed(h) => gor[h].w # w
      BY <2>4 DEF FailedOnce
    <3>2. \A h \in 1..Len(gor) : Failed(h)' => workerState'[gor'[h].w] = "UNKNOWN"
      BY <1>a, <2>1, <2>2, <2>3, <2>9, <3>1 DEF FailedOnce
    <3>3. \A h, j \in 1..Len(gor) : Failed(h)' /\ Failed(j)' /\ gor[h].w = gor[j].w => h = j
      BY <2>9 DEF FailedOnce
    <3> QED
      BY <2>1, <2>3, <3>2, <3>3 DEF FailedOnce
  <2>12. \A u : Pending(u)' <=> Pending(u)
    BY <1>0, <2>2 DEF Pending, InChan
  <2>13. CrashesPendingOnce'
    <3>1. \A u \in Entry : Pending(u)' =>
            \E h \in 1..Len(gor') : gor'[h].pc = "crashed" /\ Uuid[gor'[h].w] = u
      BY <2>1, <2>3, <2>12 DEF CrashesPendingOnce
    <3> QED
      BY <1>0, <2>2, <3>1 DEF CrashesPendingOnce, InChan
  <2>14. TaskOwnedOnce'
    BY <2>1, <2>3, <2>12 DEF TaskOwnedOnce, Owner
  <2>15. FinishesCounted'
    BY <1>0, <1>a, <2>2, <2>3 DEF FinishesCounted
  <2> QED
    BY <2>5, <2>6, <2>7, <2>8, <2>10, <2>11, <2>13, <2>14, <2>15
<1>3. CASE MapFailed(g)
  <2>1. /\ Len(gor') = Len(gor) /\ gor[g].pc = "call"
        /\ gor'[g].pc = "sendCrash" /\ gor'[g].task = gor[g].task /\ gor'[g].w = w
        /\ \A h \in 1..Len(gor) : h # g => gor'[h] = gor[h]
    BY <1>0, <1>3, <1>a, GoToProperties DEF MapFailed, GorPc
  <2>2. UNCHANGED <<crashChan, finish, taskStates>> /\ workerState' = [workerState EXCEPT ![w] = "UNKNOWN"]
    BY <1>3 DEF MapFailed, SetState, orVars
  <2>3. \A h \in 1..Len(gor) :
          /\ Using(h)' <=> Using(h) /\ h # g
          /\ gor'[h].pc = "crashed" <=> gor[h].pc = "crashed"
          /\ gor'[h].pc = "finished" <=> gor[h].pc = "finished"
          /\ gor'[h].pc = "call" => gor[h].pc = "call"
          /\ gor'[h].w = gor[h].w /\ gor'[h].task = gor[h].task
    BY <2>1 DEF Using
  <2>4. Using(g) /\ workerState[w] = "BUSY"
    BY <1>0, <2>1 DEF Users, Using
  <2>5. SpawnOrder'
    BY <1>0, <2>1, <2>3, EmptySeq DEF SpawnOrder
  <2>6. Taken'
    BY <1>0, <1>a, <2>1, <2>2, <2>3, <2>4 DEF Taken, Unassigned
  <2>7. Users'
    <3>1. \A h \in 1..Len(gor) : Using(h)' => Using(h) /\ gor[h].w # w
      BY <1>0, <2>3, <2>4 DEF Users
    <3>2. \A h \in 1..Len(gor) : Using(h)' => workerState'[gor'[h].w] = "BUSY"
      BY <1>a, <2>2, <2>3, <3>1 DEF Users
    <3>3. \A h, j \in 1..Len(gor) : Using(h) /\ Using(j) /\ gor[h].w = gor[j].w => h = j
      BY DEF Users
    <3>4. \A h, j \in 1..Len(gor) : Using(h)' /\ Using(j)' /\ gor'[h].w = gor'[j].w => h = j
      BY <2>3, <3>1, <3>3
    <3> QED
      BY <2>1, <3>2, <3>4 DEF Users
  <2>8. BusyAccounted'
    <3> SUFFICES ASSUME NEW v \in Entry, workerState'[v] = "BUSY"
                 PROVE  \/ \E h \in 1..Len(gor') : Using(h)' /\ gor'[h].w = v
                        \/ \E k \in 1..Len(retInfo') : Unassigned(k)' /\ retInfo'[k] = v
      BY DEF BusyAccounted
    <3>1. v # w /\ workerState[v] = "BUSY"
      BY <1>a, <2>2
    <3>2. CASE \E h \in 1..Len(gor) : Using(h) /\ gor[h].w = v
      BY <2>1, <2>3, <3>1, <3>2
    <3>3. CASE \E k \in 1..Len(retInfo) : Unassigned(k) /\ retInfo[k] = v
      BY <1>0, <3>3 DEF Unassigned
    <3> QED
      BY <3>1, <3>2, <3>3 DEF BusyAccounted
  <2>9. \A h \in 1..Len(gor) : Failed(h)' <=> Failed(h) \/ h = g
    BY <1>0, <2>1 DEF Failed
  <2>10. Remembered'
    BY <2>1, <2>2, <2>3, <2>9 DEF Remembered
  <2>11. FailedOnce'
    <3>1. \A h \in 1..Len(gor) : Failed(h) => gor[h].w # w
      BY <2>4 DEF FailedOnce
    <3>2. \A h \in 1..Len(gor) : Failed(h)' => workerState'[gor'[h].w] = "UNKNOWN"
      <4> SUFFICES ASSUME NEW h \in 1..Len(gor), Failed(h)' PROVE workerState'[gor'[h].w] = "UNKNOWN"
        OBVIOUS
      <4>1. CASE h = g
        BY <1>a, <2>2, <2>3, <4>1
      <4>2. CASE h # g
        <5>1. Failed(h) /\ gor[h].w # w /\ gor'[h].w = gor[h].w
          BY <2>3, <2>9, <3>1, <4>2
        <5>2. workerState[gor[h].w] = "UNKNOWN"
          BY <5>1 DEF FailedOnce
        <5> QED
          BY <2>2, <5>1, <5>2
      <4> QED
        BY <4>1, <4>2
    <3>3. \A h, j \in 1..Len(gor) : Failed(h)' /\ Failed(j)' /\ gor[h].w = gor[j].w => h = j
      BY <2>9, <3>1 DEF FailedOnce
    <3> QED
      BY <2>1, <2>3, <3>2, <3>3 DEF FailedOnce
  <2>12. \A u : Pending(u)' <=> Pending(u)
    BY <1>0, <2>2 DEF Pending, InChan
  <2>13. CrashesPendingOnce'
    <3>1. \A u \in Entry : Pending(u)' =>
            \E h \in 1..Len(gor') : gor'[h].pc = "crashed" /\ Uuid[gor'[h].w] = u
      BY <2>1, <2>3, <2>12 DEF CrashesPendingOnce
    <3> QED
      BY <1>0, <2>2, <3>1 DEF CrashesPendingOnce, InChan
  <2>14. TaskOwnedOnce'
    BY <2>1, <2>3, <2>12 DEF TaskOwnedOnce, Owner
  <2>15. FinishesCounted'
    BY <1>0, <1>a, <2>2, <2>3 DEF FinishesCounted
  <2> QED
    BY <2>5, <2>6, <2>7, <2>8, <2>10, <2>11, <2>13, <2>14, <2>15
<1>4. CASE ReportFinish(g) \/ ReportCrash(g)
  <2>1. /\ gor[g].pc \in {"sendFinish", "sendCrash"}
        /\ UNCHANGED <<workerState, taskStates>>
        /\ GoTo(g, gor[g].pc, IF gor[g].pc = "sendFinish" THEN "finished" ELSE "crashed")
    BY <1>4 DEF ReportFinish, ReportCrash, GoTo, poolVars
  <2>2. /\ Len(gor') = Len(gor)
        /\ gor'[g].pc = (IF gor[g].pc = "sendFinish" THEN "finished" ELSE "crashed")
        /\ gor'[g].task = gor[g].task /\ gor'[g].w = w
        /\ \A h \in 1..Len(gor) : h # g => gor'[h] = gor[h]
    BY <1>0, <1>a, <2>1, GoToProperties DEF GorPc
  <2>3. \A h \in 1..Len(gor) :
          /\ Using(h)' <=> Using(h)
          /\ Failed(h)' <=> Failed(h)
          /\ gor'[h].pc = "call" <=> gor[h].pc = "call"
          /\ gor'[h].w = gor[h].w /\ gor'[h].task = gor[h].task
    BY <2>1, <2>2 DEF Using, Failed
  <2>4. SpawnOrder' /\ Remembered'
    BY <1>0, <2>1, <2>2, <2>3, EmptySeq DEF SpawnOrder, Remembered
  <2>5. Taken' /\ Users' /\ BusyAccounted' /\ FailedOnce'
    BY <1>0, <2>1, <2>2, <2>3, SameUse
  <2>8. CASE ReportFinish(g)
    <3>1. /\ gor[g].pc = "sendFinish" /\ UNCHANGED crashChan /\ finish' = finish \cup {g}
          /\ \A h \in 1..Len(gor) : gor'[h].pc = "crashed" <=> gor[h].pc = "crashed"
      BY <2>2, <2>8 DEF ReportFinish, SendFinish, GoTo
    <3>2. \A u : Pending(u)' <=> Pending(u)
      BY <1>0, <3>1 DEF Pending, InChan
    <3>3. CrashesPendingOnce'
      <4>1. \A u \in Entry : Pending(u)' =>
              \E h \in 1..Len(gor') : gor'[h].pc = "crashed" /\ Uuid[gor'[h].w] = u
        BY <2>2, <2>3, <3>1, <3>2 DEF CrashesPendingOnce
      <4> QED
        BY <1>0, <3>1, <4>1 DEF CrashesPendingOnce, InChan
    <3>4. TaskOwnedOnce'
      BY <2>2, <2>3, <3>1, <3>2 DEF TaskOwnedOnce, Owner
    <3>5. FinishesCounted'
      <4>1. g \notin counted
        BY <3>1 DEF FinishesCounted
      <4>2. \A h \in finish' \cup counted' : gor'[h].pc = "finished"
        BY <1>0, <1>a, <2>2, <3>1 DEF FinishesCounted
      <4> QED
        BY <1>0, <3>1, <4>1, <4>2 DEF FinishesCounted
    <3> QED
      BY <2>4, <2>5, <3>3, <3>4, <3>5
  <2>9. CASE ReportCrash(g)
    <3>0. PICK x \in Entry : x = Uuid[w]
      BY <1>a
    <3>1. /\ gor[g].pc = "sendCrash" /\ UNCHANGED finish /\ gor'[g].pc = "crashed"
          /\ crashChan' = Append(crashChan, x)
      BY <2>2, <3>0, <2>9 DEF ReportCrash, SendCrash, GoTo
    <3>2. /\ Len(crashChan') = Len(crashChan) + 1
          /\ \A k \in 1..Len(crashChan) : crashChan'[k] = crashChan[k]
          /\ crashChan'[Len(crashChan) + 1] = x
      BY <3>1, AppendProperties DEF TypeInv, TypeOK
    <3>3. ~Pending(x)
      <4> SUFFICES ASSUME Pending(x) PROVE FALSE
        OBVIOUS
      <4>1. PICK h \in 1..Len(gor) : gor[h].pc = "crashed" /\ Uuid[gor[h].w] = x
        BY DEF CrashesPendingOnce
      <4>2. gor[h].w = w /\ Failed(g) /\ Failed(h)
        BY <1>a, <3>0, <3>1, <4>1 DEF UniqueUuid, Failed
      <4> QED
        BY <1>0, <3>1, <4>1, <4>2 DEF FailedOnce
    <3>4. \A u : InChan(u)' <=> InChan(u) \/ u = x
      <4>1. ASSUME NEW u, InChan(u) PROVE InChan(u)'
        BY <3>2, <4>1 DEF InChan
      <4>2. InChan(x)'
        BY <3>2 DEF InChan
      <4>3. ASSUME NEW u, InChan(u)' PROVE InChan(u) \/ u = x
        <5>1. PICK k \in 1..Len(crashChan') : crashChan'[k] = u
          BY <4>3 DEF InChan
        <5>2. CASE k = Len(crashChan) + 1
          BY <3>2, <5>1, <5>2
        <5>3. CASE k \in 1..Len(crashChan)
          BY <3>2, <5>1, <5>3 DEF InChan
        <5> QED
          BY <3>2, <5>2, <5>3
      <4> QED
        BY <4>1, <4>2, <4>3
    <3>5. \A u : Pending(u)' <=> Pending(u) \/ u = x
      BY <1>0, <3>4 DEF Pending
    <3>6. CrashesPendingOnce'
      <4>1. \A u \in Entry : Pending(u)' =>
              \E h \in 1..Len(gor') : gor'[h].pc = "crashed" /\ Uuid[gor'[h].w] = u
        <5> SUFFICES ASSUME NEW u \in Entry, Pending(u)'
                     PROVE  \E h \in 1..Len(gor') : gor'[h].pc = "crashed" /\ Uuid[gor'[h].w] = u
          OBVIOUS
        <5>1. CASE u = x
          BY <1>0, <2>2, <3>0, <3>1, <5>1
        <5>2. CASE Pending(u)
          <6>1. PICK h \in 1..Len(gor) : gor[h].pc = "crashed" /\ Uuid[gor[h].w] = u
            BY <5>2 DEF CrashesPendingOnce
          <6>2. gor'[h] = gor[h]
            BY <2>2, <3>1, <6>1
          <6> QED
            BY <2>2, <6>1, <6>2
        <5> QED
          BY <3>5, <5>1, <5>2
      <4>2. \A k \in 1..Len(crashChan) : crashChan[k] # x
        BY <3>3 DEF Pending, InChan
      <4>3. \A k, l \in 1..Len(crashChan') : crashChan'[k] = crashChan'[l] => k = l
        BY <3>2, <4>2 DEF CrashesPendingOnce
      <4>4. orState' = "deliver" => ~InChan(held)'
        BY <1>0, <3>3, <3>4 DEF CrashesPendingOnce, Pending
      <4>5. pc' = "reacquire" => ~InChan(crashUUID)' /\ (orState' = "deliver" => held' # crashUUID')
        BY <1>0, <3>3, <3>4 DEF CrashesPendingOnce, Pending
      <4> QED
        BY <4>1, <4>3, <4>4, <4>5 DEF CrashesPendingOnce
    <3>7. TaskOwnedOnce'
      <4>1. \A h \in 1..Len(gor) : Owner(h)' => Owner(h)
        <5> SUFFICES ASSUME NEW h \in 1..Len(gor), Owner(h)', gor[h].pc = "crashed"
                     PROVE  Owner(h)
          BY DEF Owner
        <5>1. h # g /\ gor'[h] = gor[h]
          BY <2>2, <3>1
        <5>2. PICK u \in Entry : u = Uuid[gor[h].w]
          OBVIOUS
        <5>3. Pending(u)'
          BY <5>1, <5>2 DEF Owner
        <5>4. u # x
          BY <1>0, <1>a, <3>0, <3>1, <5>1, <5>2 DEF FailedOnce, Failed, UniqueUuid
        <5> QED
          BY <3>5, <5>2, <5>3, <5>4 DEF Owner
      <4> QED
        BY <2>2, <2>3, <4>1 DEF TaskOwnedOnce
    <3>8. FinishesCounted'
      BY <1>0, <1>a, <2>2, <3>1 DEF FinishesCounted
    <3> QED
      BY <2>4, <2>5, <3>6, <3>7, <3>8
  <2> QED
    BY <1>4, <2>8, <2>9
<1> QED
  BY <1>1, <1>2, <1>3, <1>4 DEF Goroutine

\* Every step keeps the invariant.
LEMMA SafetyNext ==
  ASSUME UniqueUuid, TypeInv, Safety, [Next]_vars
  PROVE  Safety'
<1>1. CASE Main
  BY <1>1, SafetyAcquire, SafetyMain, SafetySpawn, SafetyReexecute DEF Main
<1>2. CASE OrDoneStep
  BY <1>2, SafetyOrDone
<1>3. CASE \E g \in DOMAIN gor : Goroutine(g)
  BY <1>3, SafetyGoroutine
<1>4. CASE UNCHANGED vars
  <2>1. UNCHANGED <<gor, crashChan, orState, held, pc, crashUUID, finish, counted, next, workerState, retInfo, taskStates>>
    BY <1>4 DEF vars, poolVars, orVars
  <2>2. \A u : Pending(u)' <=> Pending(u)
    BY <2>1 DEF Pending, InChan
  <2>3. CrashesPendingOnce' /\ TaskOwnedOnce'
    BY <2>1, <2>2, SamePending DEF CrashesPendingOnce, InChan, Safety
  <2>4. SpawnOrder' /\ Remembered' /\ FinishesCounted' /\ Users' /\ FailedOnce'
    BY <2>1 DEF SpawnOrder, Remembered, Failed, FinishesCounted, Users, FailedOnce, Using, Safety
  <2>5. Taken' /\ BusyAccounted'
    BY <2>1 DEF Taken, BusyAccounted, Using, Unassigned, Safety
  <2> QED
    BY <2>3, <2>4, <2>5 DEF Safety
<1> QED
  BY <1>1, <1>2, <1>3, <1>4 DEF Next, Terminated

\* IInv holds initially, and a step that keeps its parts keeps it.
LEMMA IInvInit == Init => IInv
<1>1. Init => TypeInv /\ Safety
  BY TypeInit, SafetyInit
<1> QED
  BY <1>1 DEF TypeInv, Safety, IInv

\* Every step of the phase preserves the invariant.
LEMMA IInvNext == ASSUME UniqueUuid, IInv, [Next]_vars PROVE IInv'
<1>1. TypeInv /\ Safety
  BY DEF IInv, TypeInv, Safety
<1>2. TypeInv' /\ Safety'
  BY <1>1, TypeNext, SafetyNext
<1> QED
  BY <1>2 DEF TypeInv, Safety, IInv

\* With one worker process per entry, IInv is an invariant of the map phase.
THEOREM InductiveInvariant == ASSUME UniqueUuid PROVE Spec => []IInv
<1>1. IInv /\ [Next]_vars => IInv'
  BY IInvNext
<1> QED
  BY <1>1, IInvInit, PTL DEF Spec

-----------------------------------------------------------------------------
(* What follows from it.                                                   *)

\* IInv in the parts the lemmas above are about.
LEMMA IInvParts == IInv => TypeInv /\ Safety /\ WellFormed
<1>1. IInv => TypeInv /\ Safety
  BY DEF IInv, TypeInv, Safety
<1> QED
  BY <1>1, TypesWellFormed

\* When orDone has counted as many finishes as there are tasks, the counted
\* goroutines are all the owners there are, one for each task.
LEMMA ClosedComplete ==
  ASSUME IInv, orState = "closed"
  PROVE  /\ \A t \in Task : \E g \in counted : gor[g].task = t
         /\ \A g \in 1..Len(gor) : Owner(g) => g \in counted
<1> DEFINE f == [g \in counted |-> gor[g].task]
<1>0. TypeInv /\ Safety /\ WellFormed
  BY IInvParts
<1>1. counted \subseteq 1..Len(gor) /\ \A g \in counted : gor[g].task \in Task /\ Owner(g)
  BY <1>0 DEF TypeInv, TypeOK, WellFormed, Safety, FinishesCounted, Owner
<1>2. f \in Injection(counted, Task)
  <2>1. f \in [counted -> Task]
    BY <1>1
  <2>2. \A g, h \in counted : f[g] = f[h] => g = h
    BY <1>0, <1>1 DEF Safety, TaskOwnedOnce
  <2> QED
    BY <2>1, <2>2 DEF Injection, IsInjective
<1>3. IsFiniteSet(Task) /\ Cardinality(Task) = TotalWorkers
  <2>1. TotalWorkers \in Nat \ {0}
    BY TotalWorkersAssumption, NWorkersAssumption
  <2>2. IsFiniteSet(1..TotalWorkers) /\ Cardinality(1..TotalWorkers) = TotalWorkers - 1 + 1
    BY <2>1, FS_Interval
  <2> QED
    BY <2>1, <2>2 DEF Task
<1>4. Cardinality(counted) = Cardinality(Task)
  BY <1>0, <1>3 DEF Safety, FinishesCounted
<1>5. f \in Surjection(counted, Task)
  <2> HIDE DEF f
  <2> QED BY <1>2, <1>3, <1>4, FS_Injection
<1>6. \A t \in Task : \E g \in counted : gor[g].task = t
  BY <1>5 DEF Surjection
<1>7. ASSUME NEW g \in 1..Len(gor), Owner(g) PROVE g \in counted
  <2>1. PICK h \in counted : gor[h].task = gor[g].task
    BY <1>0, <1>6 DEF WellFormed
  <2> QED
    BY <1>0, <1>1, <1>7, <2>1 DEF Safety, TaskOwnedOnce
<1> QED
  BY <1>6, <1>7

\* IInv implies MapComplete: no map task is lost.
LEMMA IInvMapComplete == IInv => MapComplete
<1> SUFFICES ASSUME IInv, pc = "done" PROVE MapComplete
  BY DEF MapComplete
<1>1. orState = "closed" /\ WellFormed
  BY IInvParts DEF Safety, FinishesCounted
<1>2. counted \subseteq DOMAIN gor /\ \A g \in counted : Succeeded(g)
  BY <1>1, IInvParts DEF Safety, FinishesCounted, Succeeded, TypeInv, TypeOK, WellFormed
<1> QED
  BY <1>1, <1>2, ClosedComplete DEF MapComplete

\* IInv implies NothingOutlivesPhase: no goroutine, finish or crash is left over.
LEMMA IInvNothingOutlives == IInv => NothingOutlivesPhase
<1> SUFFICES ASSUME IInv, pc = "done" PROVE NothingOutlivesPhase
  BY DEF NothingOutlivesPhase
<1>0. TypeInv /\ Safety /\ WellFormed
  BY IInvParts
<1>1. orState = "closed"
  BY <1>0 DEF Safety, FinishesCounted
<1>2. \A g \in 1..Len(gor) : Owner(g) => g \in counted
  BY <1>1, ClosedComplete
<1>3. \A g \in DOMAIN gor : ~Live(g)
  BY <1>0, <1>2 DEF WellFormed, Live, Owner, Safety, FinishesCounted
<1>4. finish = {}
  <2>1. \A g \in finish : g \in 1..Len(gor) /\ Owner(g)
    BY <1>0 DEF TypeInv, TypeOK, Safety, FinishesCounted, Owner
  <2>2. finish \subseteq counted /\ finish \cap counted = {}
    BY <1>0, <1>2, <2>1 DEF Safety, FinishesCounted
  <2> QED
    BY <2>2
<1>5. crashChan = <<>>
  <2> SUFFICES ASSUME crashChan # <<>> PROVE FALSE
    OBVIOUS
  <2>1. 1 \in 1..Len(crashChan) /\ crashChan[1] \in Entry
    BY <1>0, EmptySeq DEF TypeInv, TypeOK, WellFormed
  <2>2. Pending(crashChan[1])
    BY <2>1 DEF Pending, InChan
  <2>3. PICK g \in 1..Len(gor) : gor[g].pc = "crashed" /\ Uuid[gor[g].w] = crashChan[1]
    BY <1>0, <2>1, <2>2 DEF Safety, CrashesPendingOnce
  <2>4. g \in counted
    BY <1>2, <2>2, <2>3 DEF Owner
  <2> QED
    BY <1>0, <2>3, <2>4 DEF Safety, FinishesCounted
<1> QED
  BY <1>1, <1>3, <1>4, <1>5 DEF NothingOutlivesPhase

\* IInv implies WorkersLentOnce: no worker is shared and none leaks.
LEMMA IInvWorkersLentOnce == IInv => WorkersLentOnce
<1> SUFFICES ASSUME IInv PROVE WorkersLentOnce
  OBVIOUS
<1>0. TypeInv /\ Safety /\ WellFormed /\ DOMAIN retInfo = 1..Len(retInfo)
  BY IInvParts, LenProperties DEF TypeInv, TypeOK, PoolTypeOK
<1>1. \A g, h \in DOMAIN gor : Using(g) /\ Using(h) /\ gor[g].w = gor[h].w => g = h
  BY <1>0 DEF WellFormed, Safety, Users
<1>2. ASSUME NEW w \in Entry
      PROVE  workerState[w] = "BUSY" <=>
               \/ \E g \in DOMAIN gor : Using(g) /\ gor[g].w = w
               \/ \E k \in DOMAIN retInfo : Unassigned(k) /\ retInfo[k] = w
  BY <1>0 DEF WellFormed, Safety, Users, Taken, BusyAccounted
<1> QED
  BY <1>1, <1>2 DEF WorkersLentOnce

\* distributeMapTask never returns with a task undone, for any number of
\* workers, tasks and failures.
THEOREM MapCompleteHolds == ASSUME UniqueUuid PROVE Spec => []MapComplete
  BY InductiveInvariant, IInvMapComplete, PTL

\* distributeMapTask never leaves a goroutine behind that could send on the closed
\* channel, nor a message in a channel.
THEOREM NothingOutlivesHolds == ASSUME UniqueUuid PROVE Spec => []NothingOutlivesPhase
  BY InductiveInvariant, IInvNothingOutlives, PTL

\* Workers are lent to one goroutine at a time and never leak.
THEOREM WorkersLentOnceHolds == ASSUME UniqueUuid PROVE Spec => []WorkersLentOnce
  BY InductiveInvariant, IInvWorkersLentOnce, PTL

-----------------------------------------------------------------------------
(* The map phase implements TaskPhase.                                     *)

\* A step that neither returns nor makes a call succeed is a stutter of TaskPhase.
LEMMA Stutter ==
  ASSUME IInv, [Next]_vars, ~Return, \A g \in DOMAIN gor : ~MapDone(g)
  PROVE  Successes' = Successes /\ (pc' = "done" <=> pc = "done")
<1>0. TypeInv /\ Safety /\ WellFormed /\ WellFormed'
  <2>1. TypeInv /\ Safety /\ WellFormed
    BY IInvParts
  <2>2. TypeInv'
    BY <2>1, TypeNext
  <2>3. WellFormed'
    BY <2>2, TypesWellFormed, PTL
  <2> QED
    BY <2>1, <2>3
<1> USE <1>0 DEF WellFormed
<1>1. ASSUME \A g \in 1..Len(gor) : g \in 1..Len(gor') /\ gor'[g].task = gor[g].task
                                    /\ (Succeeded(g)' <=> Succeeded(g)),
             \A g \in 1..Len(gor') : g \notin 1..Len(gor) => ~Succeeded(g)'
      PROVE  Successes' = Successes
  <2>1. {h \in 1..Len(gor') : Succeeded(h)'} = {h \in 1..Len(gor) : Succeeded(h)}
    BY <1>1
  <2> QED
    BY <1>1, <2>1 DEF Successes
<1>2. CASE Main
  <2>1. CASE UNCHANGED gor
    <3>1. Successes' = Successes
      BY <2>1 DEF Successes, Succeeded
    <3> QED
      BY <1>2, <3>1 DEF Main, Acquire, Acquired, Spawn, StartRange, ReceiveCrash, PutBack, Reexecute
  <2>2. CASE Spawn \/ (Reexecute /\ gor' # gor)
    <3>1. PICK t \in Task, w \in Entry : Go(t, w)
      <4>1. CASE Spawn
        <5>1. /\ next \in 1..TotalWorkers /\ Len(retInfo) = TotalWorkers
              /\ TotalWorkers \in Nat \ {0}
          BY <4>1, TotalWorkersAssumption, NWorkersAssumption DEF Spawn, PoolSize, TypeInv, TypeOK
        <5>2. ((next - 1) % Len(retInfo)) + 1 \in 1..Len(retInfo)
          BY <5>1
        <5> QED
          BY <4>1, <5>1, <5>2 DEF Spawn, Task
      <4>2. CASE Reexecute /\ gor' # gor
        <5>1. taskStates[crashUUID] \in Task /\ Go(taskStates[crashUUID], retInfo[1])
          BY <4>2 DEF Reexecute, Task, TypeInv, TypeOK
        <5>2. retInfo[1] \in Entry
          BY <4>2 DEF Reexecute, Enough, TypeInv, TypeOK, PoolSize
        <5> QED
          BY <5>1, <5>2
      <4> QED
        BY <2>2, <4>1, <4>2
    <3>2. /\ Len(gor') = Len(gor) + 1
          /\ \A h \in 1..Len(gor) : gor'[h] = gor[h]
          /\ gor'[Len(gor) + 1].pc = "store"
      BY <3>1, GoProperties DEF TypeInv, TypeOK
    <3>3. Successes' = Successes
      BY <1>1, <3>2 DEF Succeeded
    <3> QED
      BY <2>2, <3>3 DEF Spawn, Reexecute
  <2> QED
    BY <1>2, <2>1, <2>2 DEF Main, Acquire, Acquired, StartRange, ReceiveCrash, PutBack
<1>3. CASE OrDoneStep \/ UNCHANGED vars
  <2>1. UNCHANGED <<gor, pc>>
    BY <1>3 DEF OrDoneStep, CountFinish, TakeCrash, vars
  <2> QED
    BY <2>1 DEF Successes, Succeeded
<1>4. ASSUME NEW g \in DOMAIN gor, Goroutine(g)
      PROVE  Successes' = Successes /\ pc' = pc
  <2>1. PICK from \in GorPc, to \in GorPc :
          GoTo(g, from, to) /\ (from \in {"sendFinish", "finished"} <=> to \in {"sendFinish", "finished"})
    BY <1>4 DEF Goroutine, Store, MapFailed, ReportFinish, ReportCrash, GorPc
  <2>2. /\ Len(gor') = Len(gor) /\ gor[g].pc = from
        /\ gor'[g].pc = to /\ gor'[g].task = gor[g].task
        /\ \A h \in 1..Len(gor) : h # g => gor'[h] = gor[h]
    <3>1. gor \in Seq(GorRecord) /\ g \in 1..Len(gor)
      BY DEF TypeInv, TypeOK
    <3>2. GoTo(g, from, to) /\ to \in GorPc
      BY <2>1
    <3> HIDE <1>0 DEF WellFormed
    <3> QED
      BY ONLY <3>1, <3>2, GoToProperties
  <2>3. Successes' = Successes
    BY <1>1, <2>1, <2>2 DEF Succeeded
  <2> QED
    BY <1>4, <2>3 DEF Goroutine, Store, MapFailed, ReportFinish, ReportCrash
<1> QED
  BY <1>2, <1>3, <1>4 DEF Next, Terminated

\* A call that succeeds completes its task, for the first time.
LEMMA CompletesOnce ==
  ASSUME IInv, NEW g \in DOMAIN gor, MapDone(g)
  PROVE  /\ gor[g].task \in Task
         /\ \A s \in Successes : s.task # gor[g].task
         /\ Successes' = Successes \cup {[task |-> gor[g].task, attempt |-> g]}
         /\ pc # "done" /\ pc' = pc
<1>0. TypeInv /\ Safety /\ WellFormed
  BY IInvParts
<1> USE <1>0 DEF WellFormed
<1>1. /\ Len(gor') = Len(gor) /\ gor[g].pc = "call"
      /\ gor'[g].pc = "sendFinish" /\ gor'[g].task = gor[g].task
      /\ \A h \in 1..Len(gor) : h # g => gor'[h] = gor[h]
      /\ gor' \in Seq(GorRecord)
  BY GoToProperties DEF MapDone, GorPc, TypeInv, TypeOK
<1>2. gor[g].task \in Task /\ \A s \in Successes : s.task # gor[g].task
  BY <1>1 DEF Successes, Succeeded, Safety, TaskOwnedOnce, Owner
<1>3. DOMAIN gor' = 1..Len(gor)
  BY <1>1, LenProperties
<1>4. {h \in DOMAIN gor' : Succeeded(h)'} = {h \in DOMAIN gor : Succeeded(h)} \cup {g}
  BY <1>1, <1>3 DEF Succeeded
<1>5. Successes' = Successes \cup {[task |-> gor[g].task, attempt |-> g]}
  BY <1>1, <1>4 DEF Successes
<1>6. pc # "done" /\ pc' = pc
  BY <1>1, IInvNothingOutlives DEF NothingOutlivesPhase, Live, MapDone
<1> QED
  BY <1>2, <1>5, <1>6

\* When distributeMapTask returns, every task has succeeded.
LEMMA ReturnsComplete ==
  ASSUME IInv, Return
  PROVE  /\ \A t \in Task : \E s \in Successes : s.task = t
         /\ Successes' = Successes
         /\ pc # "done" /\ pc' = "done"
<1>0. TypeInv /\ Safety /\ WellFormed /\ orState = "closed"
  BY IInvParts DEF Return
<1>1. ASSUME NEW t \in Task PROVE \E s \in Successes : s.task = t
  <2>1. PICK g \in counted : gor[g].task = t
    BY <1>0, ClosedComplete
  <2>2. g \in DOMAIN gor /\ Succeeded(g)
    BY <1>0 DEF Safety, FinishesCounted, Succeeded, WellFormed, TypeInv, TypeOK
  <2>3. [task |-> gor[g].task, attempt |-> g] \in Successes
    BY <2>2 DEF Successes
  <2> QED
    BY <2>1, <2>3
<1>2. Successes' = Successes
  BY DEF Successes, Succeeded, Return
<1> QED
  BY <1>1, <1>2 DEF Return

\* distributeMapTask implements TaskPhase: every map task succeeds exactly once,
\* whatever fails and however often tasks are executed again, and the phase
\* ends only after all of them.
THEOREM Refinement == ASSUME UniqueUuid PROVE Spec => ImplementsTaskPhase
<1>1. Init => Phase!Init
  <2> SUFFICES ASSUME Init PROVE Phase!Init
    OBVIOUS
  <2>1. DOMAIN gor = {} /\ pc # "done"
    BY DEF Init
  <2> QED
    BY <2>1 DEF Phase!Init, Successes
<1>2. IInv /\ [Next]_vars => [Phase!Next]_(Phase!phaseVars)
  <2> SUFFICES ASSUME IInv, [Next]_vars PROVE [Phase!Next]_(Phase!phaseVars)
    OBVIOUS
  <2>1. CASE \E g \in DOMAIN gor : MapDone(g)
    <3>1. PICK g \in DOMAIN gor : MapDone(g)
      BY <2>1
    <3>2. PICK t \in Task : t = gor[g].task
      BY <3>1, CompletesOnce
    <3>3. Phase!Complete(t)
      BY <3>1, <3>2, CompletesOnce DEF Phase!Complete
    <3> QED
      BY <3>3 DEF Phase!Next
  <2>2. CASE Return
    <3>1. Phase!End
      BY <2>2, ReturnsComplete DEF Phase!End
    <3> QED
      BY <3>1 DEF Phase!Next
  <2>3. CASE ~Return /\ \A g \in DOMAIN gor : ~MapDone(g)
    BY <2>3, Stutter DEF Phase!phaseVars
  <2> QED
    BY <2>1, <2>2, <2>3
<1> QED
  BY <1>1, <1>2, InductiveInvariant, PTL DEF Spec, ImplementsTaskPhase, Phase!Spec

-----------------------------------------------------------------------------
(***************************************************************************)
(* The map phase with its handlers, files and lists (MapJob).  Beside what *)
(* the phase keeps, the lists have an element for every handler that has   *)
(* reported and for no other; as long as each worker runs one attempt, the *)
(* file of a worker is that of its attempt and is listed once.             *)
(***************************************************************************)
Written(g) == handler[g] \in {"wrote", "reported"}

\* What the lists say of the attempts.
Listed ==
  /\ \A g \in 1..Len(gor) : handler[g] = "reported" =>
       \E i \in 1..Len(imds) : imds[i] = Uuid[gor[g].w]
  /\ \A i \in 1..Len(imds) : \E g \in 1..Len(gor) :
       handler[g] = "reported" /\ imds[i] = Uuid[gor[g].w]

\* What one attempt per worker makes of files and lists.
FilesOwned ==
  OneAttemptPerWorker =>
    /\ \A g \in 1..Len(gor) : Written(g) => imdFile[Uuid[gor[g].w]] \in {gor[g].task, LostWrite}
    /\ \A i, j \in 1..Len(imds) : imds[i] = imds[j] => i = j

JobInv ==
  /\ JobTypeOK
  /\ \A g \in Gid \ (1..Len(gor)) : handler[g] = "none"
  /\ \A g \in 1..Len(gor) : Succeeded(g) => handler[g] = "reported"
  /\ Listed
  /\ FilesOwned

-----------------------------------------------------------------------------
\* Tasks and workers are numbered apart.
LEMMA NumberedApart ==
  ASSUME NEW n \in Nat, NEW a \in Nat \ {0}, NEW b \in Nat \ {0}
  PROVE  (n + a = n + b => a = b) /\ \A t \in 1..n : t # n + a
  OBVIOUS

\* Every goroutine has a handler.
Bounded == 1..Len(gor) \subseteq Gid

\* A phase starts at most one goroutine per task and one per failed worker: the task of
\* a goroutine that has not been replaced is its own, and so is the worker of one
\* that has.
LEMMA AttemptsBounded == IInv => Bounded
<1> SUFFICES ASSUME IInv PROVE 1..Len(gor) \subseteq Gid
  BY DEF Bounded
<1>0. Safety /\ WellFormed
  BY IInvParts
<1> DEFINE n == Len(gor)
           f == [g \in 1..n |-> IF Owner(g) THEN gor[g].task ELSE TotalWorkers + gor[g].w]
<1>1. n \in Nat /\ TotalWorkers \in Nat /\ NWorkers \in Nat
  BY <1>0, TotalWorkersAssumption, NWorkersAssumption DEF WellFormed
<1>2. ASSUME NEW g \in 1..n
      PROVE  /\ gor[g].task \in 1..TotalWorkers /\ gor[g].w \in 1..NWorkers
             /\ ~Owner(g) => Failed(g)
  BY <1>0 DEF WellFormed, Task, Entry, Owner, Failed
<1>3. f \in [1..n -> Gid]
  BY <1>1, <1>2 DEF Gid
<1>4. ASSUME NEW g \in 1..n, NEW h \in 1..n, f[g] = f[h] PROVE g = h
  <2>0. /\ gor[g].task \in 1..TotalWorkers /\ gor[g].w \in 1..NWorkers
        /\ gor[h].task \in 1..TotalWorkers /\ gor[h].w \in 1..NWorkers
    BY <1>2
  <2>6. /\ Owner(g) => f[g] = gor[g].task
        /\ ~Owner(g) => f[g] = TotalWorkers + gor[g].w
        /\ Owner(h) => f[h] = gor[h].task
        /\ ~Owner(h) => f[h] = TotalWorkers + gor[h].w
    BY Zenon
  <2> HIDE DEF f
  <2>1. CASE Owner(g) /\ Owner(h)
    BY <1>0, <1>4, <2>1, <2>6 DEF Safety, TaskOwnedOnce, n
  <2>2. CASE ~Owner(g) /\ ~Owner(h)
    <3>1. TotalWorkers + gor[g].w = TotalWorkers + gor[h].w
      BY <1>4, <2>2, <2>6
    <3>2. gor[g].w = gor[h].w
      BY <1>1, <2>0, <3>1, NumberedApart
    <3> QED
      BY <1>0, <1>2, <2>2, <3>2 DEF Safety, FailedOnce, n
  <2>3. CASE Owner(g) /\ ~Owner(h)
    <3>1. gor[g].task = TotalWorkers + gor[h].w
      BY <1>4, <2>3, <2>6
    <3> QED
      BY <1>1, <2>0, <3>1, NumberedApart
  <2>4. CASE ~Owner(g) /\ Owner(h)
    <3>1. gor[h].task = TotalWorkers + gor[g].w
      BY <1>4, <2>4, <2>6
    <3> QED
      BY <1>1, <2>0, <3>1, NumberedApart
  <2> QED
    BY <2>1, <2>2, <2>3, <2>4
<1> HIDE DEF f, n
<1>5. f \in Injection(1..n, Gid)
  BY <1>3, <1>4 DEF Injection, IsInjective
<1>6. IsFiniteSet(Gid) /\ Cardinality(Gid) = TotalWorkers + NWorkers
  <2>1. TotalWorkers + NWorkers \in Nat \ {0}
    BY <1>1, NWorkersAssumption
  <2>2. IsFiniteSet(Gid) /\ Cardinality(Gid) = (TotalWorkers + NWorkers) - 1 + 1
    BY <2>1, FS_Interval DEF Gid
  <2> QED
    BY <2>1, <2>2
<1>7. Cardinality(1..n) = n
  <2>1. Cardinality(1..n) = IF 1 > n THEN 0 ELSE n - 1 + 1
    BY <1>1, FS_Interval
  <2> QED
    BY <1>1, <2>1
<1>8. n <= TotalWorkers + NWorkers
  BY <1>5, <1>6, <1>7, FS_Injection
<1> QED
  BY <1>1, <1>8 DEF n, Gid

\* The steps of the job are steps of the phase, or leave it alone.
LEMMA JobRefinesPhase == JobNext => [Next]_vars
  BY DEF JobNext, PhaseStep, StartMap, WriteIMD, UpdateIMDInfo, Answer, Next, Goroutine

\* The goroutines there are, and the program counters of those that have succeeded.
Started == 1..Len(gor)
Success == {"sendFinish", "finished"}

\* What the job's steps do to the goroutines: new ones have not succeeded, and the old
\* ones keep their task and their worker.
LEMMA PhaseStepGor ==
  ASSUME IInv, PhaseStep
  PROVE  /\ Started \subseteq Started'
         /\ \A g \in Started :
              gor'[g].task = gor[g].task /\ gor'[g].w = gor[g].w
                /\ (gor'[g].pc \in Success => gor[g].pc \in Success)
         /\ \A g \in Started' \ Started : gor'[g].pc \notin Success
<1> USE DEF Started
<1>0. TypeInv /\ WellFormed
  BY IInvParts
<1> USE <1>0 DEF WellFormed
<1>1. CASE UNCHANGED gor
  BY <1>1 DEF Success
<1>2. ASSUME NEW t \in Task, NEW w \in Entry, Go(t, w)
      PROVE  /\ 1..Len(gor) \subseteq 1..Len(gor')
             /\ \A g \in 1..Len(gor) : gor'[g] = gor[g]
             /\ \A g \in (1..Len(gor')) \ (1..Len(gor)) : gor'[g].pc = "store"
  <2>1. /\ Len(gor') = Len(gor) + 1 /\ \A g \in 1..Len(gor) : gor'[g] = gor[g]
        /\ gor'[Len(gor) + 1].pc = "store"
    BY <1>2, GoProperties DEF TypeInv, TypeOK
  <2>2. \A g \in (1..Len(gor')) \ (1..Len(gor)) : g = Len(gor) + 1
    BY <2>1
  <2> QED
    BY <2>1, <2>2
<1>3. CASE Spawn
  <2>1. /\ next \in Task /\ Len(retInfo) = TotalWorkers /\ TotalWorkers \in Nat \ {0}
    BY <1>3, TotalWorkersAssumption, NWorkersAssumption DEF Spawn, PoolSize, TypeInv, TypeOK, Task
  <2>2. ((next - 1) % Len(retInfo)) + 1 \in 1..Len(retInfo)
    BY <2>1 DEF Task
  <2>3. \E w \in Entry : Go(next, w)
    BY <1>3, <2>2 DEF Spawn
  <2> QED
    BY <1>2, <2>1, <2>3 DEF Success
<1>4. CASE Reexecute /\ gor' # gor
  <2>1. taskStates[crashUUID] \in Task /\ Go(taskStates[crashUUID], retInfo[1])
    BY <1>4 DEF Reexecute, Task, TypeInv, TypeOK
  <2>2. retInfo[1] \in Entry
    BY <1>4 DEF Reexecute, Enough, TypeInv, TypeOK, PoolSize
  <2> QED
    BY <1>2, <2>1, <2>2 DEF Success
<1>5. ASSUME NEW g \in 1..Len(gor), Store(g) \/ MapFailed(g) \/ ReportFinish(g) \/ ReportCrash(g)
      PROVE  /\ Len(gor') = Len(gor)
             /\ \A h \in 1..Len(gor) :
                  gor'[h].task = gor[h].task /\ gor'[h].w = gor[h].w
                    /\ (gor'[h].pc \in Success => gor[h].pc \in Success)
  <2>1. PICK from \in GorPc, to \in GorPc :
          GoTo(g, from, to) /\ (to \in {"sendFinish", "finished"} => from \in {"sendFinish", "finished"})
    BY <1>5 DEF Store, MapFailed, ReportFinish, ReportCrash, GorPc
  <2>2. /\ Len(gor') = Len(gor) /\ gor[g].pc = from
        /\ gor'[g].pc = to /\ gor'[g].task = gor[g].task /\ gor'[g].w = gor[g].w
        /\ \A h \in 1..Len(gor) : h # g => gor'[h] = gor[h]
    BY <2>1, GoToProperties DEF TypeInv, TypeOK
  <2> QED
    BY <2>1, <2>2 DEF Success
<1>6. CASE \E g \in 1..Len(gor) : Store(g) \/ MapFailed(g) \/ ReportFinish(g) \/ ReportCrash(g)
  <2>1. PICK g \in 1..Len(gor) : Store(g) \/ MapFailed(g) \/ ReportFinish(g) \/ ReportCrash(g)
    BY <1>6
  <2>2. /\ Len(gor') = Len(gor)
        /\ \A h \in 1..Len(gor) :
             gor'[h].task = gor[h].task /\ gor'[h].w = gor[h].w
               /\ (gor'[h].pc \in Success => gor[h].pc \in Success)
    BY <1>5, <2>1
  <2> QED
    BY <2>2
<1>7. UNCHANGED gor \/ Spawn \/ (Reexecute /\ gor' # gor)
      \/ \E g \in 1..Len(gor) : Store(g) \/ MapFailed(g) \/ ReportFinish(g) \/ ReportCrash(g)
  BY DEF PhaseStep, Main, Acquire, Acquired, StartRange, ReceiveCrash, PutBack, Return,
         OrDoneStep, CountFinish, TakeCrash, Terminated, vars
<1> QED
  BY <1>1, <1>3, <1>4, <1>6, <1>7

-----------------------------------------------------------------------------
\* If each worker has run one attempt at most after a step in which no handler starts
\* over and goroutines keep their workers, that was so before it.
LEMMA OneAttemptBefore ==
  ASSUME IInv, IInv', OneAttemptPerWorker',
         \A g \in 1..Len(gor) : g \in 1..Len(gor') /\ gor'[g].w = gor[g].w
                               /\ (handler[g] # "none" => handler'[g] # "none")
  PROVE  OneAttemptPerWorker
<1>1. DOMAIN gor = 1..Len(gor) /\ DOMAIN gor' = 1..Len(gor')
  BY LenProperties DEF IInv, TypeOK
<1> QED
  BY <1>1 DEF OneAttemptPerWorker

\* A step of the phase that leaves the workers' side alone keeps the job's invariant.
LEMMA PhaseStepJobInv == ASSUME IInv, IInv', JobInv, PhaseStep PROVE JobInv'
<1>0. /\ Started \subseteq Started'
      /\ \A g \in Started : gor'[g].task = gor[g].task /\ gor'[g].w = gor[g].w
      /\ \A g \in Started' : Succeeded(g)' => g \in Started /\ Succeeded(g)
  <2>1. /\ Started \subseteq Started'
        /\ \A g \in Started :
             gor'[g].task = gor[g].task /\ gor'[g].w = gor[g].w
               /\ (gor'[g].pc \in Success => gor[g].pc \in Success)
        /\ \A g \in Started' \ Started : gor'[g].pc \notin Success
    BY PhaseStepGor, Zenon
  <2> QED
    BY <2>1 DEF Succeeded, Success
<1>1. handler' = handler /\ imdFile' = imdFile /\ imds' = imds
  BY DEF PhaseStep
<1>2. JobTypeOK'
  BY <1>1 DEF JobInv, JobTypeOK, IInv
<1>3. Started' \subseteq Gid
  <2>1. Bounded'
    BY AttemptsBounded, PTL
  <2> QED
    BY <2>1 DEF Bounded, Started, Gid
<1>4. /\ \A g \in Gid \ Started : handler[g] = "none"
      /\ \A g \in Started : Succeeded(g) => handler[g] = "reported"
      /\ \A g \in Started : handler[g] = "reported" => \E i \in 1..Len(imds) : imds[i] = Uuid[gor[g].w]
      /\ \A i \in 1..Len(imds) : \E g \in Started : handler[g] = "reported" /\ imds[i] = Uuid[gor[g].w]
  BY DEF JobInv, Listed, Started
<1>5. FilesOwned'
  <2> SUFFICES ASSUME OneAttemptPerWorker'
               PROVE  /\ \A g \in Started' : Written(g)' => imdFile[Uuid[gor'[g].w]] \in {gor'[g].task, LostWrite}
                      /\ \A i, j \in 1..Len(imds) : imds[i] = imds[j] => i = j
    BY <1>1 DEF FilesOwned, Started
  <2>1. OneAttemptPerWorker
    BY <1>0, <1>1, OneAttemptBefore DEF Started
  <2>2. /\ \A g \in Started : Written(g) => imdFile[Uuid[gor[g].w]] \in {gor[g].task, LostWrite}
        /\ \A i, j \in 1..Len(imds) : imds[i] = imds[j] => i = j
    BY <2>1 DEF JobInv, FilesOwned, Started
  <2>3. \A g \in Started' : Written(g)' => g \in Started /\ Written(g)
    BY <1>1, <1>3, <1>4 DEF Written
  <2> QED
    BY <1>0, <2>2, <2>3
<1>6. /\ \A g \in Gid \ Started' : handler[g] = "none"
      /\ \A g \in Started' : Succeeded(g)' => handler[g] = "reported"
      /\ \A g \in Started' : handler[g] = "reported" => \E i \in 1..Len(imds) : imds[i] = Uuid[gor'[g].w]
      /\ \A i \in 1..Len(imds) : \E g \in Started' : handler[g] = "reported" /\ imds[i] = Uuid[gor'[g].w]
  <2>1. \A g \in Gid \ Started' : handler[g] = "none"
    BY <1>0, <1>4
  <2>2. \A g \in Started' : Succeeded(g)' => handler[g] = "reported"
    BY <1>0, <1>4
  <2>3. \A g \in Started' : handler[g] = "reported" => g \in Started
    BY <1>3, <1>4
  <2>4. \A g \in Started' : handler[g] = "reported" => \E i \in 1..Len(imds) : imds[i] = Uuid[gor'[g].w]
    BY <1>0, <1>4, <2>3
  <2>5. \A i \in 1..Len(imds) : \E g \in Started' : handler[g] = "reported" /\ imds[i] = Uuid[gor'[g].w]
    BY <1>0, <1>4
  <2> QED
    BY <2>1, <2>2, <2>4, <2>5
<1>7. Listed'
  <2>1. \A g \in 1..Len(gor') : handler'[g] = "reported" =>
          \E i \in 1..Len(imds') : imds'[i] = Uuid[gor'[g].w]
    BY <1>1, <1>6 DEF Started
  <2>2. \A i \in 1..Len(imds') : \E g \in 1..Len(gor') :
          handler'[g] = "reported" /\ imds'[i] = Uuid[gor'[g].w]
    BY <1>1, <1>6 DEF Started
  <2> QED
    BY <2>1, <2>2 DEF Listed
<1> QED
  BY <1>1, <1>2, <1>5, <1>6, <1>7 DEF JobInv, Started

\* A handler's step changes its own program counter.
LEMMA HandlerToProperties ==
  ASSUME JobInv, NEW g \in Gid, NEW from, NEW to \in {"none", "running", "wrote", "reported"},
         HandlerTo(g, from, to)
  PROVE  /\ handler[g] = from /\ handler'[g] = to
         /\ \A h \in Gid : h # g => handler'[h] = handler[h]
         /\ handler' \in [Gid -> {"none", "running", "wrote", "reported"}]
  BY DEF JobInv, JobTypeOK, HandlerTo

\* A step of a worker's handler keeps it.
LEMMA HandlerJobInv ==
  ASSUME UniqueUuid, IInv, IInv', JobInv, NEW g \in 1..Len(gor),
         StartMap(g) \/ WriteIMD(g) \/ UpdateIMDInfo(g)
  PROVE  JobInv'
<1>0. /\ WellFormed /\ 1..Len(gor) \subseteq Gid /\ g \in Gid /\ UNCHANGED vars /\ gor' = gor
      /\ gor[g].w \in Entry /\ Uuid[gor[g].w] \in Entry /\ gor[g].task \in 1..TotalWorkers
      /\ imds \in Seq(Entry) /\ imdFile \in [Entry -> 0..LostWrite]
  BY IInvParts, AttemptsBounded
     DEF Bounded, WellFormed, StartMap, WriteIMD, UpdateIMDInfo, JobInv, JobTypeOK, vars, Task
<1>1. PICK from \in {"none", "running", "wrote"}, to \in {"running", "wrote", "reported"} :
        /\ HandlerTo(g, from, to)
        /\ \/ StartMap(g) /\ from = "none" /\ to = "running"
           \/ WriteIMD(g) /\ from = "running" /\ to = "wrote"
           \/ UpdateIMDInfo(g) /\ from = "wrote" /\ to = "reported"
  BY DEF StartMap, WriteIMD, UpdateIMDInfo
<1>2. /\ handler[g] = from /\ handler'[g] = to
      /\ \A h \in Gid : h # g => handler'[h] = handler[h]
      /\ handler' \in [Gid -> {"none", "running", "wrote", "reported"}]
  BY <1>0, <1>1, HandlerToProperties
<1>3. imds' \in Seq(Entry) /\ imdFile' \in [Entry -> 0..LostWrite]
  <2>1. CASE StartMap(g)
    BY <1>0, <2>1 DEF StartMap
  <2>2. CASE WriteIMD(g)
    <3>1. PICK content \in {gor[g].task, LostWrite} :
            imds' = imds /\ imdFile' = [imdFile EXCEPT ![Uuid[gor[g].w]] = content]
      BY <2>2 DEF WriteIMD
    <3>2. content \in 0..LostWrite
      BY <1>0, TotalWorkersAssumption, NWorkersAssumption DEF LostWrite
    <3> QED
      BY <1>0, <3>1, <3>2
  <2>3. CASE UpdateIMDInfo(g)
    BY <1>0, <2>3, AppendProperties DEF UpdateIMDInfo
  <2> QED
    BY <1>1, <2>1, <2>2, <2>3
<1>4. JobTypeOK'
  BY <1>2, <1>3 DEF IInv, JobTypeOK
<1>5. \A h \in Gid \ (1..Len(gor')) : handler'[h] = "none"
  BY <1>0, <1>2 DEF JobInv
<1>6. \A h \in 1..Len(gor') : Succeeded(h)' => handler'[h] = "reported"
  BY <1>0, <1>1, <1>2 DEF JobInv, Succeeded
<1>7. ASSUME UpdateIMDInfo(g)
      PROVE  /\ Len(imds') = Len(imds) + 1 /\ imds'[Len(imds) + 1] = Uuid[gor[g].w]
             /\ Len(imds) \in Nat
             /\ \A i \in 1..Len(imds) : imds'[i] = imds[i]
             /\ imdFile' = imdFile
  BY <1>0, <1>7, AppendProperties, LenProperties DEF UpdateIMDInfo
<1>8. Listed'
  <2>1. CASE UpdateIMDInfo(g)
    <3>0. to = "reported"
      BY <1>1, <2>1 DEF UpdateIMDInfo, StartMap, WriteIMD, HandlerTo
    <3>1. ASSUME NEW h \in 1..Len(gor), handler'[h] = "reported"
          PROVE  \E i \in 1..Len(imds') : imds'[i] = Uuid[gor[h].w]
      <4>1. CASE h = g
        BY <1>7, <2>1, <4>1
      <4>2. CASE h # g
        <5>1. PICK i \in 1..Len(imds) : imds[i] = Uuid[gor[h].w]
          BY <1>0, <1>2, <3>1, <4>2 DEF JobInv, Listed
        <5> QED
          BY <1>7, <2>1, <5>1
      <4> QED
        BY <4>1, <4>2
    <3>2. ASSUME NEW i \in 1..Len(imds')
          PROVE  \E h \in 1..Len(gor) : handler'[h] = "reported" /\ imds'[i] = Uuid[gor[h].w]
      <4>1. CASE i = Len(imds) + 1
        BY <1>2, <1>7, <2>1, <3>0, <4>1
      <4>2. CASE i \in 1..Len(imds)
        <5>1. PICK h \in 1..Len(gor) : handler[h] = "reported" /\ imds[i] = Uuid[gor[h].w]
          BY <4>2 DEF JobInv, Listed
        <5>2. h # g /\ handler'[h] = "reported"
          BY <1>0, <1>1, <1>2, <5>1
        <5> QED
          BY <1>7, <2>1, <4>2, <5>1, <5>2
      <4> QED
        BY <1>7, <2>1, <4>1, <4>2
    <3> QED
      BY <1>0, <3>1, <3>2 DEF Listed
  <2>2. CASE StartMap(g) \/ WriteIMD(g)
    <3>1. imds' = imds /\ to # "reported" /\ from # "reported"
      BY <1>1, <1>2, <2>2 DEF StartMap, WriteIMD, HandlerTo, UpdateIMDInfo
    <3>2. \A h \in 1..Len(gor) : handler'[h] = "reported" <=> handler[h] = "reported"
      BY <1>0, <1>2, <3>1
    <3>3. /\ \A h \in 1..Len(gor) : handler[h] = "reported" => \E i \in 1..Len(imds) : imds[i] = Uuid[gor[h].w]
          /\ \A i \in 1..Len(imds) : \E h \in 1..Len(gor) : handler[h] = "reported" /\ imds[i] = Uuid[gor[h].w]
      BY DEF JobInv, Listed
    <3>4. /\ \A h \in 1..Len(gor) : handler'[h] = "reported" => \E i \in 1..Len(imds) : imds[i] = Uuid[gor[h].w]
          /\ \A i \in 1..Len(imds) : \E h \in 1..Len(gor) : handler'[h] = "reported" /\ imds[i] = Uuid[gor[h].w]
      BY ONLY <3>2, <3>3
    <3> QED
      BY <1>0, <3>1, <3>4 DEF Listed
  <2> QED
    BY <1>1, <2>1, <2>2
<1>9. FilesOwned'
  <2> SUFFICES ASSUME OneAttemptPerWorker'
               PROVE  /\ \A h \in 1..Len(gor) : Written(h)' => imdFile'[Uuid[gor[h].w]] \in {gor[h].task, LostWrite}
                      /\ \A i, j \in 1..Len(imds') : imds'[i] = imds'[j] => i = j
    BY <1>0 DEF FilesOwned
  <2>1. OneAttemptPerWorker
    BY <1>0, <1>1, <1>2, OneAttemptBefore
  <2>2. /\ \A h \in 1..Len(gor) : Written(h) => imdFile[Uuid[gor[h].w]] \in {gor[h].task, LostWrite}
        /\ \A i, j \in 1..Len(imds) : imds[i] = imds[j] => i = j
    BY <2>1 DEF JobInv, FilesOwned
  <2>3. ASSUME NEW h \in 1..Len(gor), handler'[h] # "none", Uuid[gor[h].w] = Uuid[gor[g].w] PROVE h = g
    <3>1. gor[h].w = gor[g].w
      BY <1>0, <2>3 DEF UniqueUuid, WellFormed
    <3> QED
      BY <1>0, <1>2, <2>3, <3>1 DEF OneAttemptPerWorker, WellFormed
  <2>4. CASE StartMap(g)
    <3>1. imds' = imds /\ imdFile' = imdFile /\ to = "running"
      BY <1>1, <1>2, <2>4 DEF StartMap, HandlerTo
    <3> QED
      BY <1>0, <1>2, <2>2, <3>1 DEF Written
  <2>5. CASE WriteIMD(g)
    <3>1. PICK content \in {gor[g].task, LostWrite} :
            imds' = imds /\ imdFile' = [imdFile EXCEPT ![Uuid[gor[g].w]] = content]
      BY <2>5 DEF WriteIMD
    <3>2. ASSUME NEW h \in 1..Len(gor), Written(h)' PROVE imdFile'[Uuid[gor[h].w]] \in {gor[h].task, LostWrite}
      <4>1. CASE h = g
        BY <1>0, <3>1, <4>1
      <4>2. CASE h # g
        <5>1. Written(h) /\ Uuid[gor[h].w] # Uuid[gor[g].w] /\ Uuid[gor[h].w] \in Entry
          BY <1>0, <1>2, <2>3, <3>2, <4>2 DEF Written, WellFormed
        <5> QED
          BY <1>0, <2>2, <3>1, <5>1
      <4> QED
        BY <4>1, <4>2
    <3> QED
      BY <2>2, <3>1, <3>2
  <2>6. CASE UpdateIMDInfo(g)
    <3>1. \A h \in 1..Len(gor) : Written(h)' => Written(h)
      BY <1>0, <1>1, <1>2, <2>6 DEF Written, UpdateIMDInfo, HandlerTo
    <3>2. \A i \in 1..Len(imds) : imds[i] # Uuid[gor[g].w]
      <4> SUFFICES ASSUME NEW i \in 1..Len(imds), imds[i] = Uuid[gor[g].w] PROVE FALSE
        OBVIOUS
      <4>1. PICK h \in 1..Len(gor) : handler[h] = "reported" /\ imds[i] = Uuid[gor[h].w]
        BY DEF JobInv, Listed
      <4>2. h # g /\ handler'[h] = "reported"
        BY <1>0, <1>1, <1>2, <4>1
      <4> QED
        BY <2>3, <4>1, <4>2
    <3>3. ASSUME NEW i \in 1..Len(imds'), NEW j \in 1..Len(imds'), imds'[i] = imds'[j] PROVE i = j
      BY <1>7, <2>2, <2>6, <3>2, <3>3
    <3> QED
      BY <1>7, <2>2, <2>6, <3>1, <3>3
  <2> QED
    BY <2>4, <2>5, <2>6
<1> QED
  BY <1>4, <1>5, <1>6, <1>8, <1>9 DEF JobInv

\* So does the answer of a handler that has reported.
LEMMA AnswerJobInv ==
  ASSUME IInv, IInv', JobInv, NEW g \in 1..Len(gor), Answer(g)
  PROVE  JobInv'
<1> DEFINE old == 1..Len(gor)
<1>1. handler' = handler /\ imdFile' = imdFile /\ imds' = imds /\ handler[g] = "reported"
  BY DEF Answer
<1>2. /\ Len(gor') = Len(gor)
      /\ \A h \in old : gor'[h].task = gor[h].task /\ gor'[h].w = gor[h].w
      /\ \A h \in old : h # g => gor'[h] = gor[h]
  <2>1. GoTo(g, "call", "sendFinish") /\ gor \in Seq(GorRecord) /\ "sendFinish" \in GorPc
    BY DEF Answer, MapDone, GorPc, IInv, TypeOK
  <2>2. /\ Len(gor') = Len(gor) /\ gor'[g].task = gor[g].task /\ gor'[g].w = gor[g].w
        /\ \A h \in 1..Len(gor) : h # g => gor'[h] = gor[h]
    BY <2>1, GoToProperties
  <2> QED
    BY <2>2
<1>3. 1..Len(gor') = old
  BY <1>2
<1>4. JobTypeOK'
  BY <1>1 DEF JobInv, JobTypeOK, IInv
<1>5. /\ \A h \in Gid \ old : handler[h] = "none"
      /\ \A h \in old : Succeeded(h) => handler[h] = "reported"
      /\ \A h \in old : handler[h] = "reported" => \E i \in 1..Len(imds) : imds[i] = Uuid[gor[h].w]
      /\ \A i \in 1..Len(imds) : \E h \in old : handler[h] = "reported" /\ imds[i] = Uuid[gor[h].w]
  BY DEF JobInv, Listed
<1>6. FilesOwned'
  <2> SUFFICES ASSUME OneAttemptPerWorker'
               PROVE  /\ \A h \in old : Written(h)' => imdFile[Uuid[gor'[h].w]] \in {gor'[h].task, LostWrite}
                      /\ \A i, j \in 1..Len(imds) : imds[i] = imds[j] => i = j
    BY <1>1, <1>3 DEF FilesOwned
  <2>1. OneAttemptPerWorker
    BY <1>1, <1>2, <1>3, OneAttemptBefore
  <2>2. /\ \A h \in old : Written(h) => imdFile[Uuid[gor[h].w]] \in {gor[h].task, LostWrite}
        /\ \A i, j \in 1..Len(imds) : imds[i] = imds[j] => i = j
    BY <2>1 DEF JobInv, FilesOwned
  <2> HIDE DEF old
  <2> QED
    BY <1>1, <1>2, <2>2 DEF Written
<1>7. \A h \in old : Succeeded(h)' => handler[h] = "reported"
  BY <1>1, <1>2, <1>5 DEF Succeeded
<1> HIDE DEF old
<1>8. /\ \A h \in old : handler[h] = "reported" => \E i \in 1..Len(imds) : imds[i] = Uuid[gor'[h].w]
      /\ \A i \in 1..Len(imds) : \E h \in old : handler[h] = "reported" /\ imds[i] = Uuid[gor'[h].w]
  <2>1. \A h \in old : gor'[h].w = gor[h].w
    BY <1>2
  <2>2. ASSUME NEW h \in old, handler[h] = "reported"
        PROVE  \E i \in 1..Len(imds) : imds[i] = Uuid[gor'[h].w]
    <3>1. PICK i \in 1..Len(imds) : imds[i] = Uuid[gor[h].w]
      BY <1>5, <2>2
    <3> QED
      BY <2>1, <3>1
  <2>3. ASSUME NEW i \in 1..Len(imds)
        PROVE  \E h \in old : handler[h] = "reported" /\ imds[i] = Uuid[gor'[h].w]
    <3>1. PICK h \in old : handler[h] = "reported" /\ imds[i] = Uuid[gor[h].w]
      BY <1>5
    <3> QED
      BY <2>1, <3>1
  <2> QED
    BY <2>2, <2>3
<1>9. Listed'
  BY <1>1, <1>3, <1>8 DEF Listed
<1> QED
  BY <1>1, <1>3, <1>4, <1>5, <1>6, <1>7, <1>9 DEF JobInv

\* Before the first handler there is nothing to keep.
LEMMA JobInitInv == ASSUME JobInit PROVE JobInv
<1>1. TypeOK
  BY TypeInit DEF JobInit, TypeInv
<1>2. Len(gor) = 0 /\ imds = <<>> /\ Len(imds) = 0
  BY DEF JobInit, Init
<1>3. JobTypeOK
  BY <1>1, <1>2, TotalWorkersAssumption, NWorkersAssumption DEF JobTypeOK, JobInit, LostWrite
<1>4. \A g \in Gid : handler[g] = "none"
  BY DEF JobInit
<1> QED
  BY <1>2, <1>3, <1>4 DEF JobInv, Listed, FilesOwned

\* The phase's invariant and the job's are kept together.
LEMMA JobStepInv ==
  ASSUME UniqueUuid, IInv, JobInv, [JobNext]_jobVars
  PROVE  IInv' /\ JobInv'
<1>1. [Next]_vars
  BY JobRefinesPhase DEF jobVars
<1>2. IInv'
  BY <1>1, IInvNext
<1>3. DOMAIN gor = 1..Len(gor)
  BY LenProperties DEF IInv, TypeOK
<1>4. CASE UNCHANGED jobVars
  <2>1. gor' = gor /\ handler' = handler /\ imdFile' = imdFile /\ imds' = imds
    BY <1>4 DEF jobVars, vars
  <2>2. JobTypeOK'
    BY <1>2, <2>1 DEF JobInv, JobTypeOK, IInv
  <2>3. /\ \A g \in Gid \ (1..Len(gor')) : handler'[g] = "none"
        /\ \A g \in 1..Len(gor') : Succeeded(g)' => handler'[g] = "reported"
    BY <2>1 DEF JobInv, Succeeded
  <2>4. Listed'
    BY <2>1 DEF JobInv, Listed
  <2>5. FilesOwned'
    BY <2>1 DEF JobInv, FilesOwned, Written, OneAttemptPerWorker
  <2> QED
    BY <1>2, <2>2, <2>3, <2>4, <2>5 DEF JobInv
<1>5. CASE PhaseStep
  BY <1>2, <1>5, PhaseStepJobInv
<1>6. ASSUME NEW g \in 1..Len(gor), StartMap(g) \/ WriteIMD(g) \/ UpdateIMDInfo(g) PROVE JobInv'
  BY <1>2, <1>6, HandlerJobInv
<1>7. ASSUME NEW g \in 1..Len(gor), Answer(g) PROVE JobInv'
  BY <1>2, <1>7, AnswerJobInv
<1> QED
  BY <1>2, <1>3, <1>4, <1>5, <1>6, <1>7 DEF JobNext

\* The invariant of the map phase with its handlers, files and lists.
THEOREM JobInvariant == ASSUME UniqueUuid PROVE JobSpec => [](IInv /\ JobInv)
<1>1. JobInit => IInv /\ JobInv
  BY JobInitInv, IInvInit DEF JobInit
<1>2. IInv /\ JobInv /\ [JobNext]_jobVars => IInv' /\ JobInv'
  BY JobStepInv
<1> QED
  BY <1>1, <1>2, PTL DEF JobSpec

-----------------------------------------------------------------------------
\* A successful attempt's output is on the lists.
LEMMA SuccessListed ==
  ASSUME IInv, JobInv, OneAttemptPerWorker, SuccessesWritten, NEW g \in DOMAIN gor, Succeeded(g)
  PROVE  Listings(gor[g].task) # {}
<1>1. g \in 1..Len(gor) /\ DOMAIN imds = 1..Len(imds)
  BY LenProperties DEF IInv, TypeOK, JobInv, JobTypeOK
<1>2. handler[g] = "reported"
  BY <1>1 DEF JobInv
<1>3. PICK i \in 1..Len(imds) : imds[i] = Uuid[gor[g].w]
  BY <1>1, <1>2 DEF JobInv, Listed
<1>4. imdFile[Uuid[gor[g].w]] = gor[g].task
  BY <1>1, <1>2 DEF JobInv, FilesOwned, Written, SuccessesWritten
<1> QED
  BY <1>1, <1>3, <1>4 DEF Listings

\* The two invariants together give every task its output when there are spares.
LEMMA InvNothingLost == IInv /\ JobInv => NothingLostWithSpares
<1> SUFFICES ASSUME IInv, JobInv, OneAttemptPerWorker, SuccessesWritten, pc = "done", NEW t \in Task
             PROVE  Listings(t) # {}
  BY DEF NothingLostWithSpares
<1>1. PICK g \in DOMAIN gor : gor[g].task = t /\ Succeeded(g)
  BY IInvMapComplete DEF MapComplete
<1> QED
  BY <1>1, SuccessListed

\* With one attempt per worker, and nothing reported by a call that failed, what is on
\* the lists at the end was put there by the one attempt that owns the task.
LEMMA InvExactlyOnce == UniqueUuid /\ IInv /\ JobInv => ExactlyOnceWithCleanFailures
<1> SUFFICES ASSUME UniqueUuid, IInv, JobInv, OneAttemptPerWorker, SuccessesWritten,
                    \A g \in DOMAIN gor : Failed(g) => handler[g] # "reported",
                    pc = "done", NEW t \in Task
             PROVE  Cardinality(Listings(t)) = 1
  BY DEF ExactlyOnceWithCleanFailures, ExactlyOnce
<1>0. /\ DOMAIN gor = 1..Len(gor) /\ DOMAIN imds = 1..Len(imds) /\ gor \in Seq(GorRecord)
      /\ Safety /\ WellFormed
  BY LenProperties, IInvParts DEF IInv, TypeOK, JobInv, JobTypeOK
<1>1. Listings(t) # {}
  BY InvNothingLost DEF NothingLostWithSpares
<1>2. ASSUME NEW i \in Listings(t)
      PROVE  \E g \in 1..Len(gor) : imds[i] = Uuid[gor[g].w] /\ gor[g].task = t /\ Owner(g)
  <2>1. i \in 1..Len(imds) /\ imdFile[imds[i]] = t
    BY <1>0 DEF Listings
  <2>2. PICK g \in 1..Len(gor) : handler[g] = "reported" /\ imds[i] = Uuid[gor[g].w]
    BY <2>1 DEF JobInv, Listed
  <2>3. gor[g].task = t
    <3>1. imdFile[Uuid[gor[g].w]] \in {gor[g].task, LostWrite}
      BY <2>2 DEF JobInv, FilesOwned, Written
    <3>2. t # LostWrite
      BY TotalWorkersAssumption, NWorkersAssumption DEF Task, LostWrite
    <3> QED
      BY <2>1, <2>2, <3>1, <3>2
  <2>4. gor[g].pc # "crashed"
    BY <1>0, <2>2 DEF Failed
  <2> QED
    BY <2>2, <2>3, <2>4 DEF Owner
<1>3. ASSUME NEW i \in Listings(t), NEW j \in Listings(t) PROVE i = j
  <2>1. PICK g \in 1..Len(gor) : imds[i] = Uuid[gor[g].w] /\ gor[g].task = t /\ Owner(g)
    BY <1>2
  <2>2. PICK h \in 1..Len(gor) : imds[j] = Uuid[gor[h].w] /\ gor[h].task = t /\ Owner(h)
    BY <1>2
  <2>3. g = h
    BY <1>0, <2>1, <2>2 DEF Safety, TaskOwnedOnce
  <2>4. i \in 1..Len(imds) /\ j \in 1..Len(imds) /\ imds[i] = imds[j]
    BY <1>0, <2>1, <2>2, <2>3 DEF Listings
  <2> QED
    BY <2>4 DEF JobInv, FilesOwned
<1>4. \E i : Listings(t) = {i}
  BY <1>1, <1>3
<1> QED
  BY <1>4, FS_Singleton

\* With one attempt per worker the reducers find the output of every map task, also
\* when calls fail, are tried again elsewhere, or report after they have failed.
THEOREM NothingLostHolds == ASSUME UniqueUuid PROVE JobSpec => []NothingLostWithSpares
  BY InvNothingLost, JobInvariant, PTL

\* If besides no failed call has left a report behind they find it exactly once.
THEOREM ExactlyOnceHolds == ASSUME UniqueUuid PROVE JobSpec => []ExactlyOnceWithCleanFailures
  BY InvExactlyOnce, JobInvariant, PTL

=============================================================================
