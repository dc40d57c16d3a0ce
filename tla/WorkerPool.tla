----------------------------- MODULE WorkerPool -----------------------------
(***************************************************************************)
(* The master's table of workers (ms.Workers) and availableWorkers, the    *)
(* scan by which distributeMapTask and distributeReduceTask take workers   *)
(* out of it.  An entry of the table is its index; entries do not move and *)
(* are not added here (registration is over when the phases begin).        *)
(*                                                                         *)
(* availableWorkers runs unlocked, entry by entry, while goroutines change *)
(* the entries' states: each entry visited is one step.  Health() and the  *)
(* SetState(WORKER_BUSY) that follows it are one step, because only this   *)
(* scan takes an entry out of WORKER_IDLE; the one other step that may, a  *)
(* reduce goroutine that marks a worker of the overwritten slice, also     *)
(* sets WORKER_BUSY, so that it makes no difference which comes first.     *)
(* The count of broken entries only decides whether the scan sleeps before *)
(* it starts over.                                                         *)
(***************************************************************************)
EXTENDS Naturals, Sequences

CONSTANT NWorkers                       \* len(ms.Workers)

ASSUME NWorkersAssumption == NWorkers \in Nat \ {0}

Entry == 1..NWorkers
WorkerStates == {"IDLE", "BUSY", "UNKNOWN"}

VARIABLES
  workerState,   \* WorkerInfo.WorkerState of every entry
  scan,          \* the entry availableWorkers visits next
  retInfo,       \* the entries it has taken so far
  num            \* how many its caller asked for

poolVars == <<workerState, scan, retInfo, num>>

PoolTypeOK ==
  /\ workerState \in [Entry -> WorkerStates]
  /\ scan \in Entry
  /\ retInfo \in Seq(Entry)
  /\ num \in Nat

-----------------------------------------------------------------------------
\* WorkerInfo.SetState
SetState(w, s) == workerState' = [workerState EXCEPT ![w] = s]

\* The call availableWorkers(n): an empty result and a scan from the first entry.
Request(n) ==
  /\ num' = n
  /\ scan' = 1
  /\ retInfo' = <<>>

\* Faulty variants of ScanEntry: SetState(WORKER_BUSY) is forgotten, and the
\* last entry is never visited.
ScanEntryUnmarked ==
  /\ Len(retInfo) < num
  /\ scan' = (scan % NWorkers) + 1
  /\ retInfo' = IF workerState[scan] = "IDLE" THEN Append(retInfo, scan) ELSE retInfo
  /\ UNCHANGED <<num, workerState>>

ScanEntryShort ==
  /\ Len(retInfo) < num
  /\ scan' = (scan % (NWorkers - 1)) + 1
  /\ \/ /\ workerState[scan] = "IDLE"
        /\ retInfo' = Append(retInfo, scan)
        /\ SetState(scan, "BUSY")
     \/ /\ workerState[scan] # "IDLE"
        /\ UNCHANGED <<retInfo, workerState>>
  /\ UNCHANGED num

\* One turn of the scan's inner loop: a healthy entry is taken and marked busy.
ScanEntry ==
  /\ Len(retInfo) < num
  /\ scan' = (scan % NWorkers) + 1
  /\ \/ /\ workerState[scan] = "IDLE"
        /\ retInfo' = Append(retInfo, scan)
        /\ SetState(scan, "BUSY")
     \/ /\ workerState[scan] # "IDLE"
        /\ UNCHANGED <<retInfo, workerState>>
  /\ UNCHANGED num

\* total >= num: the scan breaks out of its loop and returns retInfo.
Enough == Len(retInfo) >= num
=============================================================================
