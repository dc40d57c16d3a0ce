------------------------------ MODULE ReduceJob ------------------------------
(***************************************************************************)
(* The reduce phase composed with what its calls do: Worker.Reduce fetches *)
(* the intermediate files from the workers that hold them, creates its     *)
(* output file mr-out-<ID>.txt, named after the worker and not after the   *)
(* task, and writes it.                                                    *)
(*                                                                         *)
(* A worker process may die at any time, and dies by log.Panic when a file *)
(* cannot be fetched, so the loss of a holder takes the reducers down with *)
(* it.  A call that failed for the master may have a handler that goes on. *)
(* As in MapJob handlers have no fairness of their own.                    *)
(*                                                                         *)
(* A holder never comes back, so all files of a task are fetched in one    *)
(* step: who can be reached later could be reached at the first fetch.     *)
(***************************************************************************)
EXTENDS ReducePhase

CONSTANTS
  MaxCrashes,    \* bound on the workers that die by themselves
  MaxTimeouts    \* bound on the calls that fail although their worker lives

ASSUME MaxCrashesAssumption == MaxCrashes \in Nat
ASSUME MaxTimeoutsAssumption == MaxTimeouts \in Nat

VARIABLES
  holders,   \* the workers that hold intermediate files
  dead,      \* the worker processes that have ended
  crashes,   \* how many of them died by themselves
  timeouts,  \* how many calls have failed although their worker lived
  dialed,    \* the entry each attempt called; 0 = not yet
  handler,   \* the handler of each attempt, at the worker
  out        \* the output file of each worker

outside == <<holders, dead, crashes, timeouts, dialed, handler, out>>
jobVars == <<vars, outside>>

\* A file: whose output it is, complete or not, and whether of all files.
NoFile == [task |-> 0, whole |-> FALSE, all |-> FALSE]

\* Attempts and files refer to workers and tasks of the job.
JobTypeOK ==
  /\ TypeOK
  /\ holders \subseteq Entry /\ dead \subseteq Entry
  /\ crashes \in 0..MaxCrashes /\ timeouts \in 0..MaxTimeouts
  /\ dialed \in [Gid -> 0..NWorkers]
  /\ handler \in [Gid -> {"none", "fetching", "writing", "wrote", "lost"}]
  /\ out \in [Entry -> [task : 0..NumReducer, whole : BOOLEAN, all : BOOLEAN]]

\* The workers whose Map calls succeeded hold the files; they live, at first.
JobInit ==
  /\ Init
  /\ holders = {w \in Entry : workerState[w] = "IDLE"}
  /\ dead = {} /\ crashes = 0 /\ timeouts = 0
  /\ dialed = [g \in Gid |-> 0]
  /\ handler = [g \in Gid |-> "none"]
  /\ out = [w \in Entry |-> NoFile]

-----------------------------------------------------------------------------
\* client.Reduce(workers[id].IP, ...) is called.
Call(g) ==
  /\ Dial(g)
  /\ dialed' = [dialed EXCEPT ![g] = W(g)]
  /\ UNCHANGED <<holders, dead, crashes, timeouts, handler, out>>

\* The handler of attempt g takes a step, at a worker that lives.
HandlerTo(g, from, to) ==
  /\ dialed[g] # 0 /\ dialed[g] \notin dead
  /\ handler[g] = from
  /\ handler' = [handler EXCEPT ![g] = to]

\* The request reaches the worker while the master waits for the answer.
StartReduce(g) ==
  /\ gor[g].pc = "call"
  /\ HandlerTo(g, "none", "fetching")
  /\ UNCHANGED <<vars, holders, dead, crashes, timeouts, dialed, out>>

\* os.Create of the output, after all files have been fetched.
CreateOutput(g, all) ==
  out' = [out EXCEPT ![dialed[g]] = [task |-> gor[g].task, whole |-> FALSE, all |-> all]]

\* Faulty variant of Fetch: a file that cannot be fetched counts as empty.
FetchSkips(g) ==
  /\ HandlerTo(g, "fetching", "writing")
  /\ CreateOutput(g, holders \cap dead = {})
  /\ UNCHANGED <<vars, holders, dead, crashes, timeouts, dialed>>

\* GetIMDData of every file in in.Files succeeds.
Fetch(g) ==
  /\ holders \cap dead = {}
  /\ HandlerTo(g, "fetching", "writing")
  /\ CreateOutput(g, TRUE)
  /\ UNCHANGED <<vars, holders, dead, crashes, timeouts, dialed>>

\* GetIMDData fails: log.Panic in the handler ends the worker's process.
FetchPanics(g) ==
  /\ holders \cap dead # {}
  /\ dialed[g] # 0 /\ dialed[g] \notin dead /\ handler[g] = "fetching"
  /\ dead' = dead \cup {dialed[g]}
  /\ UNCHANGED <<vars, holders, crashes, timeouts, dialed, handler, out>>

\* The last group is reduced and its line written; a later task of the same
\* worker may have truncated the file, then this writes into that one.
WriteOutput(g) ==
  /\ HandlerTo(g, "writing", "wrote")
  /\ out' = [out EXCEPT ![dialed[g]].whole = (out[dialed[g]].task = gor[g].task)]
  /\ UNCHANGED <<vars, holders, dead, crashes, timeouts, dialed>>

\* os.Create of the output or a write to it fails: the errors are ignored, and the
\* handler goes on to its end.
OutputLost(g) ==
  /\ \/ holders \cap dead = {} /\ HandlerTo(g, "fetching", "lost")
     \/ HandlerTo(g, "writing", "lost")
  /\ UNCHANGED <<vars, holders, dead, crashes, timeouts, dialed, out>>

\* The success the master sees is the return of the handler.
Answer(g) ==
  /\ handler[g] \in {"wrote", "lost"} /\ dialed[g] \notin dead
  /\ ReduceDone(g)
  /\ UNCHANGED outside

\* The call fails because the worker is gone, or although it is not.
CallFails(g) ==
  /\ ReduceFailed(g)
  /\ dialed[g] \in dead \/ timeouts < MaxTimeouts
  /\ timeouts' = IF dialed[g] \in dead THEN timeouts ELSE timeouts + 1
  /\ UNCHANGED <<holders, dead, crashes, dialed, handler, out>>

\* A worker process dies by itself.
Crash(w) ==
  /\ w \notin dead /\ crashes < MaxCrashes
  /\ pc \notin {"done", "panicked"}
  /\ dead' = dead \cup {w}
  /\ crashes' = crashes + 1
  /\ UNCHANGED <<vars, holders, timeouts, dialed, handler, out>>

\* All other steps of the phase.
PhaseStep ==
  /\ \/ Main \/ OrDoneStep \/ Terminated
     \/ \E g \in DOMAIN gor :
          Delete(g) \/ Store(g) \/ MarkBusy(g) \/ ReportFinish(g) \/ ReportCrash(g) \/ IndexPanic(g)
  /\ UNCHANGED outside

JobNext ==
  \/ PhaseStep
  \/ \E g \in DOMAIN gor :
       \/ Call(g) \/ StartReduce(g) \/ Fetch(g) \/ FetchPanics(g) \/ WriteOutput(g)
       \/ OutputLost(g) \/ Answer(g) \/ CallFails(g)
  \/ \E w \in Entry : Crash(w)

JobSpec == JobInit /\ [][JobNext]_jobVars

JobFairSpec == JobSpec /\ Fairness

-----------------------------------------------------------------------------
(* Properties.                                                             *)

Failed(g) == gor[g].pc \in {"sendCrash", "crashed"}

\* Handlers that have come to their output.
Writing(g) == handler[g] \in {"writing", "wrote", "lost"}

\* No worker began the output of two tasks, no failed call left one behind, and none
\* could not be written.
OneOutputPerTask ==
  /\ \A g, h \in DOMAIN gor : Writing(g) /\ Writing(h) /\ dialed[g] = dialed[h] => g = h
  /\ \A g \in DOMAIN gor : Failed(g) => ~Writing(g)
  /\ \A g \in DOMAIN gor : handler[g] # "lost"

\* At the return of an undisturbed phase the output of every task, computed from
\* the files of all holders, is complete in exactly one mr-out file, as long as
\* no worker wrote twice, no failed call wrote and no write failed: not even the
\* death of a holder in the middle makes a reducer answer with less.
OutputsComplete ==
  pc = "done" /\ Undisturbed /\ OneOutputPerTask =>
    \A t \in Task : \E w \in Entry :
      /\ out[w] = [task |-> t, whole |-> TRUE, all |-> TRUE]
      /\ \A v \in Entry : out[v].task = t => v = w
=============================================================================
