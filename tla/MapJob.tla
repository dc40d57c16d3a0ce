------------------------------- MODULE MapJob -------------------------------
(***************************************************************************)
(* The map phase composed with what its calls do: Worker.Map writes the    *)
(* task's output to files named after the worker (imd-<UUID>-<r>.txt) and  *)
(* announces them with UpdateIMDInfo, which appends to the IMDs of every   *)
(* reduce task.  The reducers later read, for each element of IMDs, the    *)
(* file as it then is.                                                     *)
(*                                                                         *)
(* A call that fails for the master (client.Map returned false) says       *)
(* nothing about the handler: it may not have started, may have died at    *)
(* any point, or may still run and report, because Worker.Map ignores its  *)
(* context.  A handler that stops for ever is one whose process crashed;   *)
(* the call then fails by its deadline, so that the phase ends as MapPhase *)
(* says, whatever the handlers do.                                         *)
(*                                                                         *)
(* The R files of one attempt are written between two barriers and listed  *)
(* together under ms.mux, so one content and one list stand for all R.     *)
(***************************************************************************)
EXTENDS MapPhase

CONSTANT MaxLostWrites   \* bound on the workers whose files could not be written

ASSUME MaxLostWritesAssumption == MaxLostWrites \in Nat

VARIABLES
  handler,   \* the handler of each attempt, at the worker
  imdFile,   \* the task whose output each worker's files hold; 0 = no file,
             \* LostWrite = files that could not be written
  imds       \* ReduceTasks[r].IMDs, as the entry each element points to

jobVars == <<vars, handler, imdFile, imds>>

\* Numbers of goroutines, which are also the numbers of attempts.
Gid == 1..(TotalWorkers + NWorkers)

LostWrite == TotalWorkers + 1
LostFiles == Cardinality({w \in Entry : imdFile[w] = LostWrite})

\* Attempts, files and lists refer to tasks and workers of the job.
JobTypeOK ==
  /\ TypeOK
  /\ handler \in [Gid -> {"none", "running", "wrote", "reported"}]
  /\ imdFile \in [Entry -> 0..LostWrite]
  /\ imds \in Seq(Entry)

JobInit ==
  /\ Init
  /\ handler = [g \in Gid |-> "none"]
  /\ imdFile = [w \in Entry |-> 0]
  /\ imds = <<>>

HandlerTo(g, from, to) ==
  /\ handler[g] = from
  /\ handler' = [handler EXCEPT ![g] = to]

\* The request reaches the worker while the master waits for the answer.
StartMap(g) ==
  /\ gor[g].pc = "call"
  /\ HandlerTo(g, "none", "running")
  /\ UNCHANGED <<vars, imdFile, imds>>

\* Faulty variant of WriteIMD: the file name does not contain the UUID.
WriteIMDSharedName(g) ==
  /\ HandlerTo(g, "running", "wrote")
  /\ imdFile' = [w \in Entry |-> gor[g].task]
  /\ UNCHANGED <<vars, imds>>

\* writeIMDToLocalFile: os.Create truncates whatever the worker wrote before; the
\* error of WriteString is ignored, so the handler goes on without the output.
WriteIMD(g) ==
  /\ HandlerTo(g, "running", "wrote")
  /\ \E content \in {gor[g].task, LostWrite} :
       /\ content = LostWrite => LostFiles < MaxLostWrites
       /\ imdFile' = [imdFile EXCEPT ![Uuid[gor[g].w]] = content]
  /\ UNCHANGED <<vars, imds>>

\* Master.UpdateIMDInfo appends, whatever was reported for the task before.
UpdateIMDInfo(g) ==
  /\ HandlerTo(g, "wrote", "reported")
  /\ imds' = Append(imds, Uuid[gor[g].w])
  /\ UNCHANGED <<vars, imdFile>>

\* Faulty variant of Answer: the handler does not wait for UpdateIMDInfo.
AnswerEarly(g) ==
  /\ handler[g] \in {"wrote", "reported"}
  /\ MapDone(g)
  /\ UNCHANGED <<handler, imdFile, imds>>

\* The success the master sees is the return of the handler.
Answer(g) ==
  /\ handler[g] = "reported"
  /\ MapDone(g)
  /\ UNCHANGED <<handler, imdFile, imds>>

\* All other steps of the phase.
PhaseStep ==
  /\ \/ Main \/ OrDoneStep \/ Terminated
     \/ \E g \in DOMAIN gor : Store(g) \/ MapFailed(g) \/ ReportFinish(g) \/ ReportCrash(g)
  /\ UNCHANGED <<handler, imdFile, imds>>

JobNext ==
  \/ PhaseStep
  \/ \E g \in DOMAIN gor : StartMap(g) \/ WriteIMD(g) \/ UpdateIMDInfo(g) \/ Answer(g)

JobSpec == JobInit /\ [][JobNext]_jobVars

-----------------------------------------------------------------------------
(* Properties.                                                             *)

Listings(t) == {i \in DOMAIN imds : imdFile[imds[i]] = t}

\* No worker ran two attempts, as when there are spare workers for all failures.
OneAttemptPerWorker ==
  \A g, h \in DOMAIN gor :
    /\ handler[g] # "none" /\ handler[h] # "none"
    /\ gor[g].w = gor[h].w
    => g = h

\* No attempt that the master counts as a success lost what it wrote.
SuccessesWritten ==
  \A g \in DOMAIN gor : Succeeded(g) => imdFile[Uuid[gor[g].w]] # LostWrite

\* The reducers see the output of every map task exactly once.
ExactlyOnce ==
  pc = "done" => \A t \in Task : Cardinality(Listings(t)) = 1

\* ... which holds when the failed calls left no report behind, each worker ran one
\* attempt and the successful ones wrote their files: without failures, and also
\* with them, re-execution by itself neither loses nor repeats a task's output.
ExactlyOnceWithCleanFailures ==
  /\ OneAttemptPerWorker /\ SuccessesWritten
  /\ \A g \in DOMAIN gor : Failed(g) => handler[g] # "reported"
  => ExactlyOnce

\* With one attempt per worker the output of no task is missing, even when failed
\* calls did report: the file a success wrote and announced is still there.
NothingLostWithSpares ==
  OneAttemptPerWorker /\ SuccessesWritten /\ pc = "done" =>
    \A t \in Task : Listings(t) # {}
=============================================================================
