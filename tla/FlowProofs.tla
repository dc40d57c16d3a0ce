----------------------------- MODULE FlowProofs -----------------------------
(***************************************************************************)
(* What the two mutexes of the batch layer guarantee, for any number of    *)
(* flows with and without parameters: jobs never overlap, the environment  *)
(* is restored, and a flow that no other disturbs imports what its own job *)
(* made of its own rows.                                                   *)
(***************************************************************************)
EXTENDS Flow, FiniteSetTheorems, TLAPS

\* The variables the argument is about are functions on the flows.
Shape ==
  /\ pc \in [Flows -> {"start", "setenv", "source", "export", "cleanup", "run", "wait",
                       "running", "sink", "read", "restore", "unlock", "ended"}]
  /\ result \in [Flows -> {"none", "ok", "error", "envError"}]
  /\ job \in [Flows -> {"none", "starting", "map", "reduce", "ended", "stuck"}]
  /\ restore \in [Flows -> Flows \cup {NoFlow}]
  /\ env \in Flows \cup {NoFlow} /\ envMu \in Flows \cup {NoFlow}

\* legacyRuntimeMu is held exactly while the runner waits for its job.
RuntimeHeld == \A f \in Flows : pc[f] = "running" <=> runtimeMu = f

\* No job runs that no runner waits for.
JobsWaitedFor == \A f \in Flows : Running(f) => pc[f] = "running"

\* transformEnvMu is held exactly by the flow that is inside withTransformParams.
EnvHeld ==
  \A f \in Flows :
    /\ f \in WithParams /\ Active(f) <=> envMu = f
    /\ pc[f] \in {"setenv", "restore", "unlock"} => f \in WithParams

\* A flow whose os.Setenv failed goes straight to the unlock.
EnvErrorLast == \A f \in Flows : result[f] = "envError" => pc[f] \in {"unlock", "ended"}

NoEnvError == \A f \in Flows : result[f] # "envError"

\* The environment is the original one or the holder has it to restore.
EnvKept ==
  NoEnvError =>
    /\ envMu = NoFlow => env = NoFlow
    /\ \A f \in Flows : pc[f] \in {"setenv", "unlock"} => env = NoFlow
    /\ \A f \in WithParams :
         Active(f) /\ pc[f] \notin {"setenv", "unlock"} => restore[f] = NoFlow

\* Inductive: the mutexes are held by the flows that should hold them.
FlowInv == Shape /\ RuntimeHeld /\ JobsWaitedFor /\ EnvHeld /\ EnvErrorLast /\ EnvKept

\* It holds before the first flow starts.
LEMMA InitFlowInv == Init => FlowInv
BY NoFlowAssumption, WithParamsAssumption
DEF Init, FlowInv, Shape, RuntimeHeld, JobsWaitedFor, Running, EnvHeld, Active,
    EnvErrorLast, EnvKept, NoEnvError

\* Every step of a flow or of its job keeps the two mutexes with their holders,
\* and the environment with the one who has to restore it.
LEMMA StepFlowInv == FlowInv /\ [Next]_vars => FlowInv'
<1> SUFFICES ASSUME FlowInv, [Next]_vars PROVE FlowInv'
  OBVIOUS
<1> USE NoFlowAssumption, WithParamsAssumption
<1> USE DEF FlowInv, Shape, RuntimeHeld, JobsWaitedFor, Running, EnvHeld, Active,
            EnvErrorLast, EnvKept, NoEnvError
<1>1. ASSUME NEW f \in Flows, FlowStep(f) PROVE FlowInv'
  <2>1. CASE StartPlain(f)
    BY <2>1 DEF StartPlain, GoTo, jobVars, sharedVars
  <2>2. CASE LockEnv(f)
    BY <2>2 DEF LockEnv, GoTo, jobVars
  <2>3. CASE SetEnv(f)
    <3>1. envMu = f /\ envMu' = f /\ f \in WithParams
      BY <2>3 DEF SetEnv, GoTo
    <3>2. ASSUME NEW g \in Flows, pc'[g] \in {"setenv", "unlock"} PROVE FALSE
      <4>1. g # f /\ pc[g] \in {"setenv", "unlock"}
        BY <2>3, <3>2 DEF SetEnv, GoTo
      <4>2. envMu = g
        BY <4>1
      <4>3. QED
        BY <4>1, <4>2, <3>1
    <3>3. \A g \in Flows : pc'[g] \notin {"setenv", "unlock"}
      BY <3>2
    <3>4. Shape' /\ RuntimeHeld' /\ JobsWaitedFor' /\ EnvHeld' /\ EnvErrorLast'
      <4>1. Shape'
        BY <2>3 DEF SetEnv, GoTo, jobVars
      <4>2. RuntimeHeld' /\ JobsWaitedFor'
        BY <2>3 DEF SetEnv, GoTo, jobVars
      <4>3. EnvHeld'
        BY <2>3 DEF SetEnv, GoTo
      <4>4. EnvErrorLast'
        BY <2>3 DEF SetEnv, GoTo
      <4>5. QED
        BY <4>1, <4>2, <4>3, <4>4
    <3>5. NoEnvError => env = NoFlow
      BY <2>3 DEF SetEnv, GoTo
    <3>6. ASSUME NEW g \in WithParams, Active(g)', NoEnvError PROVE restore'[g] = NoFlow
      <4>1. envMu' = g
        BY <3>4, <3>6
      <4>2. g = f
        BY <4>1, <3>1
      <4>3. QED
        BY <4>2, <3>5, <3>6, <2>3 DEF SetEnv, GoTo
    <3>7. EnvKept'
      BY <3>1, <3>3, <3>6, <2>3 DEF SetEnv
    <3>8. QED
      BY <3>4, <3>7
  <2>4. CASE SetEnvFails(f)
    BY <2>4 DEF SetEnvFails, GoTo, jobVars
  <2>5. CASE SourceFails(f)
    BY <2>5 DEF SourceFails, Leave, GoTo, jobVars, sharedVars
  <2>6. CASE RemoveShards(f)
    BY <2>6 DEF RemoveShards, GoTo, jobVars
  <2>7. CASE Export(f)
    BY <2>7 DEF Export, GoTo, jobVars
  <2>8. CASE ExportEmpty(f)
    BY <2>8 DEF ExportEmpty, Leave, GoTo, jobVars, sharedVars
  <2>9. CASE cleanupReduceOutputs(f)
    BY <2>9 DEF cleanupReduceOutputs, GoTo, jobVars
  <2>10. CASE CheckContext(f)
    BY <2>10 DEF CheckContext, Leave, GoTo, jobVars, sharedVars
  <2>11. CASE LockRuntime(f)
    BY <2>11 DEF LockRuntime, GoTo, jobVars
  <2>12. CASE ObserveCancel(f)
    BY <2>12 DEF ObserveCancel, jobVars, sharedVars
  <2>13. CASE JobReturned(f)
    BY <2>13 DEF JobReturned, Leave, GoTo, jobVars
  <2>14. CASE Glob(f)
    BY <2>14 DEF Glob, Leave, GoTo, jobVars, sharedVars
  <2>15. CASE \E i \in Id : ReadFile(f, i)
    BY <2>15 DEF ReadFile, jobVars, sharedVars
  <2>16. CASE Imported(f)
    BY <2>16 DEF Imported, Leave, GoTo, jobVars, sharedVars
  <2>17. CASE SinkFails(f)
    BY <2>17 DEF SinkFails, Leave, GoTo, jobVars, sharedVars
  <2>18. CASE RestoreEnv(f)
    BY <2>18 DEF RestoreEnv, GoTo, jobVars
  <2>19. CASE UnlockEnv(f)
    BY <2>19 DEF UnlockEnv, GoTo, jobVars
  <2>20. QED
    BY <1>1, <2>1, <2>2, <2>3, <2>4, <2>5, <2>6, <2>7, <2>8, <2>9, <2>10, <2>11, <2>12, <2>13, <2>14, <2>15, <2>16, <2>17, <2>18, <2>19 DEF FlowStep
<1>2. ASSUME NEW f \in Flows, JobStep(f) PROVE FlowInv'
  <2>1. CASE WorkersStart(f)
    BY <2>1 DEF WorkersStart, JobTo, flowVars, sharedVars
  <2>2. CASE WorkersFail(f) \/ ListenFails(f)
    BY <2>2 DEF WorkersFail, ListenFails, JobTo, flowVars, sharedVars
  <2>3. CASE ReadShards(f)
    BY <2>3 DEF ReadShards, JobTo, flowVars, sharedVars
  <2>4. CASE \E i \in Id : WriteOutput(f, i)
    BY <2>4 DEF WriteOutput, flowVars
  <2>5. CASE EndJob(f)
    BY <2>5 DEF EndJob, JobTo, flowVars, sharedVars
  <2>6. QED
    BY <1>2, <2>1, <2>2, <2>3, <2>4, <2>5 DEF JobStep
<1>3. CASE UNCHANGED vars
  BY <1>3 DEF vars, flowVars, jobVars, sharedVars
<1>4. QED
  BY <1>1, <1>2, <1>3 DEF Next, Terminated

\* The mutexes are held by the flows that should hold them, in every behaviour.
THEOREM MutexesHeld == Spec => []FlowInv
BY InitFlowInv, StepFlowInv, PTL DEF Spec

\* Jobs never overlap and none outlives the Run that started it, for any flows
\* and whatever is cancelled or fails (legacyRuntimeMu, LegacyRunner.Run).
THEOREM OneJobHolds == Spec => []OneJob
<1>1. FlowInv => OneJob
  BY DEF FlowInv, RuntimeHeld, JobsWaitedFor, OneJob
<1>2. QED
  BY MutexesHeld, <1>1, PTL

\* With no flow inside withTransformParams the environment is the original one,
\* unless os.Setenv has failed.
THEOREM EnvRestoredHolds == Spec => []EnvRestored
<1>1. FlowInv => EnvRestored
  BY DEF FlowInv, EnvKept, NoEnvError, EnvRestored
<1>2. QED
  BY MutexesHeld, <1>1, PTL

-----------------------------------------------------------------------------
(* What a flow imports.  Undisturbed means alone: of two flows that are    *)
(* under way at the same time both are disturbed, because two with         *)
(* parameters cannot be.                                                   *)

Alone ==
  \A f, g \in Flows : f # g /\ Active(f) /\ Active(g) => f \in disturbed /\ g \in disturbed

Files ==
  /\ mrOut \in [Id -> Made \cup {NoFile}]
  /\ written \in [Flows -> SUBSET Id] /\ input \in [Flows -> Flows \cup {NoFlow}]
  /\ todo \in [Flows -> SUBSET Id] /\ imported \in [Flows -> SUBSET (Id \X Made)]
  /\ shards \in Flows \cup {NoFlow} /\ disturbed \subseteq Flows

\* The files a glob would find, and what a file of f's job is to be made from.
Outs == {i \in Id : mrOut[i] # NoFile}
Params(f) == IF f \in WithParams THEN f ELSE NoFlow
Mine(f) == [by |-> f, rows |-> f, env |-> Params(f)]

\* What concerns f alone: its job is not there before it runs, what it has
\* written and imported begins empty, and it has no result before its end.
Before(f) == pc[f] \in {"start", "setenv", "source", "export", "cleanup", "run", "wait"}

Local(f) ==
  /\ Before(f) => job[f] = "none" /\ written[f] = {}
  /\ job[f] \in {"starting", "map"} => written[f] = {}
  /\ Before(f) \/ pc[f] \in {"running", "sink"} => imported[f] = {}
  /\ pc[f] \notin {"restore", "unlock", "ended"} => result[f] = "none"

\* What f finds of the things it shares, at each of its points.
Working(f) ==
  /\ pc[f] \in {"source", "export", "cleanup", "run", "wait", "running", "sink", "read"} => env = Params(f)
  /\ pc[f] \in {"cleanup", "run", "wait", "running", "sink", "read"} => shards = f
  /\ pc[f] \in {"run", "wait"} \/ job[f] \in {"starting", "map"} => Outs = {}
  /\ job[f] = "reduce" => input[f] = f /\ Outs = written[f]
  /\ pc[f] \in {"running", "sink", "read"} /\ job[f] = "ended" => Cardinality(Outs) = Reducers[f]
  /\ pc[f] \in {"sink", "read"} => job[f] = "ended"
  /\ pc[f] \in {"running", "sink", "read"} => \A i \in Outs : mrOut[i] = Mine(f)
  /\ pc[f] = "read" =>
       /\ todo[f] \subseteq Outs
       /\ imported[f] = {<<i, Mine(f)>> : i \in Outs \ todo[f]}
       /\ Cardinality(imported[f]) + Cardinality(todo[f]) = Reducers[f]

\* What it has imported when it succeeds.
Final(f) ==
  result[f] = "ok" /\ imported[f] # {} =>
    Cardinality(imported[f]) = Reducers[f] /\ \A made \in imported[f] : made[2] = Mine(f)

Own(f) == f \notin disturbed /\ NoEnvError => (Active(f) => Working(f)) /\ Final(f)

\* Inductive together with FlowInv.
OwnInv == Files /\ Alone /\ \A f \in Flows : Local(f) /\ Own(f)


\* The set of worker IDs is finite, and so is every set of output files.
LEMMA IdsFinite == ASSUME NEW S \in SUBSET Id PROVE IsFiniteSet(S) /\ Cardinality(S) \in Nat
<1>1. IsFiniteSet(Id)
  BY NumWorkersAssumption, FS_Interval DEF Id
<1>2. IsFiniteSet(S)
  BY <1>1, FS_Subset
<1> QED
  BY <1>2, FS_CardinalityType

\* So is a set of output files that all have the same contents.
LEMMA MarkedFinite ==
  ASSUME NEW m, NEW T \in SUBSET (Id \X {m})
  PROVE  IsFiniteSet(T)
<1>1. IsFiniteSet(Id) /\ IsFiniteSet({m})
  BY IdsFinite, FS_Singleton
<1>2. IsFiniteSet(Id \X {m})
  BY <1>1, FS_Product
<1> QED
  BY <1>2, FS_Subset

\* It holds before the first flow starts.
LEMMA InitOwnInv == Init => OwnInv
<1> SUFFICES ASSUME Init PROVE OwnInv
  OBVIOUS
<1>1. Files
  BY DEF Init, Files, Made
<1>2. Alone
  BY DEF Init, Alone, Active
<1>3. ASSUME NEW f \in Flows PROVE Local(f) /\ Own(f)
  BY DEF Init, Local, Before, Own, Active, Final
<1> QED
  BY <1>1, <1>2, <1>3 DEF OwnInv

\* A step of one flow or of its job changes nothing that belongs to another.
LEMMA OthersKept ==
  ASSUME Shape, Files, NEW f \in Flows, NEW g \in Flows, f # g, FlowStep(g) \/ JobStep(g)
  PROVE  /\ pc'[f] = pc[f] /\ result'[f] = result[f] /\ job'[f] = job[f] /\ written'[f] = written[f]
         /\ input'[f] = input[f] /\ todo'[f] = todo[f] /\ imported'[f] = imported[f]
<1>1. CASE FlowStep(g)
  <2>1. pc'[f] = pc[f] /\ result'[f] = result[f] /\ job'[f] = job[f]
    BY <1>1 DEF Shape, FlowStep, StartPlain, LockEnv, SetEnv, SetEnvFails, SourceFails, RemoveShards, Export,
         ExportEmpty, cleanupReduceOutputs, CheckContext, LockRuntime, ObserveCancel, JobReturned, Glob,
         ReadFile, Imported, SinkFails, RestoreEnv, UnlockEnv, GoTo, Leave, jobVars
  <2>2. written'[f] = written[f] /\ input'[f] = input[f]
    BY <1>1 DEF FlowStep, StartPlain, LockEnv, SetEnv, SetEnvFails, SourceFails, RemoveShards, Export,
         ExportEmpty, cleanupReduceOutputs, CheckContext, LockRuntime, ObserveCancel, JobReturned, Glob,
         ReadFile, Imported, SinkFails, RestoreEnv, UnlockEnv, jobVars
  <2>3. todo'[f] = todo[f] /\ imported'[f] = imported[f]
    BY <1>1 DEF Files, FlowStep, StartPlain, LockEnv, SetEnv, SetEnvFails, SourceFails, RemoveShards, Export,
         ExportEmpty, cleanupReduceOutputs, CheckContext, LockRuntime, ObserveCancel, JobReturned, Glob,
         ReadFile, Imported, SinkFails, RestoreEnv, UnlockEnv
  <2> QED
    BY <2>1, <2>2, <2>3
<1>2. CASE JobStep(g)
  BY <1>2 DEF Shape, Files, JobStep, WorkersStart, WorkersFail, ListenFails, ReadShards, WriteOutput, EndJob, JobTo, flowVars
<1> QED
  BY <1>1, <1>2

\* Only the start of a flow adds to the disturbed ones, and a failed os.Setenv is
\* not forgotten.
LEMMA HistoryGrows ==
  ASSUME FlowInv, NEW g \in Flows, FlowStep(g) \/ JobStep(g)
  PROVE  disturbed \subseteq disturbed' /\ (NoEnvError' => NoEnvError)
         /\ (pc[g] # "start" => disturbed' = disturbed)
<1>1. CASE FlowStep(g)
  <2>1. disturbed \subseteq disturbed' /\ (pc[g] # "start" => disturbed' = disturbed)
    BY <1>1 DEF FlowStep, StartPlain, LockEnv, SetEnv, SetEnvFails, SourceFails, RemoveShards, Export,
         ExportEmpty, cleanupReduceOutputs, CheckContext, LockRuntime, ObserveCancel, JobReturned, Glob,
         ReadFile, Imported, SinkFails, RestoreEnv, UnlockEnv, GoTo, Overlap
  <2>2. NoEnvError' => NoEnvError
    <3> SUFFICES ASSUME NEW h \in Flows, result[h] = "envError" PROVE result'[h] = "envError"
      BY DEF NoEnvError
    <3>1. pc[h] \in {"unlock", "ended"}
      BY DEF FlowInv, EnvErrorLast
    <3> QED
      BY <1>1, <3>1 DEF FlowInv, Shape, FlowStep, StartPlain, LockEnv, SetEnv, SetEnvFails, SourceFails,
           RemoveShards, Export, ExportEmpty, cleanupReduceOutputs, CheckContext, LockRuntime, ObserveCancel,
           JobReturned, Glob, ReadFile, Imported, SinkFails, RestoreEnv, UnlockEnv, GoTo, Leave
  <2> QED
    BY <2>1, <2>2
<1>2. CASE JobStep(g)
  BY <1>2 DEF JobStep, WorkersStart, WorkersFail, ListenFails, ReadShards, WriteOutput, EndJob, flowVars, NoEnvError
<1> QED
  BY <1>1, <1>2

\* The files stay files of the process's flows.
LEMMA FilesNext ==
  ASSUME FlowInv, Files, NEW g \in Flows, FlowStep(g) \/ JobStep(g)
  PROVE  Files'
<1>0. env \in Flows \cup {NoFlow}
  BY DEF FlowInv, Shape
<1>1. CASE FlowStep(g)
  <2>1. mrOut' \in [Id -> Made \cup {NoFile}]
    BY <1>1 DEF Files, FlowStep, StartPlain, LockEnv, SetEnv, SetEnvFails, SourceFails, RemoveShards, Export,
         ExportEmpty, cleanupReduceOutputs, CheckContext, LockRuntime, ObserveCancel, JobReturned, Glob,
         ReadFile, Imported, SinkFails, RestoreEnv, UnlockEnv, sharedVars
  <2>2. written' = written /\ input' = input
    BY <1>1 DEF FlowStep, StartPlain, LockEnv, SetEnv, SetEnvFails, SourceFails, RemoveShards, Export,
         ExportEmpty, cleanupReduceOutputs, CheckContext, LockRuntime, ObserveCancel, JobReturned, Glob,
         ReadFile, Imported, SinkFails, RestoreEnv, UnlockEnv, jobVars
  <2>3. todo' \in [Flows -> SUBSET Id]
    BY <1>1 DEF Files, FlowStep, StartPlain, LockEnv, SetEnv, SetEnvFails, SourceFails, RemoveShards, Export,
         ExportEmpty, cleanupReduceOutputs, CheckContext, LockRuntime, ObserveCancel, JobReturned, Glob,
         ReadFile, Imported, SinkFails, RestoreEnv, UnlockEnv
  <2>4. imported' \in [Flows -> SUBSET (Id \X Made)]
    <3>1. CASE \E i \in Id : ReadFile(g, i)
      <4>1. PICK i \in Id : ReadFile(g, i)
        BY <3>1
      <4>2. mrOut[i] \in Made
        BY <4>1 DEF ReadFile, Files
      <4> QED
        BY <4>1, <4>2 DEF ReadFile, Files
    <3>2. CASE ~ \E i \in Id : ReadFile(g, i)
      BY <1>1, <3>2 DEF Files, FlowStep, StartPlain, LockEnv, SetEnv, SetEnvFails, SourceFails, RemoveShards,
           Export, ExportEmpty, cleanupReduceOutputs, CheckContext, LockRuntime, ObserveCancel, JobReturned,
           Glob, Imported, SinkFails, RestoreEnv, UnlockEnv
    <3> QED
      BY <3>1, <3>2
  <2>5. disturbed' \subseteq Flows
    BY <1>1 DEF Files, FlowStep, StartPlain, LockEnv, SetEnv, SetEnvFails, SourceFails, RemoveShards, Export,
         ExportEmpty, cleanupReduceOutputs, CheckContext, LockRuntime, ObserveCancel, JobReturned, Glob,
         ReadFile, Imported, SinkFails, RestoreEnv, UnlockEnv, Overlap
  <2>6. shards' \in Flows \cup {NoFlow}
    BY <1>1 DEF Files, FlowStep, StartPlain, LockEnv, SetEnv, SetEnvFails, SourceFails, RemoveShards, Export,
         ExportEmpty, cleanupReduceOutputs, CheckContext, LockRuntime, ObserveCancel, JobReturned, Glob,
         ReadFile, Imported, SinkFails, RestoreEnv, UnlockEnv, sharedVars
  <2> QED
    BY <2>1, <2>2, <2>3, <2>4, <2>5, <2>6 DEF Files
<1>2. CASE JobStep(g)
  <2>1. todo' = todo /\ imported' = imported /\ disturbed' = disturbed
    BY <1>2 DEF JobStep, WorkersStart, WorkersFail, ListenFails, ReadShards, WriteOutput, EndJob, flowVars
  <2>2. CASE \E i \in Id : WriteOutput(g, i)
    <3>1. PICK i \in Id : WriteOutput(g, i)
      BY <2>2
    <3>2. [by |-> g, rows |-> input[g], env |-> env] \in Made
      BY <1>0 DEF Files, Made
    <3> QED
      BY <2>1, <3>1, <3>2 DEF WriteOutput, Files
  <2>3. CASE WorkersStart(g) \/ WorkersFail(g) \/ ListenFails(g) \/ EndJob(g)
    BY <2>1, <2>3 DEF Files, WorkersStart, WorkersFail, ListenFails, EndJob, sharedVars
  <2>4. CASE ReadShards(g)
    BY <2>1, <2>4 DEF Files, ReadShards, sharedVars
  <2> QED
    BY <1>2, <2>2, <2>3, <2>4 DEF JobStep
<1> QED
  BY <1>1, <1>2

\* While a flow is under way that stays undisturbed, no other takes a step.
LEMMA OthersRest ==
  ASSUME FlowInv, Alone, NEW f \in Flows, NEW g \in Flows, f # g, Active(f), f \notin disturbed',
         FlowStep(g) \/ JobStep(g)
  PROVE  FALSE
<1>1. f \notin disturbed
  BY HistoryGrows
<1>2. ~Active(g)
  BY <1>1 DEF Alone
<1>3. CASE JobStep(g)
  <2>1. Running(g)
    BY <1>3 DEF JobStep, WorkersStart, WorkersFail, ListenFails, ReadShards, WriteOutput, EndJob, JobTo, Running
  <2> QED
    BY <1>2, <2>1 DEF FlowInv, JobsWaitedFor, Active
<1>4. CASE StartPlain(g)
  <2>1. f \in {h \in Flows \ {g} : Active(h) /\ ~({g, h} \subseteq WithParams)}
    BY <1>4 DEF StartPlain
  <2> QED
    BY <1>4, <2>1 DEF StartPlain, Overlap
<1>5. CASE LockEnv(g)
  <2>1. f \notin WithParams
    BY <1>5, NoFlowAssumption DEF LockEnv, FlowInv, EnvHeld
  <2>2. f \in {h \in Flows \ {g} : Active(h) /\ ~({g, h} \subseteq WithParams)}
    BY <2>1
  <2> QED
    BY <1>5, <2>2 DEF LockEnv, Overlap
<1>6. CASE FlowStep(g) /\ ~StartPlain(g) /\ ~LockEnv(g)
  BY <1>2, <1>6 DEF FlowStep, StartPlain, LockEnv, SetEnv, SetEnvFails, SourceFails, RemoveShards, Export,
         ExportEmpty, cleanupReduceOutputs, CheckContext, LockRuntime, ObserveCancel, JobReturned, Glob,
         ReadFile, Imported, SinkFails, RestoreEnv, UnlockEnv, GoTo, Leave, Active
<1> QED
  BY <1>3, <1>4, <1>5, <1>6

\* Two flows that are under way together have both been disturbed when the second
\* of them started.
LEMMA AloneNext ==
  ASSUME FlowInv, Files, Alone, NEW g \in Flows, FlowStep(g) \/ JobStep(g)
  PROVE  Alone'
<1> SUFFICES ASSUME NEW f \in Flows, NEW h \in Flows, f # h, Active(f)', Active(h)', f \notin disturbed'
             PROVE  FALSE
  BY DEF Alone
<1>1. f \notin disturbed
  BY HistoryGrows
<1>2. \A k \in Flows : k # g => (Active(k)' <=> Active(k))
  BY OthersKept DEF FlowInv, Active
<1>3. CASE f # g
  <2>1. Active(f)
    BY <1>2, <1>3
  <2> QED
    BY <1>3, <2>1, OthersRest
<1>4. CASE f = g
  <2>1. Active(h) /\ h # g
    BY <1>2, <1>4
  <2>2. ~Active(g)
    BY <1>1, <1>4, <2>1 DEF Alone
  <2>3. StartPlain(g) \/ LockEnv(g)
    <3>1. ~JobStep(g)
      <4> SUFFICES ASSUME JobStep(g) PROVE FALSE
        OBVIOUS
      <4>1. Running(g)
        BY DEF JobStep, WorkersStart, WorkersFail, ListenFails, ReadShards, WriteOutput, EndJob, JobTo, Running
      <4> QED
        BY <2>2, <4>1 DEF FlowInv, JobsWaitedFor, Active
    <3> QED
      BY <2>2, <3>1 DEF FlowStep, StartPlain, LockEnv, SetEnv, SetEnvFails, SourceFails, RemoveShards, Export,
         ExportEmpty, cleanupReduceOutputs, CheckContext, LockRuntime, ObserveCancel, JobReturned, Glob,
         ReadFile, Imported, SinkFails, RestoreEnv, UnlockEnv, GoTo, Leave, Active
  <2>4. ~({g, h} \subseteq WithParams)
    BY <2>1, <2>3, NoFlowAssumption DEF StartPlain, LockEnv, FlowInv, EnvHeld
  <2>5. h \in {k \in Flows \ {g} : Active(k) /\ ~({g, k} \subseteq WithParams)}
    BY <2>1, <2>4
  <2> QED
    BY <1>4, <2>3, <2>5 DEF StartPlain, LockEnv, Overlap
<1> QED
  BY <1>3, <1>4

\* A step of f or of its job keeps what concerns f alone.
LEMMA LocalNext ==
  ASSUME FlowInv, Files, NEW f \in Flows, Local(f), FlowStep(f) \/ JobStep(f)
  PROVE  Local(f)'
<1> USE DEF FlowInv, Shape, Files, Local, Before
<1>1. CASE FlowStep(f)
  <2>1. CASE StartPlain(f)
    BY <2>1 DEF StartPlain, GoTo, jobVars
  <2>2. CASE LockEnv(f) \/ SetEnv(f) \/ SetEnvFails(f)
    BY <2>2 DEF LockEnv, SetEnv, SetEnvFails, GoTo, jobVars
  <2>3. CASE SourceFails(f) \/ ExportEmpty(f)
    BY <2>3 DEF SourceFails, ExportEmpty, Leave, GoTo, jobVars
  <2>4. CASE RemoveShards(f) \/ Export(f) \/ cleanupReduceOutputs(f)
    BY <2>4 DEF RemoveShards, Export, cleanupReduceOutputs, GoTo, jobVars
  <2>5. CASE CheckContext(f)
    BY <2>5 DEF CheckContext, Leave, GoTo, jobVars
  <2>6. CASE LockRuntime(f)
    BY <2>6 DEF LockRuntime, GoTo
  <2>7. CASE ObserveCancel(f)
    BY <2>7 DEF ObserveCancel, jobVars
  <2>8. CASE JobReturned(f)
    BY <2>8 DEF JobReturned, Leave, GoTo, jobVars
  <2>9. CASE Glob(f)
    BY <2>9 DEF Glob, Leave, GoTo, jobVars
  <2>10. CASE \E i \in Id : ReadFile(f, i)
    BY <2>10 DEF ReadFile, jobVars
  <2>11. CASE Imported(f)
    BY <2>11 DEF Imported, Leave, GoTo, jobVars
  <2>12. CASE SinkFails(f)
    BY <2>12 DEF SinkFails, Leave, GoTo, jobVars
  <2>13. CASE RestoreEnv(f) \/ UnlockEnv(f)
    BY <2>13 DEF RestoreEnv, UnlockEnv, GoTo, jobVars
  <2> QED
    BY <1>1, <2>1, <2>2, <2>3, <2>4, <2>5, <2>6, <2>7, <2>8, <2>9, <2>10, <2>11, <2>12, <2>13 DEF FlowStep
<1>2. CASE JobStep(f)
  <2>1. Running(f) /\ pc[f] = "running" /\ pc' = pc /\ result' = result /\ imported' = imported
    BY <1>2 DEF JobStep, WorkersStart, WorkersFail, ListenFails, ReadShards, WriteOutput, EndJob, JobTo, Running, JobsWaitedFor,
         flowVars
  <2> QED
    BY <1>2, <2>1 DEF JobStep, WorkersStart, WorkersFail, ListenFails, ReadShards, WriteOutput, EndJob, JobTo
<1> QED
  BY <1>1, <1>2

\* When a flow starts undisturbed, no flow is inside withTransformParams.
LEMMA StartsAlone ==
  ASSUME FlowInv, NEW f \in Flows, StartPlain(f) \/ LockEnv(f), f \notin disturbed', NoEnvError
  PROVE  env = NoFlow
<1>1. CASE LockEnv(f)
  BY <1>1 DEF LockEnv, FlowInv, EnvKept
<1>2. CASE StartPlain(f)
  <2> DEFINE others == {g \in Flows \ {f} : Active(g) /\ ~({f, g} \subseteq WithParams)}
  <2>1. others = {}
    BY <1>2 DEF StartPlain, Overlap
  <2>2. \A g \in Flows : ~Active(g)
    <3>1. ~Active(f) /\ f \notin WithParams
      BY <1>2 DEF StartPlain, GoTo, Active
    <3> QED
      BY <2>1, <3>1
  <2>3. \A g \in Flows : envMu # g
    BY <2>2 DEF FlowInv, EnvHeld
  <2>4. envMu = NoFlow
    BY <2>3 DEF FlowInv, Shape
  <2> QED
    BY <2>4 DEF FlowInv, EnvKept
<1> QED
  BY <1>1, <1>2

\* A step that leaves the shared things and f's own files alone keeps what f knows
\* of them, if it asks for no more than before.
LEMMA WorkingKept ==
  ASSUME NEW f \in Flows, Working(f),
         UNCHANGED <<env, shards, mrOut>>, input'[f] = input[f], written'[f] = written[f],
         todo'[f] = todo[f], imported'[f] = imported[f], job'[f] = job[f], pc'[f] = pc[f]
  PROVE  Working(f)'
<1>1. Outs' = Outs
  BY DEF Outs
<1> QED
  BY <1>1 DEF Working, Params, Mine

\* The steps of an undisturbed flow keep what it knows of the things it shares.
LEMMA FlowStepOwn ==
  ASSUME FlowInv, OwnInv, FlowInv', Files', NEW f \in Flows, FlowStep(f), f \notin disturbed', NoEnvError'
  PROVE  (Active(f)' => Working(f)') /\ Final(f)'
<1>1. f \notin disturbed /\ NoEnvError /\ Local(f)
  BY HistoryGrows DEF OwnInv
<1>2. (Active(f) => Working(f)) /\ Final(f)
  BY <1>1 DEF OwnInv, Own
<1>3. Shape /\ Files /\ EnvKept /\ EnvHeld
  BY DEF FlowInv, OwnInv
<1> DEFINE Goal == (Active(f)' => Working(f)') /\ Final(f)'
<1>4. ASSUME result'[f] = "none" PROVE Final(f)'
  BY <1>4 DEF Final
<1>5. ASSUME result'[f] = "error", pc'[f] \in {"restore", "ended"}, job'[f] \notin {"starting", "map", "reduce"}
      PROVE  Goal
  BY <1>5 DEF Final, Working
<1>6. CASE StartPlain(f) \/ LockEnv(f)
  <2>1. /\ pc'[f] \in {"setenv", "source"} /\ result'[f] = "none" /\ job'[f] = "none"
        /\ UNCHANGED env /\ (pc'[f] = "source" => f \notin WithParams)
    BY <1>1, <1>3, <1>6 DEF StartPlain, LockEnv, GoTo, Shape, Local, Before, jobVars, sharedVars
  <2>2. env = NoFlow
    BY <1>1, <1>6, StartsAlone
  <2> QED
    BY <1>4, <2>1, <2>2 DEF Working, Params
<1>7. CASE SetEnv(f)
  <2>1. /\ pc'[f] = "source" /\ result'[f] = "none" /\ job'[f] = "none" /\ env' = f /\ f \in WithParams
    BY <1>1, <1>3, <1>7 DEF SetEnv, GoTo, Shape, Local, Before, jobVars, EnvHeld
  <2> QED
    BY <1>4, <2>1 DEF Working, Params
<1>8. CASE SetEnvFails(f)
  <2>1. result'[f] = "envError"
    BY <1>3, <1>8 DEF SetEnvFails, Shape
  <2> QED
    BY <2>1 DEF NoEnvError
<1>9. CASE SourceFails(f)
  <2>1. result'[f] = "error" /\ pc'[f] \in {"restore", "ended"} /\ job'[f] = "none"
    BY <1>1, <1>3, <1>9 DEF SourceFails, Leave, GoTo, Shape, Local, Before, jobVars
  <2> QED
    BY <1>5, <2>1
<1>10. CASE RemoveShards(f)
  <2>1. /\ pc[f] = "source" /\ pc'[f] = "export" /\ result'[f] = "none" /\ job'[f] = "none" /\ env' = env
    BY <1>1, <1>3, <1>10 DEF RemoveShards, GoTo, Shape, Local, Before, jobVars
  <2>2. env = Params(f)
    BY <1>2, <2>1 DEF Working, Active
  <2> QED
    BY <1>4, <2>1, <2>2 DEF Working, Params
<1>11. CASE Export(f)
  <2>1. /\ pc[f] = "export" /\ pc'[f] = "cleanup" /\ result'[f] = "none" /\ job'[f] = "none"
        /\ env' = env /\ shards' = f
    BY <1>1, <1>3, <1>11 DEF Export, GoTo, Shape, Local, Before, jobVars
  <2>2. env = Params(f)
    BY <1>2, <2>1 DEF Working, Active
  <2> QED
    BY <1>4, <2>1, <2>2 DEF Working, Params
<1>12. CASE ExportEmpty(f)
  <2>1. /\ pc'[f] \in {"restore", "ended"} /\ job'[f] = "none" /\ imported'[f] = {}
    BY <1>1, <1>3, <1>12 DEF ExportEmpty, Leave, GoTo, Shape, Local, Before, jobVars
  <2> QED
    BY <2>1 DEF Working, Final
<1>13. CASE cleanupReduceOutputs(f)
  <2>1. /\ pc[f] = "cleanup" /\ pc'[f] = "run" /\ result'[f] = "none" /\ job'[f] = "none"
        /\ env' = env /\ shards' = shards /\ mrOut' = [i \in Id |-> NoFile]
    BY <1>1, <1>3, <1>13 DEF cleanupReduceOutputs, GoTo, Shape, Local, Before, jobVars
  <2>2. env = Params(f) /\ shards = f
    BY <1>2, <2>1 DEF Working, Active
  <2>3. Outs' = {}
    BY <2>1 DEF Outs
  <2> QED
    BY <1>4, <2>1, <2>2, <2>3 DEF Working, Params
<1>14. CASE CheckContext(f)
  <2>1. /\ pc[f] = "run" /\ job'[f] = "none" /\ UNCHANGED <<env, shards, mrOut>>
        /\ \/ pc'[f] \in {"restore", "ended"} /\ result'[f] = "error"
           \/ pc'[f] = "wait" /\ result'[f] = "none"
    BY <1>1, <1>3, <1>14 DEF CheckContext, Leave, GoTo, Shape, Local, Before, jobVars, sharedVars
  <2>2. CASE result'[f] = "error"
    BY <1>5, <2>1, <2>2
  <2>3. CASE result'[f] # "error"
    <3>1. env = Params(f) /\ shards = f /\ Outs = {}
      BY <1>2, <2>1 DEF Working, Active
    <3>2. Outs' = {}
      BY <2>1, <3>1 DEF Outs
    <3> QED
      BY <1>4, <2>1, <2>3, <3>1, <3>2 DEF Working, Params
  <2> QED
    BY <2>2, <2>3
<1>15. CASE LockRuntime(f)
  <2>1. /\ pc[f] = "wait" /\ pc'[f] = "running" /\ job'[f] = "starting" /\ UNCHANGED <<env, shards, mrOut>>
        /\ result'[f] = "none"
    BY <1>1, <1>3, <1>15 DEF LockRuntime, GoTo, Shape, Local, Before
  <2>2. env = Params(f) /\ shards = f /\ Outs = {}
    BY <1>2, <2>1 DEF Working, Active
  <2>3. Outs' = {}
    BY <2>1, <2>2 DEF Outs
  <2> QED
    BY <1>4, <2>1, <2>2, <2>3 DEF Working, Params
<1>16. CASE ObserveCancel(f)
  <2>1. /\ UNCHANGED <<env, shards, mrOut, input, written, todo, imported, job, pc, result>> /\ Active(f)
    BY <1>16 DEF ObserveCancel, jobVars, sharedVars, Active
  <2>2. Working(f)'
    BY <1>2, <2>1, WorkingKept
  <2> QED
    BY <1>2, <2>1, <2>2 DEF Final, Mine, Params
<1>17. CASE JobReturned(f)
  <2>1. /\ pc[f] = "running" /\ job[f] = "ended" /\ job'[f] = "ended" /\ UNCHANGED <<env, shards, mrOut>>
        /\ \/ pc'[f] \in {"restore", "ended"} /\ result'[f] = "error"
           \/ pc'[f] = "sink" /\ result'[f] = "none"
    BY <1>1, <1>3, <1>17 DEF JobReturned, Leave, GoTo, Shape, Local, Before, jobVars
  <2>2. CASE result'[f] = "error"
    BY <1>5, <2>1, <2>2
  <2>3. CASE result'[f] # "error"
    <3>1. /\ env = Params(f) /\ shards = f /\ Cardinality(Outs) = Reducers[f]
          /\ \A i \in Outs : mrOut[i] = Mine(f)
      BY <1>2, <2>1 DEF Working, Active
    <3>2. Outs' = Outs
      BY <2>1 DEF Outs
    <3> QED
      BY <1>4, <2>1, <2>3, <3>1, <3>2 DEF Working, Params, Mine
  <2> QED
    BY <2>2, <2>3
<1>18. CASE Glob(f)
  <2>1. /\ pc[f] = "sink" /\ job'[f] = job[f] /\ UNCHANGED <<env, shards, mrOut, imported>>
        /\ todo'[f] = Outs
        /\ \/ pc'[f] \in {"restore", "ended"} /\ result'[f] = "error"
           \/ pc'[f] = "read" /\ result'[f] = "none"
    BY <1>1, <1>3, <1>18 DEF Glob, Leave, GoTo, Shape, Files, Local, Before, jobVars, sharedVars, Outs
  <2>2. /\ env = Params(f) /\ shards = f /\ Cardinality(Outs) = Reducers[f] /\ job[f] = "ended"
        /\ \A i \in Outs : mrOut[i] = Mine(f)
    BY <1>2, <2>1 DEF Working, Active
  <2>3. CASE result'[f] = "error"
    BY <1>5, <2>1, <2>2, <2>3
  <2>4. CASE result'[f] # "error"
    <3>1. Outs' = Outs
      BY <2>1 DEF Outs
    <3>2. imported'[f] = {} /\ imported'[f] = {<<i, Mine(f)>> : i \in Outs \ todo'[f]}
      BY <1>1, <2>1 DEF Local
    <3>3. Cardinality(imported'[f]) + Cardinality(todo'[f]) = Reducers[f]
      <4>1. Cardinality(imported'[f]) = 0
        BY <3>2, FS_EmptySet
      <4>2. Reducers[f] \in Nat
        BY ReducersAssumption
      <4> QED
        BY <2>1, <2>2, <4>1, <4>2
    <3> QED
      BY <1>4, <2>1, <2>2, <2>4, <3>1, <3>2, <3>3 DEF Working, Params, Mine
  <2> QED
    BY <2>3, <2>4
<1>19. CASE \E i \in Id : ReadFile(f, i)
  <2>1. PICK i \in Id : ReadFile(f, i)
    BY <1>19
  <2>2. /\ pc[f] = "read" /\ pc' = pc /\ result' = result /\ job' = job /\ UNCHANGED <<env, shards, mrOut>>
        /\ i \in todo[f] /\ i \in Outs
        /\ todo'[f] = todo[f] \ {i} /\ imported'[f] = imported[f] \cup {<<i, mrOut[i]>>}
    BY <1>3, <2>1 DEF ReadFile, Files, jobVars, sharedVars, Outs
  <2>3. /\ env = Params(f) /\ shards = f /\ Cardinality(Outs) = Reducers[f] /\ job[f] = "ended"
        /\ \A j \in Outs : mrOut[j] = Mine(f)
        /\ todo[f] \subseteq Outs /\ imported[f] = {<<j, Mine(f)>> : j \in Outs \ todo[f]}
        /\ Cardinality(imported[f]) + Cardinality(todo[f]) = Reducers[f]
    BY <1>2, <2>2 DEF Working, Active
  <2>4. Outs' = Outs
    BY <2>2 DEF Outs
  <2>5. <<i, Mine(f)>> \notin imported[f] /\ mrOut[i] = Mine(f)
    BY <2>2, <2>3
  <2>6. imported'[f] = {<<j, Mine(f)>> : j \in Outs \ todo'[f]}
    BY <2>2, <2>3, <2>5
  <2>7. IsFiniteSet(todo[f]) /\ IsFiniteSet(Outs \ todo[f]) /\ Cardinality(todo[f]) \in Nat
    BY <1>3, IdsFinite DEF Files, Outs
  <2>8. IsFiniteSet(imported[f])
    <3>1. imported[f] \in SUBSET (Id \X {Mine(f)})
      BY <2>3 DEF Outs
    <3> QED
      BY <3>1, MarkedFinite
  <2>9. Cardinality(imported'[f]) = Cardinality(imported[f]) + 1 /\ Cardinality(imported[f]) \in Nat
    BY <2>2, <2>5, <2>8, FS_AddElement, FS_CardinalityType
  <2>10. Cardinality(todo'[f]) = Cardinality(todo[f]) - 1
    BY <2>2, <2>7, FS_RemoveElement
  <2>11. Cardinality(imported'[f]) + Cardinality(todo'[f]) = Reducers[f]
    BY <2>3, <2>7, <2>9, <2>10
  <2>12. result'[f] = "none"
    BY <1>1, <2>2 DEF Local
  <2> QED
    BY <1>4, <2>2, <2>3, <2>4, <2>6, <2>11, <2>12 DEF Working, Params, Mine
<1>20. CASE Imported(f)
  <2>1. /\ pc[f] = "read" /\ pc'[f] \in {"restore", "ended"} /\ job'[f] = job[f] /\ todo[f] = {}
        /\ UNCHANGED <<imported, env>>
    BY <1>3, <1>20 DEF Imported, Leave, GoTo, Shape, jobVars, sharedVars
  <2>2. /\ job[f] = "ended" /\ imported[f] = {<<j, Mine(f)>> : j \in Outs \ todo[f]}
        /\ Cardinality(imported[f]) + Cardinality(todo[f]) = Reducers[f]
    BY <1>2, <2>1 DEF Working, Active
  <2>3. Cardinality(imported[f]) = Reducers[f]
    <3>1. imported[f] \in SUBSET (Id \X {Mine(f)})
      BY <2>2 DEF Outs
    <3>2. IsFiniteSet(imported[f])
      BY <3>1, MarkedFinite
    <3>3. Cardinality(imported[f]) \in Nat /\ Cardinality(todo[f]) = 0
      BY <2>1, <3>2, FS_CardinalityType, FS_EmptySet
    <3> QED
      BY <2>2, <3>3
  <2>4. \A made \in imported[f] : made[2] = Mine(f)
    BY <2>2
  <2> QED
    BY <2>1, <2>2, <2>3, <2>4 DEF Working, Final, Mine, Params
<1>21. CASE SinkFails(f)
  <2>1. pc[f] \in {"sink", "read"} /\ result'[f] = "error" /\ pc'[f] \in {"restore", "ended"} /\ job'[f] = job[f]
    BY <1>3, <1>21 DEF SinkFails, Leave, GoTo, Shape, jobVars
  <2>2. job[f] = "ended"
    BY <1>2, <2>1 DEF Working, Active
  <2> QED
    BY <1>5, <2>1, <2>2
<1>22. CASE RestoreEnv(f) \/ UnlockEnv(f)
  <2>1. /\ pc[f] \in {"restore", "unlock"} /\ pc'[f] \in {"unlock", "ended"}
        /\ result' = result /\ imported' = imported /\ job' = job
    BY <1>3, <1>22 DEF RestoreEnv, UnlockEnv, GoTo, Shape, jobVars
  <2>2. job[f] \notin {"starting", "map", "reduce"}
    BY <2>1 DEF FlowInv, JobsWaitedFor, Running
  <2> QED
    BY <1>2, <2>1, <2>2 DEF Working, Final, Mine, Params
<1> HIDE DEF Goal
<1>23. Goal
  BY <1>6, <1>7, <1>8, <1>9, <1>10, <1>11, <1>12, <1>13, <1>14, <1>15, <1>16, <1>17, <1>18, <1>19, <1>20, <1>21,
     <1>22 DEF FlowStep, Goal
<1> QED
  BY <1>23 DEF Goal

\* The steps of its job do, too: the job reads the flow's rows and its files are
\* the only ones.
LEMMA JobStepOwn ==
  ASSUME FlowInv, OwnInv, NEW f \in Flows, JobStep(f), f \notin disturbed', NoEnvError'
  PROVE  (Active(f)' => Working(f)') /\ Final(f)'
<1>1. f \notin disturbed /\ NoEnvError /\ Local(f)
  BY HistoryGrows DEF OwnInv
<1>3. Shape /\ Files
  BY DEF FlowInv, OwnInv
<1>4. /\ pc[f] = "running" /\ pc' = pc /\ result' = result /\ imported' = imported /\ Running(f)
      /\ UNCHANGED <<env, shards>>
  BY DEF JobStep, WorkersStart, WorkersFail, ListenFails, ReadShards, WriteOutput, EndJob, JobTo, Running, FlowInv, JobsWaitedFor,
         flowVars, sharedVars
<1>2. Working(f)
  BY <1>1, <1>4 DEF OwnInv, Own, Active
<1>5. Final(f)'
  BY <1>1, <1>4 DEF Local, Final
<1>6. env = Params(f) /\ shards = f /\ \A i \in Outs : mrOut[i] = Mine(f)
  BY <1>2, <1>4 DEF Working
<1>7. CASE WorkersStart(f) \/ WorkersFail(f) \/ ListenFails(f)
  <2>1. job[f] = "starting" /\ job'[f] \in {"map", "stuck"} /\ mrOut' = mrOut
    BY <1>3, <1>7 DEF WorkersStart, WorkersFail, ListenFails, JobTo, Shape, sharedVars
  <2>2. Outs' = Outs /\ Outs = {}
    BY <1>2, <2>1 DEF Outs, Working
  <2> QED
    BY <1>4, <1>5, <1>6, <2>1, <2>2 DEF Working, Params
<1>8. CASE ReadShards(f)
  <2>1. job[f] = "map" /\ job'[f] = "reduce" /\ mrOut' = mrOut /\ input'[f] = shards /\ written' = written
    BY <1>3, <1>8 DEF ReadShards, JobTo, Shape, Files, sharedVars
  <2>2. Outs' = Outs /\ Outs = {} /\ written[f] = {}
    BY <1>1, <1>2, <2>1 DEF Outs, Working, Local
  <2> QED
    BY <1>4, <1>5, <1>6, <2>1, <2>2 DEF Working, Params
<1>9. CASE \E i \in Id : WriteOutput(f, i)
  <2>1. PICK i \in Id : WriteOutput(f, i)
    BY <1>9
  <2> DEFINE file == [by |-> f, rows |-> input[f], env |-> env]
  <2>2. job[f] = "reduce" /\ job' = job /\ input' = input /\ written'[f] = written[f] \cup {i}
        /\ mrOut' = [mrOut EXCEPT ![i] = file]
    BY <1>3, <2>1 DEF WriteOutput, Files
  <2>3. input[f] = f /\ Outs = written[f]
    BY <1>2, <2>2 DEF Working
  <2>4. file = Mine(f)
    BY <1>6, <2>3 DEF Mine
  <2>5. file # NoFile
    BY DEF NoFile
  <2> HIDE DEF file
  <2>6. mrOut'[i] = Mine(f) /\ \A j \in Id : j # i => mrOut'[j] = mrOut[j]
    BY <1>3, <2>2, <2>4 DEF Files
  <2>7. Outs' = Outs \cup {i}
    BY <2>4, <2>5, <2>6 DEF Outs
  <2>8. \A j \in Outs' : mrOut'[j] = Mine(f)
    BY <1>6, <2>6, <2>7 DEF Outs
  <2> QED
    BY <1>4, <1>5, <1>6, <2>2, <2>3, <2>7, <2>8 DEF Working, Params, Mine
<1>10. CASE EndJob(f)
  <2>1. job[f] = "reduce" /\ job'[f] = "ended" /\ mrOut' = mrOut /\ Cardinality(written[f]) = Reducers[f]
    BY <1>3, <1>10 DEF EndJob, JobTo, Shape, sharedVars
  <2>2. Outs' = Outs /\ Outs = written[f]
    BY <1>2, <2>1 DEF Outs, Working
  <2> QED
    BY <1>4, <1>5, <1>6, <2>1, <2>2 DEF Working, Params, Mine
<1> QED
  BY <1>7, <1>8, <1>9, <1>10 DEF JobStep

\* Every step preserves the invariant.
LEMMA StepOwnInv == FlowInv /\ OwnInv /\ [Next]_vars => OwnInv'
<1> SUFFICES ASSUME FlowInv, OwnInv, [Next]_vars PROVE OwnInv'
  OBVIOUS
<1>0. FlowInv'
  BY StepFlowInv
<1>1. ASSUME NEW g \in Flows, FlowStep(g) \/ JobStep(g) PROVE OwnInv'
  <2>1. Files' /\ Alone'
    BY <1>1, FilesNext, AloneNext DEF OwnInv
  <2>2. ASSUME NEW f \in Flows PROVE Local(f)' /\ Own(f)'
    <3>1. CASE f = g
      <4>1. Local(f)'
        BY <1>1, <3>1, LocalNext DEF OwnInv
      <4>2. Own(f)'
        BY <1>0, <1>1, <2>1, <3>1, FlowStepOwn, JobStepOwn DEF Own
      <4> QED
        BY <4>1, <4>2
    <3>2. CASE f # g
      <4>1. /\ pc'[f] = pc[f] /\ result'[f] = result[f] /\ job'[f] = job[f] /\ written'[f] = written[f]
            /\ input'[f] = input[f] /\ todo'[f] = todo[f] /\ imported'[f] = imported[f]
        BY <1>1, <3>2, OthersKept DEF FlowInv, OwnInv
      <4>2. Local(f)'
        BY <4>1 DEF OwnInv, Local, Before
      <4>3. ASSUME f \notin disturbed', NoEnvError' PROVE ~Active(f)' /\ Final(f)'
        <5>1. f \notin disturbed /\ NoEnvError
          BY <1>1, <4>3, HistoryGrows
        <5>2. ~Active(f)
          BY <1>1, <3>2, <4>3, OthersRest DEF OwnInv
        <5>3. Final(f)
          BY <5>1 DEF OwnInv, Own
        <5> QED
          BY <4>1, <5>2, <5>3 DEF Final, Active, Mine, Params
      <4> QED
        BY <4>2, <4>3 DEF Own
    <3> QED
      BY <3>1, <3>2
  <2> QED
    BY <2>1, <2>2 DEF OwnInv
<1>2. CASE UNCHANGED vars
  <2>1. UNCHANGED <<pc, result, job, written, input, todo, imported, env, shards, mrOut, disturbed>>
    BY <1>2 DEF vars, flowVars, jobVars, sharedVars
  <2>2. Files'
    BY <2>1 DEF OwnInv, Files
  <2>3. Alone'
    BY <2>1 DEF OwnInv, Alone, Active
  <2>4. ASSUME NEW f \in Flows PROVE Local(f)' /\ Own(f)'
    <3>1. Local(f)'
      BY <2>1 DEF OwnInv, Local, Before
    <3>2. Working(f) => Working(f)'
      BY <2>1, WorkingKept
    <3>3. Final(f) => Final(f)'
      BY <2>1 DEF Final, Mine, Params
    <3>4. (Active(f)' <=> Active(f)) /\ (NoEnvError' <=> NoEnvError)
      BY <2>1 DEF Active, NoEnvError
    <3> QED
      BY <2>1, <3>1, <3>2, <3>3, <3>4 DEF OwnInv, Own
  <2> QED
    BY <2>2, <2>3, <2>4 DEF OwnInv
<1> QED
  BY <1>1, <1>2 DEF Next, Terminated

\* A flow that succeeds, and with which no flow outside transformEnvMu overlapped, has
\* imported the files of its own job, all of them and no others, made from its own
\* rows with its own parameters: for any number of flows, workers and reducers.
THEOREM ImportsOwnHolds == Spec => []ImportsOwn
<1>1. Init => FlowInv /\ OwnInv
  BY InitFlowInv, InitOwnInv
<1>2. FlowInv /\ OwnInv /\ [Next]_vars => FlowInv' /\ OwnInv'
  BY StepFlowInv, StepOwnInv
<1>3. OwnInv => ImportsOwn
  BY DEF OwnInv, Own, Final, NoEnvError, ImportsOwn, Mine, Params
<1> QED
  BY <1>1, <1>2, <1>3, PTL DEF Spec
=============================================================================
