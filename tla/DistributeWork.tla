--------------------------- MODULE DistributeWork ---------------------------
(***************************************************************************)
(* Master.distributeWork: every input file is cut at line ends into        *)
(* totalWorkers slices, one per map task, and each slice is recorded as a  *)
(* pair of byte offsets that Worker.partialContent later seeks and reads.  *)
(*                                                                         *)
(* A file is the sequence of the lengths of its lines, line ends included. *)
(* Indices start at 0, as in the code, except those of sequences.          *)
(***************************************************************************)
EXTENDS Integers, Sequences

CONSTANTS
  NumWorkers,   \* ms.totalWorkers
  InputSets     \* the sequences of files to choose the job's input from

ASSUME NumWorkersAssumption == NumWorkers \in Nat \ {0}
ASSUME InputSetsAssumption == InputSets \subseteq Seq(Seq(Nat \ {0}))

TaskId == 0..(NumWorkers - 1)

VARIABLES
  files,      \* the argument of distributeWork
  fileNo,     \* the file the outer loop is at
  i,          \* the task the inner loop is at
  from,       \* the first line not yet handed out
  mapTasks    \* ms.MapTasks[i].Files

workVars == <<files, fileNo, i, from, mapTasks>>

-----------------------------------------------------------------------------
\* fileLineOffsets: where each line starts, and last the size of the file.
LineOffsets(file) ==
  LET at[k \in 0..Len(file)] == IF k = 0 THEN 0 ELSE at[k - 1] + file[k]
  IN  at

TotalLine(file) == Len(file)

\* Faulty variants of WorkLoad: the remainder is dropped, or every task gets one
\* line more when there is a remainder.
WorkLoadFloor(file, t) == TotalLine(file) \div NumWorkers
WorkLoadCeiling(file, t) == (TotalLine(file) + NumWorkers - 1) \div NumWorkers

\* The lines task t gets of a file.
WorkLoad(file, t) ==
  (TotalLine(file) \div NumWorkers) + (IF t < TotalLine(file) % NumWorkers THEN 1 ELSE 0)

WorkInit ==
  /\ files \in InputSets
  /\ fileNo = 1
  /\ i = 0
  /\ from = 0
  /\ mapTasks = [t \in TaskId |-> <<>>]

\* One turn of the inner loop, addFile included.
AddSlice ==
  /\ fileNo <= Len(files)
  /\ i < NumWorkers
  /\ LET file == files[fileNo]
         to == from + WorkLoad(file, i)
     IN  /\ mapTasks' = [mapTasks EXCEPT ![i] =
              Append(@, [from |-> LineOffsets(file)[from], to |-> LineOffsets(file)[to]])]
         /\ from' = to
  /\ i' = i + 1
  /\ UNCHANGED <<files, fileNo>>

\* Faulty variant of NextFile: from is not reset for the next file.
NextFileKeepsFrom ==
  /\ fileNo <= Len(files)
  /\ i = NumWorkers
  /\ fileNo' = fileNo + 1
  /\ i' = 0
  /\ UNCHANGED <<files, from, mapTasks>>

NextFile ==
  /\ fileNo <= Len(files)
  /\ i = NumWorkers
  /\ fileNo' = fileNo + 1
  /\ i' = 0
  /\ from' = 0
  /\ UNCHANGED <<files, mapTasks>>

Finished == fileNo > Len(files)

WorkDone == Finished /\ UNCHANGED workVars

WorkNext == AddSlice \/ NextFile \/ WorkDone

WorkSpec == WorkInit /\ [][WorkNext]_workVars

-----------------------------------------------------------------------------
(* The invariant of the two loops.                                         *)

\* The line at which task t's slice of a file starts: t times the base work
\* load, and one more for each earlier task that got a remainder line.
Start(file, t) ==
  LET r == TotalLine(file) % NumWorkers
  IN  t * (TotalLine(file) \div NumWorkers) + (IF t < r THEN t ELSE r)

\* The inner loop's from is where task i's slice starts.
FromInv == fileNo <= Len(files) => from = Start(files[fileNo], i)

\* The loops stay within the files and tasks, and at every turn the lines
\* before from are exactly the slices of the tasks before i.
LoopInv ==
  /\ files \in InputSets
  /\ fileNo \in 1..(Len(files) + 1)
  /\ i \in 0..NumWorkers
  /\ FromInv

-----------------------------------------------------------------------------
\* partialContent: the bytes of the file that a slice makes the worker read.
PartialContent(slice, file) ==
  LET size == LineOffsets(file)[Len(file)]
  IN  {b \in slice.from..(slice.to - 1) : b < size}

(* Properties.                                                             *)

\* lineOffsets[from] and lineOffsets[from+workLoad] are never out of range,
\* which would panic the master; in particular the remainder lines handed to
\* the first tasks never push a later slice past the end, also when there are
\* fewer lines than workers.
InBounds ==
  fileNo <= Len(files) /\ i < NumWorkers =>
    from + WorkLoad(files[fileNo], i) <= TotalLine(files[fileNo])

\* At the end of a file nothing of it is left.
FileExhausted ==
  fileNo <= Len(files) /\ i = NumWorkers => from = TotalLine(files[fileNo])

\* When the work is distributed, every byte of every file is read by exactly
\* one map task.
EveryByteOnce ==
  Finished =>
    \A k \in DOMAIN files :
      \A b \in 0..(LineOffsets(files[k])[Len(files[k])] - 1) :
        \E t \in TaskId : \A u \in TaskId :
          b \in PartialContent(mapTasks[u][k], files[k]) <=> u = t
=============================================================================
