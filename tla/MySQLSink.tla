------------------------------ MODULE MySQLSink ------------------------------
(***************************************************************************)
(* ImportReduceOutputs of the MySQL sink: the lines of the reduce outputs  *)
(* are loaded in batches into a staging table and then, summed by key,     *)
(* written into the target table.  Several imports into one target, of one *)
(* process or of several, share the staging table, which has the target's  *)
(* name with a suffix.                                                     *)
(*                                                                         *)
(* The statements run on one transaction, but the first of them is a       *)
(* CREATE TABLE: in MySQL (external) a DDL statement commits implicitly    *)
(* and ends the transaction, so from then on every statement takes effect  *)
(* by itself and the deferred Rollback undoes nothing.  The staging table  *)
(* is an ordinary table that outlives a failed import.                     *)
(*                                                                         *)
(* An import may fail at every statement (an error, the context's end, the *)
(* death of the process) and may then be run again over the same files.    *)
(* Local variables and the history of an import that is over are reset.    *)
(***************************************************************************)
EXTENDS Integers, Sequences, FiniteSets, FiniteSetsExt

CONSTANTS
  Import,      \* the imports
  Key,         \* keys of reduce outputs and of the target
  BatchSize,   \* cfg.BatchSize, after WithDefaults
  Inputs,      \* the reduce outputs to choose from: sequences of lines, for each import
  OldTargets   \* the contents the target may have before: functions from keys

\* A line that has fewer than two fields, or no number in the second.
Bad == [bad |-> TRUE]

Row == [key : Key, val : Int]

ASSUME BatchSizeAssumption == BatchSize \in Nat \ {0}
ASSUME InputsAssumption == \A ls \in Inputs : ls \in [Import -> Seq(Row \cup {Bad})]
ASSUME OldTargetsAssumption == \A t \in OldTargets : DOMAIN t \subseteq Key

VARIABLES
  lines,        \* the lines of the reduce outputs of each import, file after file
  replace,      \* cfg.Replace
  old,          \* the target before the first import
  target,       \* the target table, from key to value
  stage,        \* the rows of the staging table; <<>> also when there is none
  staged,       \* the staging table exists
  batch,        \* rows each import has read and not yet inserted
  pos,          \* lines it has read
  stmt,         \* its next statement
  before,       \* history: the target when it began
  overlapped,   \* history: the imports that overlap with another
  mixed         \* history: imports have overlapped

localVars == <<batch, pos, stmt>>
history == <<before, overlapped, mixed>>
importVars == <<lines, replace, old, target, stage, staged, localVars, history>>

Steps == {"idle", "create", "dropStage", "createStage", "load", "truncate", "upsert",
          "dropEnd", "done", "failed"}

\* Tables hold rows of the inputs, and the positions are in the lines.
ImportTypeOK ==
  /\ lines \in Inputs /\ replace \in BOOLEAN /\ old \in OldTargets
  /\ DOMAIN target \subseteq Key /\ \A k \in DOMAIN target : target[k] \in Int
  /\ stage \in Seq(Row) /\ staged \in BOOLEAN
  /\ \A i \in Import :
       /\ batch[i] \in Seq(Row) /\ Len(batch[i]) < BatchSize
       /\ pos[i] \in 0..Len(lines[i])
       /\ stmt[i] \in Steps
  /\ overlapped \subseteq Import /\ mixed \in BOOLEAN

ImportInit ==
  /\ lines \in Inputs /\ replace \in BOOLEAN /\ old \in OldTargets
  /\ target = old
  /\ stage = <<>> /\ staged = FALSE
  /\ batch = [i \in Import |-> <<>>] /\ pos = [i \in Import |-> 0]
  /\ stmt = [i \in Import |-> "idle"]
  /\ before = [i \in Import |-> old]
  /\ overlapped = {} /\ mixed = FALSE

-----------------------------------------------------------------------------
Statement(i, from, to) == stmt[i] = from /\ stmt' = [stmt EXCEPT ![i] = to]

UnderWay(i) == stmt[i] \notin {"idle", "done", "failed"}

\* The import is run, for the first time or once more, after a failure or a success.
Begin(i) ==
  /\ ~UnderWay(i)
  /\ stmt' = [stmt EXCEPT ![i] = "create"]
  /\ batch' = [batch EXCEPT ![i] = <<>>] /\ pos' = [pos EXCEPT ![i] = 0]
  /\ before' = [before EXCEPT ![i] = target]
  /\ LET others == {j \in Import \ {i} : UnderWay(j)}
     IN  /\ overlapped' = IF others = {} THEN overlapped \ {i} ELSE overlapped \cup others \cup {i}
         /\ mixed' = (mixed \/ others # {})
  /\ UNCHANGED <<lines, replace, old, target, stage, staged>>

\* CREATE TABLE IF NOT EXISTS target
CreateTarget(i) ==
  /\ Statement(i, "create", "dropStage")
  /\ UNCHANGED <<lines, replace, old, target, stage, staged, batch, pos, history>>

\* Faulty variant of DropOldStage: the staging table of a failed import is kept.
DropOldStageNot(i) ==
  /\ Statement(i, "dropStage", IF staged THEN "load" ELSE "createStage")
  /\ UNCHANGED <<lines, replace, old, target, stage, staged, batch, pos, history>>

\* DROP TABLE IF EXISTS stage
DropOldStage(i) ==
  /\ Statement(i, "dropStage", "createStage")
  /\ stage' = <<>> /\ staged' = FALSE
  /\ UNCHANGED <<lines, replace, old, target, batch, pos, history>>

\* CREATE TABLE stage, an error if another import has created it
CreateStage(i) ==
  /\ Statement(i, "createStage", IF staged THEN "failed" ELSE "load")
  /\ staged' = TRUE
  /\ UNCHANGED <<lines, replace, old, target, stage, batch, pos, history>>

\* INSERT INTO stage, an error if another import has dropped it
Insert(i, rows, to) ==
  IF rows = <<>> \/ staged
    THEN stage' = stage \o rows /\ Statement(i, "load", to)
    ELSE Statement(i, "load", "failed") /\ UNCHANGED stage

\* The scanner's loop: bad lines are skipped, a full batch is inserted.
ReadLine(i) ==
  /\ pos[i] < Len(lines[i])
  /\ pos' = [pos EXCEPT ![i] = @ + 1]
  /\ LET line == lines[i][pos[i] + 1]
         b == IF line = Bad THEN batch[i] ELSE Append(batch[i], line)
         full == Len(b) >= BatchSize
     IN  /\ batch' = [batch EXCEPT ![i] = IF full THEN <<>> ELSE b]
         /\ Insert(i, IF full THEN b ELSE <<>>, "load")
  /\ UNCHANGED <<lines, replace, old, target, staged, history>>

\* Faulty variant of LastFlush: the rows of a batch that is not full are dropped.
LastFlushNot(i) ==
  /\ pos[i] = Len(lines[i])
  /\ Insert(i, <<>>, IF replace THEN "truncate" ELSE "upsert")
  /\ batch' = [batch EXCEPT ![i] = <<>>]
  /\ UNCHANGED <<lines, replace, old, target, staged, pos, history>>

\* return flush()
LastFlush(i) ==
  /\ pos[i] = Len(lines[i])
  /\ Insert(i, batch[i], IF replace THEN "truncate" ELSE "upsert")
  /\ batch' = [batch EXCEPT ![i] = <<>>]
  /\ UNCHANGED <<lines, replace, old, target, staged, pos, history>>

\* TRUNCATE TABLE target
Truncate(i) ==
  /\ Statement(i, "truncate", "upsert")
  /\ target' = [k \in {} |-> 0]
  /\ UNCHANGED <<lines, replace, old, stage, staged, batch, pos, history>>

\* SELECT key, SUM(val) FROM rows GROUP BY key
Totals(rows) ==
  [k \in {rows[n].key : n \in DOMAIN rows} |->
     MapThenSumSet(LAMBDA n : rows[n].val, {n \in DOMAIN rows : rows[n].key = k})]

\* The table t with the keys of s set as in s: ON DUPLICATE KEY UPDATE val=VALUES(val)
Overwrite(t, s) ==
  [k \in DOMAIN t \cup DOMAIN s |-> IF k \in DOMAIN s THEN s[k] ELSE t[k]]

\* INSERT INTO target SELECT ... FROM stage ON DUPLICATE KEY UPDATE
Upsert(i) ==
  /\ Statement(i, "upsert", IF staged THEN "dropEnd" ELSE "failed")
  /\ target' = Overwrite(target, Totals(stage))
  /\ UNCHANGED <<lines, replace, old, stage, staged, batch, pos, history>>

\* DROP TABLE stage, an error if another import has dropped it; Commit
DropStage(i) ==
  /\ Statement(i, "dropEnd", IF staged THEN "done" ELSE "failed")
  /\ stage' = <<>> /\ staged' = FALSE
  /\ pos' = [pos EXCEPT ![i] = 0]
  /\ before' = [before EXCEPT ![i] = old]
  /\ UNCHANGED <<lines, replace, old, target, batch, overlapped, mixed>>

\* The import stops here; what the statements did so far stays.
Fail(i) ==
  /\ UnderWay(i)
  /\ stmt' = [stmt EXCEPT ![i] = "failed"]
  /\ batch' = [batch EXCEPT ![i] = <<>>] /\ pos' = [pos EXCEPT ![i] = 0]
  /\ before' = [before EXCEPT ![i] = old]
  /\ UNCHANGED <<lines, replace, old, target, stage, staged, overlapped, mixed>>

-----------------------------------------------------------------------------
ImportStep(i) ==
  \/ Begin(i) \/ CreateTarget(i) \/ DropOldStage(i) \/ CreateStage(i)
  \/ ReadLine(i) \/ LastFlush(i) \/ Truncate(i) \/ Upsert(i) \/ DropStage(i)
  \/ Fail(i)

ImportNext == \E i \in Import : ImportStep(i)

ImportSpec == ImportInit /\ [][ImportNext]_importVars

-----------------------------------------------------------------------------
(* Properties.                                                             *)

\* The rows of the first n lines of ls, bad lines left out, for every n.
RowsUpTo(ls) ==
  LET rows[n \in 0..Len(ls)] ==
        IF n = 0 THEN <<>>
        ELSE IF ls[n] = Bad THEN rows[n - 1] ELSE Append(rows[n - 1], ls[n])
  IN  rows

\* What the reduce outputs say.
Rows(i) == RowsUpTo(lines[i])[Len(lines[i])]

\* However many imports failed before it and wherever, an import with Replace that
\* succeeds has left exactly the totals of its reduce outputs in the target.  Without
\* Replace it has added the keys of its outputs and left the others as they were
\* when it began.  Both unless it overlapped with another import into the target.
RerunsIdempotent ==
  [][\A i \in Import :
       stmt[i] # "done" /\ stmt'[i] = "done" /\ i \notin overlapped =>
         IF replace THEN target' = Totals(Rows(i))
         ELSE /\ DOMAIN target' = DOMAIN before[i] \cup DOMAIN Totals(Rows(i))
              /\ \A k \in DOMAIN before[i] \ DOMAIN Totals(Rows(i)) : target'[k] = before[i][k]]_importVars

\* With Replace and as long as imports do not overlap, a reader of the target never
\* sees a partial sum, not even after failures: each value is the old one or a total of
\* one of the imports.
NoPartialSums ==
  ~mixed /\ replace =>
    \A k \in DOMAIN target :
      \/ k \in DOMAIN old /\ target[k] = old[k]
      \/ \E i \in Import : k \in DOMAIN Totals(Rows(i)) /\ target[k] = Totals(Rows(i))[k]
=============================================================================
