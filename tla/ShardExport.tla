----------------------------- MODULE ShardExport -----------------------------
(***************************************************************************)
(* ExportSourceByPKRange of the MySQL source: the primary keys of a table  *)
(* are cut into ranges, and a pool of goroutines exports one file for each *)
(* range.  The dispatcher hands ranges out on the unbuffered channel jobs; *)
(* a goroutine whose export fails leaves its error in errCh, if that is    *)
(* empty, and gives up.                                                    *)
(*                                                                         *)
(* Keys are signed integers, -Half..(Half - 1) with Half = 2^63 in the     *)
(* code, and the arithmetic on them wraps around.  A table is its set of   *)
(* keys; it does not change during the export.  Setup errors return before *)
(* anything here happens.                                                  *)
(***************************************************************************)
EXTENDS Integers, Sequences, FiniteSets, FiniteSetsExt

CONSTANTS
  Half,       \* half the number of int64 values
  Shards,     \* cfg.Shards, after WithDefaults
  Parallel,   \* cfg.Parallel, after WithDefaults
  Tables      \* the non-empty tables to choose the source from

MaxInt == Half - 1
MinInt == -Half
Int64 == MinInt..MaxInt

ASSUME HalfAssumption == Half \in Nat \ {0}
ASSUME ShardsAssumption == Shards \in 1..MaxInt
ASSUME ParallelAssumption == Parallel \in 1..MaxInt
ASSUME TablesAssumption == Tables \subseteq (SUBSET Int64) \ {{}}

VARIABLES
  table,     \* the rows of the source that satisfy cfg.Where
  pc,        \* where the dispatcher is
  next,      \* the task it hands out next
  worker,    \* the goroutines: where each is and the task it has
  closed,    \* jobs is closed
  errCh,     \* an error is in errCh
  files,     \* the rows in the file of each task
  lost       \* history: the last Flush of a file has failed

vars == <<table, pc, next, worker, closed, errCh, files, lost>>

-----------------------------------------------------------------------------
(* The ranges.                                                             *)

Wrap(n) == ((n - MinInt) % (2 * Half)) + MinInt

\* step := (span + shards - 1) / shards, and at least 1.  The quotient of a
\* negative number is not positive, whichever way it is rounded.
Step ==
  LET span == Wrap(Max(table) - Min(table) + 1)
      step == Wrap(span + Shards - 1) \div Shards
  IN  IF step < 1 THEN 1 ELSE step

\* The loop that builds the tasks ends at the first start above maxID.
RangeStart(k) == Wrap(Min(table) + (k - 1) * Step)

NumTasks ==
  LET past == {k \in 1..Shards : RangeStart(k) > Max(table)}
  IN  IF past = {} THEN Shards ELSE Min(past) - 1

Task == 1..NumTasks

\* WHERE pk >= start AND pk < end
RowsOf(k) == {r \in table : r >= RangeStart(k) /\ r < Wrap(RangeStart(k) + Step)}

\* One goroutine per task at most.
WorkerN == IF Parallel > NumTasks THEN NumTasks ELSE Parallel

Worker == 1..WorkerN

-----------------------------------------------------------------------------
\* The dispatcher and the goroutines name existing tasks, and files hold rows.
TypeOK ==
  /\ table \in Tables
  /\ pc \in {"check", "send", "failing", "waiting", "error", "ok"}
  /\ next \in 1..(NumTasks + 1)
  /\ worker \in [Worker -> [pc : {"idle", "export", "failed", "exited"}, task : 0..NumTasks]]
  /\ closed \in BOOLEAN /\ errCh \in BOOLEAN
  /\ files \in [Task -> SUBSET table] /\ lost \in BOOLEAN

\* Old shard files have been removed; the goroutines have been started.
Init ==
  /\ table \in Tables
  /\ pc = "check" /\ next = 1
  /\ worker = [w \in Worker |-> [pc |-> "idle", task |-> 0]]
  /\ closed = FALSE /\ errCh = FALSE
  /\ files = [k \in Task |-> {}] /\ lost = FALSE

\* Before each task the dispatcher looks for an error, without waiting.
CheckError ==
  /\ pc = "check" /\ next <= NumTasks
  /\ pc' = IF errCh THEN "failing" ELSE "send"
  /\ closed' = errCh
  /\ errCh' = FALSE
  /\ UNCHANGED <<table, next, worker, files, lost>>

\* jobs <- task meets the receive of an idle goroutine.
SendTask(w) ==
  /\ pc = "send" /\ worker[w].pc = "idle"
  /\ worker' = [worker EXCEPT ![w] = [pc |-> "export", task |-> next]]
  /\ next' = next + 1
  /\ pc' = "check"
  /\ UNCHANGED <<table, closed, errCh, files, lost>>

CloseJobs ==
  /\ pc = "check" /\ next > NumTasks
  /\ closed' = TRUE
  /\ pc' = "waiting"
  /\ UNCHANGED <<table, next, worker, errCh, files, lost>>

AllExited == \A w \in Worker : worker[w].pc = "exited"

\* Faulty variant of Wait: no look at errCh after it.
WaitUnchecked ==
  /\ pc \in {"failing", "waiting"}
  /\ AllExited
  /\ pc' = IF pc = "failing" THEN "error" ELSE "ok"
  /\ UNCHANGED <<table, next, worker, closed, errCh, files, lost>>

\* wg.Wait(), and the result.
Wait ==
  /\ pc \in {"failing", "waiting"}
  /\ AllExited
  /\ pc' = IF pc = "failing" \/ errCh THEN "error" ELSE "ok"
  /\ UNCHANGED <<table, next, worker, closed, errCh, files, lost>>

-----------------------------------------------------------------------------
(* Goroutine w.                                                            *)

GoTo(w, from, to) ==
  /\ worker[w].pc = from
  /\ worker' = [worker EXCEPT ![w].pc = to]

\* The rows of a range before r, as they are written.
RowsBefore(k, r) == {s \in RowsOf(k) : s < r}

\* exportOneShard succeeds: all rows of the range are in the file, but for the end
\* of it when the deferred Flush fails, whose error is lost.
ExportDone(w) ==
  LET k == worker[w].task
  IN  /\ GoTo(w, "export", "idle")
      /\ \/ files' = [files EXCEPT ![k] = RowsOf(k)] /\ UNCHANGED lost
         \/ /\ \E r \in RowsOf(k) : files' = [files EXCEPT ![k] = RowsBefore(k, r)]
            /\ lost' = TRUE
      /\ UNCHANGED <<table, pc, next, closed, errCh>>

\* It fails: a query, a scan or a write; rows written before that are flushed.
ExportFails(w) ==
  LET k == worker[w].task
  IN  /\ GoTo(w, "export", "failed")
      /\ \E r \in RowsOf(k) \cup {MinInt} : files' = [files EXCEPT ![k] = RowsBefore(k, r)]
      /\ UNCHANGED <<table, pc, next, closed, errCh, lost>>

\* Faulty variant of GiveUp: the goroutine tries the task again, for ever.
GiveUpRetries(w) ==
  /\ GoTo(w, "failed", "export")
  /\ errCh' = TRUE
  /\ UNCHANGED <<table, pc, next, closed, files, lost>>

\* The error is kept if it is the first in errCh; the goroutine returns.
GiveUp(w) ==
  /\ GoTo(w, "failed", "exited")
  /\ errCh' = TRUE
  /\ UNCHANGED <<table, pc, next, closed, files, lost>>

\* The range over the closed jobs ends.
Exit(w) ==
  /\ closed
  /\ GoTo(w, "idle", "exited")
  /\ UNCHANGED <<table, pc, next, closed, errCh, files, lost>>

-----------------------------------------------------------------------------
Dispatcher == CheckError \/ CloseJobs \/ Wait \/ \E w \in Worker : SendTask(w)

Goroutine(w) == ExportDone(w) \/ ExportFails(w) \/ GiveUp(w) \/ Exit(w)

Returned == pc \in {"ok", "error"}

\* Every goroutine has given up while the dispatcher waits to send.
Stranded == pc = "send" /\ AllExited

Terminated == (Returned \/ Stranded) /\ UNCHANGED vars

Next == Dispatcher \/ (\E w \in Worker : Goroutine(w)) \/ Terminated

Spec == Init /\ [][Next]_vars

\* Goroutines are scheduled and the queries return.
FairSpec ==
  /\ Spec
  /\ WF_vars(Dispatcher)
  /\ \A w \in 1..Parallel : WF_vars(w \in Worker /\ Goroutine(w))

-----------------------------------------------------------------------------
(* Properties.                                                             *)

\* The arithmetic on the keys stays within int64: not so when the keys span
\* half the integers or more, or end within a step of the largest.
KeysFit ==
  /\ Max(table) - Min(table) + Shards <= MaxInt
  /\ Min(table) + Shards * Step <= MaxInt

\* When ExportSourceByPKRange returns without an error, every row of the source
\* is in exactly one of the files it returns: the ranges leave no gap and do
\* not overlap, and no shard that failed goes unnoticed, although errCh holds
\* only one error and the dispatcher may have passed its last check.  The one
\* failure that does is that of a file's last Flush.
EveryRowOnce ==
  pc = "ok" /\ KeysFit /\ ~lost =>
    \A r \in table : \E k \in Task : \A l \in Task : r \in files[l] <=> l = k

\* ExportSourceByPKRange returns unless all its goroutines give up while it
\* waits to hand out a task: that send has no receiver left and no way out.
Returns == <>(Returned \/ Stranded)
=============================================================================
