---------------------------- MODULE MySQLProofs ----------------------------
(***************************************************************************)
(* Proofs about the MySQL source, ShardExport, for every table, any number *)
(* of shards and of goroutines and any width of the keys, and about the    *)
(* MySQL sink, MySQLSink, for any number of imports, all reduce outputs    *)
(* and every batch size.                                                   *)
(*                                                                         *)
(* In the source two arguments meet.  The first is about numbers: as long  *)
(* as nothing wraps around, the ranges [min + (k-1)*step, min + k*step)    *)
(* partition the table.  The second is about control: a task that has been *)
(* handed out is written, or some goroutine still has it, or its error is  *)
(* on the way to the result.                                               *)
(*                                                                         *)
(* In the sink one argument is about data: the rows of the first n lines   *)
(* are those of the first n - 1 and the n-th line's, so that batches, put  *)
(* one after the other, are all rows.  The other is about sharing: what an *)
(* import finds in the tables is what it left there, as long as no other   *)
(* import overlaps with it, whatever failed imports have left behind.      *)
(***************************************************************************)
EXTENDS ShardExport, MySQLSink, WellFoundedInduction, TLAPS

-----------------------------------------------------------------------------
(* Numbers.                                                                *)

\* A minimal element of a set of natural numbers is its least.
LEMMA MinimalIsLeast ==
  ASSUME NEW R, NEW T, T \subseteq Nat,
         NEW x \in T, \A y \in T : ~ (<<y, x>> \in R),
         \A m \in Nat, n \in Nat : m < n => <<m, n>> \in R
  PROVE  \A y \in T : x <= y
<1> SUFFICES ASSUME NEW y \in T PROVE x <= y
  OBVIOUS
<1>1. x \in Nat /\ y \in Nat
  OBVIOUS
<1>2. ~(y < x)
  BY <1>1
<1> QED
  BY <1>1, <1>2

\* A non-empty set of natural numbers has a least element.
LEMMA LeastElement ==
  ASSUME NEW T, T \subseteq Nat, T # {}
  PROVE  \E x \in T : \A y \in T : x <= y
<1> DEFINE R == OpToRel(<, Nat)
<1>1. IsWellFoundedOn(R, Nat)
  BY NatLessThanWellFounded
<1>2. \A m \in Nat, n \in Nat : m < n => <<m, n>> \in R
  BY DEF OpToRel
<1> HIDE DEF R
<1>3. PICK x \in T : \A y \in T : ~ (<<y, x>> \in R)
  BY <1>1, WFMin
<1>4. \A y \in T : x <= y
  BY <1>2, <1>3, MinimalIsLeast
<1> QED
  BY <1>4

\* MIN(pk) and MAX(pk) of a table are rows of it, and bound the others.
LEMMA Bounds ==
  ASSUME NEW S, S \subseteq Int64, S # {}
  PROVE  /\ Min(S) \in S /\ Max(S) \in S /\ S \subseteq Int
         /\ \A r \in S : Min(S) <= r /\ r <= Max(S)
<1>h. Half \in Nat \ {0}
  BY HalfAssumption
<1>0. S \subseteq Int /\ \A r \in S : -Half <= r /\ r <= Half - 1
  BY <1>h DEF Int64, MinInt, MaxInt
<1>1. \E x \in S : \A y \in S : x <= y
  <2> DEFINE T == {r + Half : r \in S}
  <2>1. T \subseteq Nat
    BY <1>h, <1>0
  <2>2. PICK t \in T : \A y \in T : t <= y
    BY <2>1, LeastElement
  <2>3. PICK x \in S : t = x + Half
    BY <2>2
  <2>4. ASSUME NEW y \in S PROVE x <= y
    <3>1. x + Half <= y + Half
      BY <2>2, <2>3
    <3> QED
      BY <1>h, <1>0, <3>1
  <2> QED
    BY <2>4
<1>2. \E x \in S : \A y \in S : x >= y
  <2> DEFINE T == {Half - r : r \in S}
  <2>1. T \subseteq Nat
    BY <1>h, <1>0
  <2>2. PICK t \in T : \A y \in T : t <= y
    BY <2>1, LeastElement
  <2>3. PICK x \in S : t = Half - x
    BY <2>2
  <2>4. ASSUME NEW y \in S PROVE x >= y
    <3>1. Half - x <= Half - y
      BY <2>2, <2>3
    <3> QED
      BY <1>h, <1>0, <3>1
  <2> QED
    BY <2>4
<1>3. Min(S) \in S /\ \A r \in S : Min(S) <= r
  BY <1>1 DEF Min
<1>4. Max(S) \in S /\ \A r \in S : Max(S) >= r
  BY <1>2 DEF Max
<1> QED
  BY <1>0, <1>3, <1>4

\* The least element of a set of task numbers.
LEMMA LeastTask ==
  ASSUME NEW S, S \subseteq Nat, S # {}
  PROVE  Min(S) \in S /\ \A k \in S : Min(S) <= k
  BY LeastElement DEF Min

\* A number below the divisor is its own remainder.
LEMMA SmallRemainder ==
  ASSUME NEW m \in Nat, NEW n \in Nat, n < m
  PROVE  n % m = n
  OBVIOUS

\* A result that fits into int64 is not changed by wrapping.
LEMMA WrapFits == ASSUME NEW n \in Int64 PROVE Wrap(n) = n
<1>1. Half \in Nat \ {0} /\ n \in Int /\ -Half <= n /\ n <= Half - 1
  BY HalfAssumption DEF Int64, MinInt, MaxInt
<1>2. n - MinInt \in Nat /\ n - MinInt < 2 * Half /\ 2 * Half \in Nat
  BY <1>1 DEF MinInt
<1>3. (n - MinInt) % (2 * Half) = n - MinInt
  BY <1>2, SmallRemainder
<1> QED
  BY <1>1, <1>3 DEF Wrap, MinInt

\* Multiplication by a natural number is monotonic.
LEMMA MulMonotonic ==
  ASSUME NEW a \in Int, NEW b \in Int, NEW s \in Nat, a <= b
  PROVE  a * s <= b * s /\ a * s \in Int /\ b * s \in Int
<1>1. (b - a) \in Nat
  OBVIOUS
<1>2. (b - a) * s \in Nat
  BY <1>1
<1>3. b * s = a * s + (b - a) * s
  OBVIOUS
<1>4. a * s \in Int /\ b * s \in Int
  OBVIOUS
<1> QED
  BY <1>2, <1>3, <1>4

\* Dividing and rounding up: the quotient times the divisor covers the dividend.
LEMMA DivideUp ==
  ASSUME NEW x \in Nat, NEW d \in Nat \ {0}
  PROVE  /\ x \div d \in Nat /\ x % d \in 0..(d - 1)
         /\ x = (d * (x \div d)) + (x % d)
  OBVIOUS

-----------------------------------------------------------------------------
(* The ranges.                                                             *)

\* The bounds of the source, as numbers.
LEMMA TableBounds ==
  ASSUME table \in Tables
  PROVE  /\ Min(table) \in Int64 /\ Max(table) \in Int64 /\ Min(table) \in Int /\ Max(table) \in Int
         /\ Min(table) <= Max(table)
         /\ \A r \in table : r \in Int /\ Min(table) <= r /\ r <= Max(table)
<1>1. table \subseteq Int64 /\ table # {}
  BY TablesAssumption
<1>2. /\ Min(table) \in table /\ Max(table) \in table /\ table \subseteq Int
      /\ \A r \in table : Min(table) <= r /\ r <= Max(table)
  BY <1>1, Bounds
<1> QED
  BY <1>1, <1>2

\* The rounded up quotient is at least one, and so many steps cover the dividend.
LEMMA QuotientCovers ==
  ASSUME NEW d \in Nat \ {0}, NEW y \in Nat
  PROVE  (y + d) \div d \in Nat \ {0} /\ y < d * ((y + d) \div d)
<1> DEFINE q == (y + d) \div d
          r == (y + d) % d
<1>1. y + d \in Nat
  OBVIOUS
<1>2. q \in Nat /\ r \in 0..(d - 1) /\ y + d = (d * q) + r
  BY <1>1, DivideUp
<1> HIDE DEF q, r
<1>3. d * q \in Nat
  BY <1>2
<1>4. y < d * q
  BY <1>2, <1>3
<1>5. q # 0
  <2> SUFFICES ASSUME q = 0 PROVE FALSE
    OBVIOUS
  <2>1. d * q = 0
    OBVIOUS
  <2> QED
    BY <1>4, <2>1
<1> QED
  BY <1>2, <1>4, <1>5 DEF q

\* The step is positive, and the shards' steps reach beyond the largest key.
LEMMA StepCovers ==
  ASSUME table \in Tables, KeysFit
  PROVE  Step \in Nat \ {0} /\ Max(table) - Min(table) < Shards * Step
<1> DEFINE y == Max(table) - Min(table)
<1>0. Half \in Nat \ {0} /\ Shards \in Nat \ {0}
  BY HalfAssumption, ShardsAssumption DEF MaxInt
<1>1. y \in Nat /\ y + Shards <= Half - 1
  BY TableBounds DEF KeysFit, MaxInt
<1>2. y + 1 \in Int64 /\ y + Shards \in Int64
  BY <1>0, <1>1 DEF Int64, MinInt, MaxInt
<1>3. Wrap(y + 1) = y + 1 /\ Wrap(y + Shards) = y + Shards
  BY <1>2, WrapFits
<1>4. Wrap(Wrap(y + 1) + Shards - 1) = y + Shards
  <2>1. (y + 1) + Shards - 1 = y + Shards
    BY <1>0, <1>1
  <2> QED
    BY <1>3, <2>1
<1>5. (y + Shards) \div Shards \in Nat \ {0} /\ y < Shards * ((y + Shards) \div Shards)
  BY <1>0, <1>1, QuotientCovers
<1>6. Step = (y + Shards) \div Shards
  <2>1. ~((y + Shards) \div Shards < 1)
    BY <1>5
  <2> QED
    BY <1>4, <2>1 DEF Step
<1> QED
  BY <1>5, <1>6

\* The ranges follow each other: no start and no end wraps around.
LEMMA RangesFollow ==
  ASSUME table \in Tables, KeysFit, NEW k \in 1..Shards
  PROVE  /\ RangeStart(k) = Min(table) + (k - 1) * Step
         /\ Wrap(RangeStart(k) + Step) = Min(table) + k * Step
         /\ (k - 1) * Step \in Nat /\ k * Step \in Nat
<1>0. Half \in Nat \ {0} /\ Shards \in Nat \ {0} /\ k \in Nat \ {0} /\ k <= Shards
  BY HalfAssumption, ShardsAssumption DEF MaxInt
<1>1. Step \in Nat \ {0}
  BY StepCovers
<1>2. Min(table) \in Int /\ -Half <= Min(table) /\ Min(table) + Shards * Step <= Half - 1
  BY TableBounds DEF KeysFit, MaxInt, Int64, MinInt
<1>3. (k - 1) * Step \in Nat /\ k * Step \in Nat /\ Shards * Step \in Nat
  BY <1>0, <1>1
<1>4. (k - 1) * Step <= k * Step /\ k * Step <= Shards * Step
  BY <1>0, <1>1, MulMonotonic
<1>5. (k - 1) * Step + Step = k * Step
  BY <1>0, <1>1
<1>6. Min(table) + (k - 1) * Step \in Int64 /\ Min(table) + k * Step \in Int64
  BY <1>0, <1>2, <1>3, <1>4 DEF Int64, MinInt, MaxInt
<1>7. RangeStart(k) = Min(table) + (k - 1) * Step
  BY <1>6, WrapFits DEF RangeStart
<1>8. RangeStart(k) + Step = Min(table) + k * Step
  BY <1>1, <1>2, <1>3, <1>5, <1>7
<1> QED
  BY <1>3, <1>6, <1>7, <1>8, WrapFits

\* The number of tasks: those before the first start above the largest key.
LEMMA TaskCount ==
  ASSUME table \in Tables
  PROVE  /\ NumTasks \in 0..Shards
         /\ \A k \in 1..Shards : (\A l \in 1..k : ~(RangeStart(l) > Max(table))) => k <= NumTasks
<1>0. Shards \in Nat \ {0}
  BY ShardsAssumption, HalfAssumption DEF MaxInt
<1> DEFINE past == {k \in 1..Shards : RangeStart(k) > Max(table)}
<1>1. CASE past = {}
  BY <1>0, <1>1 DEF NumTasks
<1>2. CASE past # {}
  <2>1. past \subseteq Nat
    BY <1>0
  <2>2. Min(past) \in past /\ \A k \in past : Min(past) <= k
    <3> HIDE DEF past
    <3> QED
      BY <1>2, <2>1, LeastTask
  <2>3. NumTasks = Min(past) - 1
    BY <1>2 DEF NumTasks
  <2>4. Min(past) \in 1..Shards /\ RangeStart(Min(past)) > Max(table)
    BY <2>2
  <2>5. ASSUME NEW k \in 1..Shards, \A l \in 1..k : ~(RangeStart(l) > Max(table)) PROVE k < Min(past)
    <3>1. Min(past) \notin 1..k
      BY <2>4, <2>5
    <3> HIDE DEF past
    <3> QED
      BY <1>0, <2>4, <3>1
  <2> HIDE DEF past
  <2> QED
    BY <1>0, <2>3, <2>4, <2>5
<1> QED
  BY <1>1, <1>2

\* Each row of the source is in the range of exactly one task.
LEMMA RangesPartition ==
  ASSUME table \in Tables, KeysFit, NEW r \in table
  PROVE  \E k \in Task : \A l \in Task : r \in RowsOf(l) <=> l = k
<1>0. Shards \in Nat \ {0}
  BY ShardsAssumption, HalfAssumption DEF MaxInt
<1>1. Step \in Nat \ {0} /\ Max(table) - Min(table) < Shards * Step
  BY StepCovers
<1>2. /\ Min(table) \in Int /\ Max(table) \in Int
      /\ r \in Int /\ Min(table) <= r /\ r <= Max(table)
  BY TableBounds
<1> DEFINE d == r - Min(table)
          k == (d \div Step) + 1
<1>3. d \in Nat /\ r = Min(table) + d /\ d < Shards * Step
  BY <1>0, <1>1, <1>2
<1> HIDE DEF d
<1>4. /\ d \div Step \in Nat /\ d % Step \in 0..(Step - 1)
      /\ d = (Step * (d \div Step)) + (d % Step)
  BY <1>1, <1>3, DivideUp
<1>5. k \in Nat \ {0} /\ (k - 1) * Step <= d /\ d < k * Step
  <2> DEFINE q == d \div Step
  <2>1. q \in Nat /\ k = q + 1 /\ (k - 1) = q
    BY <1>4
  <2>2. q * Step = Step * q /\ (q + 1) * Step = Step * q + Step /\ Step * q \in Nat
    BY <1>1, <2>1
  <2> HIDE DEF q, k
  <2>3. d \div Step = q
    BY DEF q
  <2> QED
    BY <1>1, <1>3, <1>4, <2>1, <2>2, <2>3
<1> HIDE DEF k
<1>6. k \in 1..Shards
  <2> SUFFICES ASSUME k > Shards PROVE FALSE
    BY <1>0, <1>5
  <2>1. Shards * Step <= (k - 1) * Step
    BY <1>0, <1>1, <1>5, MulMonotonic
  <2>2. Shards * Step \in Nat /\ (k - 1) * Step \in Nat
    BY <1>0, <1>1, <1>5
  <2> QED
    BY <1>3, <1>5, <2>1, <2>2
<1>7. ASSUME NEW l \in 1..Shards
      PROVE  r \in RowsOf(l) <=> (l - 1) * Step <= d /\ d < l * Step
  <2>1. /\ RangeStart(l) = Min(table) + (l - 1) * Step
        /\ Wrap(RangeStart(l) + Step) = Min(table) + l * Step
        /\ (l - 1) * Step \in Nat /\ l * Step \in Nat
    BY RangesFollow
  <2> DEFINE a == (l - 1) * Step
            b == l * Step
  <2> HIDE DEF a, b
  <2>2. r \in RowsOf(l) <=> r >= Min(table) + a /\ r < Min(table) + b
    BY <2>1 DEF RowsOf, a, b
  <2>3. a \in Nat /\ b \in Nat
    BY <2>1 DEF a, b
  <2>4. r \in RowsOf(l) <=> a <= d /\ d < b
    BY <1>2, <1>3, <2>2, <2>3
  <2> QED
    BY <2>4 DEF a, b
<1>8. ASSUME NEW l \in 1..Shards, (l - 1) * Step <= d, d < l * Step PROVE l = k
  <2>1. l \in Nat \ {0}
    BY <1>0
  <2>2. ASSUME l < k PROVE FALSE
    <3>1. l * Step <= (k - 1) * Step /\ l * Step \in Int /\ (k - 1) * Step \in Int
      BY <1>1, <1>5, <2>1, <2>2, MulMonotonic
    <3> QED
      BY <1>3, <1>5, <1>8, <3>1
  <2>3. ASSUME k < l PROVE FALSE
    <3>1. k * Step <= (l - 1) * Step /\ k * Step \in Int /\ (l - 1) * Step \in Int
      BY <1>1, <1>5, <2>1, <2>3, MulMonotonic
    <3> QED
      BY <1>3, <1>5, <1>8, <3>1
  <2> QED
    BY <1>5, <2>1, <2>2, <2>3
<1>9. k \in Task
  <2>1. ASSUME NEW l \in 1..k PROVE ~(RangeStart(l) > Max(table))
    <3>1. l \in 1..Shards /\ l \in Nat /\ l - 1 <= k - 1
      BY <1>0, <1>5, <1>6
    <3>2. RangeStart(l) = Min(table) + (l - 1) * Step
      BY <3>1, RangesFollow
    <3>3. (l - 1) * Step <= (k - 1) * Step /\ (l - 1) * Step \in Int /\ (k - 1) * Step \in Int
      BY <1>1, <1>5, <3>1, MulMonotonic
    <3> QED
      BY <1>2, <1>3, <1>5, <3>2, <3>3
  <2>2. k <= NumTasks /\ NumTasks \in 0..Shards
    BY <1>6, <2>1, TaskCount
  <2> QED
    BY <1>0, <1>5, <2>2 DEF Task
<1>10. Task \subseteq 1..Shards
  BY <1>0, TaskCount DEF Task
<1> QED
  BY <1>5, <1>6, <1>7, <1>8, <1>9, <1>10

-----------------------------------------------------------------------------
(* Control.                                                                *)

\* Goroutine w has a task, whose export may have failed.
Active(w) == worker[w].pc \in {"export", "failed"}

Failing == errCh \/ pc \in {"failing", "error"}

\* A task that was handed out is in its file, or has lost the end of it, or some
\* goroutine has it, or there is an error.
HandedOut ==
  \A k \in 1..(next - 1) :
    \/ files[k] = RowsOf(k) \/ lost \/ Failing
    \/ \E w \in Worker : Active(w) /\ worker[w].task = k

Points ==
  /\ pc = "send" => next <= NumTasks
  /\ pc \in {"waiting", "ok"} => next = NumTasks + 1
  /\ pc \in {"error", "ok"} => AllExited
  /\ pc = "ok" => ~errCh
  /\ \A w \in Worker : Active(w) => worker[w].task \in Task

IInv == TypeOK /\ Points /\ HandedOut

\* The tasks and the goroutines depend on the table only, which does not change.
LEMMA TableFixed ==
  ASSUME [Next]_vars
  PROVE  /\ table' = table /\ NumTasks' = NumTasks /\ Task' = Task /\ Worker' = Worker
         /\ \A k : RowsOf(k)' = RowsOf(k)
<1>1. table' = table
  BY DEF Next, Dispatcher, Goroutine, Terminated, CheckError, SendTask, CloseJobs, Wait,
     ExportDone, ExportFails, GiveUp, Exit, vars
<1> QED
  BY <1>1 DEF NumTasks, Task, Worker, WorkerN, RowsOf, RangeStart, Step

\* The files are empty and no task has been handed out.
LEMMA IInvInit == Init => IInv
<1> SUFFICES ASSUME Init PROVE IInv
  OBVIOUS
<1>1. table \in Tables /\ NumTasks \in Nat
  <2>1. table \in Tables
    BY DEF Init
  <2>2. NumTasks \in 0..Shards /\ Shards \in Nat
    BY <2>1, TaskCount, ShardsAssumption, HalfAssumption DEF MaxInt
  <2> QED
    BY <2>1, <2>2
<1>2. TypeOK
  <2>1. worker \in [Worker -> [pc : {"idle", "export", "failed", "exited"}, task : 0..NumTasks]]
    BY <1>1 DEF Init
  <2>2. files \in [Task -> SUBSET table]
    BY DEF Init
  <2>3. next \in 1..(NumTasks + 1)
    BY <1>1 DEF Init
  <2>4. pc = "check" /\ closed \in BOOLEAN /\ errCh \in BOOLEAN /\ lost \in BOOLEAN
    BY DEF Init
  <2> QED
    BY <1>1, <2>1, <2>2, <2>3, <2>4 DEF TypeOK
<1>3. Points
  BY DEF Init, Points, Active
<1>4. HandedOut
  BY DEF Init, HandedOut
<1> QED
  BY <1>2, <1>3, <1>4 DEF IInv

\* The steps of the dispatcher.
LEMMA DispatcherStep == ASSUME IInv, Dispatcher PROVE IInv'
<1>t. [Next]_vars
  BY DEF Next
<1>0. /\ table' = table /\ NumTasks' = NumTasks /\ Task' = Task /\ Worker' = Worker
      /\ \A k : RowsOf(k)' = RowsOf(k)
  BY <1>t, TableFixed
<1>1. NumTasks \in Nat /\ next \in 1..(NumTasks + 1) /\ Task = 1..NumTasks
  <2>1. NumTasks \in 0..Shards /\ Shards \in Nat
    BY TaskCount, ShardsAssumption, HalfAssumption DEF MaxInt, IInv, TypeOK
  <2> QED
    BY <2>1 DEF IInv, TypeOK, Task
<1>2. CASE CheckError
  <2>1. UNCHANGED <<table, next, worker, files, lost>> /\ pc = "check" /\ next <= NumTasks /\ errCh' = FALSE
        /\ pc' \in {"failing", "send"} /\ (errCh => pc' = "failing")
    BY <1>2 DEF CheckError
  <2>2. closed' \in BOOLEAN
    BY <1>2 DEF CheckError, IInv, TypeOK
  <2>3. TypeOK'
    BY <1>0, <2>1, <2>2 DEF IInv, TypeOK
  <2>4. Points'
    BY <1>0, <2>1 DEF IInv, Points, Active
  <2>5. HandedOut'
    BY <1>0, <2>1 DEF IInv, HandedOut, Failing, Active
  <2> QED
    BY <2>3, <2>4, <2>5 DEF IInv
<1>3. ASSUME NEW w \in Worker, SendTask(w) PROVE IInv'
  <2> DEFINE job == [pc |-> "export", task |-> next]
  <2>1. /\ pc = "send" /\ worker[w].pc = "idle" /\ worker' = [worker EXCEPT ![w] = job]
        /\ next' = next + 1 /\ pc' = "check" /\ UNCHANGED <<table, closed, errCh, files, lost>>
    BY <1>3 DEF SendTask
  <2>2. next <= NumTasks
    BY <2>1 DEF IInv, Points
  <2>3. job \in [pc : {"idle", "export", "failed", "exited"}, task : 0..NumTasks] /\ job.task = next /\ job.pc = "export"
    BY <1>1, <2>2
  <2> HIDE DEF job
  <2>4. /\ worker'[w] = job /\ \A v \in Worker : v # w => worker'[v] = worker[v]
        /\ worker' \in [Worker -> [pc : {"idle", "export", "failed", "exited"}, task : 0..NumTasks]]
    BY <2>1, <2>3 DEF IInv, TypeOK
  <2>5. next' \in 1..(NumTasks + 1) /\ next \in Task
    BY <1>1, <2>1, <2>2
  <2>6. TypeOK'
    BY <1>0, <2>1, <2>4, <2>5 DEF IInv, TypeOK
  <2>7. Points'
    BY <1>0, <2>1, <2>3, <2>4, <2>5 DEF IInv, Points, Active
  <2>8. HandedOut'
    <3> SUFFICES ASSUME NEW k \in 1..(next' - 1)
                 PROVE  \/ files'[k] = RowsOf(k)' \/ lost' \/ Failing'
                        \/ \E v \in Worker' : Active(v)' /\ worker'[v].task = k
      BY DEF HandedOut
    <3>1. CASE k = next
      BY <1>0, <2>3, <2>4, <3>1 DEF Active
    <3>2. CASE k # next
      <4>1. k \in 1..(next - 1)
        BY <1>1, <2>1, <3>2
      <4>2. \/ files[k] = RowsOf(k) \/ lost \/ errCh
            \/ \E v \in Worker : Active(v) /\ worker[v].task = k
        BY <2>1, <4>1 DEF IInv, HandedOut, Failing
      <4>3. ASSUME NEW v \in Worker, Active(v), worker[v].task = k PROVE Active(v)' /\ worker'[v].task = k
        <5>1. v # w
          BY <2>1, <4>3 DEF Active
        <5> QED
          BY <2>4, <4>3, <5>1 DEF Active
      <4> QED
        BY <1>0, <2>1, <4>2, <4>3 DEF Failing
    <3> QED
      BY <3>1, <3>2
  <2> QED
    BY <2>6, <2>7, <2>8 DEF IInv
<1>4. CASE CloseJobs
  <2>1. /\ UNCHANGED <<table, next, worker, errCh, files, lost>> /\ pc = "check" /\ next > NumTasks
        /\ closed' = TRUE /\ pc' = "waiting"
    BY <1>4 DEF CloseJobs
  <2>2. next = NumTasks + 1
    BY <1>1, <2>1
  <2>3. TypeOK'
    BY <1>0, <2>1 DEF IInv, TypeOK
  <2>4. Points'
    BY <1>0, <2>1, <2>2 DEF IInv, Points, Active
  <2>5. HandedOut'
    BY <1>0, <2>1 DEF IInv, HandedOut, Failing, Active
  <2> QED
    BY <2>3, <2>4, <2>5 DEF IInv
<1>5. CASE Wait
  <2>1. /\ UNCHANGED <<table, next, worker, closed, errCh, files, lost>> /\ pc \in {"failing", "waiting"}
        /\ AllExited /\ pc' \in {"error", "ok"} /\ (pc' = "ok" <=> pc = "waiting" /\ ~errCh)
    BY <1>5 DEF Wait
  <2>2. AllExited'
    BY <1>0, <2>1 DEF AllExited
  <2>3. TypeOK'
    BY <1>0, <2>1 DEF IInv, TypeOK
  <2>4. Points'
    BY <1>0, <2>1, <2>2 DEF IInv, Points, Active
  <2>5. HandedOut'
    BY <1>0, <2>1 DEF IInv, HandedOut, Failing, Active
  <2> QED
    BY <2>3, <2>4, <2>5 DEF IInv
<1> QED
  BY <1>2, <1>3, <1>4, <1>5 DEF Dispatcher

\* The steps of a goroutine: it has not exited, so the export has not returned.
LEMMA GoroutineStep == ASSUME IInv, NEW w \in Worker, Goroutine(w) PROVE IInv'
<1>t. [Next]_vars
  BY DEF Next
<1>0. /\ table' = table /\ NumTasks' = NumTasks /\ Task' = Task /\ Worker' = Worker
      /\ \A k : RowsOf(k)' = RowsOf(k)
  BY <1>t, TableFixed
<1>1. PICK to \in {"idle", "failed", "exited"} : worker' = [worker EXCEPT ![w].pc = to]
  BY DEF Goroutine, ExportDone, ExportFails, GiveUp, Exit, GoTo
<1>2. /\ worker'[w].pc = to /\ worker'[w].task = worker[w].task
      /\ \A v \in Worker : v # w => worker'[v] = worker[v]
      /\ worker' \in [Worker -> [pc : {"idle", "export", "failed", "exited"}, task : 0..NumTasks]]
  BY <1>1 DEF IInv, TypeOK
<1>3. worker[w].pc # "exited" /\ UNCHANGED <<table, pc, next, closed>>
  BY DEF Goroutine, ExportDone, ExportFails, GiveUp, Exit, GoTo
<1>4. pc \notin {"error", "ok"}
  BY <1>3 DEF IInv, Points, AllExited
<1>5. /\ files' \in [Task -> SUBSET table] /\ lost' \in BOOLEAN /\ errCh' \in BOOLEAN
      /\ (lost => lost') /\ (errCh => errCh')
      /\ \A k \in Task : k # worker[w].task => files'[k] = files[k]
      /\ ~Active(w) => files' = files
  <2>1. CASE ExportDone(w)
    <3>1. worker[w].task \in Task /\ errCh' = errCh
      BY <2>1 DEF ExportDone, GoTo, IInv, Points, Active
    <3>2. \E R \in SUBSET table : files' = [files EXCEPT ![worker[w].task] = R]
      BY <2>1 DEF ExportDone, RowsOf, RowsBefore
    <3>3. lost' \in BOOLEAN /\ (lost => lost')
      <4>1. lost \in BOOLEAN
        BY DEF IInv, TypeOK
      <4>2. lost' = lost \/ lost' = TRUE
        BY <2>1 DEF ExportDone
      <4> QED
        BY <4>1, <4>2, Zenon
    <3>4. Active(w) /\ errCh \in BOOLEAN
      BY <2>1 DEF ExportDone, GoTo, Active, IInv, TypeOK
    <3>5. files' \in [Task -> SUBSET table] /\ \A k \in Task : k # worker[w].task => files'[k] = files[k]
      BY <3>1, <3>2 DEF IInv, TypeOK
    <3> QED
      BY <3>1, <3>3, <3>4, <3>5
  <2>2. CASE ExportFails(w)
    <3>1. worker[w].task \in Task /\ errCh' = errCh /\ lost' = lost
      BY <2>2 DEF ExportFails, GoTo, IInv, Points, Active
    <3>2. \E R \in SUBSET table : files' = [files EXCEPT ![worker[w].task] = R]
      BY <2>2 DEF ExportFails, RowsOf, RowsBefore
    <3> QED
      BY <2>2, <3>1, <3>2 DEF IInv, TypeOK, ExportFails, GoTo, Active
  <2>3. CASE GiveUp(w)
    BY <2>3 DEF GiveUp, IInv, TypeOK
  <2>4. CASE Exit(w)
    BY <2>4 DEF Exit, IInv, TypeOK
  <2> QED
    BY <2>1, <2>2, <2>3, <2>4 DEF Goroutine
<1>6. TypeOK'
  BY <1>0, <1>2, <1>3, <1>5 DEF IInv, TypeOK
<1>7. Points'
  <2>1. ASSUME NEW v \in Worker, Active(v)' PROVE worker'[v].task \in Task
    <3>1. CASE v # w
      BY <1>2, <2>1, <3>1 DEF IInv, Points, Active
    <3>2. CASE v = w
      <4>1. to = "failed"
        BY <1>2, <2>1, <3>2 DEF Active
      <4>2. Active(w)
        BY <1>2, <4>1 DEF Goroutine, ExportDone, ExportFails, GiveUp, Exit, GoTo, Active
      <4> QED
        BY <1>2, <3>2, <4>2 DEF IInv, Points
    <3> QED
      BY <3>1, <3>2
  <2> QED
    BY <1>0, <1>3, <1>4, <2>1 DEF IInv, Points
<1>8. HandedOut'
  <2> SUFFICES ASSUME NEW k \in 1..(next - 1)
               PROVE  \/ files'[k] = RowsOf(k) \/ lost' \/ Failing'
                      \/ \E v \in Worker : Active(v)' /\ worker'[v].task = k
    BY <1>0, <1>3 DEF HandedOut
  <2>0. k \in Task
    <3>1. NumTasks \in 0..Shards /\ Shards \in Nat
      BY TaskCount, ShardsAssumption, HalfAssumption DEF MaxInt, IInv, TypeOK
    <3> QED
      BY <3>1 DEF IInv, TypeOK, Task
  <2>1. \/ files[k] = RowsOf(k) \/ lost \/ Failing
        \/ \E v \in Worker : Active(v) /\ worker[v].task = k
    BY DEF IInv, HandedOut
  <2>2. lost \/ Failing => lost' \/ Failing'
    BY <1>3, <1>5 DEF Failing
  <2>3. ASSUME NEW v \in Worker, v # w, Active(v), worker[v].task = k PROVE Active(v)' /\ worker'[v].task = k
    BY <1>2, <2>3 DEF Active
  <2>4. ASSUME Active(w), worker[w].task = k
        PROVE  \/ files'[k] = RowsOf(k) \/ lost' \/ Failing'
               \/ \E v \in Worker : Active(v)' /\ worker'[v].task = k
    <3>1. CASE ExportDone(w)
      <4>1. files' = [files EXCEPT ![k] = RowsOf(k)] \/ lost' = TRUE
        BY <2>4, <3>1 DEF ExportDone
      <4> QED
        BY <2>0, <4>1 DEF IInv, TypeOK
    <3>2. CASE ExportFails(w)
      <4>1. worker'[w].pc = "failed"
        BY <3>2 DEF ExportFails, GoTo, IInv, TypeOK
      <4> QED
        BY <1>2, <2>4, <4>1 DEF Active
    <3>3. CASE GiveUp(w)
      BY <3>3 DEF GiveUp, Failing
    <3>4. CASE Exit(w)
      BY <2>4, <3>4 DEF Exit, GoTo, Active
    <3> QED
      BY <3>1, <3>2, <3>3, <3>4 DEF Goroutine
  <2>5. ASSUME files[k] = RowsOf(k), ~(Active(w) /\ worker[w].task = k) PROVE files'[k] = RowsOf(k)
    BY <1>5, <2>0, <2>5
  <2> QED
    BY <2>1, <2>2, <2>3, <2>4, <2>5
<1> QED
  BY <1>6, <1>7, <1>8 DEF IInv

\* A step without change.
LEMMA StutterStep == ASSUME IInv, UNCHANGED vars PROVE IInv'
<1>1. /\ table' = table /\ NumTasks' = NumTasks /\ Task' = Task /\ Worker' = Worker
      /\ \A k : RowsOf(k)' = RowsOf(k)
  BY TableFixed
<1>2. UNCHANGED <<pc, next, worker, closed, errCh, files, lost>>
  BY DEF vars
<1>3. TypeOK'
  BY <1>1, <1>2 DEF IInv, TypeOK
<1>4. Points'
  BY <1>1, <1>2 DEF IInv, Points, AllExited, Active
<1>5. HandedOut'
  BY <1>1, <1>2 DEF IInv, HandedOut, Failing, Active
<1> QED
  BY <1>3, <1>4, <1>5 DEF IInv

\* The dispatcher and its goroutines keep the invariant, from the first task that is
\* handed out to the return.
THEOREM InductiveInvariant == Spec => []IInv
<1>1. IInv /\ [Next]_vars => IInv'
  BY DispatcherStep, GoroutineStep, StutterStep DEF Next, Terminated
<1> QED
  BY <1>1, IInvInit, PTL DEF Spec

\* Where the export has returned without an error, all tasks are in their files.
LEMMA InvEveryRow == IInv => EveryRowOnce
<1> SUFFICES ASSUME IInv, pc = "ok", KeysFit, ~lost, NEW r \in table
             PROVE  \E k \in Task : \A l \in Task : r \in files[l] <=> l = k
  BY DEF EveryRowOnce
<1>1. table \in Tables /\ AllExited /\ ~errCh /\ next = NumTasks + 1
  BY DEF IInv, Points, TypeOK
<1>2. NumTasks \in Nat
  <2>1. NumTasks \in 0..Shards /\ Shards \in Nat
    BY <1>1, TaskCount, ShardsAssumption, HalfAssumption DEF MaxInt
  <2> QED
    BY <2>1
<1>3. Task = 1..(next - 1)
  BY <1>1, <1>2 DEF Task
<1>4. \A k \in Task : files[k] = RowsOf(k)
  BY <1>1, <1>3 DEF IInv, HandedOut, Failing, AllExited, Active
<1>5. PICK k \in Task : \A l \in Task : r \in RowsOf(l) <=> l = k
  BY <1>1, RangesPartition
<1> QED
  BY <1>4, <1>5

\* When the export returns without an error, every row is in exactly one shard file,
\* for every table whose keys leave room for the arithmetic on them, unless the
\* last Flush of a file has failed.
THEOREM EveryRowOnceHolds == Spec => []EveryRowOnce
  BY InvEveryRow, InductiveInvariant, PTL

-----------------------------------------------------------------------------
(* The sink.  The staging table belongs to one import as long as no other  *)
(* import overlaps with it: what it has read so far is in that table and   *)
(* in its batch, in order, and the target is as it was when it began.      *)

\* Induction, with a set in place of a predicate.
LEMMA Induct ==
  ASSUME NEW S, 0 \in S, \A n \in Nat : n \in S => n + 1 \in S
  PROVE  Nat \subseteq S
<1> DEFINE T == Nat \ S
<1> SUFFICES ASSUME T # {} PROVE FALSE
  OBVIOUS
<1>1. T \subseteq Nat
  OBVIOUS
<1>2. PICK x \in T : \A y \in T : x <= y
  <2> HIDE DEF T
  <2> QED
    BY <1>1, LeastElement
<1>3. x # 0 /\ x \in Nat
  OBVIOUS
<1>4. x - 1 \in Nat /\ x - 1 < x /\ (x - 1) + 1 = x
  BY <1>3
<1>5. x - 1 \in S
  <2>1. ~(x <= x - 1)
    BY <1>3
  <2> QED
    BY <1>2, <1>4, <2>1
<1> QED
  BY <1>3, <1>4, <1>5

\* The rows of the first n lines of ls, from those of fewer lines in g.
RowsStep(g, ls, n) == IF n = 0 THEN <<>> ELSE IF ls[n] = Bad THEN g[n - 1] ELSE Append(g[n - 1], ls[n])

\* RowsUpTo is the function its recursive definition describes.
LEMMA RowsExist ==
  ASSUME NEW ls, Len(ls) \in Nat
  PROVE  RowsUpTo(ls) = [n \in 0..Len(ls) |-> RowsStep(RowsUpTo(ls), ls, n)]
<1> DEFINE Good(m) == \E g : \A n \in 0..m : g[n] = RowsStep(g, ls, n)
           S == {m \in Nat : Good(m)}
<1>1. 0 \in S
  <2> DEFINE g == [n \in 0..0 |-> <<>>]
  <2>1. \A n \in 0..0 : g[n] = RowsStep(g, ls, n)
    BY DEF RowsStep
  <2> HIDE DEF g
  <2>2. Good(0)
    BY <2>1
  <2> QED
    BY <2>2
<1>2. ASSUME NEW m \in Nat, m \in S PROVE m + 1 \in S
  <2>1. PICK g : \A n \in 0..m : g[n] = RowsStep(g, ls, n)
    BY <1>2
  <2> DEFINE h == [n \in 0..(m + 1) |-> IF n <= m THEN g[n] ELSE RowsStep(g, ls, n)]
  <2>2. ASSUME NEW n \in 0..(m + 1) PROVE h[n] = RowsStep(h, ls, n)
    <3>1. n # 0 => n - 1 \in 0..(m + 1) /\ h[n - 1] = g[n - 1]
      OBVIOUS
    <3>2. RowsStep(h, ls, n) = RowsStep(g, ls, n)
      BY <3>1 DEF RowsStep
    <3>3. n <= m => g[n] = RowsStep(g, ls, n)
      BY <2>1
    <3> QED
      BY <3>2, <3>3
  <2> HIDE DEF h
  <2>3. Good(m + 1)
    BY <2>2
  <2> QED
    BY <2>3
<1>3. Good(Len(ls))
  <2> HIDE DEF Good
  <2>1. Nat \subseteq S
    BY <1>1, <1>2, Induct
  <2> QED
    BY <2>1
<1>4. PICK g : \A n \in 0..Len(ls) : g[n] = RowsStep(g, ls, n)
  BY <1>3
<1> DEFINE f == [n \in 0..Len(ls) |-> g[n]]
<1>5. f = [n \in 0..Len(ls) |-> RowsStep(f, ls, n)]
  <2>1. ASSUME NEW n \in 0..Len(ls) PROVE g[n] = RowsStep(f, ls, n)
    BY <1>4 DEF RowsStep
  <2> QED
    BY <2>1
<1> HIDE DEF f
<1> QED
  BY <1>5 DEF RowsUpTo, RowsStep

\* Up to the n-th line there is a row more than before it, unless the line is bad.
LEMMA RowsProperties ==
  ASSUME NEW i \in Import, lines[i] \in Seq(Row \cup {Bad})
  PROVE  /\ Len(lines[i]) \in Nat
         /\ RowsUpTo(lines[i])[0] = <<>>
         /\ \A n \in 0..(Len(lines[i]) - 1) :
              RowsUpTo(lines[i])[n + 1] =
                IF lines[i][n + 1] = Bad THEN RowsUpTo(lines[i])[n]
                ELSE Append(RowsUpTo(lines[i])[n], lines[i][n + 1])
         /\ \A n \in 1..Len(lines[i]) : lines[i][n] # Bad => lines[i][n] \in Row
<1> DEFINE ls == lines[i]
<1>2. Len(ls) \in Nat /\ \A n \in 1..Len(ls) : ls[n] \in Row \cup {Bad}
  OBVIOUS
<1> HIDE DEF ls
<1>3. RowsUpTo(ls) = [n \in 0..Len(ls) |-> RowsStep(RowsUpTo(ls), ls, n)]
  BY <1>2, RowsExist
<1>4. ASSUME NEW n \in 0..Len(ls) PROVE RowsUpTo(ls)[n] = RowsStep(RowsUpTo(ls), ls, n)
  BY <1>3
<1>5. RowsUpTo(ls)[0] = <<>>
  BY <1>2, <1>4 DEF RowsStep
<1>6. ASSUME NEW n \in 0..(Len(ls) - 1)
      PROVE  RowsUpTo(ls)[n + 1] = IF ls[n + 1] = Bad THEN RowsUpTo(ls)[n]
                                   ELSE Append(RowsUpTo(ls)[n], ls[n + 1])
  <2>1. n + 1 \in 0..Len(ls) /\ n + 1 # 0 /\ (n + 1) - 1 = n
    BY <1>2
  <2>2. RowsUpTo(ls)[n + 1] = RowsStep(RowsUpTo(ls), ls, n + 1)
    BY <1>4, <2>1
  <2> QED
    BY <2>1, <2>2 DEF RowsStep
<1> QED
  BY <1>2, <1>5, <1>6 DEF ls

\* The types the argument needs.
Typed ==
  /\ \A i \in Import : lines[i] \in Seq(Row \cup {Bad})
  /\ replace \in BOOLEAN
  /\ stage \in Seq(Row) /\ staged \in BOOLEAN
  /\ batch \in [Import -> Seq(Row)]
  /\ pos \in [Import -> Nat] /\ \A i \in Import : pos[i] <= Len(lines[i])
  /\ stmt \in [Import -> Steps]
  /\ DOMAIN before = Import
  /\ overlapped \subseteq Import /\ mixed \in BOOLEAN

\* Two imports that are under way at once overlap, and then imports are mixed.
Overlaps ==
  /\ \A i, j \in Import : i # j /\ UnderWay(i) /\ UnderWay(j) => i \in overlapped /\ j \in overlapped
  /\ ~mixed => overlapped = {}

\* Batches and tables are sequences of rows, and so are their concatenations.
LEMMA SequencesOfRows == <<>> \in Seq(Row) /\ \A s, t \in Seq(Row) : s \o t \in Seq(Row)
<1> HIDE DEF Row
<1> QED
  OBVIOUS

\* A row at the end of a batch is at the end of the staging table and the batch.
LEMMA AppendLast ==
  ASSUME NEW T, NEW s \in Seq(T), NEW t \in Seq(T), NEW e \in T
  PROVE  s \o Append(t, e) = Append(s \o t, e)
  OBVIOUS

\* What the target keeps of what was there before import i.
Kept(i) == IF replace THEN [k \in {} |-> 0] ELSE before[i]

\* What import i finds in the tables as long as it does not overlap.
Working(i) ==
  /\ stmt[i] \in {"create", "dropStage", "createStage", "load", "truncate"} => target = before[i]
  /\ stmt[i] = "createStage" => stage = <<>> /\ ~staged
  /\ stmt[i] \in {"create", "dropStage", "createStage"} => batch[i] = <<>> /\ pos[i] = 0
  /\ stmt[i] \in {"load", "truncate", "upsert", "dropEnd"} => staged
  /\ stmt[i] = "load" => stage \o batch[i] = RowsUpTo(lines[i])[pos[i]]
  /\ stmt[i] \in {"truncate", "upsert"} => stage = Rows(i)
  /\ stmt[i] = "truncate" => replace
  /\ stmt[i] = "upsert" => target = Kept(i)
  /\ stmt[i] = "dropEnd" => target = Overwrite(Kept(i), Totals(Rows(i)))

WorkingAlone == \A i \in Import : UnderWay(i) /\ i \notin overlapped => Working(i)

\* The inductive invariant of the sink.
SinkInv == Typed /\ Overlaps /\ WorkingAlone /\ NoPartialSums

\* Before the first import nothing overlaps and the target is the old one.
LEMMA InitSink == ImportInit => SinkInv
<1> SUFFICES ASSUME ImportInit PROVE SinkInv
  OBVIOUS
<1>0. \A i \in Import : lines[i] \in Seq(Row \cup {Bad})
  BY InputsAssumption DEF ImportInit
<1>1. Typed
  <2>1. \A i \in Import : Len(lines[i]) \in Nat
    BY <1>0, RowsProperties
  <2>2. stage \in Seq(Row) /\ batch \in [Import -> Seq(Row)]
    BY SequencesOfRows DEF ImportInit
  <2>3. pos \in [Import -> Nat] /\ \A i \in Import : pos[i] <= Len(lines[i])
    BY <2>1 DEF ImportInit
  <2> QED
    BY <1>0, <2>2, <2>3 DEF ImportInit, Typed, Steps
<1>2. Overlaps
  BY DEF ImportInit, Overlaps, UnderWay
<1>3. WorkingAlone
  BY DEF ImportInit, WorkingAlone, UnderWay
<1>4. NoPartialSums
  BY DEF ImportInit, NoPartialSums
<1> QED
  BY <1>1, <1>2, <1>3, <1>4 DEF SinkInv

\* The types are kept.
LEMMA TypedStep == ASSUME Typed, [ImportNext]_importVars PROVE Typed'
<1> USE DEF Typed
<1>0. <<>> \in Seq(Row) /\ \A s, t \in Seq(Row) : s \o t \in Seq(Row)
  BY SequencesOfRows
<1>1. CASE UNCHANGED importVars
  BY <1>1 DEF importVars, localVars, history
<1>2. ASSUME NEW i \in Import, ImportStep(i) PROVE Typed'
  <2>0. /\ Len(lines[i]) \in Nat
        /\ \A n \in 1..Len(lines[i]) : lines[i][n] # Bad => lines[i][n] \in Row
    BY RowsProperties
  <2>1. CASE Begin(i)
    <3>1. overlapped' \subseteq Import /\ mixed' \in BOOLEAN
      BY <2>1 DEF Begin
    <3> QED
      BY <1>0, <2>0, <2>1, <3>1 DEF Begin, Steps
  <2>2. CASE CreateTarget(i)
    BY <2>2 DEF CreateTarget, Statement, Steps, history
  <2>3. CASE DropOldStage(i)
    BY <1>0, <2>3 DEF DropOldStage, Statement, Steps, history
  <2>4. CASE CreateStage(i)
    BY <2>4 DEF CreateStage, Statement, Steps, history
  <2>5. CASE ReadLine(i)
    <3> DEFINE line == lines[i][pos[i] + 1]
               b == IF line = Bad THEN batch[i] ELSE Append(batch[i], line)
               full == Len(b) >= BatchSize
    <3>1. b \in Seq(Row)
      <4>1. pos[i] + 1 \in 1..Len(lines[i])
        BY <2>0, <2>5 DEF ReadLine
      <4> QED
        BY <2>0, <4>1
    <3>2. /\ batch' = [batch EXCEPT ![i] = IF full THEN <<>> ELSE b]
          /\ Insert(i, IF full THEN b ELSE <<>>, "load")
          /\ UNCHANGED <<lines, replace, old, target, staged, history>>
          /\ pos' = [pos EXCEPT ![i] = @ + 1] /\ pos[i] < Len(lines[i])
      BY <2>5 DEF ReadLine
    <3> HIDE DEF b, full
    <3>3. stage' \in Seq(Row) /\ stmt' \in [Import -> Steps]
      BY <1>0, <3>1, <3>2 DEF Insert, Statement, Steps
    <3>4. batch' \in [Import -> Seq(Row)]
      BY <1>0, <3>1, <3>2
    <3>5. pos' \in [Import -> Nat] /\ \A j \in Import : pos'[j] <= Len(lines'[j])
      BY <2>0, <3>2
    <3> QED
      BY <3>2, <3>3, <3>4, <3>5 DEF history
  <2>6. CASE LastFlush(i)
    <3>1. stage' \in Seq(Row) /\ stmt' \in [Import -> Steps]
      <4>1. Insert(i, batch[i], IF replace THEN "truncate" ELSE "upsert") /\ batch[i] \in Seq(Row)
        BY <2>6 DEF LastFlush
      <4>2. stage' \in Seq(Row)
        BY <1>0, <4>1 DEF Insert
      <4>3. PICK to \in Steps : stmt' = [stmt EXCEPT ![i] = to]
        BY <4>1 DEF Insert, Statement, Steps
      <4> QED
        BY <4>2, <4>3
    <3>2. batch' \in [Import -> Seq(Row)]
      BY <1>0, <2>6 DEF LastFlush
    <3> QED
      BY <2>6, <3>1, <3>2 DEF LastFlush, history
  <2>7. CASE Truncate(i)
    BY <2>7 DEF Truncate, Statement, Steps, history
  <2>8. CASE Upsert(i)
    BY <2>8 DEF Upsert, Statement, Steps, history
  <2>9. CASE DropStage(i)
    <3>1. pos' \in [Import -> Nat] /\ \A j \in Import : pos'[j] <= Len(lines'[j])
      BY <2>0, <2>9 DEF DropStage
    <3>2. stmt' \in [Import -> Steps]
      BY <2>9 DEF DropStage, Statement, Steps
    <3> QED
      BY <1>0, <2>9, <3>1, <3>2 DEF DropStage
  <2>10. CASE Fail(i)
    BY <1>0, <2>0, <2>10 DEF Fail, Steps
  <2> QED
    BY <1>2, <2>1, <2>2, <2>3, <2>4, <2>5, <2>6, <2>7, <2>8, <2>9, <2>10 DEF ImportStep
<1> QED
  BY <1>1, <1>2 DEF ImportNext

\* An import that begins beside others makes all of them overlap; the others' marks
\* stay until they begin anew.
LEMMA OverlapsStep == ASSUME Typed, Overlaps, [ImportNext]_importVars PROVE Overlaps'
<1> USE DEF Overlaps, UnderWay
<1>1. CASE UNCHANGED importVars
  BY <1>1 DEF importVars, localVars, history
<1>2. ASSUME NEW i \in Import, ImportStep(i) PROVE Overlaps'
  <2>1. CASE Begin(i)
    <3> DEFINE others == {j \in Import \ {i} : UnderWay(j)}
    <3>1. /\ overlapped' = IF others = {} THEN overlapped \ {i} ELSE overlapped \cup others \cup {i}
          /\ mixed' = (mixed \/ others # {})
          /\ stmt' = [stmt EXCEPT ![i] = "create"]
      BY <2>1 DEF Begin
    <3>2. \A j \in Import : j # i => stmt'[j] = stmt[j]
      BY <3>1 DEF Typed
    <3>3. ASSUME NEW j \in Import, NEW k \in Import, j # k, UnderWay(j)', UnderWay(k)'
          PROVE  j \in overlapped' /\ k \in overlapped'
      <4>1. CASE j = i \/ k = i
        BY <3>1, <3>2, <3>3, <4>1
      <4>2. CASE j # i /\ k # i
        BY <3>1, <3>2, <3>3, <4>2
      <4> QED
        BY <4>1, <4>2
    <3>4. ~mixed' => overlapped' = {}
      BY <3>1
    <3> QED
      BY <3>3, <3>4
  <2>2. CASE ~Begin(i)
    <3>1. UNCHANGED <<overlapped, mixed>> /\ UnderWay(i) /\ \A j \in Import : j # i => stmt'[j] = stmt[j]
      BY <1>2, <2>2 DEF ImportStep, CreateTarget, DropOldStage, CreateStage,
         ReadLine, Insert, LastFlush, Truncate, Upsert, DropStage,
         Fail, Statement, history, Typed
    <3> QED
      BY <3>1
  <2> QED
    BY <2>1, <2>2
<1> QED
  BY <1>1, <1>2 DEF ImportNext

\* A step of an import that does not overlap leaves the tables as its next statement
\* expects them.
LEMMA WorkingStep == ASSUME SinkInv, NEW i \in Import, ImportStep(i), UnderWay(i)', i \notin overlapped'
                     PROVE  Working(i)'
<1>0. Typed /\ Overlaps /\ WorkingAlone
  BY DEF SinkInv
<1>1. /\ Len(lines[i]) \in Nat /\ RowsUpTo(lines[i])[0] = <<>>
      /\ stage \in Seq(Row) /\ batch[i] \in Seq(Row) /\ pos[i] \in Nat /\ pos[i] <= Len(lines[i])
  BY <1>0, RowsProperties DEF Typed
<1>2. CASE Begin(i)
  <2>1. stmt'[i] = "create" /\ target' = target /\ before'[i] = target /\ batch'[i] = <<>> /\ pos'[i] = 0
    BY <1>0, <1>2 DEF Begin, Typed
  <2> QED
    BY <2>1 DEF Working
<1>3. CASE ~Begin(i)
  <2>1. /\ UNCHANGED <<overlapped, mixed, lines, replace>> /\ UnderWay(i) /\ Working(i)
    BY <1>0, <1>3 DEF ImportStep, CreateTarget, DropOldStage, CreateStage,
       ReadLine, LastFlush, Truncate, Upsert, DropStage, Fail,
       Statement, UnderWay, history, Typed, WorkingAlone, Insert
  <2>2. Kept(i)' = IF replace THEN [k \in {} |-> 0] ELSE before'[i]
    BY <2>1 DEF Kept
  <2>3. Rows(i)' = Rows(i)
    BY <2>1 DEF Rows
  <2>4. CASE CreateTarget(i)
    <3>1. stmt'[i] = "dropStage" /\ stmt[i] = "create" /\ UNCHANGED <<target, before, batch, pos>>
      BY <1>0, <2>4 DEF CreateTarget, Statement, history, Typed
    <3> QED
      BY <2>1, <3>1 DEF Working
  <2>5. CASE DropOldStage(i)
    <3>1. /\ stmt'[i] = "createStage" /\ stmt[i] = "dropStage" /\ UNCHANGED <<target, before, batch, pos>>
          /\ stage' = <<>> /\ ~staged'
      BY <1>0, <2>5 DEF DropOldStage, Statement, history, Typed
    <3> QED
      BY <2>1, <3>1 DEF Working
  <2>6. CASE CreateStage(i)
    <3>1. /\ stmt'[i] = "load" /\ stmt[i] = "createStage" /\ UNCHANGED <<target, before, batch, pos, stage>>
          /\ staged'
      BY <1>0, <2>1, <2>6 DEF CreateStage, Statement, history, Typed, Working
    <3>2. target = before[i] /\ stage = <<>> /\ batch[i] = <<>> /\ pos[i] = 0
      BY <2>1, <3>1 DEF Working
    <3>3. stage' \o batch'[i] = RowsUpTo(lines'[i])[pos'[i]]
      <4>1. stage' \o batch'[i] = <<>> /\ pos'[i] = 0 /\ lines' = lines
        BY <2>1, <3>1, <3>2
      <4> QED
        BY <1>1, <4>1
    <3> QED
      BY <3>1, <3>2, <3>3 DEF Working
  <2>7. CASE ReadLine(i)
    <3> DEFINE line == lines[i][pos[i] + 1]
               b == IF line = Bad THEN batch[i] ELSE Append(batch[i], line)
               full == Len(b) >= BatchSize
               out == IF full THEN b ELSE <<>>
    <3>1. /\ batch' = [batch EXCEPT ![i] = IF full THEN <<>> ELSE b]
          /\ Insert(i, out, "load")
          /\ UNCHANGED <<target, staged, before>>
          /\ pos' = [pos EXCEPT ![i] = @ + 1] /\ pos[i] < Len(lines[i])
      BY <2>7 DEF ReadLine, history
    <3>2. pos[i] \in 0..(Len(lines[i]) - 1) /\ pos[i] + 1 \in 1..Len(lines[i])
      BY <1>1, <3>1
    <3>3. line # Bad => line \in Row
      BY <1>0, <3>2, RowsProperties DEF Typed
    <3>4. RowsUpTo(lines[i])[pos[i] + 1] =
            IF line = Bad THEN RowsUpTo(lines[i])[pos[i]]
            ELSE Append(RowsUpTo(lines[i])[pos[i]], line)
      BY <1>0, <3>2, RowsProperties DEF Typed
    <3>5. stmt[i] = "load"
      BY <3>1 DEF Insert, Statement
    <3>6. /\ staged /\ target = before[i]
          /\ stage \o batch[i] = RowsUpTo(lines[i])[pos[i]]
      BY <2>1, <3>5 DEF Working
    <3>7. b \in Seq(Row) /\ stage \o b = RowsUpTo(lines[i])[pos[i] + 1]
      <4> HIDE DEF Row
      <4>1. CASE line = Bad
        BY <1>1, <3>4, <3>6, <4>1
      <4>2. CASE line # Bad
        <5>1. line \in Row
          BY <3>3, <4>2
        <5> HIDE DEF line
        <5>2. stage \o Append(batch[i], line) = Append(stage \o batch[i], line)
          <6> DEFINE t == batch[i]
          <6>1. t \in Seq(Row) /\ stage \in Seq(Row)
            BY <1>1
          <6> HIDE DEF t
          <6>2. stage \o Append(t, line) = Append(stage \o t, line)
            BY <5>1, <6>1, AppendLast
          <6> QED
            BY <6>2 DEF t
        <5> QED
          <6>1. b = Append(batch[i], line)
            BY <4>2
          <6> HIDE DEF b
          <6>2. b \in Seq(Row)
            BY <1>1, <5>1, <6>1
          <6> QED
            BY <3>4, <3>6, <4>2, <5>2, <6>1, <6>2
      <4> QED
        BY <4>1, <4>2
    <3> HIDE DEF b
    <3>8. stmt'[i] = "load" /\ stage' = stage \o out
      BY <1>0, <3>1, <3>6 DEF Insert, Statement, Typed
    <3>9. stage' \o batch'[i] = stage \o b
      <4>1. CASE full
        <5>1. batch'[i] = <<>> /\ stage' = stage \o b
          BY <1>0, <3>1, <3>8, <4>1 DEF Typed
        <5>2. stage \o b \in Seq(Row)
          BY <1>1, <3>7, SequencesOfRows
        <5>3. (stage \o b) \o <<>> = stage \o b
          <6> HIDE DEF Row
          <6> QED
            BY <5>2
        <5> QED
          BY <5>1, <5>3
      <4>2. CASE ~full
        <5>1. batch'[i] = b /\ stage' = stage \o <<>>
          BY <1>0, <3>1, <3>8, <4>2 DEF Typed
        <5>2. stage \o <<>> = stage
          <6> HIDE DEF Row
          <6> QED
            BY <1>1
        <5> QED
          BY <5>1, <5>2
      <4> QED
        BY <4>1, <4>2
    <3>10. pos'[i] = pos[i] + 1
      BY <1>0, <3>1 DEF Typed
    <3>11. stage' \o batch'[i] = RowsUpTo(lines'[i])[pos'[i]]
      BY <2>1, <3>7, <3>9, <3>10
    <3>12. target' = before'[i] /\ staged'
      BY <3>1, <3>6
    <3> QED
      BY <3>8, <3>11, <3>12 DEF Working
  <2>8. CASE LastFlush(i)
    <3>1. /\ pos[i] = Len(lines[i]) /\ Insert(i, batch[i], IF replace THEN "truncate" ELSE "upsert")
          /\ UNCHANGED <<target, staged, before>>
      BY <2>8 DEF LastFlush, history
    <3>2. stmt[i] = "load"
      BY <3>1 DEF Insert, Statement
    <3>3. /\ staged /\ target = before[i]
          /\ stage \o batch[i] = RowsUpTo(lines[i])[pos[i]]
      BY <2>1, <3>2 DEF Working
    <3>4. stage' = Rows(i) /\ stmt'[i] = IF replace THEN "truncate" ELSE "upsert"
      BY <1>0, <3>1, <3>3 DEF Insert, Statement, Rows, Typed
    <3>5. stage' = Rows(i)' /\ staged' /\ target' = before'[i]
      BY <2>3, <3>1, <3>3, <3>4
    <3> QED
      BY <2>1, <2>2, <3>4, <3>5 DEF Working
  <2>9. CASE Truncate(i)
    <3>1. /\ stmt[i] = "truncate" /\ stmt'[i] = "upsert" /\ target' = [k \in {} |-> 0]
          /\ UNCHANGED <<stage, staged>>
      BY <1>0, <2>9 DEF Truncate, Statement, Typed
    <3>2. staged' /\ replace /\ stage' = Rows(i)'
      BY <2>1, <2>3, <3>1 DEF Working
    <3> QED
      BY <2>2, <3>1, <3>2 DEF Working
  <2>10. CASE Upsert(i)
    <3>1. stmt[i] = "upsert"
      BY <2>10 DEF Upsert, Statement
    <3>2. staged /\ stage = Rows(i) /\ target = Kept(i)
      BY <2>1, <3>1 DEF Working
    <3>3. /\ stmt'[i] = "dropEnd" /\ staged' /\ before' = before
          /\ target' = Overwrite(Kept(i), Totals(Rows(i)))
      BY <1>0, <2>10, <3>2 DEF Upsert, Statement, history, Typed
    <3>4. target' = Overwrite(Kept(i), Totals(Rows(i)))'
      <4>1. Kept(i)' = Kept(i)
        BY <2>1, <2>2, <3>3 DEF Kept
      <4> QED
        BY <2>3, <3>3, <4>1
    <3> QED
      BY <3>3, <3>4 DEF Working
  <2>11. CASE DropStage(i) \/ Fail(i)
    <3>1. ~UnderWay(i)'
      BY <1>0, <2>11 DEF DropStage, Fail, Statement, UnderWay, Typed
    <3> QED
      BY <3>1
  <2> QED
    BY <1>3, <2>4, <2>5, <2>6, <2>7, <2>8, <2>9, <2>10, <2>11 DEF ImportStep
<1> QED
  BY <1>2, <1>3

\* As long as it does not overlap, an import finds the tables as it left them.
LEMMA WorkingAloneStep == ASSUME SinkInv, [ImportNext]_importVars PROVE WorkingAlone'
<1>0. Typed /\ Overlaps /\ WorkingAlone
  BY DEF SinkInv
<1>1. CASE UNCHANGED importVars
  <2> SUFFICES ASSUME NEW i \in Import, UnderWay(i)', i \notin overlapped' PROVE Working(i)'
    BY DEF WorkingAlone
  <2>1. /\ UNCHANGED <<lines, replace, target, stage, staged, batch, pos, stmt>>
        /\ UNCHANGED <<before, overlapped>>
    BY <1>1 DEF importVars, localVars, history
  <2>2. Working(i)
    BY <1>0, <2>1 DEF WorkingAlone, UnderWay
  <2>3. Rows(i)' = Rows(i) /\ Kept(i)' = Kept(i)
    BY <2>1 DEF Rows, Kept
  <2>4. Overwrite(Kept(i), Totals(Rows(i)))' = Overwrite(Kept(i), Totals(Rows(i)))
    BY <2>3
  <2> QED
    BY <2>1, <2>2, <2>3, <2>4 DEF Working
<1>2. ASSUME NEW i \in Import, ImportStep(i),
             NEW j \in Import, UnderWay(j)', j \notin overlapped'
      PROVE  Working(j)'
  <2>1. CASE i = j
    BY <1>2, <2>1, WorkingStep
  <2>2. CASE i # j
    <3>0. [ImportNext]_importVars
      BY <1>2 DEF ImportNext
    <3>1. Overlaps'
      BY <1>0, <3>0, OverlapsStep
    <3>2. UnderWay(j)
      BY <1>0, <1>2, <2>2 DEF ImportStep, Begin, CreateTarget, DropOldStage,
         CreateStage, ReadLine, LastFlush, Truncate, Upsert,
         DropStage, Fail, Statement, UnderWay, Insert, Typed
    <3>3. CASE Begin(i)
      BY <1>0, <1>2, <2>2, <3>2, <3>3 DEF Begin, UnderWay
    <3>4. CASE ~Begin(i)
      <4>1. UnderWay(i) /\ overlapped' = overlapped
        BY <1>2, <3>4 DEF ImportStep, CreateTarget, DropOldStage,
           CreateStage, ReadLine, Insert, LastFlush, Truncate,
           Upsert, DropStage, Fail, Statement, UnderWay, history
      <4> QED
        BY <1>0, <1>2, <2>2, <3>2, <4>1 DEF Overlaps
    <3> QED
      BY <3>3, <3>4
  <2> QED
    BY <2>1, <2>2
<1> QED
  BY <1>1, <1>2 DEF ImportNext, WorkingAlone

\* Only an upsert brings values to the target, and it brings totals.
LEMMA NoPartialSumsStep == ASSUME SinkInv, [ImportNext]_importVars PROVE NoPartialSums'
<1>0. Typed /\ Overlaps /\ WorkingAlone /\ NoPartialSums
  BY DEF SinkInv
<1> SUFFICES ASSUME ~mixed', replace', NEW k \in DOMAIN target'
             PROVE  \/ k \in DOMAIN old' /\ target'[k] = old'[k]
                    \/ \E i \in Import : /\ k \in DOMAIN Totals(Rows(i))'
                                         /\ target'[k] = Totals(Rows(i))'[k]
  BY DEF NoPartialSums
<1>1. ~mixed /\ UNCHANGED <<lines, replace, old>>
  <2>1. CASE UNCHANGED importVars
    BY <2>1 DEF importVars, history
  <2>2. ASSUME NEW i \in Import, ImportStep(i) PROVE ~mixed /\ UNCHANGED <<lines, replace, old>>
    <3>1. CASE Begin(i)
      BY <1>0, <3>1 DEF Begin, Typed
    <3>2. CASE ~Begin(i)
      <4> USE <2>2, <3>2 DEF ImportStep, CreateTarget, DropOldStage, CreateStage,
           ReadLine, LastFlush, Truncate, Upsert, DropStage, Fail, history
      <4>1. mixed' = mixed
        OBVIOUS
      <4>2. UNCHANGED <<lines, old>>
        OBVIOUS
      <4>3. UNCHANGED replace
        OBVIOUS
      <4> QED
        BY ONLY <4>1, <4>2, <4>3, ~mixed'
    <3> QED
      BY <3>1, <3>2
  <2> QED
    BY <2>1, <2>2 DEF ImportNext
<1>2. \A i \in Import : Rows(i)' = Rows(i)
  BY <1>1 DEF Rows
<1>3. CASE k \in DOMAIN target /\ target'[k] = target[k]
  <2>1. \/ k \in DOMAIN old /\ target[k] = old[k]
        \/ \E i \in Import : k \in DOMAIN Totals(Rows(i)) /\ target[k] = Totals(Rows(i))[k]
    BY <1>0, <1>1, <1>3 DEF NoPartialSums
  <2>2. ASSUME NEW i \in Import PROVE Totals(Rows(i))' = Totals(Rows(i))
    BY <1>2
  <2> QED
    BY <1>1, <1>3, <2>1, <2>2
<1>4. CASE ~(k \in DOMAIN target /\ target'[k] = target[k])
  <2>1. target' # target
    BY <1>4
  <2>2. PICK i \in Import : Truncate(i) \/ Upsert(i)
    BY <2>1 DEF ImportNext, ImportStep, Begin, CreateTarget, DropOldStage,
       CreateStage, ReadLine, LastFlush, DropStage, Fail, importVars
  <2>3. Upsert(i)
    BY <2>2 DEF Truncate
  <2>4. Working(i) /\ stmt[i] = "upsert"
    BY <1>0, <1>1, <2>3 DEF Upsert, Statement, UnderWay, Overlaps, WorkingAlone
  <2>5. target' = Overwrite(target, Totals(Rows(i)))
    BY <2>3, <2>4 DEF Working, Upsert
  <2>6. k \in DOMAIN Totals(Rows(i)) /\ target'[k] = Totals(Rows(i))[k]
    BY <1>4, <2>5 DEF Overwrite
  <2>7. Totals(Rows(i))' = Totals(Rows(i))
    BY <1>2
  <2> QED
    BY <2>6, <2>7
<1> QED
  BY <1>3, <1>4

\* ImportReduceOutputs: an import that overlaps with no other always works on its
\* own rows, and on the target as it was when it began.
THEOREM SinkInvariant == ImportSpec => []SinkInv
<1>1. SinkInv /\ [ImportNext]_importVars => SinkInv'
  BY TypedStep, OverlapsStep, WorkingAloneStep, NoPartialSumsStep DEF SinkInv
<1> QED
  BY InitSink, <1>1, PTL DEF ImportSpec

\* With Replace and as long as imports do not overlap, a value in the target is an
\* old one or the complete total of a key over the outputs of some import, however
\* many imports have failed or died at whichever statement.
THEOREM NoPartialSumsHolds == ImportSpec => []NoPartialSums
<1>1. SinkInv => NoPartialSums
  BY DEF SinkInv
<1> QED
  BY <1>1, SinkInvariant, PTL

\* An import that succeeds and overlaps with no other leaves, with Replace, exactly the
\* totals of its own outputs in the target, and without it adds no key but those of its
\* outputs and changes no other: the batches and the staging table of earlier
\* attempts add nothing to them.
THEOREM RerunsIdempotentHolds == ImportSpec => RerunsIdempotent
<1> DEFINE Left(i) == IF replace THEN target' = Totals(Rows(i))
                      ELSE /\ DOMAIN target' = DOMAIN before[i] \cup DOMAIN Totals(Rows(i))
                           /\ \A k \in DOMAIN before[i] \ DOMAIN Totals(Rows(i)) : target'[k] = before[i][k]
<1>1. ASSUME SinkInv, [ImportNext]_importVars, NEW i \in Import,
             stmt[i] # "done", stmt'[i] = "done", i \notin overlapped
      PROVE  Left(i)
  <2>0. Typed /\ WorkingAlone
    BY <1>1 DEF SinkInv
  <2>1. DropStage(i)
    <3>1. PICK j \in Import : ImportStep(j)
      BY <1>1 DEF ImportNext, importVars, localVars
    <3> QED
      BY <2>0, <1>1, <3>1 DEF ImportStep, Begin, CreateTarget, DropOldStage,
         CreateStage, ReadLine, LastFlush, Truncate, Upsert,
         DropStage, Fail, Statement, Insert, Typed
  <2>2. stmt[i] = "dropEnd" /\ target' = target
    BY <2>1 DEF DropStage, Statement
  <2>3. Working(i)
    BY <1>1, <2>0, <2>2 DEF WorkingAlone, UnderWay
  <2> DEFINE sums == Totals(Rows(i))
  <2>4. target' = Overwrite(Kept(i), sums)
    BY <2>2, <2>3 DEF Working
  <2>5. sums = [k \in DOMAIN sums |-> sums[k]]
    BY DEF Totals
  <2> HIDE DEF sums
  <2>6. CASE replace
    BY <2>4, <2>5, <2>6 DEF Kept, Overwrite, sums
  <2>7. CASE ~replace
    BY <2>4, <2>7 DEF Kept, Overwrite, sums
  <2> QED
    BY <2>6, <2>7
<1>2. SinkInv /\ [ImportNext]_importVars =>
        [\A i \in Import :
           stmt[i] # "done" /\ stmt'[i] = "done" /\ i \notin overlapped => Left(i)]_importVars
  BY <1>1
<1> QED
  BY <1>2, SinkInvariant, PTL DEF ImportSpec, RerunsIdempotent
=============================================================================
