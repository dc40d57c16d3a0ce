---------------------------- MODULE MasterProofs ----------------------------
(***************************************************************************)
(* Proofs about the master before and around the phases: DistributeWork,   *)
(* for any number of workers and any files, and Registry, for any number   *)
(* of workers, ports and repeated registrations.                           *)
(*                                                                         *)
(* distributeWork never indexes lineOffsets out of range and hands out all *)
(* lines of every file, each byte to one task.  The loop invariant is      *)
(* FromInv: from is a function of the task number i; SlicesInv says which  *)
(* slices have been made.                                                  *)
(*                                                                         *)
(* The table of workers only grows, so an answer stays right once it was   *)
(* made (Owned).  When the phases run the table has an entry for every     *)
(* worker, so if no worker is in it twice nothing was added since (the     *)
(* pigeonhole argument of FullTable), the array is still the one the       *)
(* phases point into, and their tasks have entries, workers and files of   *)
(* their own (Phases).                                                     *)
(***************************************************************************)
EXTENDS DistributeWork, Registry, SequenceTheorems, FiniteSetTheorems,
        WellFoundedInduction, TLAPS

-----------------------------------------------------------------------------
(* distributeWork.                                                         *)

\* Division with remainder.
LEMMA Division ==
  ASSUME NEW n \in Nat
  PROVE  /\ n \div NumWorkers \in Nat
         /\ n % NumWorkers \in 0..(NumWorkers - 1)
         /\ n = NumWorkers * (n \div NumWorkers) + (n % NumWorkers)
  BY NumWorkersAssumption

\* The step from one slice to the next, without the product.
LEMMA RemainderStep ==
  ASSUME NEW t \in Nat, NEW r \in Nat, NEW q \in Nat, NEW a \in Nat, NEW b \in Nat,
         b = a + q
  PROVE  b + (IF t + 1 < r THEN t + 1 ELSE r) =
           (a + (IF t < r THEN t ELSE r)) + (q + (IF t < r THEN 1 ELSE 0))
<1>1. CASE t < r
  BY <1>1
<1>2. CASE ~(t < r)
  BY <1>2
<1> QED
  BY <1>1, <1>2

\* Slices are consecutive: each starts where the one before it ends.
LEMMA StartNext ==
  ASSUME NEW file \in Seq(Nat), NEW t \in TaskId
  PROVE  Start(file, t + 1) = Start(file, t) + WorkLoad(file, t)
<1> DEFINE q == TotalLine(file) \div NumWorkers
           r == TotalLine(file) % NumWorkers
<1>1. q \in Nat /\ r \in Nat /\ t \in Nat
  <2>1. TotalLine(file) \in Nat
    BY LenProperties DEF TotalLine
  <2>2. q \in Nat /\ r \in 0..(NumWorkers - 1)
    BY <2>1, Division
  <2>3. t \in Nat /\ NumWorkers \in Nat
    BY NumWorkersAssumption DEF TaskId
  <2> QED
    BY <2>2, <2>3
<1>2. /\ Start(file, t) = t * q + (IF t < r THEN t ELSE r)
      /\ Start(file, t + 1) = (t + 1) * q + (IF t + 1 < r THEN t + 1 ELSE r)
      /\ WorkLoad(file, t) = q + (IF t < r THEN 1 ELSE 0)
  BY DEF Start, WorkLoad
<1> HIDE DEF q, r
<1>3. t * q \in Nat /\ (t + 1) * q \in Nat /\ (t + 1) * q = t * q + q
  BY <1>1
<1> QED
  BY <1>1, <1>2, <1>3, RemainderStep

\* The slices lie within the file, and the last one ends at its end.
LEMMA StartBounds ==
  ASSUME NEW file \in Seq(Nat)
  PROVE  /\ Start(file, 0) = 0
         /\ Start(file, NumWorkers) = TotalLine(file)
         /\ \A t \in 0..NumWorkers : Start(file, t) \in 0..TotalLine(file)
<1> DEFINE n == TotalLine(file)
           q == n \div NumWorkers
           r == n % NumWorkers
<1>1. n \in Nat
  BY LenProperties DEF TotalLine
<1>2. q \in Nat /\ r \in 0..(NumWorkers - 1) /\ n = NumWorkers * q + r
  BY <1>1, Division
<1>3. \A t \in 0..NumWorkers : Start(file, t) = t * q + (IF t < r THEN t ELSE r)
  BY DEF Start
<1> HIDE DEF n, q, r
<1>4. Start(file, 0) = 0
  BY <1>2, <1>3, NumWorkersAssumption
<1>5. Start(file, NumWorkers) = n
  <2>1. Start(file, NumWorkers) = NumWorkers * q + (IF NumWorkers < r THEN NumWorkers ELSE r)
    BY <1>3, NumWorkersAssumption
  <2>2. ~(NumWorkers < r)
    BY <1>2, NumWorkersAssumption
  <2> QED
    BY <1>2, <2>1, <2>2
<1>6. ASSUME NEW t \in 0..NumWorkers
      PROVE  Start(file, t) \in 0..n
  <2> DEFINE a == t * q
             c == NumWorkers * q
             d == IF t < r THEN t ELSE r
  <2>1. a \in Nat /\ c \in Nat
    BY <1>2, NumWorkersAssumption
  <2>2. (NumWorkers - t) * q \in Nat /\ c = a + (NumWorkers - t) * q
    BY <1>2, NumWorkersAssumption
  <2>3. a <= c
    <3> DEFINE e == (NumWorkers - t) * q
    <3>1. e \in Nat /\ c = a + e
      BY <2>2
    <3> HIDE DEF a, c, e
    <3> QED BY <2>1, <3>1
  <2>4. Start(file, t) = a + d /\ n = c + r
    BY <1>2, <1>3
  <2>5. d \in Nat /\ d <= r /\ r \in Nat
    BY <1>2, NumWorkersAssumption
  <2> HIDE DEF a, c, d
  <2> QED
    BY <1>1, <2>1, <2>3, <2>4, <2>5
<1> QED
  BY <1>4, <1>5, <1>6 DEF n

\* The loop invariant holds when distributeWork starts.
LEMMA InitLoopInv == WorkInit => LoopInv
<1> SUFFICES ASSUME WorkInit PROVE LoopInv
  OBVIOUS
<1>1. /\ files \in InputSets /\ fileNo \in 1..(Len(files) + 1)
      /\ i \in 0..NumWorkers
  BY NumWorkersAssumption, InputSetsAssumption DEF WorkInit
<1>2. ASSUME fileNo <= Len(files) PROVE from = Start(files[fileNo], i)
  <2>1. files[fileNo] \in Seq(Nat)
    BY <1>1, <1>2, InputSetsAssumption
  <2> QED
    BY <2>1, StartBounds DEF WorkInit
<1> QED
  BY <1>1, <1>2 DEF LoopInv, FromInv

\* What the loop invariant says of the file the loops are at.
LEMMA AtFile ==
  ASSUME LoopInv, fileNo <= Len(files)
  PROVE  files[fileNo] \in Seq(Nat) /\ from = Start(files[fileNo], i)
<1>1. files \in Seq(Seq(Nat)) /\ fileNo \in 1..Len(files)
  BY InputSetsAssumption DEF LoopInv
<1> QED
  BY <1>1 DEF LoopInv, FromInv

\* Every step of the two loops keeps the loop invariant.
LEMMA NextLoopInv == LoopInv /\ [WorkNext]_workVars => LoopInv'
<1> SUFFICES ASSUME LoopInv, [WorkNext]_workVars PROVE LoopInv'
  OBVIOUS
<1>0. /\ files \in InputSets /\ Len(files) \in Nat /\ fileNo \in 1..(Len(files) + 1)
      /\ i \in 0..NumWorkers
      /\ \A k \in 1..Len(files) : files[k] \in Seq(Nat)
  BY InputSetsAssumption DEF LoopInv
<1>1. CASE AddSlice
  <2> DEFINE file == files[fileNo]
  <2>1. file \in Seq(Nat) /\ from = Start(file, i) /\ i \in TaskId
    BY <1>0, <1>1, AtFile, NumWorkersAssumption DEF AddSlice, TaskId
  <2>2. /\ from' = from + WorkLoad(file, i)
        /\ i' = i + 1 /\ files' = files /\ fileNo' = fileNo
    BY <1>1 DEF AddSlice
  <2>3. from' = Start(file, i')
    <3> HIDE DEF file
    <3> QED BY <2>1, <2>2, StartNext
  <2>4. i' \in 0..NumWorkers
    BY <2>1, <2>2, NumWorkersAssumption DEF TaskId
  <2> QED
    BY <1>0, <2>2, <2>3, <2>4 DEF LoopInv, FromInv
<1>2. CASE NextFile
  <2>1. files' = files /\ fileNo' = fileNo + 1 /\ fileNo <= Len(files) /\ from' = 0 /\ i' = 0
    BY <1>2 DEF NextFile
  <2>2. ASSUME fileNo' <= Len(files) PROVE from' = Start(files[fileNo'], i')
    <3>1. files[fileNo'] \in Seq(Nat)
      BY <1>0, <2>1, <2>2
    <3> QED
      BY <2>1, <3>1, StartBounds
  <2> QED
    BY <1>0, <2>1, <2>2, NumWorkersAssumption DEF LoopInv, FromInv
<1>3. CASE UNCHANGED workVars \/ WorkDone
  BY <1>3 DEF workVars, WorkDone, LoopInv, FromInv
<1> QED
  BY <1>1, <1>2, <1>3 DEF WorkNext

\* For every number of workers and all input files, from is where task i's
\* slice starts: the loop invariant of distributeWork.
THEOREM LoopInvariant == WorkSpec => []LoopInv
<1>1. WorkInit => LoopInv
  BY InitLoopInv
<1>2. LoopInv /\ [WorkNext]_workVars => LoopInv'
  BY NextLoopInv
<1> QED
  BY <1>1, <1>2, PTL DEF WorkSpec

\* distributeWork never indexes lineOffsets past its end.
THEOREM InBoundsHolds == WorkSpec => []InBounds
<1>1. LoopInv => InBounds
  <2> SUFFICES ASSUME LoopInv, fileNo <= Len(files), i < NumWorkers
               PROVE  from + WorkLoad(files[fileNo], i) <= TotalLine(files[fileNo])
    BY DEF InBounds
  <2> DEFINE file == files[fileNo]
  <2>1. file \in Seq(Nat) /\ from = Start(file, i)
    BY AtFile
  <2>2. i \in TaskId /\ i + 1 \in 0..NumWorkers
    BY NumWorkersAssumption DEF LoopInv, TaskId
  <2>3. TotalLine(file) \in Nat
    BY <2>1, LenProperties DEF TotalLine
  <2> HIDE DEF file
  <2>4. from + WorkLoad(file, i) = Start(file, i + 1)
    BY <2>1, <2>2, StartNext
  <2>5. Start(file, i + 1) <= TotalLine(file)
    BY <2>1, <2>2, <2>3, StartBounds
  <2> QED
    BY <2>4, <2>5 DEF file
<1> QED
  BY <1>1, LoopInvariant, PTL

\* When the inner loop ends, every line of the file has been handed out.
THEOREM FileExhaustedHolds == WorkSpec => []FileExhausted
<1>1. LoopInv => FileExhausted
  BY AtFile, StartBounds DEF FileExhausted
<1> QED
  BY <1>1, LoopInvariant, PTL

-----------------------------------------------------------------------------
(* Induction over the natural numbers, with a set in place of a predicate. *)

\* What a well-founded order above < says of its minimal elements.
LEMMA MinimalIsLeast ==
  ASSUME NEW R, NEW T, T \subseteq Nat,
         NEW x \in T, \A y \in T : ~ (<<y, x>> \in R),
         \A m \in Nat, n \in Nat : m < n => <<m, n>> \in R
  PROVE  \A y \in T : x <= y
<1> SUFFICES ASSUME NEW y \in T PROVE x <= y
  OBVIOUS
<1>1. x \in Nat /\ y \in Nat
  OBVIOUS
<1>2. ~(y < x)
  BY <1>1
<1> QED
  BY <1>1, <1>2

\* A set of natural numbers has a least element.
LEMMA LeastElement ==
  ASSUME NEW T, T \subseteq Nat, T # {}
  PROVE  \E x \in T : \A y \in T : x <= y
<1> DEFINE R == OpToRel(<, Nat)
<1>1. IsWellFoundedOn(R, Nat)
  BY NatLessThanWellFounded
<1>2. \A m \in Nat, n \in Nat : m < n => <<m, n>> \in R
  BY DEF OpToRel
<1> HIDE DEF R
<1>3. PICK x \in T : \A y \in T : ~ (<<y, x>> \in R)
  BY <1>1, WFMin
<1>4. \A y \in T : x <= y
  BY <1>2, <1>3, MinimalIsLeast
<1> QED
  BY <1>4

\* A set that has 0 and the successor of each of its numbers has all of them.
LEMMA SetInduction ==
  ASSUME NEW S, 0 \in S, \A n \in Nat : n \in S => n + 1 \in S
  PROVE  \A n \in Nat : n \in S
<1> DEFINE T == Nat \ S
<1> SUFFICES ASSUME T # {} PROVE FALSE
  OBVIOUS
<1> HIDE DEF T
<1>1. PICK x \in T : \A y \in T : x <= y
  BY LeastElement DEF T
<1> QED
  BY <1>1 DEF T

-----------------------------------------------------------------------------
(* The line offsets.                                                       *)

\* The equation fileLineOffsets solves, for the first n lines of a file.
Offsets(f, n, file) ==
  /\ DOMAIN f = 0..n
  /\ f[0] = 0
  /\ \A k \in 1..n : f[k] = f[k - 1] + file[k]

\* It has a solution for any number of lines.
LEMMA OffsetsExist ==
  ASSUME NEW file \in Seq(Nat)
  PROVE  \A n \in Nat : n <= Len(file) => \E f \in [0..n -> Nat] : Offsets(f, n, file)
<1> DEFINE S == {n \in Nat : n <= Len(file) => \E f \in [0..n -> Nat] : Offsets(f, n, file)}
<1>0. Len(file) \in Nat /\ \A k \in 1..Len(file) : file[k] \in Nat
  BY LenProperties
<1>1. 0 \in S
  <2> DEFINE f == [k \in 0..0 |-> 0]
  <2>1. f \in [0..0 -> Nat] /\ Offsets(f, 0, file)
    BY DEF Offsets
  <2> QED
    BY <2>1
<1>2. ASSUME NEW n \in Nat, n \in S PROVE n + 1 \in S
  <2> SUFFICES ASSUME n + 1 <= Len(file)
               PROVE  \E g \in [0..(n + 1) -> Nat] : Offsets(g, n + 1, file)
    OBVIOUS
  <2>0. n <= Len(file)
    BY <1>0
  <2>1. PICK f \in [0..n -> Nat] : Offsets(f, n, file)
    BY <1>2, <2>0, Zenon
  <2> DEFINE g == [k \in 0..(n + 1) |-> IF k = n + 1 THEN f[n] + file[n + 1] ELSE f[k]]
  <2>2. g \in [0..(n + 1) -> Nat]
    BY <1>0, <2>1
  <2>3. Offsets(g, n + 1, file)
    <3>1. DOMAIN g = 0..(n + 1) /\ g[0] = 0
      BY <2>1 DEF Offsets
    <3>2. ASSUME NEW k \in 1..(n + 1) PROVE g[k] = g[k - 1] + file[k]
      <4>1. CASE k = n + 1
        BY <4>1
      <4>2. CASE k # n + 1
        <5>1. k \in 1..n /\ k - 1 \in 0..(n + 1) /\ k - 1 # n + 1 /\ k \in 0..(n + 1)
          BY <4>2
        <5>2. f[k] = f[k - 1] + file[k]
          BY <2>1, <5>1 DEF Offsets
        <5> QED
          BY <4>2, <5>1, <5>2
      <4> QED
        BY <4>1, <4>2
    <3> QED
      BY <3>1, <3>2 DEF Offsets
  <2> QED
    BY <2>2, <2>3
<1> HIDE DEF S
<1>3. \A n \in Nat : n \in S
  BY <1>1, <1>2, SetInduction
<1> QED
  BY <1>3 DEF S

\* fileLineOffsets is well defined: it satisfies its recursive equation.
LEMMA LineOffsetsDef ==
  ASSUME NEW file \in Seq(Nat)
  PROVE  /\ DOMAIN LineOffsets(file) = 0..Len(file)
         /\ LineOffsets(file)[0] = 0
         /\ \A k \in 1..Len(file) : LineOffsets(file)[k] = LineOffsets(file)[k - 1] + file[k]
<1> DEFINE Eq(at) == at = [k \in 0..Len(file) |-> IF k = 0 THEN 0 ELSE at[k - 1] + file[k]]
<1>0. Len(file) \in Nat
  BY LenProperties
<1>1. PICK f \in [0..Len(file) -> Nat] : Offsets(f, Len(file), file)
  BY <1>0, OffsetsExist
<1>2. Eq(f)
  BY <1>0, <1>1 DEF Offsets
<1>3. LineOffsets(file) = CHOOSE at : Eq(at)
  BY DEF LineOffsets
<1>4. Eq(LineOffsets(file))
  <2> HIDE DEF Eq
  <2> QED BY <1>2, <1>3
<1> DEFINE at == LineOffsets(file)
<1> HIDE DEF at
<1>5. at = [k \in 0..Len(file) |-> IF k = 0 THEN 0 ELSE at[k - 1] + file[k]]
  BY <1>4 DEF at
<1>6. DOMAIN at = 0..Len(file) /\ at[0] = 0
  BY ONLY <1>0, <1>5
<1>7. \A k \in 1..Len(file) : at[k] = at[k - 1] + file[k]
  <2> SUFFICES ASSUME NEW k \in 1..Len(file) PROVE at[k] = at[k - 1] + file[k]
    OBVIOUS
  <2>1. k \in 0..Len(file) /\ k # 0
    BY <1>0
  <2> QED
    BY <1>5, <2>1
<1> QED
  BY <1>6, <1>7 DEF at

\* Offsets are natural numbers, and a later line starts no earlier.
LEMMA LineOffsetsGrow ==
  ASSUME NEW file \in Seq(Nat)
  PROVE  /\ \A k \in 0..Len(file) : LineOffsets(file)[k] \in Nat
         /\ \A j, k \in 0..Len(file) : j <= k => LineOffsets(file)[j] <= LineOffsets(file)[k]
<1> DEFINE at == LineOffsets(file)
<1>0. /\ Len(file) \in Nat
      /\ \A k \in 1..Len(file) : file[k] \in Nat
  BY LenProperties
<1>a. /\ at[0] = 0
      /\ \A k \in 1..Len(file) : at[k] = at[k - 1] + file[k]
  BY LineOffsetsDef
<1> DEFINE S == {k \in Nat : k <= Len(file) =>
                   \A j \in 0..k : at[j] \in Nat /\ at[j] <= at[k]}
<1> HIDE DEF at
<1>1. 0 \in S
  BY <1>0, <1>a
<1>2. ASSUME NEW k \in Nat, k \in S PROVE k + 1 \in S
  <2> SUFFICES ASSUME k + 1 <= Len(file)
               PROVE  \A j \in 0..(k + 1) : at[j] \in Nat /\ at[j] <= at[k + 1]
    OBVIOUS
  <2>0. k <= Len(file) /\ k + 1 \in 1..Len(file) /\ (k + 1) - 1 = k
    BY <1>0
  <2>1. \A j \in 0..k : at[j] \in Nat /\ at[j] <= at[k]
    BY <1>2, <2>0, Zenon
  <2>2. at[k + 1] = at[k] + file[k + 1] /\ file[k + 1] \in Nat
    BY <1>0, <1>a, <2>0
  <2>3. at[k + 1] \in Nat /\ at[k] <= at[k + 1]
    BY <2>1, <2>2
  <2>4. ASSUME NEW j \in 0..(k + 1) PROVE at[j] \in Nat /\ at[j] <= at[k + 1]
    <3>1. CASE j = k + 1
      BY <2>3, <3>1
    <3>2. CASE j # k + 1
      <4>1. j \in 0..k
        BY <3>2
      <4>2. at[j] \in Nat /\ at[j] <= at[k] /\ at[k] \in Nat
        BY <2>1, <4>1
      <4> QED
        BY <2>3, <4>2
    <3> QED
      BY <3>1, <3>2
  <2> QED
    BY <2>4
<1> HIDE DEF S
<1>4. \A k \in Nat : k \in S
  BY <1>1, <1>2, SetInduction
<1> QED
  BY <1>0, <1>4 DEF S, at

\* Later slices of a file start no earlier.
LEMMA StartGrows ==
  ASSUME NEW file \in Seq(Nat), NEW t \in 0..NumWorkers, NEW u \in 0..NumWorkers, t <= u
  PROVE  Start(file, t) <= Start(file, u)
<1> DEFINE q == TotalLine(file) \div NumWorkers
           r == TotalLine(file) % NumWorkers
           a == t * q
           b == u * q
           e == (u - t) * q
<1>1. TotalLine(file) \in Nat
  BY LenProperties DEF TotalLine
<1>2. q \in Nat /\ r \in 0..(NumWorkers - 1)
  BY <1>1, Division
<1>3. /\ Start(file, t) = a + (IF t < r THEN t ELSE r)
      /\ Start(file, u) = b + (IF u < r THEN u ELSE r)
  BY DEF Start
<1> HIDE DEF q, r
<1>4. a \in Nat /\ b \in Nat /\ e \in Nat /\ b = a + e
  BY <1>2, NumWorkersAssumption
<1> HIDE DEF a, b, e
<1> QED
  BY <1>2, <1>3, <1>4, NumWorkersAssumption

-----------------------------------------------------------------------------
(* The slices.                                                             *)

\* The slice of a file that a task should get.
SliceOf(file, t) ==
  [from |-> LineOffsets(file)[Start(file, t)], to |-> LineOffsets(file)[Start(file, t + 1)]]

\* Each task has its slice of every file before fileNo, and of that file too once
\* the inner loop is past the task.
SlicesInv ==
  /\ mapTasks \in [TaskId -> Seq([from : Nat, to : Nat])]
  /\ \A t \in TaskId :
       /\ Len(mapTasks[t]) = IF t < i THEN fileNo ELSE fileNo - 1
       /\ t < i => fileNo <= Len(files)
       /\ \A k \in 1..Len(mapTasks[t]) : mapTasks[t][k] = SliceOf(files[k], t)

\* It holds when distributeWork starts.
LEMMA InitSlicesInv == WorkInit => SlicesInv
<1> SUFFICES ASSUME WorkInit PROVE SlicesInv
  OBVIOUS
<1>1. mapTasks = [t \in TaskId |-> <<>>] /\ fileNo = 1 /\ i = 0
  BY DEF WorkInit
<1>2. mapTasks \in [TaskId -> Seq([from : Nat, to : Nat])]
  BY <1>1
<1>3. \A t \in TaskId : Len(mapTasks[t]) = 0 /\ ~(t < i)
  BY <1>1, NumWorkersAssumption DEF TaskId
<1> QED
  BY <1>1, <1>2, <1>3 DEF SlicesInv

\* Every turn of the inner loop adds to one task the slice it should get.
LEMMA AddSliceSlices == LoopInv /\ SlicesInv /\ AddSlice => SlicesInv'
<1> SUFFICES ASSUME LoopInv, SlicesInv, AddSlice PROVE SlicesInv'
  OBVIOUS
<1> DEFINE file == files[fileNo]
           new == [from |-> LineOffsets(file)[from],
                   to |-> LineOffsets(file)[from + WorkLoad(file, i)]]
<1>1. file \in Seq(Nat) /\ from = Start(file, i) /\ i \in TaskId /\ fileNo <= Len(files)
  BY AtFile, NumWorkersAssumption DEF AddSlice, TaskId, LoopInv
<1>2. /\ mapTasks' = [mapTasks EXCEPT ![i] = Append(@, new)]
      /\ i' = i + 1 /\ files' = files /\ fileNo' = fileNo
  BY DEF AddSlice
<1>3. fileNo \in Nat \ {0} /\ i \in Nat /\ TaskId \subseteq Nat
  BY NumWorkersAssumption, InputSetsAssumption DEF LoopInv, TaskId
<1>4. new = SliceOf(file, i)
  <2> HIDE DEF file
  <2> QED BY <1>1, StartNext DEF SliceOf
<1>5. new \in [from : Nat, to : Nat]
  <2>1. /\ Start(file, i) \in 0..Len(file)
        /\ Start(file, i + 1) \in 0..Len(file)
    <3> HIDE DEF file
    <3> QED BY <1>1, StartBounds, NumWorkersAssumption DEF TaskId, TotalLine
  <2>2. \A k \in 0..Len(file) : LineOffsets(file)[k] \in Nat
    <3> HIDE DEF file
    <3> QED BY <1>1, LineOffsetsGrow
  <2> QED
    BY <1>4, <2>1, <2>2 DEF SliceOf
<1> HIDE DEF new
<1>6. mapTasks' \in [TaskId -> Seq([from : Nat, to : Nat])]
  BY <1>1, <1>2, <1>5 DEF SlicesInv
<1>7. ASSUME NEW t \in TaskId
      PROVE  /\ Len(mapTasks'[t]) = IF t < i' THEN fileNo' ELSE fileNo' - 1
             /\ t < i' => fileNo' <= Len(files')
             /\ \A k \in 1..Len(mapTasks'[t]) : mapTasks'[t][k] = SliceOf(files'[k], t)
  <2>0. /\ mapTasks[t] \in Seq([from : Nat, to : Nat])
        /\ Len(mapTasks[t]) = IF t < i THEN fileNo ELSE fileNo - 1
        /\ \A k \in 1..Len(mapTasks[t]) : mapTasks[t][k] = SliceOf(files[k], t)
    BY DEF SlicesInv
  <2>1. CASE t = i
    <3>1. mapTasks'[t] = Append(mapTasks[t], new) /\ Len(mapTasks[t]) = fileNo - 1
      BY <1>1, <1>2, <1>3, <2>0, <2>1 DEF SlicesInv
    <3>2. /\ Len(mapTasks'[t]) = fileNo
          /\ mapTasks'[t][fileNo] = new
          /\ \A k \in 1..(fileNo - 1) : mapTasks'[t][k] = mapTasks[t][k]
      BY <1>3, <1>5, <2>0, <3>1, AppendProperties
    <3>3. ASSUME NEW k \in 1..fileNo PROVE mapTasks'[t][k] = SliceOf(files[k], t)
      <4>1. CASE k = fileNo
        BY <1>4, <2>1, <3>2, <4>1
      <4>2. CASE k # fileNo
        BY <1>3, <2>0, <3>1, <3>2, <4>2
      <4> QED
        BY <4>1, <4>2
    <3> QED
      BY <1>1, <1>2, <1>3, <2>1, <3>2, <3>3
  <2>2. CASE t # i
    <3>1. mapTasks'[t] = mapTasks[t] /\ (t < i' <=> t < i)
      BY <1>2, <1>3, <2>2 DEF SlicesInv
    <3> QED
      BY <1>1, <1>2, <2>0, <3>1
  <2> QED
    BY <2>1, <2>2
<1> QED
  BY <1>6, <1>7 DEF SlicesInv

\* When the inner loop is over all tasks have their slice of the file.
LEMMA NextFileSlices == LoopInv /\ SlicesInv /\ NextFile => SlicesInv'
<1> SUFFICES ASSUME LoopInv, SlicesInv, NextFile PROVE SlicesInv'
  OBVIOUS
<1>1. /\ i = NumWorkers /\ fileNo' = fileNo + 1 /\ i' = 0
      /\ UNCHANGED <<files, mapTasks>>
  BY DEF NextFile
<1>2. fileNo \in Nat
  BY DEF LoopInv
<1>3. \A t \in TaskId : t < i /\ ~(t < i')
  BY <1>1, NumWorkersAssumption DEF TaskId
<1> QED
  BY <1>1, <1>2, <1>3 DEF SlicesInv

\* Throughout distributeWork, what has been handed out is what should have been.
LEMMA SlicesInvariant == WorkSpec => []SlicesInv
<1>1. LoopInv /\ SlicesInv /\ [WorkNext]_workVars => SlicesInv'
  <2> SUFFICES ASSUME LoopInv, SlicesInv, [WorkNext]_workVars PROVE SlicesInv'
    OBVIOUS
  <2>1. CASE UNCHANGED workVars \/ WorkDone
    BY <2>1 DEF workVars, WorkDone, SlicesInv
  <2> QED
    BY <2>1, AddSliceSlices, NextFileSlices DEF WorkNext
<1> QED
  BY <1>1, InitSlicesInv, LoopInvariant, PTL DEF WorkSpec

-----------------------------------------------------------------------------
\* Every byte of a file is in the slice of exactly one task.
LEMMA ByteInOneSlice ==
  ASSUME NEW file \in Seq(Nat), NEW b \in 0..(LineOffsets(file)[Len(file)] - 1)
  PROVE  \E t \in TaskId : \A u \in TaskId :
           b \in PartialContent(SliceOf(file, u), file) <=> u = t
<1> DEFINE at == LineOffsets(file)
           end(t) == at[Start(file, t)]
           T == {t \in Nat : t < NumWorkers /\ b < end(t + 1)}
<1>0. NumWorkers \in Nat /\ NumWorkers >= 1 /\ Len(file) \in Nat /\ TaskId = {t \in Nat : t < NumWorkers}
  BY NumWorkersAssumption, LenProperties DEF TaskId
<1>1. /\ at[0] = 0 /\ at[Len(file)] \in Nat
      /\ \A j, k \in 0..Len(file) : j <= k => at[j] <= at[k]
  BY <1>0, LineOffsetsDef, LineOffsetsGrow
<1>2. /\ \A t \in 0..NumWorkers : end(t) \in Nat /\ end(t) <= at[Len(file)]
      /\ end(0) = 0
      /\ end(NumWorkers) = at[Len(file)]
      /\ \A t, u \in 0..NumWorkers : t <= u => end(t) <= end(u)
  <2>1. \A t \in 0..NumWorkers : Start(file, t) \in 0..Len(file)
    BY StartBounds DEF TotalLine
  <2>2. Start(file, 0) = 0 /\ Start(file, NumWorkers) = Len(file)
    BY StartBounds DEF TotalLine
  <2>3. \A t, u \in 0..NumWorkers : t <= u => Start(file, t) <= Start(file, u)
    BY StartGrows
  <2>4. \A k \in 0..Len(file) : at[k] \in Nat /\ at[k] <= at[Len(file)]
    BY <1>0, LineOffsetsGrow
  <2> HIDE DEF at
  <2> QED
    BY <1>1, <2>1, <2>2, <2>3, <2>4
<1>3. b \in Nat /\ b < at[Len(file)]
  BY <1>1
<1>4. ASSUME NEW u \in TaskId
      PROVE  b \in PartialContent(SliceOf(file, u), file) <=> end(u) <= b /\ b < end(u + 1)
  <2>1. SliceOf(file, u).from = end(u) /\ SliceOf(file, u).to = end(u + 1)
    BY DEF SliceOf
  <2>2. end(u) \in Nat /\ end(u + 1) \in Nat
    BY <1>0, <1>2
  <2>3. b \in PartialContent(SliceOf(file, u), file) <=>
          b \in end(u)..(end(u + 1) - 1) /\ b < at[Len(file)]
    BY <2>1 DEF PartialContent
  <2> HIDE DEF end, at
  <2> QED
    BY <1>3, <2>2, <2>3
<1> HIDE DEF end, at
<1>5. NumWorkers - 1 \in T
  BY <1>0, <1>2, <1>3
<1>6. PICK t \in T : \A u \in T : t <= u
  <2> HIDE DEF T
  <2>1. T \subseteq Nat /\ T # {}
    BY <1>5 DEF T
  <2> QED
    BY <2>1, LeastElement
<1>7. t \in TaskId /\ b < end(t + 1)
  BY <1>0, <1>6
<1>8. end(t) <= b
  <2>1. CASE t = 0
    BY <1>2, <1>3, <2>1
  <2>2. CASE t # 0
    <3>1. t - 1 \in Nat /\ t - 1 < NumWorkers /\ ~(t <= t - 1) /\ (t - 1) + 1 = t
      BY <1>0, <1>6, <2>2
    <3>2. t - 1 \notin T
      BY <1>6, <3>1
    <3>3. ~(b < end(t))
      BY <3>1, <3>2
    <3> QED
      BY <1>0, <1>2, <1>3, <1>7, <3>3
  <2> QED
    BY <2>1, <2>2
<1>9. ASSUME NEW u \in TaskId, end(u) <= b, b < end(u + 1) PROVE u = t
  <2>1. /\ t \in Nat /\ u \in Nat
        /\ {t, u, t + 1, u + 1} \subseteq 0..NumWorkers
    BY <1>0, <1>7
  <2>2. /\ end(t) \in Nat /\ end(u) \in Nat /\ end(t + 1) \in Nat /\ end(u + 1) \in Nat
        /\ u + 1 <= t => end(u + 1) <= end(t)
        /\ t + 1 <= u => end(t + 1) <= end(u)
    BY <1>2, <2>1
  <2> QED
    BY <1>3, <1>7, <1>8, <1>9, <2>1, <2>2
<1>10. \A u \in TaskId : b \in PartialContent(SliceOf(file, u), file) <=> u = t
  BY <1>4, <1>7, <1>8, <1>9
<1> QED
  BY <1>7, <1>10

\* For every number of workers and all input files, when the work is distributed
\* every byte of every file is read by exactly one map task.
THEOREM EveryByteOnceHolds == WorkSpec => []EveryByteOnce
<1>1. LoopInv /\ SlicesInv => EveryByteOnce
  <2> SUFFICES ASSUME LoopInv, SlicesInv, Finished, NEW k \in DOMAIN files,
                      NEW b \in 0..(LineOffsets(files[k])[Len(files[k])] - 1)
               PROVE  \E t \in TaskId : \A u \in TaskId :
                        b \in PartialContent(mapTasks[u][k], files[k]) <=> u = t
    BY DEF EveryByteOnce
  <2>1. files \in Seq(Seq(Nat)) /\ k \in 1..Len(files) /\ files[k] \in Seq(Nat)
    BY InputSetsAssumption DEF LoopInv
  <2>2. ASSUME NEW u \in TaskId PROVE mapTasks[u][k] = SliceOf(files[k], u)
    <3>1. fileNo = Len(files) + 1
      BY <2>1 DEF LoopInv, Finished
    <3>2. k \in 1..Len(mapTasks[u])
      BY <2>1, <3>1 DEF SlicesInv
    <3> QED
      BY <3>2 DEF SlicesInv
  <2> DEFINE file == files[k]
  <2>3. file \in Seq(Nat) /\ b \in 0..(LineOffsets(file)[Len(file)] - 1)
    BY <2>1
  <2> HIDE DEF file
  <2>4. PICK t \in TaskId : \A u \in TaskId : b \in PartialContent(SliceOf(file, u), file) <=> u = t
    BY <2>3, ByteInOneSlice
  <2>5. ASSUME NEW u \in TaskId PROVE b \in PartialContent(mapTasks[u][k], files[k]) <=> u = t
    BY <2>2, <2>4 DEF file
  <2> QED
    BY <2>5
<1> QED
  BY <1>1, LoopInvariant, SlicesInvariant, PTL

-----------------------------------------------------------------------------
(* Registration and startup.                                               *)

States == {"IDLE", "BUSY"}
Call == Worker \X Nat
Pointer == [gen : Nat, entry : Nat \ {0}, back : BOOLEAN]

\* What the master keeps, and that a phase runs on a table with enough entries.
Types ==
  /\ wpc \in [Worker -> {"listen", "load", "call", "ready", "ended", "noPort", "failed"}]
  /\ calls \in [Worker -> Nat] /\ inflight \subseteq Call
  /\ answers \subseteq [call : Call, id : Nat] /\ id \in [Worker -> Nat]
  /\ table \in Seq(Worker) /\ state \in Seq(States) /\ Len(state) = Len(table)
  /\ gen \in Nat
  /\ growing # <<>> => growing \in Call \X Seq(States) /\ Len(growing[2]) = Len(table)
  /\ mpc \in {"wait", "map", "reduce", "end", "done"}
  /\ scan \in Nat \ {0} /\ (mpc = "wait" => scan = 1 /\ taken = <<>>)
  /\ mpc # "wait" => Len(table) >= NWorker /\ scan <= Len(table)
  /\ pass \in Nat /\ pass <= Len(table) /\ (scan # 1 => scan <= pass)
  /\ taken \in Seq(Pointer) /\ \A k \in DOMAIN taken : taken[k].entry <= Len(table)
  /\ out \in [0..(MaxTable - 1) -> Nat]
  /\ unset \in BOOLEAN

\* An answer, and the ID taken from one, is that of an entry of its worker.
Owned ==
  /\ \A a \in answers : a.id < Len(table) /\ table[a.id + 1] = a.call[1]
  /\ IdsOwned

\* No worker is in the table twice.
Single == \A e, j \in DOMAIN table : table[e] = table[j] => e = j

\* As long as no worker is in the table twice, the tasks of a phase have different
\* entries of the current array, busy until all are taken, and the outputs of the
\* reduce tasks that returned are in the files of their entries.
Phases ==
  Single /\ mpc \in {"map", "reduce"} =>
    /\ Len(taken) <= Need
    /\ \A k \in DOMAIN taken :
         /\ Len(taken) < Need => ~taken[k].back
         /\ taken[k].gen = gen
         /\ ~taken[k].back => state[taken[k].entry] = "BUSY"
    /\ \A j, k \in DOMAIN taken : taken[j].entry = taken[k].entry => j = k
    /\ mpc = "reduce" /\ ~unset =>
         \A k \in DOMAIN taken : taken[k].back => out[taken[k].entry - 1] = k

IInv == Types /\ Owned /\ Phases /\ OutputsKept
-----------------------------------------------------------------------------
(* Types.                                                                  *)

\* Every step of a worker keeps the types.
LEMMA WorkerTypes == ASSUME Types, NEW w \in Worker, WorkerStep(w) PROVE Types'
<1> USE AttemptsAssumption DEF Types, WorkerTo, Send, Call, netVars, tabVars, phaseVars
<1>1. CASE Listen(w)
  BY <1>1 DEF Listen
<1>2. CASE ListenFails(w)
  BY <1>2 DEF ListenFails
<1>3. CASE LoadFails(w)
  BY <1>3 DEF LoadFails
<1>4. CASE Load(w)
  BY <1>4 DEF Load
<1>5. CASE CallFails(w)
  <2>1. wpc' \in [Worker -> {"listen", "load", "call", "ready", "ended", "noPort", "failed"}]
    BY <1>5 DEF CallFails
  <2>2. calls' \in [Worker -> Nat] /\ inflight' \subseteq Call
    BY <1>5 DEF CallFails
  <2>3. UNCHANGED <<answers, id, tabVars, phaseVars>>
    BY <1>5 DEF CallFails
  <2> QED
    BY <2>1, <2>2, <2>3
<1>6. CASE RegisterFails(w)
  BY <1>6 DEF RegisterFails
<1>7. CASE Receive(w)
  BY <1>7 DEF Receive
<1>8. CASE ReceiveEnd(w)
  BY <1>8 DEF ReceiveEnd
<1> QED
  BY <1>1, <1>2, <1>3, <1>4, <1>5, <1>6, <1>7, <1>8 DEF WorkerStep

\* A registration adds an entry to the table; the new array has its state.
LEMMA TableTypes ==
  ASSUME Types, NEW c \in Call, NEW st \in Seq(States), Len(st) = Len(table),
         table' = Append(table, c[1]), state' = Append(st, "IDLE")
  PROVE  /\ table' \in Seq(Worker) /\ state' \in Seq(States)
         /\ Len(table') = Len(table) + 1 /\ Len(state') = Len(table')
<1>1. c[1] \in Worker /\ "IDLE" \in States
  BY DEF Call, States
<1> QED
  BY <1>1 DEF Types

\* The pointers of a phase are to entries of the table.
LEMMA Entries ==
  ASSUME Types, NEW k \in DOMAIN taken
  PROVE  /\ taken[k] \in Pointer /\ taken[k].entry \in Nat \ {0} /\ taken[k].entry <= Len(table)
         /\ taken[k].entry \in DOMAIN state /\ taken[k].entry \in DOMAIN table
<1>1. taken[k] \in Pointer /\ taken[k].entry <= Len(table)
  BY DEF Types
<1>2. taken[k].entry \in Nat \ {0}
  BY <1>1 DEF Pointer
<1> QED
  BY <1>1, <1>2 DEF Types

\* An entry's state is set through a pointer.
LEMMA SetState ==
  ASSUME NEW st \in Seq(States), NEW e \in DOMAIN st, NEW v \in States
  PROVE  /\ [st EXCEPT ![e] = v] \in Seq(States) /\ Len([st EXCEPT ![e] = v]) = Len(st)
         /\ DOMAIN [st EXCEPT ![e] = v] = DOMAIN st
  OBVIOUS

\* Every step of a registration at the master keeps the types.
LEMMA RegisterTypes ==
  ASSUME Types, \/ \E c \in inflight : Register(c) \/ RegisterCopy(c)
                \/ RegisterPublish
  PROVE  Types'
<1>1. ASSUME NEW c \in inflight, Register(c) PROVE Types'
  <2>1. c \in Call /\ state \in Seq(States) /\ Len(state) = Len(table) /\ Len(table) \in Nat
    BY DEF Types
  <2>2. /\ table' \in Seq(Worker) /\ state' \in Seq(States)
        /\ Len(table') = Len(table) + 1 /\ Len(state') = Len(table')
    BY <1>1, <2>1, TableTypes DEF Register
  <2>3. inflight' \subseteq Call /\ answers' \subseteq [call : Call, id : Nat]
    BY <1>1, <2>1 DEF Register, Answer, Types
  <2>4. taken' = taken /\ \A k \in DOMAIN taken : taken[k].entry <= Len(table')
    <3>1. \A k \in DOMAIN taken : taken[k].entry \in Nat /\ taken[k].entry <= Len(table)
      BY Entries
    <3> QED
      BY <1>1, <2>1, <2>2, <3>1 DEF Register, phaseVars
  <2>5. (mpc # "wait" => Len(table') >= NWorker /\ scan <= Len(table')) /\ pass <= Len(table')
    <3>1. /\ scan \in Nat /\ (mpc # "wait" => Len(table) >= NWorker /\ scan <= Len(table))
          /\ pass \in Nat /\ pass <= Len(table)
      BY DEF Types
    <3> QED
      BY <2>1, <2>2, <3>1, NWorkerAssumption
  <2> QED
    BY <1>1, <2>1, <2>2, <2>3, <2>4, <2>5 DEF Register, phaseVars, Types
<1>2. ASSUME NEW c \in inflight, RegisterCopy(c) PROVE Types'
  BY <1>2 DEF RegisterCopy, Types, phaseVars, netVars
<1>3. CASE RegisterPublish
  <2>1. /\ growing[1] \in Call /\ growing[2] \in Seq(States)
        /\ Len(growing[2]) = Len(table) /\ Len(table) \in Nat
    BY <1>3 DEF RegisterPublish, Types
  <2>2. /\ table' \in Seq(Worker) /\ state' \in Seq(States)
        /\ Len(table') = Len(table) + 1 /\ Len(state') = Len(table')
    BY <1>3, <2>1, TableTypes DEF RegisterPublish
  <2>3. inflight' \subseteq Call /\ answers' \subseteq [call : Call, id : Nat]
    BY <1>3, <2>1 DEF RegisterPublish, Answer, Types
  <2>4. taken' = taken /\ \A k \in DOMAIN taken : taken[k].entry <= Len(table')
    <3>1. \A k \in DOMAIN taken : taken[k].entry \in Nat /\ taken[k].entry <= Len(table)
      BY Entries
    <3> QED
      BY <1>3, <2>1, <2>2, <3>1 DEF RegisterPublish, phaseVars
  <2>5. (mpc # "wait" => Len(table') >= NWorker /\ scan <= Len(table')) /\ pass <= Len(table')
    <3>1. /\ scan \in Nat /\ (mpc # "wait" => Len(table) >= NWorker /\ scan <= Len(table))
          /\ pass \in Nat /\ pass <= Len(table)
      BY DEF Types
    <3> QED
      BY <2>1, <2>2, <3>1, NWorkerAssumption
  <2>6. /\ UNCHANGED <<wpc, calls, id, mpc, scan, pass, taken, out, unset>>
        /\ growing' = <<>> /\ gen' \in Nat
    BY <1>3 DEF RegisterPublish, phaseVars, Types
  <2> QED
    BY <2>2, <2>3, <2>4, <2>5, <2>6 DEF Types
<1> QED
  BY <1>1, <1>2, <1>3

\* The pointers of a phase after a task has returned.
LEMMA PointersBack ==
  ASSUME Types, NEW k \in DOMAIN taken, TaskDone(k)
  PROVE  /\ taken' \in Seq(Pointer) /\ DOMAIN taken' = DOMAIN taken /\ Len(taken') = Len(taken)
         /\ taken'[k].back
         /\ \A j \in DOMAIN taken : /\ taken'[j].entry = taken[j].entry /\ taken'[j].gen = taken[j].gen
                                    /\ j # k => taken'[j].back = taken[j].back
<1>1. taken[k] \in Pointer /\ taken \in Seq(Pointer)
  BY DEF Types
<1> DEFINE p == [taken[k] EXCEPT !.back = TRUE]
<1>2. p \in Pointer /\ p.entry = taken[k].entry /\ p.gen = taken[k].gen /\ p.back
  BY <1>1 DEF Pointer
<1>3. taken' = [taken EXCEPT ![k] = p]
  BY DEF TaskDone
<1> HIDE DEF p
<1>4. taken' \in Seq(Pointer) /\ DOMAIN taken' = DOMAIN taken /\ Len(taken') = Len(taken)
  BY <1>1, <1>2, <1>3
<1> QED
  BY <1>1, <1>2, <1>3, <1>4

\* Every other step of the master keeps the types.
LEMMA MasterTypes == ASSUME Types, MasterStep PROVE Types'
<1>0. NWorker \in Nat \ {0}
  BY NWorkerAssumption
<1>1. CASE EnoughWorkers
  BY <1>0, <1>1 DEF EnoughWorkers, Types, netVars, tabVars
<1>2. CASE Take
  <2>1. /\ Len(table) \in Nat \ {0} /\ scan \in 1..Len(table) /\ mpc # "wait"
        /\ state \in Seq(States) /\ taken \in Seq(Pointer)
    <3>1. mpc # "wait"
      BY <1>2 DEF Take
    <3>2. Len(table) >= NWorker /\ scan <= Len(table) /\ scan \in Nat \ {0} /\ table \in Seq(Worker)
      BY <3>1 DEF Types
    <3>3. Len(table) \in Nat
      BY <3>2
    <3>4. Len(table) \in Nat \ {0} /\ scan \in 1..Len(table)
      BY <1>0, <3>2, <3>3
    <3> QED
      BY <3>1, <3>4 DEF Types
  <2>2. /\ scan' \in Nat \ {0} /\ scan' <= Len(table)
        /\ pass' \in Nat /\ pass' <= Len(table) /\ (scan' # 1 => scan' <= pass')
    <3>1. pass' \in Nat /\ scan \in 1..pass' /\ pass' <= Len(table)
      BY <1>2, <2>1 DEF Take, Types
    <3>2. scan' = (scan % pass') + 1
      BY <1>2 DEF Take
    <3>3. scan' = IF scan = pass' THEN 1 ELSE scan + 1
      BY <3>1, <3>2
    <3> QED
      BY <2>1, <3>1, <3>3
  <2>3. state' \in Seq(States) /\ Len(state') = Len(state)
    <3>1. "BUSY" \in States /\ scan \in DOMAIN state
      BY <2>1 DEF States, Types
    <3>2. state' = state \/ state' = [state EXCEPT ![scan] = "BUSY"]
      BY <1>2 DEF Take
    <3>3. /\ [state EXCEPT ![scan] = "BUSY"] \in Seq(States)
          /\ Len([state EXCEPT ![scan] = "BUSY"]) = Len(state)
      BY <2>1, <3>1, SetState
    <3> QED
      BY <2>1, <3>2, <3>3
  <2>4. taken' \in Seq(Pointer) /\ \A k \in DOMAIN taken' : taken'[k].entry <= Len(table)
    <3> DEFINE p == [gen |-> gen, entry |-> scan, back |-> FALSE]
    <3>1. p \in Pointer /\ p.entry = scan
      BY <2>1 DEF Pointer, Types
    <3>2. taken' = Append(taken, p) \/ taken' = taken
      BY <1>2 DEF Take
    <3>3. \A k \in DOMAIN taken : taken[k].entry <= Len(table)
      BY DEF Types
    <3> HIDE DEF p
    <3>4. CASE taken' = Append(taken, p)
      <4>1. /\ taken' \in Seq(Pointer) /\ Len(taken') = Len(taken) + 1 /\ taken'[Len(taken) + 1] = p
            /\ \A k \in DOMAIN taken : taken'[k] = taken[k]
        BY <2>1, <3>1, <3>4
      <4> QED
        BY <2>1, <3>1, <3>3, <4>1
    <3> QED
      BY <2>1, <3>2, <3>3, <3>4
  <2> QED
    BY <1>2, <2>1, <2>2, <2>3, <2>4 DEF Take, Types, netVars
<1>3. ASSUME NEW k \in DOMAIN taken, TaskDone(k) PROVE Types'
  <2>1. /\ taken' \in Seq(Pointer) /\ DOMAIN taken' = DOMAIN taken
        /\ \A j \in DOMAIN taken : taken'[j].entry = taken[j].entry
    BY <1>3, PointersBack
  <2>2. state' \in Seq(States) /\ Len(state') = Len(state)
    <3>1. "IDLE" \in States /\ state \in Seq(States)
      BY DEF States, Types
    <3> QED
      BY <1>3, <3>1, SetState, Entries DEF TaskDone
  <2>3. out' \in [0..(MaxTable - 1) -> Nat]
    <3>1. k \in Nat
      BY DEF Types
    <3> QED
      BY <1>3, <3>1 DEF TaskDone, Types
  <2>4. unset' \in BOOLEAN
    BY <1>3, Zenon DEF TaskDone, Types
  <2>5. /\ wpc' = wpc /\ calls' = calls /\ inflight' = inflight /\ answers' = answers /\ id' = id
        /\ table' = table /\ gen' = gen /\ growing' = growing
        /\ mpc' = mpc /\ mpc # "wait" /\ scan' = scan /\ pass' = pass
    BY <1>3 DEF TaskDone, netVars
  <2>6. \A j \in DOMAIN taken' : taken'[j].entry <= Len(table')
    BY <2>1, <2>5 DEF Types
  <2> QED
    BY <2>1, <2>2, <2>3, <2>4, <2>5, <2>6, SMTT(30) DEF Types
<1>4. CASE NextPhase
  BY <1>0, <1>4 DEF NextPhase, Types, netVars, tabVars
<1>5. CASE EndWorker
  BY <1>5 DEF EndWorker, Types, tabVars
<1>6. CASE Stop
  BY <1>6 DEF Stop, Types, netVars, tabVars
<1> QED
  BY <1>1, <1>2, <1>3, <1>4, <1>5, <1>6 DEF MasterStep

\* Every step keeps the types.
LEMMA NextTypes == Types /\ [Next]_vars => Types'
<1> SUFFICES ASSUME Types, [Next]_vars PROVE Types'
  OBVIOUS
<1>1. CASE UNCHANGED vars
  BY <1>1 DEF vars, netVars, tabVars, phaseVars, Types
<1> QED
  BY <1>1, WorkerTypes, RegisterTypes, MasterTypes DEF Next, Handle, Spin, Terminated

\* The types hold at all times.
LEMMA TypesInvariant == Spec => []Types
<1>1. Init => Types
  <2>1. Init => unset \in BOOLEAN
    BY Zenon DEF Init
  <2> QED
    BY <2>1 DEF Init, Types
<1> QED
  BY <1>1, NextTypes, PTL DEF Spec

-----------------------------------------------------------------------------
(* IDs.                                                                    *)

\* The entries of the table stay what they are, and a new one is the answered call's.
LEMMA TableGrows ==
  ASSUME Types, Next
  PROVE  /\ Len(table) <= Len(table') /\ DOMAIN table = 1..Len(table) /\ Len(table) \in Nat
         /\ DOMAIN table' = 1..Len(table') /\ Len(table') \in Nat
         /\ \A e \in DOMAIN table : table'[e] = table[e]
         /\ \A a \in answers' \ answers : a.id < Len(table') /\ table'[a.id + 1] = a.call[1]
<1>0. table \in Seq(Worker) /\ Len(table) \in Nat /\ DOMAIN table = 1..Len(table)
  BY DEF Types
<1>1. ASSUME NEW c \in Call, table' = Append(table, c[1]), Answer(c, Len(table))
      PROVE  /\ Len(table') = Len(table) + 1 /\ DOMAIN table' = 1..Len(table')
             /\ \A e \in DOMAIN table : table'[e] = table[e]
             /\ \A a \in answers' \ answers : a.id < Len(table') /\ table'[a.id + 1] = a.call[1]
  <2>1. c[1] \in Worker
    BY DEF Call
  <2>2. /\ Len(table') = Len(table) + 1 /\ DOMAIN table' = 1..Len(table')
        /\ \A e \in DOMAIN table : table'[e] = table[e]
        /\ table'[Len(table) + 1] = c[1]
    BY <1>0, <1>1, <2>1
  <2>3. \A a \in answers' \ answers : a = [call |-> c, id |-> Len(table)]
    BY <1>1 DEF Answer
  <2> QED
    BY <1>0, <2>2, <2>3
<1>2. ASSUME NEW c \in inflight, Register(c)
      PROVE  c \in Call /\ table' = Append(table, c[1]) /\ Answer(c, Len(table))
  BY <1>2 DEF Register, Types
<1>3. ASSUME RegisterPublish
      PROVE  growing[1] \in Call /\ table' = Append(table, growing[1][1]) /\ Answer(growing[1], Len(table))
  BY <1>3 DEF RegisterPublish, Types
<1>4. CASE UNCHANGED <<table, answers>>
  BY <1>0, <1>4
<1>5. \/ UNCHANGED <<table, answers>>
      \/ \E c \in inflight : Register(c)
      \/ RegisterPublish
  BY DEF Next, WorkerStep, Listen, ListenFails, LoadFails, Load, CallFails, RegisterFails, Receive,
         ReceiveEnd, Handle, RegisterCopy, MasterStep, EnoughWorkers, Take, TaskDone, NextPhase,
         EndWorker, Stop, Spin, Terminated, vars, netVars, tabVars, phaseVars
<1> QED
  BY <1>0, <1>1, <1>2, <1>3, <1>4, <1>5

\* A worker learns its ID from an answer and keeps it.
LEMMA IdsKept ==
  ASSUME Types, Next, NEW w \in Worker, wpc'[w] \in {"ready", "ended"}
  PROVE  \/ wpc[w] \in {"ready", "ended"} /\ id'[w] = id[w]
         \/ \E a \in answers : a.call[1] = w /\ id'[w] = a.id
<1>1. ASSUME NEW v \in Worker, WorkerStep(v)
      PROVE  \/ wpc[w] \in {"ready", "ended"} /\ id'[w] = id[w]
             \/ \E a \in answers : a.call[1] = w /\ id'[w] = a.id
  <2>1. CASE v = w /\ Receive(v)
    BY <2>1 DEF Receive, Types
  <2>2. CASE v # w /\ Receive(v)
    BY <2>2 DEF Receive, WorkerTo, Types
  <2>3. CASE ~Receive(v)
    BY <1>1, <2>3 DEF WorkerStep, Listen, ListenFails, LoadFails, Load, CallFails, RegisterFails,
                      ReceiveEnd, WorkerTo, netVars, Types
  <2> QED
    BY <2>1, <2>2, <2>3
<1>2. CASE UNCHANGED <<wpc, id>>
  BY <1>2
<1> QED
  BY <1>1, <1>2 DEF Next, Handle, Register, RegisterCopy, RegisterPublish, MasterStep, EnoughWorkers, Take,
         TaskDone, NextPhase, EndWorker, Stop, Spin, Terminated, vars, netVars

\* Every step keeps the answers and the IDs with their entries.
LEMMA NextOwned == Types /\ Owned /\ [Next]_vars => Owned'
<1> SUFFICES ASSUME Types, Owned, [Next]_vars PROVE Owned'
  OBVIOUS
<1>1. CASE UNCHANGED vars
  BY <1>1 DEF vars, netVars, tabVars, Owned, IdsOwned
<1>2. CASE Next
  <2>0. /\ Len(table) <= Len(table') /\ Len(table) \in Nat /\ Len(table') \in Nat
        /\ DOMAIN table = 1..Len(table) /\ DOMAIN table' = 1..Len(table')
        /\ \A e \in DOMAIN table : table'[e] = table[e]
    BY <1>2, TableGrows
  <2>1. ASSUME NEW a \in answers PROVE a.id + 1 \in DOMAIN table' /\ table'[a.id + 1] = a.call[1]
    <3>1. a.id \in Nat /\ a.id < Len(table) /\ table[a.id + 1] = a.call[1]
      BY DEF Types, Owned
    <3> QED
      BY <2>0, <3>1
  <2>2. ASSUME NEW a \in answers' PROVE a.id < Len(table') /\ table'[a.id + 1] = a.call[1]
    <3>1. CASE a \in answers
      BY <2>0, <2>1, <3>1 DEF Types
    <3> QED
      BY <1>2, <3>1, TableGrows
  <2>3. ASSUME NEW w \in Worker, wpc'[w] \in {"ready", "ended"}
        PROVE  id'[w] + 1 \in DOMAIN table' /\ table'[id'[w] + 1] = w
    <3>1. CASE wpc[w] \in {"ready", "ended"} /\ id'[w] = id[w]
      BY <2>0, <3>1 DEF Owned, IdsOwned
    <3>2. CASE \E a \in answers : a.call[1] = w /\ id'[w] = a.id
      BY <2>1, <3>2
    <3> QED
      BY <1>2, <2>3, <3>1, <3>2, IdsKept
  <2> QED
    BY <2>2, <2>3 DEF Owned, IdsOwned
<1> QED
  BY <1>1, <1>2

\* A worker that knows its ID has an entry of its own under it, for any number of
\* workers and of registrations repeated, reordered or handled late.
THEOREM IdsOwnedHolds == Spec => []IdsOwned
<1>1. Init => Owned
  BY DEF Init, Owned, IdsOwned
<1> QED
  BY <1>1, TypesInvariant, NextOwned, PTL DEF Spec, Owned

-----------------------------------------------------------------------------
(* Outputs.                                                                *)

\* A table in which no worker is twice has at most as many entries as there are workers.
LEMMA FullTable ==
  ASSUME NEW t \in Seq(Worker), \A e, j \in DOMAIN t : t[e] = t[j] => e = j
  PROVE  Len(t) <= NWorker
<1> DEFINE n == Len(t)
<1>1. n \in Nat /\ t \in [1..n -> Worker] /\ DOMAIN t = 1..n
  OBVIOUS
<1> HIDE DEF n
<1>2. t \in Injection(1..n, Worker)
  BY <1>1 DEF Injection, IsInjective
<1>3. IsFiniteSet(Worker) /\ Cardinality(Worker) = NWorker
  BY FS_Interval, NWorkerAssumption DEF Worker
<1>4. Cardinality(1..n) = n
  <2>1. 1 \in Int /\ n \in Int
    BY <1>1
  <2>2. Cardinality(1..n) = IF 1 > n THEN 0 ELSE n - 1 + 1
    BY <2>1, FS_Interval
  <2> QED
    BY <1>1, <2>2
<1>5. n <= NWorker
  BY <1>2, <1>3, <1>4, FS_Injection
<1> QED
  BY <1>5 DEF n

\* Once the phases run, an entry added to the table makes a worker be there twice.
LEMMA TableFixed ==
  ASSUME Types, Next, mpc # "wait", Single'
  PROVE  /\ UNCHANGED <<table, gen>> /\ Single
         /\ ~RegisterPublish /\ \A c \in inflight : ~Register(c)
<1>0. Types'
  BY NextTypes
<1>1. Len(table') <= NWorker
  <2>1. table' \in Seq(Worker)
    BY <1>0 DEF Types
  <2>2. \A e, j \in DOMAIN table' : table'[e] = table'[j] => e = j
    BY DEF Single
  <2> QED
    BY <2>1, <2>2, FullTable
<1>2. Len(table) >= NWorker /\ Len(table) \in Nat
  BY DEF Types
<1>3. \A c \in Call : table' # Append(table, c[1])
  <2> SUFFICES ASSUME NEW c \in Call, table' = Append(table, c[1]) PROVE FALSE
    OBVIOUS
  <2>1. c[1] \in Worker /\ table \in Seq(Worker)
    BY DEF Call, Types
  <2>2. Len(table') = Len(table) + 1
    BY <2>1
  <2> QED
    BY <1>1, <1>2, <2>2, NWorkerAssumption
<1>4. \A c \in inflight : ~Register(c)
  BY <1>3 DEF Register, Types
<1>5. ~RegisterPublish
  BY <1>3 DEF RegisterPublish, Types
<1>6. UNCHANGED <<table, gen>>
  BY <1>4, <1>5 DEF Next, WorkerStep, Listen, ListenFails, LoadFails, Load, CallFails, RegisterFails,
         Receive, ReceiveEnd, Handle, RegisterCopy, MasterStep, EnoughWorkers, Take, TaskDone, NextPhase,
         EndWorker, Stop, Spin, Terminated, vars, tabVars
<1> QED
  BY <1>4, <1>5, <1>6 DEF Single

\* availableWorkers takes an entry that no task of the phase has.
LEMMA TakePhases == ASSUME Types, Phases, Single, Single', Take PROVE Phases'
<1>0. /\ mpc \in {"map", "reduce"} /\ mpc' = mpc /\ gen' = gen /\ unset' = unset /\ out' = out
      /\ Len(taken) < Need /\ Need' = Need
      /\ taken \in Seq(Pointer) /\ state \in Seq(States)
  BY DEF Take, Types, Need
<1>1. /\ Len(taken) \in Nat /\ Need \in Nat
      /\ \A k \in DOMAIN taken : /\ ~taken[k].back /\ taken[k].gen = gen
                                 /\ state[taken[k].entry] = "BUSY"
      /\ \A j, k \in DOMAIN taken : taken[j].entry = taken[k].entry => j = k
  BY <1>0, NWorkerAssumption, NReduceAssumption DEF Phases, Need
<1>2. CASE state[scan] = "IDLE"
  <2> DEFINE p == [gen |-> gen, entry |-> scan, back |-> FALSE]
  <2>1. taken' = Append(taken, p) /\ state' = [state EXCEPT ![scan] = "BUSY"]
    BY <1>2 DEF Take
  <2>2. p \in Pointer /\ p.gen = gen /\ p.entry = scan /\ ~p.back
    BY DEF Pointer, Types
  <2>3. scan \in DOMAIN state
    BY <1>0 DEF Types
  <2> HIDE DEF p
  <2>4. /\ Len(taken') = Len(taken) + 1 /\ DOMAIN taken' = 1..(Len(taken) + 1)
        /\ taken'[Len(taken) + 1] = p /\ DOMAIN taken = 1..Len(taken)
        /\ \A k \in DOMAIN taken : taken'[k] = taken[k]
    BY <1>0, <2>1, <2>2
  <2>5. \A k \in DOMAIN taken : taken[k].entry # scan /\ state'[taken[k].entry] = "BUSY"
    BY <1>1, <1>2, <2>1 DEF Types
  <2>6. state'[scan] = "BUSY"
    BY <2>1, <2>3
  <2>7. ASSUME NEW k \in DOMAIN taken'
        PROVE  ~taken'[k].back /\ taken'[k].gen = gen /\ state'[taken'[k].entry] = "BUSY"
    BY <1>1, <2>2, <2>4, <2>5, <2>6
  <2>8. ASSUME NEW j \in DOMAIN taken', NEW k \in DOMAIN taken', taken'[j].entry = taken'[k].entry
        PROVE  j = k
    BY <1>1, <2>2, <2>4, <2>5, <2>8
  <2> QED
    BY <1>0, <1>1, <2>4, <2>7, <2>8 DEF Phases
<1>3. CASE state[scan] # "IDLE"
  BY <1>0, <1>1, <1>3 DEF Take, Phases
<1> QED
  BY <1>2, <1>3

\* As long as no worker is in the table twice, an entry has an mr-out file.
LEMMA InTable ==
  ASSUME Types, Single, NEW e \in DOMAIN table
  PROVE  e - 1 \in 0..(MaxTable - 1)
<1>1. Len(table) <= NWorker
  BY FullTable DEF Types, Single
<1>2. e \in Nat \ {0} /\ e <= Len(table) /\ Len(table) \in Nat
  BY DEF Types
<1>3. NWorker <= NWorker * MaxRegister /\ NWorker * MaxRegister \in Nat
  BY NWorkerAssumption, AttemptsAssumption
<1> QED
  BY <1>1, <1>2, <1>3, NWorkerAssumption DEF MaxTable

\* A task that returns frees its own entry and, in the reduce phase, leaves its output
\* in the file of that entry.
LEMMA TaskDonePhases ==
  ASSUME Types, Owned, Phases, Single, Single', NEW k \in DOMAIN taken, TaskDone(k)
  PROVE  Phases'
<1>0. /\ mpc \in {"map", "reduce"} /\ mpc' = mpc /\ gen' = gen /\ table' = table
      /\ Len(taken) = Need /\ Need' = Need /\ ~taken[k].back
  BY DEF TaskDone, Need
<1>1. /\ \A j \in DOMAIN taken : /\ taken[j].gen = gen
                                 /\ ~taken[j].back => state[taken[j].entry] = "BUSY"
      /\ \A e, j \in DOMAIN taken : taken[e].entry = taken[j].entry => e = j
      /\ mpc = "reduce" /\ ~unset =>
           \A j \in DOMAIN taken : taken[j].back => out[taken[j].entry - 1] = j
  BY <1>0 DEF Phases
<1>2. /\ DOMAIN taken' = DOMAIN taken /\ Len(taken') = Len(taken)
      /\ \A j \in DOMAIN taken : /\ taken'[j].entry = taken[j].entry /\ taken'[j].gen = taken[j].gen
                                 /\ j # k => taken'[j].back = taken[j].back
      /\ taken'[k].back
  BY PointersBack
<1>3. state' = [state EXCEPT ![taken[k].entry] = "IDLE"]
  BY <1>1 DEF TaskDone
<1>4. ASSUME NEW j \in DOMAIN taken', ~taken'[j].back PROVE state'[taken'[j].entry] = "BUSY"
  <2>1. j # k /\ ~taken[j].back /\ taken[j].entry # taken[k].entry
    BY <1>1, <1>2, <1>4
  <2> QED
    BY <1>1, <1>2, <1>3, <2>1, Entries
<1>5. ASSUME mpc = "reduce", ~unset', NEW j \in DOMAIN taken', taken'[j].back
      PROVE  out'[taken'[j].entry - 1] = j
  <2> DEFINE e == taken[k].entry
             w == table[e]
  <2>1. /\ e \in DOMAIN table /\ e \in Nat \ {0} /\ w \in Worker
    <3>1. e \in DOMAIN table /\ e \in Nat \ {0}
      BY Entries
    <3>2. table \in Seq(Worker)
      BY DEF Types
    <3> QED
      BY <3>1, <3>2
  <2>2. ~unset /\ wpc[w] = "ready" /\ out' = [out EXCEPT ![id[w]] = k]
    BY <1>5 DEF TaskDone
  <2>3. id[w] + 1 \in DOMAIN table /\ table[id[w] + 1] = w /\ id[w] \in Nat
    BY <2>1, <2>2 DEF Owned, IdsOwned, Types
  <2> HIDE DEF e
  <2>4. id[w] + 1 = e
    BY <2>1, <2>3 DEF Single
  <2>5. id[w] = e - 1
    BY <2>1, <2>3, <2>4
  <2>6. CASE j = k
    <3>1. e - 1 \in 0..(MaxTable - 1)
      BY <2>1, InTable DEF e
    <3>2. out'[e - 1] = k
      BY <2>2, <2>5, <3>1 DEF Types
    <3> QED
      BY <1>2, <2>6, <3>2 DEF e
  <2>7. CASE j # k
    <3>1. taken[j].back /\ taken[j].entry # e /\ taken[j].entry \in Nat
      BY <1>1, <1>2, <1>5, <2>7, Entries DEF e
    <3>2. out[taken[j].entry - 1] = j
      BY <1>1, <1>2, <1>5, <2>2, <3>1
    <3>3. taken[j].entry - 1 # id[w]
      BY <2>1, <2>5, <3>1
    <3>4. out'[taken[j].entry - 1] = out[taken[j].entry - 1]
      BY <2>2, <3>3
    <3>5. taken'[j].entry = taken[j].entry
      BY <1>2, <1>5
    <3> QED
      BY ONLY <3>2, <3>4, <3>5
  <2> QED
    BY <2>6, <2>7
<1>6. Len(taken') = Need'
  BY <1>0, <1>2
<1>7. Need \in Nat
  BY <1>0, NWorkerAssumption, NReduceAssumption DEF Need
<1> QED
  BY <1>0, <1>1, <1>2, <1>4, <1>5, <1>6, <1>7 DEF Phases

\* Every step keeps what the phases rely on.
LEMMA NextPhases == Types /\ Owned /\ Phases /\ [Next]_vars => Phases'
<1> SUFFICES ASSUME Types, Owned, Phases, [Next]_vars, Single', mpc' \in {"map", "reduce"}
             PROVE  Phases'
  BY DEF Phases
<1>1. CASE UNCHANGED vars
  BY <1>1 DEF vars, tabVars, phaseVars, Phases, Single, Need
<1>2. CASE Next /\ mpc # "wait"
  <2>0. UNCHANGED <<table, gen>> /\ Single
    BY <1>2, TableFixed
  <2>1. CASE Take
    BY <2>0, <2>1, TakePhases
  <2>2. CASE \E k \in DOMAIN taken : TaskDone(k)
    BY <2>0, <2>2, TaskDonePhases
  <2>3. CASE NextPhase
    BY <2>3, NReduceAssumption, NWorkerAssumption DEF NextPhase, Phases, Need
  <2>4. CASE UNCHANGED <<state, mpc, taken, out, unset>>
    BY <2>0, <2>4 DEF Phases, Need
  <2>5. \/ Take \/ NextPhase \/ \E k \in DOMAIN taken : TaskDone(k)
        \/ UNCHANGED <<state, mpc, taken, out, unset>>
    <3>1. ~RegisterPublish /\ \A c \in inflight : ~Register(c)
      BY <1>2, TableFixed
    <3> QED
      BY <1>2, <3>1 DEF Next, WorkerStep, Listen, ListenFails, LoadFails, Load, CallFails,
         RegisterFails, Receive, ReceiveEnd, Handle, RegisterCopy, MasterStep, EnoughWorkers,
         EndWorker, Stop, Spin, Terminated, vars, tabVars, phaseVars
  <2> QED
    BY <2>1, <2>2, <2>3, <2>4, <2>5
<1>3. CASE Next /\ mpc = "wait"
  <2>1. taken' = <<>>
    BY <1>3 DEF Types, Next, WorkerStep, Listen, ListenFails, LoadFails, Load, CallFails, RegisterFails,
         Receive, ReceiveEnd, Handle, Register, RegisterCopy, RegisterPublish, MasterStep, EnoughWorkers,
         Take, TaskDone, NextPhase, EndWorker, Stop, Spin, Terminated, vars, phaseVars
  <2> QED
    BY <2>1, NReduceAssumption, NWorkerAssumption DEF Phases, Need
<1> QED
  BY <1>1, <1>2, <1>3

\* Every step keeps the outputs: the reduce phase returns when every task has left its
\* own, and nothing writes to the files afterwards.
LEMMA NextOutputs == IInv /\ [Next]_vars => OutputsKept'
<1> SUFFICES ASSUME IInv, [Next]_vars, mpc' \in {"end", "done"}, ~unset', Single'
             PROVE  \A t \in 1..NReduce : \E n \in DOMAIN out' : out'[n] = t
  BY DEF OutputsKept, Single
<1>0. Types /\ Phases /\ OutputsKept
  BY DEF IInv
<1>1. CASE UNCHANGED vars
  BY <1>0, <1>1 DEF vars, tabVars, phaseVars, OutputsKept, Single
<1>2. CASE Next /\ mpc = "wait"
  BY <1>2 DEF Next, WorkerStep, Listen, ListenFails, LoadFails, Load, CallFails, RegisterFails,
         Receive, ReceiveEnd, Handle, Register, RegisterCopy, RegisterPublish, MasterStep, EnoughWorkers,
         Take, TaskDone, NextPhase, EndWorker, Stop, Spin, Terminated, vars, phaseVars
<1>3. CASE Next /\ mpc # "wait"
  <2>0. Single
    BY <1>0, <1>3, TableFixed
  <2>1. CASE NextPhase
    <3>1. /\ mpc = "reduce" /\ ~unset /\ out' = out /\ Len(taken) = NReduce
          /\ \A k \in DOMAIN taken : taken[k].back
      BY <2>1 DEF NextPhase, Need
    <3>2. ASSUME NEW t \in 1..NReduce PROVE \E n \in DOMAIN out : out[n] = t
      <4>1. t \in DOMAIN taken
        BY <1>0, <3>1 DEF Types
      <4>2. out[taken[t].entry - 1] = t
        BY <1>0, <2>0, <3>1, <4>1 DEF Phases
      <4>3. taken[t].entry - 1 \in DOMAIN out
        <5>1. taken[t].entry - 1 \in 0..(MaxTable - 1)
          BY <1>0, <2>0, <4>1, Entries, InTable
        <5> QED
          BY <1>0, <5>1 DEF Types
      <4> QED
        BY <4>2, <4>3
    <3> QED
      BY <3>1, <3>2
  <2>2. CASE mpc \in {"end", "done"} /\ UNCHANGED <<out, unset>>
    BY <1>0, <2>0, <2>2 DEF OutputsKept, Single
  <2>3. NextPhase \/ (mpc \in {"end", "done"} /\ UNCHANGED <<out, unset>>)
    BY <1>3 DEF Next, WorkerStep, Listen, ListenFails, LoadFails, Load, CallFails, RegisterFails,
         Receive, ReceiveEnd, Handle, Register, RegisterCopy, RegisterPublish, MasterStep, EnoughWorkers,
         Take, TaskDone, EndWorker, Stop, Spin, Terminated, vars, phaseVars
  <2> QED
    BY <2>1, <2>2, <2>3
<1> QED
  BY <1>1, <1>2, <1>3

\* After the reduce phase the output of every reduce task is in a file, unless a worker
\* is in the table twice or ran Reduce before it knew its ID.
THEOREM OutputsKeptHolds == Spec => []OutputsKept
<1>1. Init => Owned /\ Phases /\ OutputsKept
  BY DEF Init, Owned, IdsOwned, Phases, OutputsKept
<1>2. IInv /\ [Next]_vars => IInv'
  BY NextTypes, NextOwned, NextPhases, NextOutputs DEF IInv
<1>3. IInv => OutputsKept
  BY DEF IInv
<1>4. Types /\ Owned /\ Phases /\ OutputsKept => IInv
  BY DEF IInv
<1> QED
  BY <1>1, <1>2, <1>3, <1>4, TypesInvariant, PTL DEF Spec
=============================================================================
