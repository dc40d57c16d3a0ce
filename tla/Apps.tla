-------------------------------- MODULE Apps --------------------------------
(***************************************************************************)
(* The applications of src/mrapps, run on the slices distributeWork cuts:  *)
(* what Map emits for each slice, gathered by key over all map tasks, and  *)
(* what Reduce makes of it, against the same statistic computed on the     *)
(* whole input at once.                                                    *)
(*                                                                         *)
(* A line is known by its length (see DistributeWork); RowOf gives its     *)
(* content: whether it has all the fields the application reads, the field *)
(* that becomes the key, the metric, and its words. A metric is a number   *)
(* as decimal text, some other word, or blank (the text of an SQL NULL).   *)
(* The integers are unbounded; the order in which the values of a key      *)
(* reach Reduce is that in which the map tasks finished, any order.        *)
(***************************************************************************)
EXTENDS DistributeWork, SequencesExt

CONSTANT RowOf    \* the content of a line

Number(n) == [text |-> "number", n |-> n]
Word == [text |-> "word", n |-> 0]
Blank == [text |-> "blank", n |-> 0]

Row(complete, key, metric, words) ==
  [complete |-> complete, key |-> key, metric |-> metric, words |-> words]

\* partialContent: the lines of a slice of a file.
Contents(slice, file) ==
  LET at == LineOffsets(file)
      LineAt(offset) == CHOOSE k \in DOMAIN at : at[k] = offset
  IN  [k \in 1..(LineAt(slice.to) - LineAt(slice.from)) |-> RowOf[file[LineAt(slice.from) + k]]]

Pair(row) == [key |-> row.key, value |-> row.metric]

-----------------------------------------------------------------------------
(* The Map functions: the pairs emitted for one slice.                     *)

\* strings.TrimSpace of the contents: a blank metric at the very end goes and
\* takes the tab before it along, so the last line has a field less.
TrimSpace(rows) ==
  [k \in DOMAIN rows |->
     IF k = Len(rows) /\ rows[k].metric = Blank THEN [rows[k] EXCEPT !.complete = FALSE]
     ELSE rows[k]]

Complete(row) == row.complete

AggMap(rows) ==
  LET kept == SelectSeq(TrimSpace(rows), Complete)
  IN  [k \in DOMAIN kept |-> Pair(kept[k])]

\* The text of agg.go's Map again.
MinMaxMap(rows) == AggMap(rows)

TopNMap(rows) == AggMap(rows)

\* Counts by key within the slice, emitted in the order of a Go map.
CountMap(rows) ==
  LET kept == SelectSeq(TrimSpace(rows), Complete)
      keys == SetToSeq({kept[k].key : k \in DOMAIN kept})
      local(key) == Cardinality({k \in DOMAIN kept : kept[k].key = key})
  IN  [k \in DOMAIN keys |-> [key |-> keys[k], value |-> Number(local(keys[k]))]]

WcMap(rows) ==
  LET words == FlattenSeq([k \in DOMAIN rows |-> rows[k].words])
  IN  [k \in DOMAIN words |-> [key |-> words[k], value |-> Number(1)]]

\* merge.go indexes words[1] of every line, of the single empty line of an empty
\* slice too: it panics when a field is missing.
MergePanics(rows) == rows = <<>> \/ \E k \in DOMAIN rows : ~rows[k].complete

MergeMap(rows) == [k \in DOMAIN rows |-> Pair(rows[k])]

-----------------------------------------------------------------------------
(* The Reduce functions: the number emitted for the values of one key.     *)

IsNumber(value) == value.text = "number"

\* What strconv.Atoi accepts, in order.
Numbers(values) ==
  LET kept == SelectSeq(values, IsNumber)
  IN  [k \in DOMAIN kept |-> kept[k].n]

Total(numbers) == FoldSeq(+, 0, numbers)

AggReduce(values) == Total(Numbers(values))

\* Faulty variant of CountReduce: each value stands for one row.
CountReduceValues(values) == Len(values)

\* A value that is no number counts as one row.
CountReduce(values) ==
  Total(Numbers(values)) + Len(values) - Len(Numbers(values))

MinMaxReduce(mode, values) ==
  LET all == Range(Numbers(values))
      minV == CHOOSE n \in all : \A m \in all : n <= m
      maxV == CHOOSE n \in all : \A m \in all : n >= m
  IN  IF all = {} THEN 0
      ELSE CASE mode = "min" -> minV
             [] mode = "range" -> maxV - minV
             [] OTHER -> maxV

TopNReduce(n, values) ==
  LET nums == SortSeq(Numbers(values), >)
  IN  IF nums = <<>> THEN 0
      ELSE nums[IF n - 1 >= Len(nums) THEN Len(nums) ELSE n]

WcReduce(values) == Len(values)

\* num, _ := strconv.Atoi(s): what is no number adds 0.
MergeReduce(values) == Total(Numbers(values))

-----------------------------------------------------------------------------
(* The job: Map on every slice of every task, the tasks in a given order,  *)
(* then Reduce for each key.                                               *)

Orders == {order \in [1..NumWorkers -> TaskId] : IsInjective(order)}

\* loadPlugin: an application and what the environment says to it.
Plugin(name, param) == [name |-> name, param |-> param]

Mapf(app, rows) ==
  CASE app.name = "agg" -> AggMap(rows)
    [] app.name = "count" -> CountMap(rows)
    [] app.name = "minmax" -> MinMaxMap(rows)
    [] app.name = "topn" -> TopNMap(rows)
    [] app.name = "wc" -> WcMap(rows)
    [] app.name = "merge" -> MergeMap(rows)

Reducef(app, values) ==
  CASE app.name = "agg" -> AggReduce(values)
    [] app.name = "count" -> CountReduce(values)
    [] app.name = "minmax" -> MinMaxReduce(app.param, values)
    [] app.name = "topn" -> TopNReduce(app.param, values)
    [] app.name = "wc" -> WcReduce(values)
    [] app.name = "merge" -> MergeReduce(values)

Emitted(app, order) ==
  LET taskPairs(t) ==
        FlattenSeq([k \in DOMAIN files |-> Mapf(app, Contents(mapTasks[t][k], files[k]))])
  IN  FlattenSeq([k \in DOMAIN order |-> taskPairs(order[k])])

\* The pairs grouped by key.
ByKey(pairs) ==
  [key \in {pairs[k].key : k \in DOMAIN pairs} |->
     LET own == SelectSeq(pairs, LAMBDA p : p.key = key)
     IN  [k \in DOMAIN own |-> own[k].value]]

Output(app, order) ==
  LET groups == ByKey(Emitted(app, order))
  IN  [key \in DOMAIN groups |-> Reducef(app, groups[key])]

-----------------------------------------------------------------------------
(* The same statistics on the whole input.                                 *)

\* Where the complete lines are: a file and a line of it.
Places == {p \in UNION {{k} \X DOMAIN files[k] : k \in DOMAIN files} :
             RowOf[files[p[1]][p[2]]].complete}

RowAt(p) == RowOf[files[p[1]][p[2]]]

Keys == {RowAt(p).key : p \in Places}

Of(key) == {p \in Places : RowAt(p).key = key}

Numeric(key) == {p \in Of(key) : IsNumber(RowAt(p).metric)}

N(p) == RowAt(p).metric.n

Sum(key) == FoldSet(LAMBDA p, sum : N(p) + sum, 0, Numeric(key))

\* The n-th largest number of a key: fewer than n are larger, and n are at least
\* as large; with fewer than n numbers the smallest.
NthLargest(n, key) ==
  LET want == IF n <= Cardinality(Numeric(key)) THEN n ELSE Cardinality(Numeric(key))
      Larger(x) == {p \in Numeric(key) : N(p) > x}
      AsLarge(x) == {p \in Numeric(key) : N(p) >= x}
  IN  IF want = 0 THEN 0
      ELSE CHOOSE x \in {N(p) : p \in Numeric(key)} :
             Cardinality(Larger(x)) < want /\ want <= Cardinality(AsLarge(x))

Statistic(mode, key) ==
  CASE mode = "min" -> NthLargest(Cardinality(Numeric(key)), key)
    [] mode = "range" -> NthLargest(1, key) - NthLargest(Cardinality(Numeric(key)), key)
    [] OTHER -> NthLargest(1, key)

Occurrences(word) ==
  {<<k, j, w>> \in UNION {{k} \X (DOMAIN files[k]) \X (1..2) : k \in DOMAIN files} :
     LET words == RowOf[files[k][j]].words IN w \in DOMAIN words /\ words[w] = word}

Vocabulary == UNION {Range(RowOf[files[k][j]].words) : <<k, j>> \in
                     UNION {{k} \X DOMAIN files[k] : k \in DOMAIN files}}

NoBlankMetric == \A p \in Places : RowAt(p).metric # Blank

\* Every slice of every file has a line, and no line lacks a field.
MergeInput ==
  /\ \A k \in DOMAIN files : Len(files[k]) >= NumWorkers
  /\ \A k \in DOMAIN files : \A j \in DOMAIN files[k] : RowOf[files[k][j]].complete

\* However a job's input is cut into slices and whatever the order in which its
\* map tasks finish, each application's Reduce over what its Map emitted gives,
\* for every key, the statistic of the whole input: the partial counts of
\* count.go add up, words never straddle two slices, and the minimum, maximum,
\* range and n-th largest of the parts are those of the whole. A blank metric
\* at the end of a slice is lost to TrimSpace, so the TSV applications promise
\* this for inputs without one; merge.go for inputs on which it does not panic.
AppsExact ==
  Finished => \A order \in Orders :
    /\ Output(Plugin("wc", ""), order) =
         [word \in Vocabulary |-> Cardinality(Occurrences(word))]
    /\ NoBlankMetric =>
         /\ Output(Plugin("agg", ""), order) = [key \in Keys |-> Sum(key)]
         /\ Output(Plugin("count", ""), order) = [key \in Keys |-> Cardinality(Of(key))]
         /\ \A mode \in {"min", "max", "range"} :
              Output(Plugin("minmax", mode), order) = [key \in Keys |-> Statistic(mode, key)]
         /\ \A n \in 1..3 :
              Output(Plugin("topn", n), order) = [key \in Keys |-> NthLargest(n, key)]
    /\ MergeInput =>
         /\ \A t \in TaskId : \A k \in DOMAIN files :
              ~MergePanics(Contents(mapTasks[t][k], files[k]))
         /\ Output(Plugin("merge", ""), order) = [key \in Keys |-> Sum(key)]
=============================================================================
