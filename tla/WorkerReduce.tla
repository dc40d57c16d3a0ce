---------------------------- MODULE WorkerReduce ----------------------------
(***************************************************************************)
(* Worker.Map composed with Worker.Reduce: the partitions are written to   *)
(* files, one reduce task fetches its file of this map task and the one of *)
(* another worker, sorts the pairs, calls Reducef for each group of equal  *)
(* keys and writes one output per call.                                    *)
(*                                                                         *)
(* Reducef emits into a channel that the same goroutine then reads from    *)
(* once: with another number of emits than one the handler waits for ever  *)
(* or falls behind.  The handlers of the reduce tasks share nothing, so    *)
(* one of them stands for all.  What Reducef computes plays no part: its   *)
(* output carries the key and the values it was called with.               *)
(***************************************************************************)
EXTENDS WorkerMap, IMDCodec

CONSTANTS
  Others,       \* what another worker may hold for the task: sequences of pairs
  ReduceEmits   \* how often Reducef may emit in one call

ASSUME TextsAssumption ==
  /\ \A e \in Emissions : \A f \in DOMAIN e : \A n \in DOMAIN e[f] : e[f][n] \in KV
  /\ Others \subseteq Seq(KV)

VARIABLES
  task,         \* the reduce task
  other,        \* the pairs the other worker wrote
  imdFile,      \* the files of this map task
  rpc,          \* where Worker.Reduce is
  imdKVs,       \* its pairs
  next,         \* the first pair that is not reduced yet
  reduceChan,   \* its channel
  ofile,        \* the lines of its output file
  single        \* history: every call of Reducef so far emitted once

reduceVars == <<task, other, imdFile, rpc, imdKVs, next, reduceChan, ofile, single>>

allVars == <<vars, reduceVars>>

ReducePc == {"mapping", "fetch", "sort", "reducef", "receive", "full", "done"}

\* Reduce is in its code, for one of the tasks, and inside its pairs.
ReduceTypeOK ==
  /\ TypeOK
  /\ task \in Reducer
  /\ rpc \in ReducePc
  /\ next \in 1..(Len(imdKVs) + 1)
  /\ Len(reduceChan) <= ChanCap
  /\ single \in BOOLEAN

ReduceInit ==
  /\ Init
  /\ task \in Reducer
  /\ other = <<>>
  /\ imdFile = [r \in Reducer |-> <<>>]
  /\ rpc = "mapping"
  /\ imdKVs = <<>> /\ next = 1
  /\ reduceChan = <<>> /\ ofile = <<>>
  /\ single = TRUE

\* The pairs of a partition.
KVs(r) == [i \in DOMAIN imdKV[r] |-> imdKV[r][i].kv]

\* writeIMDToLocalFile, one goroutine per partition and a barrier.
WriteIMD ==
  /\ pc = "end" /\ rpc = "mapping"
  /\ imdFile' = [r \in Reducer |-> encodeIMDKVs(KVs(r))]
  /\ rpc' = "fetch"
  /\ UNCHANGED <<vars, task, other, imdKVs, next, reduceChan, ofile, single>>

\* The loop over in.Files, one at this map task's worker and one at another.
Fetch ==
  /\ rpc = "fetch"
  /\ \E o \in Others :
       /\ other' = o
       /\ LET theirs == encodeIMDKVs(o)
          IN  imdKVs' = GetIMDData(imdFile[task]) \o GetIMDData(theirs)
  /\ rpc' = "sort"
  /\ UNCHANGED <<vars, task, imdFile, next, reduceChan, ofile, single>>

\* How often kv is in kvs.
Count(kvs, kv) == Cardinality({i \in DOMAIN kvs : kvs[i] = kv})

\* The pairs of kvs in an order in which no key is less than one before it.
Sorted(kvs) ==
  {s \in [DOMAIN kvs -> ToSet(kvs)] :
     /\ \A j \in DOMAIN s : \A i \in 1..(j - 1) : ~Less(s[j].key, s[i].key)
     /\ \A kv \in ToSet(kvs) : Count(s, kv) = Count(kvs, kv)}

\* sort.Sort(byKey), which is not stable: pairs of one key may come in any order.
Sort ==
  /\ rpc = "sort"
  /\ imdKVs' \in Sorted(imdKVs)
  /\ rpc' = "reducef"
  /\ UNCHANGED <<vars, task, other, imdFile, next, reduceChan, ofile, single>>

\* The pair after the group that begins at next.
GroupEnd ==
  Min({j \in (next + 1)..(Len(imdKVs) + 1) : j > Len(imdKVs) \/ imdKVs[j].key # imdKVs[next].key})

\* One call of Reducef with all values of a key, which emits e times; it blocks
\* when the channel is full.
Reducef(e) ==
  /\ rpc = "reducef" /\ next <= Len(imdKVs)
  /\ single' = (single /\ e = 1)
  /\ LET values == [i \in 1..(GroupEnd - next) |-> imdKVs[next + i - 1].value]
         output == [key |-> imdKVs[next].key, values |-> values]
     IN  reduceChan' = reduceChan \o [i \in 1..Min({e, ChanCap - Len(reduceChan)}) |-> output]
  /\ rpc' = IF Len(reduceChan) + e > ChanCap THEN "full" ELSE "receive"
  /\ UNCHANGED <<vars, task, other, imdFile, imdKVs, next, ofile>>

\* Faulty variant of WriteOutput: the loop goes on with the next pair, not the next group.
WriteOutputNextPair ==
  /\ rpc = "receive" /\ reduceChan # <<>>
  /\ ofile' = Append(ofile, Head(reduceChan))
  /\ reduceChan' = Tail(reduceChan)
  /\ next' = next + 1
  /\ rpc' = "reducef"
  /\ UNCHANGED <<vars, task, other, imdFile, imdKVs, single>>

\* output := <-reduceChan.Chan, written to the file; i = j
WriteOutput ==
  /\ rpc = "receive" /\ reduceChan # <<>>
  /\ ofile' = Append(ofile, Head(reduceChan))
  /\ reduceChan' = Tail(reduceChan)
  /\ next' = GroupEnd
  /\ rpc' = "reducef"
  /\ UNCHANGED <<vars, task, other, imdFile, imdKVs, single>>

ReduceReturns ==
  /\ rpc = "reducef" /\ next > Len(imdKVs)
  /\ rpc' = "done"
  /\ UNCHANGED <<vars, task, other, imdFile, imdKVs, next, reduceChan, ofile, single>>

\* Reducef waits for room, or the handler for an output that never comes.
Stuck == rpc = "full" \/ (rpc = "receive" /\ reduceChan = <<>>)

ReduceNext == WriteIMD \/ Fetch \/ Sort \/ (\E e \in ReduceEmits : Reducef(e)) \/ WriteOutput \/ ReduceReturns

Terminated == (NoInput \/ Stuck \/ rpc = "done") /\ UNCHANGED allVars

Next == (MapNext /\ UNCHANGED reduceVars) \/ ReduceNext \/ Terminated

Spec == ReduceInit /\ [][Next]_allVars

\* Reduce, too, is scheduled: where ReduceNext is possible it is taken, and each
\* of its steps changes rpc.
Ready == pc = "end" /\ rpc # "done" /\ ~Stuck
FairSpec == Spec /\ MapFairness /\ WF_rpc(Ready /\ rpc' \in ReducePc)

-----------------------------------------------------------------------------
(* Properties.                                                             *)

\* The reducer decodes what the mapper encoded exactly when the pairs are
\* transportable: TrimSpace takes an empty first key's tab, or the end of the
\* last value, with it.
CodecExact ==
  rpc # "mapping" =>
    \A r \in Reducer : GetIMDData(imdFile[r]) = KVs(r) <=> Transportable(KVs(r))

\* The pairs meant for the task: where they were emitted or written.
SourceKV(s) == emits[s[1]][s[2]]
Sources ==
  {s \in UNION {{f} \X DOMAIN emits[f] : f \in File} : ReducerForKey[SourceKV(s).key] = task}

\* How often the pair with key k and value v is meant for the task.
Meant(k, v) ==
  Cardinality({s \in Sources : SourceKV(s) = [key |-> k, value |-> v]})
    + Count(other, [key |-> k, value |-> v])

\* When Reduce returns, Reducef has been called once for each key, with all the
\* values emitted for it by any map task and no others, and its output is in
\* the file: nothing is lost between the channels, the partition, the text, the
\* sort and the groups.
ReducedOnce ==
  /\ rpc = "done" /\ single
  /\ Transportable(KVs(task)) /\ Transportable(other)
  => LET kvs == {SourceKV(s) : s \in Sources} \cup ToSet(other)
     IN  \A k \in {kv.key : kv \in kvs} :
           \E l \in DOMAIN ofile :
             /\ \A m \in DOMAIN ofile : ofile[m].key = k <=> m = l
             /\ \A v \in {kv.value : kv \in kvs} \cup ToSet(ofile[l].values) :
                  Count(ofile[l].values, v) = Meant(k, v)

\* Map and Reduce return, whatever the channels' sizes, unless there is no input
\* or a call of Reducef does not emit exactly once.
Finishes == <>(rpc = "done" \/ NoInput \/ ~single)
=============================================================================
