------------------------------ MODULE WorkerMap ------------------------------
(***************************************************************************)
(* The handler Worker.Map: one goroutine per input slice runs the          *)
(* application's Mapf, which emits pairs into the buffered channel mapChan *)
(* and then reports on done.  The handler's loop selects on the two, puts  *)
(* every pair into the partition of its key's reducer, closes mapChan when *)
(* all goroutines have reported, and ends when the closed channel is empty.*)
(*                                                                         *)
(* Mapf is any function of the slice.  A pair is a record [file, n, kv]:   *)
(* the n-th key and value that Mapf emits for a slice.                     *)
(***************************************************************************)
EXTENDS Naturals, Sequences, FiniteSetsExt

CONSTANTS
  Emissions,      \* what Mapf emits: for each slice a sequence of [key, value]
  ReducerForKey,  \* reducerForKey, the hash of a key modulo nReduce
  ChanCap,        \* capacity of mapChan, and of Reduce's channel
  DoneCap         \* capacity of done

IsSequence(s) == s \in Seq({s[i] : i \in DOMAIN s})

ASSUME EmissionsAssumption ==
  \A e \in Emissions :
    /\ IsSequence(e)
    /\ \A f \in DOMAIN e :
         IsSequence(e[f]) /\ \A n \in DOMAIN e[f] : e[f][n].key \in DOMAIN ReducerForKey
ASSUME CapAssumption == ChanCap \in Nat \ {0} /\ DoneCap \in Nat \ {0}

Reducer == {ReducerForKey[k] : k \in DOMAIN ReducerForKey}

VARIABLES
  emits,     \* the pairs Mapf emits for each slice of in.Files, in order
  pc,        \* where the handler is
  started,   \* how many goroutines have been started
  sent,      \* how many pairs each goroutine has sent
  gor,       \* where each goroutine is
  mapChan,   \* the pairs in mapChan
  closed,    \* mapChan is closed
  done,      \* how many reports are in done
  count,     \* how many have been received
  imdKV      \* the pairs of each partition, in the order of arrival

vars == <<emits, pc, started, sent, gor, mapChan, closed, done, count, imdKV>>

\* in.Files: a slice of every input file, of which there may be none.
File == DOMAIN emits
NumFiles == Len(emits)

\* The handler is in its code, and channels and partitions hold emitted pairs.
IsPair(p) == p.n \in 1..Len(emits[p.file]) /\ p.kv = emits[p.file][p.n]

TypeOK ==
  /\ emits \in Emissions
  /\ pc \in {"spawn", "loop", "end"}
  /\ started \in 0..NumFiles
  /\ sent \in [File -> Nat] /\ \A f \in File : sent[f] <= Len(emits[f])
  /\ gor \in [File -> {"none", "mapf", "report", "returned"}]
  /\ Len(mapChan) <= ChanCap /\ \A i \in DOMAIN mapChan : IsPair(mapChan[i])
  /\ closed \in BOOLEAN
  /\ done \in 0..DoneCap
  /\ count \in 0..NumFiles
  /\ \A r \in Reducer : \A i \in DOMAIN imdKV[r] : IsPair(imdKV[r][i])

Init ==
  /\ emits \in Emissions
  /\ pc = "spawn" /\ started = 0
  /\ sent = [f \in File |-> 0]
  /\ gor = [f \in File |-> "none"]
  /\ mapChan = <<>> /\ closed = FALSE
  /\ done = 0 /\ count = 0
  /\ imdKV = [r \in Reducer |-> <<>>]

-----------------------------------------------------------------------------
(* The handler.                                                            *)

\* The slice is read (partialContent) and a goroutine started for it.
Spawn ==
  /\ pc = "spawn" /\ started < NumFiles
  /\ started' = started + 1
  /\ gor' = [gor EXCEPT ![started + 1] = "mapf"]
  /\ UNCHANGED <<emits, pc, sent, mapChan, closed, done, count, imdKV>>

EnterLoop ==
  /\ pc = "spawn" /\ started = NumFiles
  /\ pc' = "loop"
  /\ UNCHANGED <<emits, started, sent, gor, mapChan, closed, done, count, imdKV>>

\* case mapKV, haveKV := <-mapChan.Chan
ReceiveKV ==
  /\ pc = "loop" /\ mapChan # <<>>
  /\ LET p == Head(mapChan)
     IN  imdKV' = [imdKV EXCEPT ![ReducerForKey[p.kv.key]] = Append(@, p)]
  /\ mapChan' = Tail(mapChan)
  /\ UNCHANGED <<emits, pc, started, sent, gor, closed, done, count>>

\* Faulty variant of ReceiveDone: the channel is closed at the first report.
ReceiveDoneFirst ==
  /\ pc = "loop" /\ done > 0
  /\ done' = done - 1
  /\ count' = count + 1
  /\ closed' = TRUE
  /\ UNCHANGED <<emits, pc, started, sent, gor, mapChan, imdKV>>

\* case <-done: the last report closes mapChan, pairs in it or not.
ReceiveDone ==
  /\ pc = "loop" /\ done > 0
  /\ done' = done - 1
  /\ count' = count + 1
  /\ closed' = (count' = NumFiles)
  /\ UNCHANGED <<emits, pc, started, sent, gor, mapChan, imdKV>>

\* Faulty variant of BreakLoop: break without the label leaves the select only.
BreakSelect == pc = "loop" /\ closed /\ mapChan = <<>> /\ UNCHANGED vars

\* !haveKV: the channel is closed and empty.
BreakLoop ==
  /\ pc = "loop" /\ closed /\ mapChan = <<>>
  /\ pc' = "end"
  /\ UNCHANGED <<emits, started, sent, gor, mapChan, closed, done, count, imdKV>>

-----------------------------------------------------------------------------
(* The goroutine of slice f.                                               *)

\* EmitIntermediate, called by Mapf; it blocks while mapChan is full.
EmitIntermediate(f) ==
  /\ gor[f] = "mapf" /\ sent[f] < Len(emits[f])
  /\ ~closed /\ Len(mapChan) < ChanCap
  /\ mapChan' = Append(mapChan, [file |-> f, n |-> sent[f] + 1, kv |-> emits[f][sent[f] + 1]])
  /\ sent' = [sent EXCEPT ![f] = @ + 1]
  /\ UNCHANGED <<emits, pc, started, gor, closed, done, count, imdKV>>

MapfReturns(f) ==
  /\ gor[f] = "mapf" /\ sent[f] = Len(emits[f])
  /\ gor' = [gor EXCEPT ![f] = "report"]
  /\ UNCHANGED <<emits, pc, started, sent, mapChan, closed, done, count, imdKV>>

\* done <- 1
Report(f) ==
  /\ gor[f] = "report" /\ done < DoneCap
  /\ done' = done + 1
  /\ gor' = [gor EXCEPT ![f] = "returned"]
  /\ UNCHANGED <<emits, pc, started, sent, mapChan, closed, count, imdKV>>

-----------------------------------------------------------------------------
Handler == Spawn \/ EnterLoop \/ ReceiveKV \/ ReceiveDone \/ BreakLoop

Goroutine(f) == EmitIntermediate(f) \/ MapfReturns(f) \/ Report(f)

\* Without input nobody reports, nobody closes mapChan, and the loop waits for ever.
NoInput == pc = "loop" /\ NumFiles = 0

MapNext == Handler \/ \E f \in File : Goroutine(f)

\* Goroutines are scheduled, and Mapf, once its emits are accepted, returns.
MapFairness ==
  /\ WF_vars(Handler)
  /\ \A f \in 1..Max({Len(e) : e \in Emissions}) : WF_vars(f \in File /\ Goroutine(f))

-----------------------------------------------------------------------------
(* Properties.                                                             *)

\* mapChan is closed only when no goroutine can send on it any more: a send on
\* a closed channel would panic the worker.
NoSendOnClosed ==
  closed => \A f \in File : gor[f] = "returned" /\ sent[f] = Len(emits[f])
=============================================================================
