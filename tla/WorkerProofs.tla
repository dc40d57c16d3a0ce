---------------------------- MODULE WorkerProofs ----------------------------
(***************************************************************************)
(* Worker.Map and Worker.Reduce, for any number of slices, any Mapf and    *)
(* any capacities: no goroutine sends on a closed mapChan; when the        *)
(* handler of Map leaves its loop every pair that Mapf emitted is in the   *)
(* partition of its reducer, once; the file of a partition is read as it   *)
(* was written exactly when its pairs are transportable; and Reducef is    *)
(* called once for each key with all its values.                           *)
(*                                                                         *)
(* The first rests on counting: the reports that are in done and those     *)
(* that have been received are together the goroutines that have returned. *)
(* The second follows each pair from mapChan to its partition.  The third  *)
(* is about the texts alone: if something is trimmed or skipped, what      *)
(* arrives is shorter than what was written.  For the fourth, equal keys   *)
(* are next to each other after the sort, because of two different keys    *)
(* one is less; so a group holds all values of its key.                    *)
(***************************************************************************)
EXTENDS WorkerReduce, FiniteSetTheorems, WellFoundedInduction, TLAPS

\* The goroutines that have reported.
Returned == {f \in File : gor[f] = "returned"}

\* The n-th pair of slice f.
Pair(f, n) == [file |-> f, n |-> n, kv |-> emits[f][n]]
Pairs == UNION {{Pair(f, n) : n \in 1..Len(emits[f])} : f \in File}

\* The types the argument needs.
Typed ==
  /\ emits \in Emissions
  /\ pc \in {"spawn", "loop", "end"}
  /\ started \in 0..NumFiles
  /\ sent \in [File -> Nat]
  /\ gor \in [File -> {"none", "mapf", "report", "returned"}]
  /\ done \in Nat /\ count \in Nat
  /\ closed \in BOOLEAN

\* The reports in done and the received ones are those of the returned goroutines.
Counted == done + count = Cardinality(Returned)

\* The goroutines that have not been started are those of the last slices.
Spawned == \A f \in File : f > started <=> gor[f] = "none"

\* Mapf has sent all its pairs when it returns, and the last report closes mapChan.
Sent ==
  /\ \A f \in File : sent[f] <= Len(emits[f])
  /\ \A f \in File : gor[f] \in {"report", "returned"} => sent[f] = Len(emits[f])
Closing == closed => count = NumFiles

MapInv == Typed /\ Counted /\ Spawned /\ Sent /\ Closing

\* The pairs of reducer r, and those that Mapf has sent.
PairsOf(r) == {p \in Pairs : ReducerForKey[p.kv.key] = r}
SentPairs == UNION {{Pair(f, n) : n \in 1..sent[f]} : f \in File}
Stored == UNION {ToSet(imdKV[r]) : r \in Reducer}

\* Every sent pair is in mapChan or in the partition of its reducer, not in both,
\* and in one place.
Followed ==
  /\ mapChan \in Seq(Pairs) /\ imdKV \in [Reducer -> Seq(Pairs)]
  /\ IsInjective(mapChan)
  /\ \A r \in Reducer : IsInjective(imdKV[r]) /\ ToSet(imdKV[r]) \subseteq PairsOf(r)
  /\ ToSet(mapChan) \cap Stored = {}
  /\ ToSet(mapChan) \cup Stored = SentPairs
Ended == pc = "end" => closed /\ mapChan = <<>>

PairsInv == Followed /\ Ended

\* When the handler leaves its loop, the partition of each reducer holds exactly
\* the pairs that Mapf emitted for it, each of them once.
PartitionsExact ==
  pc = "end" => \A r \in Reducer : IsInjective(imdKV[r]) /\ ToSet(imdKV[r]) = PairsOf(r)

-----------------------------------------------------------------------------
(* Lemmas.                                                                 *)

\* The slices are numbered, and so are the pairs of each.
LEMMA Numbered ==
  ASSUME emits \in Emissions
  PROVE  /\ NumFiles \in Nat /\ File = 1..NumFiles
         /\ \A f \in File : /\ Len(emits[f]) \in Nat /\ DOMAIN emits[f] = 1..Len(emits[f])
                            /\ \A n \in 1..Len(emits[f]) : emits[f][n].key \in DOMAIN ReducerForKey
<1>1. ASSUME NEW S, NEW s \in Seq(S) PROVE Len(s) \in Nat /\ DOMAIN s = 1..Len(s)
  OBVIOUS
<1>2. NumFiles \in Nat /\ File = 1..NumFiles
  BY <1>1, EmissionsAssumption DEF NumFiles, File, IsSequence
<1>3. ASSUME NEW f \in File
      PROVE  /\ Len(emits[f]) \in Nat /\ DOMAIN emits[f] = 1..Len(emits[f])
             /\ \A n \in DOMAIN emits[f] : emits[f][n].key \in DOMAIN ReducerForKey
  BY <1>1, EmissionsAssumption DEF File, IsSequence
<1> QED
  BY <1>2, <1>3

\* There are no more reports than slices.
LEMMA ReturnedFinite ==
  ASSUME emits \in Emissions
  PROVE  /\ IsFiniteSet(File) /\ Cardinality(File) = NumFiles
         /\ IsFiniteSet(Returned) /\ Cardinality(Returned) \in Nat /\ Cardinality(Returned) <= NumFiles
         /\ Cardinality(Returned) = NumFiles => Returned = File
<1>1. NumFiles \in Nat /\ File = 1..NumFiles
  BY Numbered
<1>2. IsFiniteSet(File) /\ Cardinality(File) = NumFiles
  <2>1. 0 \in Int /\ 1 \in Int /\ NumFiles \in Int
    BY <1>1
  <2> QED
    BY <1>1, <2>1, FS_Interval
<1>3. Returned \in SUBSET File
  BY DEF Returned
<1> QED
  BY <1>2, <1>3, FS_Subset, FS_CardinalityType

-----------------------------------------------------------------------------
(* No send on a closed channel.                                            *)

\* The invariant holds when the handler is called.
LEMMA InitMapInv == Init => MapInv
<1> SUFFICES ASSUME Init PROVE MapInv
  OBVIOUS
<1>1. emits \in Emissions /\ NumFiles \in Nat
  BY Numbered DEF Init
<1>2. Typed
  <2>1. started \in 0..NumFiles
    BY <1>1 DEF Init
  <2>2. sent \in [File -> Nat] /\ gor \in [File -> {"none", "mapf", "report", "returned"}]
    BY DEF Init
  <2> QED
    BY <1>1, <2>1, <2>2 DEF Init, Typed
<1>3. Returned = {}
  BY DEF Init, Returned
<1>4. Counted
  BY <1>3, FS_EmptySet DEF Init, Counted
<1>5. Sent
  BY <1>1, Numbered DEF Init, Sent
<1>6. Spawned
  BY <1>1, Numbered DEF Init, Spawned
<1> QED
  BY <1>1, <1>2, <1>4, <1>5, <1>6 DEF MapInv, Closing, Init

\* Every step of Map keeps it.
LEMMA StepMapInv == MapInv /\ [MapNext]_vars => MapInv'
<1> SUFFICES ASSUME MapInv, [MapNext]_vars PROVE MapInv'
  OBVIOUS
<1>1. /\ emits \in Emissions /\ NumFiles \in Nat /\ File = 1..NumFiles
      /\ \A f \in File : Len(emits[f]) \in Nat
  BY Numbered DEF MapInv, Typed
<1>2. emits' = emits
  BY DEF MapNext, Handler, Goroutine, Spawn, EnterLoop, ReceiveKV, ReceiveDone, BreakLoop, EmitIntermediate, MapfReturns, Report, vars
<1>3. File' = File /\ NumFiles' = NumFiles
  BY <1>2 DEF File, NumFiles
<1>4. ASSUME UNCHANGED <<gor, done, count>> PROVE Counted'
  <2>1. Returned' = Returned
    BY <1>3, <1>4 DEF Returned
  <2> QED
    BY <1>4, <2>1 DEF MapInv, Counted
<1>5. CASE Spawn
  <2>1. started + 1 \in File /\ gor[started + 1] = "none" /\ started \in Nat
    BY <1>1, <1>5 DEF Spawn, MapInv, Typed, Spawned
  <2>2. Typed'
    BY <1>1, <1>2, <1>3, <1>5, <2>1 DEF Spawn, MapInv, Typed
  <2>3. Returned' = Returned
    BY <1>3, <1>5, <2>1 DEF Spawn, MapInv, Typed, Returned
  <2>4. Counted'
    BY <1>5, <2>3 DEF Spawn, MapInv, Counted
  <2>5. Spawned'
    BY <1>1, <1>3, <1>5, <2>1 DEF Spawn, MapInv, Typed, Spawned
  <2>6. Sent'
    BY <1>2, <1>3, <1>5, <2>1 DEF Spawn, MapInv, Typed, Sent
  <2> QED
    BY <1>3, <1>5, <2>2, <2>4, <2>5, <2>6 DEF Spawn, MapInv, Closing
<1>6. CASE EnterLoop \/ ReceiveKV \/ BreakLoop \/ UNCHANGED vars
  <2>1. pc' \in {"spawn", "loop", "end"} /\ UNCHANGED <<started, sent, gor, closed, done, count>>
    BY <1>6 DEF EnterLoop, ReceiveKV, BreakLoop, vars, MapInv, Typed
  <2> QED
    BY <1>2, <1>3, <1>4, <2>1 DEF MapInv, Typed, Spawned, Sent, Closing
<1>7. CASE ReceiveDone
  <2>1. /\ done \in Nat /\ done > 0 /\ done' = done - 1 /\ count \in Nat /\ count' = count + 1
        /\ closed' = (count' = NumFiles)
        /\ UNCHANGED <<pc, started, sent, gor>>
    BY <1>7 DEF ReceiveDone, MapInv, Typed
  <2>2. Typed'
    BY <1>2, <1>3, <2>1 DEF MapInv, Typed
  <2>3. Returned' = Returned
    BY <1>3, <2>1 DEF Returned
  <2>4. Counted'
    BY <2>1, <2>3 DEF MapInv, Counted
  <2> QED
    BY <1>2, <1>3, <2>1, <2>2, <2>4 DEF MapInv, Spawned, Sent, Closing
<1>8. ASSUME NEW f \in File, EmitIntermediate(f) PROVE MapInv'
  <2>1. /\ gor[f] = "mapf" /\ sent[f] < Len(emits[f]) /\ sent' = [sent EXCEPT ![f] = sent[f] + 1]
        /\ sent \in [File -> Nat]
        /\ UNCHANGED <<pc, started, gor, closed, done, count>>
    BY <1>8 DEF EmitIntermediate, MapInv, Typed
  <2>2. Typed'
    BY <1>2, <1>3, <2>1 DEF MapInv, Typed
  <2>3. Sent'
    BY <1>1, <1>2, <1>3, <2>1 DEF MapInv, Sent
  <2> QED
    BY <1>3, <1>4, <2>1, <2>2, <2>3 DEF MapInv, Spawned, Closing
<1>9. ASSUME NEW f \in File, MapfReturns(f) PROVE MapInv'
  <2>1. /\ gor[f] = "mapf" /\ sent[f] = Len(emits[f]) /\ gor' = [gor EXCEPT ![f] = "report"]
        /\ gor \in [File -> {"none", "mapf", "report", "returned"}]
        /\ UNCHANGED <<pc, started, sent, closed, done, count>>
    BY <1>9 DEF MapfReturns, MapInv, Typed
  <2>2. Typed'
    BY <1>2, <1>3, <2>1 DEF MapInv, Typed
  <2>3. Returned' = Returned
    BY <1>3, <2>1 DEF Returned
  <2>4. Counted'
    BY <2>1, <2>3 DEF MapInv, Counted
  <2>5. Sent'
    BY <1>2, <1>3, <2>1 DEF MapInv, Sent
  <2>6. Spawned'
    BY <1>3, <2>1 DEF MapInv, Spawned
  <2> QED
    BY <1>3, <2>1, <2>2, <2>4, <2>5, <2>6 DEF MapInv, Closing
<1>10. ASSUME NEW f \in File, Report(f) PROVE MapInv'
  <2>1. /\ gor[f] = "report" /\ done' = done + 1 /\ gor' = [gor EXCEPT ![f] = "returned"]
        /\ gor \in [File -> {"none", "mapf", "report", "returned"}]
        /\ done \in Nat /\ count \in Nat
        /\ UNCHANGED <<pc, started, sent, closed, count>>
    BY <1>10 DEF Report, MapInv, Typed
  <2>2. Typed'
    BY <1>2, <1>3, <2>1 DEF MapInv, Typed
  <2>3. Returned' = Returned \cup {f} /\ f \notin Returned
    BY <1>3, <2>1 DEF Returned
  <2>4. Cardinality(Returned') = Cardinality(Returned) + 1
    BY <1>1, <2>3, ReturnedFinite, FS_AddElement
  <2>5. Counted'
    BY <1>1, <2>1, <2>4, ReturnedFinite DEF MapInv, Counted
  <2>6. Sent'
    BY <1>2, <1>3, <2>1 DEF MapInv, Sent
  <2>7. Spawned'
    BY <1>3, <2>1 DEF MapInv, Spawned
  <2> QED
    BY <1>3, <2>1, <2>2, <2>5, <2>6, <2>7 DEF MapInv, Closing
<1> QED
  BY <1>5, <1>6, <1>7, <1>8, <1>9, <1>10 DEF MapNext, Handler, Goroutine

\* The steps of Reduce leave Map's variables alone.
LEMMA NextOfMap == [Next]_allVars => [MapNext]_vars
  BY DEF Next, allVars, ReduceNext, WriteIMD, Fetch, Sort, Reducef, WriteOutput, ReduceReturns, Terminated

\* The invariant holds in every behaviour of the handlers.
THEOREM InductiveInvariant == Spec => []MapInv
<1>1. ReduceInit => MapInv
  BY InitMapInv DEF ReduceInit
<1>2. MapInv /\ [Next]_allVars => MapInv'
  BY StepMapInv, NextOfMap
<1> QED
  BY <1>1, <1>2, PTL DEF Spec

\* Whatever Mapf emits and however the goroutines are scheduled, mapChan is
\* closed only when each of them has sent all its pairs and reported.
THEOREM NoSendOnClosedHolds == Spec => []NoSendOnClosed
<1>1. MapInv => NoSendOnClosed
  <2> SUFFICES ASSUME MapInv, closed PROVE \A f \in File : gor[f] = "returned" /\ sent[f] = Len(emits[f])
    BY DEF NoSendOnClosed
  <2>1. Cardinality(Returned) = NumFiles
    BY ReturnedFinite, Numbered DEF MapInv, Typed, Counted, Closing
  <2>2. Returned = File
    BY <2>1, ReturnedFinite DEF MapInv, Typed
  <2> QED
    BY <2>2 DEF MapInv, Sent, Returned
<1> QED
  BY <1>1, InductiveInvariant, PTL

-----------------------------------------------------------------------------
(* Every pair reaches its partition.                                       *)

\* What Append does to the elements of a sequence without repetitions.
LEMMA Appended ==
  ASSUME NEW S, NEW s \in Seq(S), NEW x \in S
  PROVE  /\ Append(s, x) \in Seq(S)
         /\ ToSet(Append(s, x)) = ToSet(s) \cup {x}
         /\ IsInjective(s) /\ x \notin ToSet(s) => IsInjective(Append(s, x))
<1> DEFINE t == Append(s, x)
<1>1. /\ Len(s) \in Nat /\ DOMAIN s = 1..Len(s) /\ t \in Seq(S) /\ Len(t) = Len(s) + 1 /\ DOMAIN t = 1..(Len(s) + 1)
      /\ t[Len(s) + 1] = x /\ \A i \in 1..Len(s) : t[i] = s[i]
  OBVIOUS
<1> HIDE DEF t
<1>2. DOMAIN t = DOMAIN s \cup {Len(s) + 1} /\ Len(s) + 1 \notin DOMAIN s
  BY <1>1
<1>3. ToSet(t) = ToSet(s) \cup {x}
  BY <1>1, <1>2 DEF ToSet
<1>4. ASSUME IsInjective(s), x \notin ToSet(s) PROVE IsInjective(t)
  BY <1>1, <1>2, <1>4 DEF IsInjective, ToSet
<1> QED
  BY <1>1, <1>3, <1>4 DEF t

\* What Head and Tail do to them.
LEMMA Taken ==
  ASSUME NEW S, NEW s \in Seq(S), s # <<>>, IsInjective(s)
  PROVE  /\ Head(s) \in S /\ Tail(s) \in Seq(S)
         /\ ToSet(s) = ToSet(Tail(s)) \cup {Head(s)} /\ Head(s) \notin ToSet(Tail(s))
         /\ IsInjective(Tail(s))
<1> DEFINE t == Tail(s)
<1>1. /\ Len(s) \in Nat \ {0} /\ DOMAIN s = 1..Len(s) /\ t \in Seq(S) /\ Len(t) = Len(s) - 1 /\ DOMAIN t = 1..(Len(s) - 1)
      /\ \A i \in 1..(Len(s) - 1) : t[i] = s[i + 1]
      /\ Head(s) = s[1] /\ Head(s) \in S
  OBVIOUS
<1> HIDE DEF t
<1>2. ASSUME NEW i \in DOMAIN t PROVE i + 1 \in DOMAIN s /\ i + 1 # 1 /\ t[i] = s[i + 1]
  BY <1>1
<1>3. ASSUME NEW i \in DOMAIN s, i # 1 PROVE i - 1 \in DOMAIN t /\ s[i] = t[i - 1]
  BY <1>1, <1>3
<1>4. 1 \in DOMAIN s /\ \A i, j \in DOMAIN s : s[i] = s[j] => i = j
  BY <1>1 DEF IsInjective
<1>5. ToSet(s) = ToSet(t) \cup {Head(s)}
  <2>1. ASSUME NEW x \in ToSet(s) PROVE x \in ToSet(t) \cup {Head(s)}
    BY <1>1, <1>3 DEF ToSet
  <2>2. ASSUME NEW x \in ToSet(t) \cup {Head(s)} PROVE x \in ToSet(s)
    BY <1>1, <1>2, <1>4 DEF ToSet
  <2> QED
    BY <2>1, <2>2
<1>6. Head(s) \notin ToSet(t)
  BY <1>1, <1>2, <1>4 DEF ToSet
<1>7. IsInjective(t)
  <2> SUFFICES ASSUME NEW i \in DOMAIN t, NEW j \in DOMAIN t, t[i] = t[j] PROVE i = j
    BY DEF IsInjective
  <2>1. i + 1 = j + 1
    BY <1>2, <1>4
  <2> QED
    BY <1>1, <2>1
<1> QED
  BY <1>1, <1>5, <1>6, <1>7 DEF t

\* A pair is one that Mapf emits, and its key has a reducer.
LEMMA PairFacts ==
  ASSUME emits \in Emissions, NEW p \in Pairs
  PROVE  /\ p.file \in File /\ p.n \in 1..Len(emits[p.file]) /\ p = Pair(p.file, p.n)
         /\ ReducerForKey[p.kv.key] \in Reducer
<1>0. PICK f \in File : \E n \in 1..Len(emits[f]) : p = Pair(f, n)
  BY DEF Pairs
<1>1. PICK n \in 1..Len(emits[f]) : p = Pair(f, n)
  BY <1>0
<1>2. p.file = f /\ p.n = n /\ p.kv = emits[f][n]
  BY <1>1 DEF Pair
<1>3. p.kv.key \in DOMAIN ReducerForKey
  BY <1>2, Numbered
<1> QED
  BY <1>1, <1>2, <1>3 DEF Reducer

\* A goroutine's next pair is none of those that have been sent.
LEMMA NextPair ==
  ASSUME MapInv, NEW f \in File, sent[f] < Len(emits[f]),
         sent' = [sent EXCEPT ![f] = sent[f] + 1], emits' = emits
  PROVE  /\ Pair(f, sent[f] + 1) \in Pairs /\ Pair(f, sent[f] + 1) \notin SentPairs
         /\ SentPairs' = SentPairs \cup {Pair(f, sent[f] + 1)}
<1>1. /\ \A g \in File : sent[g] \in Nat /\ Len(emits[g]) \in Nat
      /\ \A g \in File : sent'[g] = IF g = f THEN sent[f] + 1 ELSE sent[g]
      /\ File' = File
  BY Numbered DEF MapInv, Typed, File
<1>2. \A g, n : Pair(g, n)' = Pair(g, n)
  BY DEF Pair
<1>3. sent[f] + 1 \in 1..Len(emits[f])
  BY <1>1
<1>4. Pair(f, sent[f] + 1) \in Pairs
  BY <1>3 DEF Pairs
<1>5. Pair(f, sent[f] + 1) \notin SentPairs
  <2> SUFFICES ASSUME NEW g \in File, NEW n \in 1..sent[g], Pair(f, sent[f] + 1) = Pair(g, n) PROVE FALSE
    BY DEF SentPairs
  <2>1. g = f /\ n = sent[f] + 1
    BY DEF Pair
  <2> QED
    BY <1>1, <2>1
<1>6. 1..(sent[f] + 1) = 1..sent[f] \cup {sent[f] + 1}
  BY <1>1
<1>7. SentPairs' = UNION {{Pair(g, n) : n \in 1..sent'[g]} : g \in File}
  BY <1>1, <1>2 DEF SentPairs
<1>8. ASSUME NEW p \in SentPairs' PROVE p \in SentPairs \cup {Pair(f, sent[f] + 1)}
  <2>1. PICK g \in File : \E n \in 1..sent'[g] : p = Pair(g, n)
    BY <1>7
  <2>2. PICK n \in 1..sent'[g] : p = Pair(g, n)
    BY <2>1
  <2>3. n \in 1..sent[g] \/ (g = f /\ n = sent[f] + 1)
    BY <1>1, <1>6
  <2> QED
    BY <2>2, <2>3 DEF SentPairs
<1>9. ASSUME NEW p \in SentPairs \cup {Pair(f, sent[f] + 1)} PROVE p \in SentPairs'
  <2>1. CASE p = Pair(f, sent[f] + 1)
    <3>1. sent[f] + 1 \in 1..sent'[f]
      BY <1>1
    <3> QED
      BY <1>7, <2>1, <3>1
  <2>2. CASE p \in SentPairs
    <3>1. PICK g \in File : \E n \in 1..sent[g] : p = Pair(g, n)
      BY <2>2 DEF SentPairs
    <3>2. PICK n \in 1..sent[g] : p = Pair(g, n)
      BY <3>1
    <3>3. n \in 1..sent'[g]
      BY <1>1
    <3> QED
      BY <1>7, <3>2, <3>3
  <2> QED
    BY <2>1, <2>2
<1> QED
  BY <1>4, <1>5, <1>8, <1>9

\* No pair is sent before the handler is called.
LEMMA InitPairsInv == Init => PairsInv
<1> SUFFICES ASSUME Init PROVE PairsInv
  OBVIOUS
<1>1. ToSet(<<>>) = {} /\ IsInjective(<<>>)
  BY DEF ToSet, IsInjective
<1>2. /\ mapChan = <<>> /\ imdKV \in [Reducer -> Seq(Pairs)] /\ \A r \in Reducer : imdKV[r] = <<>>
  BY DEF Init
<1>3. Stored = {}
  BY <1>1, <1>2 DEF Stored
<1>4. SentPairs = {}
  BY DEF Init, SentPairs
<1>5. Followed
  BY <1>1, <1>2, <1>3, <1>4 DEF Followed
<1> QED
  BY <1>5 DEF PairsInv, Ended, Init

\* Every step of Map keeps track of the pairs.
LEMMA StepPairsInv == MapInv /\ PairsInv /\ [MapNext]_vars => PairsInv'
<1> SUFFICES ASSUME MapInv, PairsInv, [MapNext]_vars PROVE PairsInv'
  OBVIOUS
<1>1. emits \in Emissions /\ emits' = emits
  BY DEF MapInv, Typed, MapNext, Handler, Goroutine, Spawn, EnterLoop, ReceiveKV, ReceiveDone, BreakLoop,
         EmitIntermediate, MapfReturns, Report, vars
<1>2. Pairs' = Pairs /\ \A r : PairsOf(r)' = PairsOf(r)
  BY <1>1 DEF Pairs, PairsOf, Pair, File
<1>3. /\ mapChan \in Seq(Pairs) /\ imdKV \in [Reducer -> Seq(Pairs)] /\ IsInjective(mapChan)
      /\ \A r \in Reducer : IsInjective(imdKV[r]) /\ ToSet(imdKV[r]) \subseteq PairsOf(r)
      /\ ToSet(mapChan) \cap Stored = {} /\ ToSet(mapChan) \cup Stored = SentPairs
  BY DEF PairsInv, Followed
<1>4. ASSUME UNCHANGED <<sent, mapChan, imdKV>> PROVE Followed'
  <2>1. SentPairs' = SentPairs /\ Stored' = Stored
    BY <1>1, <1>4 DEF SentPairs, Stored, Pair, File
  <2> QED
    BY <1>2, <1>3, <1>4, <2>1 DEF Followed
<1>5. CASE Spawn \/ EnterLoop \/ ReceiveDone \/ BreakLoop \/ (\E f \in File : MapfReturns(f) \/ Report(f)) \/ UNCHANGED vars
  <2>1. UNCHANGED <<sent, mapChan, imdKV>>
    BY <1>5 DEF Spawn, EnterLoop, ReceiveDone, BreakLoop, MapfReturns, Report, vars
  <2>2. Ended'
    BY <1>5 DEF Spawn, EnterLoop, ReceiveDone, BreakLoop, MapfReturns, Report, vars, PairsInv, Ended
  <2> QED
    BY <1>4, <2>1, <2>2 DEF PairsInv
<1>6. CASE ReceiveKV
  <2> DEFINE p == Head(mapChan)
             r == ReducerForKey[p.kv.key]
  <2>1. /\ mapChan # <<>> /\ mapChan' = Tail(mapChan) /\ imdKV' = [imdKV EXCEPT ![r] = Append(imdKV[r], p)]
        /\ pc' = "loop" /\ sent' = sent
    BY <1>6 DEF ReceiveKV
  <2>2. /\ p \in Pairs /\ Tail(mapChan) \in Seq(Pairs) /\ IsInjective(Tail(mapChan))
        /\ ToSet(mapChan) = ToSet(Tail(mapChan)) \cup {p} /\ p \notin ToSet(Tail(mapChan))
    BY <1>3, <2>1, Taken
  <2>3. r \in Reducer /\ p \in PairsOf(r)
    BY <1>1, <2>2, PairFacts DEF PairsOf
  <2> HIDE DEF p, r
  <2>4. imdKV[r] \in Seq(Pairs) /\ p \notin ToSet(imdKV[r])
    BY <1>3, <2>2, <2>3 DEF Stored
  <2>5. /\ Append(imdKV[r], p) \in Seq(Pairs) /\ IsInjective(Append(imdKV[r], p))
        /\ ToSet(Append(imdKV[r], p)) = ToSet(imdKV[r]) \cup {p}
    BY <1>3, <2>2, <2>3, <2>4, Appended
  <2>6. /\ imdKV' \in [Reducer -> Seq(Pairs)] /\ imdKV'[r] = Append(imdKV[r], p)
        /\ \A q \in Reducer \ {r} : imdKV'[q] = imdKV[q]
    BY <1>3, <2>1, <2>3, <2>5
  <2>7. \A q \in Reducer : IsInjective(imdKV'[q]) /\ ToSet(imdKV'[q]) \subseteq PairsOf(q)
    <3> SUFFICES ASSUME NEW q \in Reducer PROVE IsInjective(imdKV'[q]) /\ ToSet(imdKV'[q]) \subseteq PairsOf(q)
      OBVIOUS
    <3>1. CASE q = r
      BY <1>3, <2>3, <2>5, <2>6, <3>1
    <3>2. CASE q # r
      BY <1>3, <2>6, <3>2
    <3> QED
      BY <3>1, <3>2
  <2>8. Stored' = Stored \cup {p}
    <3>1. Stored' = UNION {ToSet(imdKV'[q]) : q \in Reducer}
      BY DEF Stored, ToSet
    <3>2. \A q \in Reducer : ToSet(imdKV'[q]) = IF q = r THEN ToSet(imdKV[r]) \cup {p} ELSE ToSet(imdKV[q])
      BY <2>5, <2>6
    <3>3. ASSUME NEW x \in Stored' PROVE x \in Stored \cup {p}
      BY <2>3, <3>1, <3>2 DEF Stored
    <3>4. ASSUME NEW x \in Stored \cup {p} PROVE x \in Stored'
      BY <2>3, <3>1, <3>2 DEF Stored
    <3> QED
      BY <3>3, <3>4
  <2>9. SentPairs' = SentPairs
    BY <1>1, <2>1 DEF SentPairs, Pair, File
  <2>10. ToSet(mapChan') \cap Stored' = {} /\ ToSet(mapChan') \cup Stored' = SentPairs'
    BY <1>3, <2>1, <2>2, <2>8, <2>9
  <2>11. Followed'
    <3>1. /\ mapChan' \in Seq(Pairs) /\ IsInjective(mapChan')
      BY <2>1, <2>2
    <3> QED
      BY <1>2, <2>6, <2>7, <2>10, <3>1 DEF Followed
  <2> QED
    BY <2>1, <2>11 DEF PairsInv, Ended
<1>7. ASSUME NEW f \in File, EmitIntermediate(f) PROVE PairsInv'
  <2> DEFINE p == Pair(f, sent[f] + 1)
  <2>1. /\ sent[f] < Len(emits[f]) /\ ~closed /\ mapChan' = Append(mapChan, p)
        /\ sent' = [sent EXCEPT ![f] = sent[f] + 1] /\ UNCHANGED <<pc, closed, imdKV>>
    BY <1>7 DEF EmitIntermediate, Pair
  <2>2. p \in Pairs /\ p \notin SentPairs /\ SentPairs' = SentPairs \cup {p}
    BY <1>1, <2>1, NextPair
  <2> HIDE DEF p
  <2>3. /\ Append(mapChan, p) \in Seq(Pairs) /\ IsInjective(Append(mapChan, p))
        /\ ToSet(Append(mapChan, p)) = ToSet(mapChan) \cup {p}
    BY <1>3, <2>2, Appended
  <2>4. Stored' = Stored
    BY <2>1 DEF Stored
  <2>5. ToSet(mapChan') \cap Stored' = {} /\ ToSet(mapChan') \cup Stored' = SentPairs'
    BY <1>3, <2>1, <2>2, <2>3, <2>4
  <2>6. Followed'
    <3>1. /\ mapChan' \in Seq(Pairs) /\ IsInjective(mapChan')
      BY <2>1, <2>3
    <3> QED
      BY <1>2, <1>3, <2>1, <2>5, <3>1 DEF Followed
  <2> QED
    BY <2>1, <2>6 DEF PairsInv, Ended
<1> QED
  BY <1>5, <1>6, <1>7 DEF MapNext, Handler, Goroutine

\* When Worker.Map leaves its loop, for any number of slices, any Mapf and any
\* capacities of the channels, no pair is lost, doubled or in a wrong partition.
THEOREM PartitionsExactHolds == Spec => []PartitionsExact
<1>1. ReduceInit => PairsInv
  BY InitPairsInv DEF ReduceInit
<1>2. MapInv /\ PairsInv /\ [Next]_allVars => PairsInv'
  BY StepPairsInv, NextOfMap
<1>3. MapInv /\ PairsInv /\ NoSendOnClosed => PartitionsExact
  <2> SUFFICES ASSUME MapInv, PairsInv, NoSendOnClosed, pc = "end", NEW r \in Reducer
               PROVE  IsInjective(imdKV[r]) /\ ToSet(imdKV[r]) = PairsOf(r)
    BY DEF PartitionsExact
  <2>1. \A f \in File : sent[f] = Len(emits[f])
    BY DEF PairsInv, Ended, NoSendOnClosed
  <2>2. SentPairs = Pairs
    BY <2>1 DEF SentPairs, Pairs
  <2>3. ToSet(mapChan) = {}
    BY DEF PairsInv, Ended, ToSet
  <2>4. Stored = Pairs /\ \A q \in Reducer : IsInjective(imdKV[q]) /\ ToSet(imdKV[q]) \subseteq PairsOf(q)
    BY <2>2, <2>3 DEF PairsInv, Followed
  <2>5. ASSUME NEW p \in PairsOf(r) PROVE p \in ToSet(imdKV[r])
    <3>1. p \in Stored /\ ReducerForKey[p.kv.key] = r
      BY <2>4 DEF PairsOf
    <3>2. PICK q \in Reducer : p \in ToSet(imdKV[q])
      BY <3>1 DEF Stored
    <3>3. q = r
      BY <2>4, <3>1, <3>2 DEF PairsOf
    <3> QED
      BY <3>2, <3>3
  <2> QED
    BY <2>4, <2>5
<1> QED
  BY <1>1, <1>2, <1>3, InductiveInvariant, NoSendOnClosedHolds, PTL DEF Spec

-----------------------------------------------------------------------------
(* The intermediate files: induction and recursion up to a number.         *)

\* Induction, with a set in place of a predicate.
LEMMA Induct ==
  ASSUME NEW N \in Nat, NEW S, 0 \in S, \A n \in 1..N : n - 1 \in S => n \in S
  PROVE  \A n \in 0..N : n \in S
<1> DEFINE R == OpToRel(<, Nat)
           T == (0..N) \ S
<1>1. IsWellFoundedOn(R, Nat)
  BY NatLessThanWellFounded
<1> SUFFICES ASSUME T # {} PROVE FALSE
  OBVIOUS
<1>2. PICK x \in T : \A y \in T : ~(<<y, x>> \in R)
  <2>1. T \subseteq Nat
    OBVIOUS
  <2> HIDE DEF R, T
  <2> QED
    BY <1>1, <2>1, WFMin
<1>3. x # 0 /\ x \in 1..N
  OBVIOUS
<1>4. x - 1 \in 0..N /\ x - 1 \in Nat /\ x \in Nat /\ x - 1 < x
  BY <1>3
<1>5. <<x - 1, x>> \in R
  BY <1>4 DEF OpToRel
<1>6. x - 1 \in S
  BY <1>2, <1>4, <1>5
<1> QED
  BY <1>3, <1>6

\* A function may be defined by its first value and by steps from each value to the next.
Recursive(f, N, X, base, step) ==
  f \in [0..N -> X] /\ f[0] = base /\ \A n \in 1..N : f[n] = step[n][f[n - 1]]

\* Such a function exists: recursive definitions on 0..N mean what they say.
LEMMA Recursion ==
  ASSUME NEW N \in Nat, NEW X, NEW base \in X, NEW step \in [1..N -> [X -> X]]
  PROVE  \E f : Recursive(f, N, X, base, step)
<1> DEFINE Good(m) == \E f \in [0..m -> X] : f[0] = base /\ \A n \in 1..m : f[n] = step[n][f[n - 1]]
           S == {m \in 0..N : Good(m)}
<1>1. 0 \in S
  <2> DEFINE f == [n \in 0..0 |-> base]
  <2>1. f \in [0..0 -> X] /\ f[0] = base /\ \A n \in 1..0 : f[n] = step[n][f[n - 1]]
    OBVIOUS
  <2> HIDE DEF f
  <2>2. Good(0)
    BY <2>1
  <2> QED
    BY <2>2
<1>2. ASSUME NEW m \in 1..N, m - 1 \in S PROVE m \in S
  <2>1. PICK f \in [0..(m - 1) -> X] : f[0] = base /\ \A n \in 1..(m - 1) : f[n] = step[n][f[n - 1]]
    BY <1>2
  <2> DEFINE h == [n \in 0..m |-> IF n < m THEN f[n] ELSE step[m][f[m - 1]]]
  <2>2. step[m][f[m - 1]] \in X
    <3>1. f[m - 1] \in X
      OBVIOUS
    <3> QED
      BY <3>1
  <2>3. h \in [0..m -> X] /\ h[0] = base
    BY <2>1, <2>2
  <2>4. ASSUME NEW n \in 1..m PROVE h[n] = step[n][h[n - 1]]
    <3>1. h[n - 1] = f[n - 1]
      OBVIOUS
    <3>2. CASE n < m
      BY <2>1, <3>1, <3>2
    <3>3. CASE n = m
      BY <3>1, <3>3
    <3> QED
      BY <3>2, <3>3
  <2> HIDE DEF h
  <2>5. Good(m)
    BY <2>3, <2>4
  <2>6. m \in 0..N
    OBVIOUS
  <2> HIDE DEF Good
  <2> QED
    BY <2>5, <2>6
<1>3. N \in S
  <2> HIDE DEF S
  <2>1. \A n \in 0..N : n \in S
    BY <1>1, <1>2, Induct
  <2> QED
    BY <2>1
<1> QED
  BY <1>3 DEF Recursive

-----------------------------------------------------------------------------
(* Writing the text.                                                       *)

\* What the writer knows of its text: the first n pairs are in text[n].
IsTextOf(text, kvs) ==
  /\ text \in [0..Len(kvs) -> Text]
  /\ text[0] = <<>>
  /\ \A n \in 1..Len(kvs) : text[n] = text[n - 1] \o LineOf(kvs[n]) \o <<NewLine>>
  /\ encodeIMDKVs(kvs) = text[Len(kvs)]

\* The characters of a text.
LEMMA TextFacts ==
  ASSUME NEW s \in Text
  PROVE  Len(s) \in Nat /\ DOMAIN s = 1..Len(s) /\ \A i \in 1..Len(s) : s[i] \in Char
BY DEF Text

\* A prefix and the element after it.
LEMMA PrefixFacts ==
  ASSUME NEW S, NEW s \in Seq(S)
  PROVE  /\ SubSeq(s, 1, 0) = <<>> /\ SubSeq(s, 1, Len(s)) = s
         /\ \A p \in 0..Len(s) : SubSeq(s, 1, p) \in Seq(S)
         /\ \A p \in 1..Len(s) : Append(SubSeq(s, 1, p - 1), s[p]) = SubSeq(s, 1, p)
<1>1. SubSeq(s, 1, 0) = <<>> /\ SubSeq(s, 1, Len(s)) = s
  OBVIOUS
<1>2. \A p \in 0..Len(s) : SubSeq(s, 1, p) \in Seq(S)
  OBVIOUS
<1>3. ASSUME NEW p \in 1..Len(s) PROVE Append(SubSeq(s, 1, p - 1), s[p]) = SubSeq(s, 1, p)
  OBVIOUS
<1> QED
  BY <1>1, <1>2, <1>3

\* Lines are texts, and so are texts put together.
LEMMA Texts ==
  /\ <<>> \in Text /\ <<Tab>> \in Text /\ <<NewLine>> \in Text
  /\ \A s, t \in Text : s \o t \in Text
  /\ \A kv \in KV : LineOf(kv) \in Text
<1>1. /\ <<>> \in Text /\ <<Tab>> \in Text /\ <<NewLine>> \in Text
      /\ \A s, t \in Text : s \o t \in Text
  <2>1. Tab \in Char /\ NewLine \in Char
    BY DEF Char, Tab, NewLine
  <2> QED
    BY <2>1 DEF Text
<1> QED
  BY <1>1 DEF LineOf, KV

\* The characters of two texts put together.
LEMMA Concat ==
  ASSUME NEW s \in Text, NEW t \in Text
  PROVE  /\ s \o t \in Text /\ Len(s) \in Nat /\ Len(t) \in Nat
         /\ Len(s \o t) = Len(s) + Len(t)
         /\ \A p \in 1..Len(s) : (s \o t)[p] = s[p]
         /\ \A p \in 1..Len(t) : (s \o t)[Len(s) + p] = t[p]
<1>1. s \o t \in Text /\ Len(s) \in Nat /\ Len(t) \in Nat
  BY Texts, TextFacts
<1>2. Len(s \o t) = Len(s) + Len(t)
  BY DEF Text
<1>3. \A p \in 1..Len(s) : (s \o t)[p] = s[p]
  BY DEF Text
<1>4. \A p \in 1..Len(t) : (s \o t)[Len(s) + p] = t[p]
  BY DEF Text
<1> QED
  BY <1>1, <1>2, <1>3, <1>4

\* The loop of encodeIMDKVs.
LEMMA EncodeText ==
  ASSUME NEW kvs \in Seq(KV)
  PROVE  \E text : IsTextOf(text, kvs)
<1> DEFINE N == Len(kvs)
           W(t, n) == t \o LineOf(kvs[n]) \o <<NewLine>>
           step == [n \in 1..N |-> [t \in Text |-> W(t, n)]]
           Eqn(g) == g = [n \in 0..N |-> IF n = 0 THEN <<>> ELSE W(g[n - 1], n)]
<1>1. N \in Nat /\ \A n \in 1..N : kvs[n] \in KV
  OBVIOUS
<1>2. ASSUME NEW t \in Text, NEW n \in 1..N PROVE W(t, n) \in Text
  BY <1>1, Texts
<1>3. step \in [1..N -> [Text -> Text]]
  <2> HIDE DEF W
  <2> QED
    BY <1>2
<1>4. PICK f \in [0..N -> Text] : f[0] = <<>> /\ \A n \in 1..N : f[n] = step[n][f[n - 1]]
  <2> DEFINE base == <<>>
  <2>1. base \in Text /\ N \in Nat
    BY <1>1, Texts
  <2> HIDE DEF step, N, base
  <2>2. \E f : Recursive(f, N, Text, base, step)
    BY <1>3, <2>1, Recursion
  <2> QED
    BY <2>2 DEF base, Recursive
<1>5. Eqn(f)
  <2>1. ASSUME NEW n \in 1..N PROVE f[n] = W(f[n - 1], n)
    <3>1. f[n - 1] \in Text
      BY <1>1
    <3> HIDE DEF W
    <3> QED
      BY <1>4, <3>1
  <2> HIDE DEF W
  <2>2. \A n \in 0..N : n # 0 => n \in 1..N
    OBVIOUS
  <2> QED
    BY <1>1, <1>4, <2>1, <2>2
<1> DEFINE g == CHOOSE g : Eqn(g)
<1>6. Eqn(g)
  BY <1>5
<1>7. encodeIMDKVs(kvs) = g[N]
  BY DEF encodeIMDKVs
<1> HIDE DEF g, W
<1>8. g[0] = <<>> /\ \A n \in 1..N : g[n] = W(g[n - 1], n)
  <2>1. ASSUME NEW n \in 0..N PROVE g[n] = IF n = 0 THEN <<>> ELSE W(g[n - 1], n)
    BY <1>6
  <2> QED
    BY <1>1, <2>1
<1>9. \A n \in 0..N : g[n] \in Text
  <2> DEFINE S == {n \in 0..N : g[n] \in Text}
  <2>1. 0 \in S
    BY <1>1, <1>8, Texts
  <2>2. ASSUME NEW n \in 1..N, n - 1 \in S PROVE n \in S
    BY <1>2, <1>8, <2>2
  <2> HIDE DEF S, N
  <2>3. \A n \in 0..N : n \in S
    BY <1>1, <2>1, <2>2, Induct
  <2> QED
    BY <2>3 DEF S
<1>10. g \in [0..N -> Text]
  <2>1. DOMAIN g = 0..N /\ g = [n \in 0..N |-> g[n]]
    BY <1>6
  <2> QED
    BY <1>9, <2>1
<1> QED
  BY <1>7, <1>8, <1>10 DEF IsTextOf, W

-----------------------------------------------------------------------------
(* Splitting a text.                                                       *)

Parts == {ps \in Seq(Text) : ps # <<>>}

\* parts[n] are the parts of the first n characters of s.
IsSplitOf(parts, s, c) ==
  /\ \A n \in 0..Len(s) : parts[n] \in Parts
  /\ parts[0] = << <<>> >>
  /\ \A n \in 1..Len(s) :
       parts[n] = IF s[n] = c THEN Append(parts[n - 1], <<>>) ELSE Extend(parts[n - 1], s[n])
  /\ Split(s, c) = parts[Len(s)]

\* Another character changes the last part only.
LEMMA ExtendProperties ==
  ASSUME NEW ps \in Parts, NEW b \in Char
  PROVE  /\ Extend(ps, b) \in Parts
         /\ Len(Extend(ps, b)) = Len(ps)
         /\ \A i \in 1..(Len(ps) - 1) : Extend(ps, b)[i] = ps[i]
         /\ Extend(ps, b)[Len(ps)] = Append(ps[Len(ps)], b)
<1>1. ps \in Seq(Text) /\ Len(ps) \in Nat /\ Len(ps) >= 1 /\ ps[Len(ps)] \in Text
  BY DEF Parts
<1>2. Append(ps[Len(ps)], b) \in Text
  BY <1>1 DEF Text
<1> DEFINE t == Append(ps[Len(ps)], b)
           e == [ps EXCEPT ![Len(ps)] = t]
<1>3. Extend(ps, b) = e
  BY <1>1 DEF Extend
<1> HIDE DEF t
<1>4. e \in Seq(Text) /\ Len(e) = Len(ps)
  BY <1>1, <1>2 DEF t
<1>5. e # <<>>
  BY <1>1, <1>4
<1>6. e[Len(ps)] = t /\ \A i \in 1..(Len(ps) - 1) : e[i] = ps[i]
  BY <1>1
<1> QED
  BY <1>3, <1>4, <1>5, <1>6 DEF Parts, t

\* The same for a last part that is named.
LEMMA ExtendAppend ==
  ASSUME NEW ps \in Seq(Text), NEW t \in Text, NEW b \in Char
  PROVE  Extend(Append(ps, t), b) = Append(ps, Append(t, b))
<1> DEFINE q == Append(ps, t)
<1>1. q \in Seq(Text) /\ Len(q) = Len(ps) + 1 /\ Len(ps) \in Nat /\ q[Len(q)] = t
      /\ \A i \in 1..Len(ps) : q[i] = ps[i]
  OBVIOUS
<1>2. Append(t, b) \in Text
  BY DEF Text
<1>3. q \in Parts
  BY <1>1 DEF Parts
<1> HIDE DEF q
<1>4. /\ Extend(q, b) \in Seq(Text) /\ Len(Extend(q, b)) = Len(ps) + 1
      /\ \A i \in 1..Len(ps) : Extend(q, b)[i] = ps[i]
      /\ Extend(q, b)[Len(ps) + 1] = Append(t, b)
  <2>1. Len(q) - 1 = Len(ps)
    BY <1>1
  <2>2. /\ Extend(q, b) \in Parts /\ Len(Extend(q, b)) = Len(q)
        /\ \A i \in 1..(Len(q) - 1) : Extend(q, b)[i] = q[i]
        /\ Extend(q, b)[Len(q)] = Append(q[Len(q)], b)
    BY <1>3, ExtendProperties
  <2> QED
    BY <1>1, <2>1, <2>2 DEF Parts
<1> DEFINE x == Extend(q, b)
           y == Append(ps, Append(t, b))
<1>5. y \in Seq(Text) /\ Len(y) = Len(ps) + 1 /\ y[Len(ps) + 1] = Append(t, b)
      /\ \A i \in 1..Len(ps) : y[i] = ps[i]
  BY <1>1, <1>2
<1> HIDE DEF x, y
<1>6. x = y
  <2>1. \A i \in 1..(Len(ps) + 1) : i \in 1..Len(ps) \/ i = Len(ps) + 1
    BY <1>1
  <2>2. \A i \in 1..(Len(ps) + 1) : x[i] = y[i]
    BY <1>4, <1>5, <2>1 DEF x
  <2> QED
    BY <1>1, <1>4, <1>5, <2>2 DEF x
<1> QED
  BY <1>6 DEF x, y, q

\* The loop of Split.
LEMMA SplitParts ==
  ASSUME NEW s \in Text, NEW c
  PROVE  \E parts : IsSplitOf(parts, s, c)
<1> DEFINE N == Len(s)
           W(ps, n) == IF s[n] = c THEN Append(ps, <<>>) ELSE Extend(ps, s[n])
           step == [n \in 1..N |-> [ps \in Parts |-> W(ps, n)]]
           Eqn(g) == g = [n \in 0..N |-> IF n = 0 THEN << <<>> >> ELSE W(g[n - 1], n)]
<1>1. N \in Nat /\ \A n \in 1..N : s[n] \in Char
  BY TextFacts
<1>0. << <<>> >> \in Parts
  BY Texts DEF Parts
<1>2. ASSUME NEW ps \in Parts, NEW n \in 1..N PROVE W(ps, n) \in Parts
  <2>1. CASE s[n] = c
    <3>1. Append(ps, <<>>) \in Seq(Text) /\ Append(ps, <<>>) # <<>>
      BY Texts DEF Parts
    <3> QED
      BY <2>1, <3>1 DEF Parts
  <2>2. CASE s[n] # c
    BY <1>1, <2>2, ExtendProperties
  <2> QED
    BY <2>1, <2>2
<1>3. step \in [1..N -> [Parts -> Parts]]
  <2> HIDE DEF W
  <2> QED
    BY <1>2
<1>4. PICK f : f \in [0..N -> Parts] /\ f[0] = << <<>> >> /\ \A n \in 1..N : f[n] = step[n][f[n - 1]]
  <2> DEFINE base == << <<>> >>
  <2>1. base \in Parts /\ N \in Nat
    BY <1>0, <1>1
  <2> HIDE DEF step, N, base
  <2>2. \E f : Recursive(f, N, Parts, base, step)
    BY <1>3, <2>1, Recursion
  <2> QED
    BY <2>2 DEF base, Recursive
<1>5. Eqn(f)
  <2>1. ASSUME NEW n \in 1..N PROVE f[n] = W(f[n - 1], n)
    <3>1. f[n - 1] \in Parts
      BY <1>1, <1>4
    <3> HIDE DEF W
    <3> QED
      BY <1>4, <3>1
  <2> HIDE DEF W
  <2>2. \A n \in 0..N : n # 0 => n \in 1..N
    OBVIOUS
  <2> QED
    BY <1>1, <1>4, <2>1, <2>2
<1> DEFINE g == CHOOSE g : Eqn(g)
<1>6. Eqn(g)
  BY <1>5
<1>7. Split(s, c) = g[N]
  BY DEF Split
<1> HIDE DEF g, W
<1>8. g[0] = << <<>> >> /\ \A n \in 1..N : g[n] = W(g[n - 1], n)
  <2>1. ASSUME NEW n \in 0..N PROVE g[n] = IF n = 0 THEN << <<>> >> ELSE W(g[n - 1], n)
    BY <1>6
  <2> QED
    BY <1>1, <2>1
<1>9. \A n \in 0..N : g[n] \in Parts
  <2> DEFINE S == {n \in 0..N : g[n] \in Parts}
  <2>1. 0 \in S
    BY <1>0, <1>1, <1>8
  <2>2. ASSUME NEW n \in 1..N, n - 1 \in S PROVE n \in S
    BY <1>2, <1>8, <2>2
  <2> HIDE DEF S, N
  <2>3. \A n \in 0..N : n \in S
    BY <1>1, <2>1, <2>2, Induct
  <2> QED
    BY <2>3 DEF S
<1> QED
  BY <1>7, <1>8, <1>9 DEF IsSplitOf, W

\* line follows the first a characters of s, and has no separator.
Follows(line, a, s, c) ==
  a + Len(line) <= Len(s) /\ \A p \in 1..Len(line) : s[a + p] = line[p] /\ line[p] # c

\* A stretch of s without separator goes to the part at which it begins.
LEMMA SplitLine ==
  ASSUME NEW s \in Text, NEW c, NEW parts, IsSplitOf(parts, s, c),
         NEW a \in Nat, NEW line \in Text, Follows(line, a, s, c),
         NEW ps \in Seq(Text), parts[a] = Append(ps, <<>>)
  PROVE  parts[a + Len(line)] = Append(ps, line)
<1> DEFINE N == Len(line)
           S == {p \in 0..N : parts[a + p] = Append(ps, SubSeq(line, 1, p))}
<1>1. N \in Nat /\ Len(s) \in Nat /\ \A p \in 1..N : line[p] \in Char
  BY TextFacts
<1>2. 0 \in S
  <2>1. SubSeq(line, 1, 0) = <<>> /\ a + 0 = a
    BY PrefixFacts DEF Text
  <2>2. parts[a + 0] = Append(ps, SubSeq(line, 1, 0))
    BY <2>1
  <2> QED
    BY <1>1, <2>2
<1>3. ASSUME NEW p \in 1..N, p - 1 \in S PROVE p \in S
  <2>1. /\ a + p \in 1..Len(s) /\ (a + p) - 1 = a + (p - 1)
        /\ s[a + p] = line[p] /\ line[p] # c /\ line[p] \in Char
    BY <1>1 DEF Follows
  <2>2. parts[a + p] = Extend(parts[a + (p - 1)], line[p])
    BY <2>1 DEF IsSplitOf
  <2>3. parts[a + (p - 1)] = Append(ps, SubSeq(line, 1, p - 1))
    BY <1>3
  <2>4. SubSeq(line, 1, p - 1) \in Text /\ Append(SubSeq(line, 1, p - 1), line[p]) = SubSeq(line, 1, p)
    BY <1>1, PrefixFacts DEF Text
  <2> HIDE DEF S
  <2>5. Extend(Append(ps, SubSeq(line, 1, p - 1)), line[p]) = Append(ps, SubSeq(line, 1, p))
    <3> DEFINE q == SubSeq(line, 1, p - 1)
               b == line[p]
    <3>1. q \in Text /\ b \in Char /\ Append(q, b) = SubSeq(line, 1, p)
      BY <2>1, <2>4
    <3> HIDE DEF q, b
    <3>2. Extend(Append(ps, q), b) = Append(ps, Append(q, b))
      BY <3>1, ExtendAppend
    <3> QED
      BY <3>1, <3>2 DEF q, b
  <2> QED
    BY <2>2, <2>3, <2>5 DEF S
<1>4. N \in S
  <2>1. \A p \in 0..N : p \in S
    <3> HIDE DEF S, N
    <3> QED
      BY <1>1, <1>2, <1>3, Induct
  <2> QED
    BY <1>1, <2>1
<1>5. SubSeq(line, 1, N) = line
  BY DEF Text
<1> QED
  BY <1>4, <1>5

\* The lines of the first i pairs.
Lines(kvs, i) == [j \in 1..i |-> LineOf(kvs[j])]

\* No line break inside a key or a value.
NoBreaks(kvs) == \A i \in DOMAIN kvs : ~Contains(kvs[i].key, NewLine) /\ ~Contains(kvs[i].value, NewLine)

\* A line is the key, a tab and the value.
LEMMA LineFacts ==
  ASSUME NEW kv \in KV
  PROVE  /\ LineOf(kv) \in Text
         /\ Len(kv.key) \in Nat /\ Len(kv.value) \in Nat
         /\ Len(LineOf(kv)) = Len(kv.key) + 1 + Len(kv.value)
         /\ \A p \in 1..Len(kv.key) : LineOf(kv)[p] = kv.key[p]
         /\ LineOf(kv)[Len(kv.key) + 1] = Tab
         /\ \A p \in 1..Len(kv.value) : LineOf(kv)[Len(kv.key) + 1 + p] = kv.value[p]
<1> DEFINE k == kv.key
           v == kv.value
<1>1. k \in Text /\ v \in Text
  BY DEF KV
<1>2. Len(k) \in Nat /\ Len(v) \in Nat
  BY <1>1, TextFacts
<1> HIDE DEF k, v
<1> DEFINE m == k \o <<Tab>>
<1>3. m \in Text /\ Len(m) = Len(k) + 1 /\ m[Len(k) + 1] = Tab /\ \A p \in 1..Len(k) : m[p] = k[p]
  <2>1. <<Tab>> \in Text /\ Len(<<Tab>>) = 1 /\ <<Tab>>[1] = Tab
    BY Texts
  <2> QED
    BY <1>1, <2>1, Concat
<1> HIDE DEF m
<1>4. m \o v \in Text /\ Len(m \o v) = Len(m) + Len(v)
  BY <1>1, <1>3, Concat
<1>5. /\ \A p \in 1..Len(m) : (m \o v)[p] = m[p]
      /\ \A p \in 1..Len(v) : (m \o v)[Len(m) + p] = v[p]
  BY <1>1, <1>3, Concat
<1>6. LineOf(kv) = m \o v
  BY DEF LineOf, m, k, v
<1>7. \A p \in 1..Len(k) : p \in 1..Len(m)
  BY <1>2, <1>3
<1>8. Len(k) + 1 \in 1..Len(m)
  BY <1>2, <1>3
<1>9. LineOf(kv)[Len(k) + 1] = Tab /\ \A p \in 1..Len(k) : LineOf(kv)[p] = k[p]
  BY <1>3, <1>5, <1>6, <1>7, <1>8
<1>10. \A p \in 1..Len(v) : LineOf(kv)[Len(k) + 1 + p] = v[p]
  BY <1>3, <1>5, <1>6
<1> QED
  BY <1>2, <1>3, <1>4, <1>6, <1>9, <1>10 DEF k, v

\* A line breaks only where its key or value does.
LEMMA LineNoBreak ==
  ASSUME NEW kv \in KV, ~Contains(kv.key, NewLine), ~Contains(kv.value, NewLine)
  PROVE  \A p \in 1..Len(LineOf(kv)) : LineOf(kv)[p] # NewLine
<1> SUFFICES ASSUME NEW p \in 1..Len(LineOf(kv)) PROVE LineOf(kv)[p] # NewLine
  OBVIOUS
<1> DEFINE lk == Len(kv.key)
           lv == Len(kv.value)
<1>1. lk \in Nat /\ lv \in Nat /\ Len(LineOf(kv)) = lk + 1 + lv
  BY LineFacts
<1> HIDE DEF lk, lv
<1>2. CASE p \in 1..lk
  BY <1>2, LineFacts DEF Contains, lk
<1>3. CASE p = lk + 1
  <2>1. LineOf(kv)[lk + 1] = Tab
    BY LineFacts DEF lk
  <2>2. Tab # NewLine
    BY DEF Tab, NewLine
  <2> QED
    BY <1>3, <2>1, <2>2
<1>4. CASE p - (lk + 1) \in 1..lv
  <2>1. LineOf(kv)[lk + 1 + (p - (lk + 1))] = kv.value[p - (lk + 1)]
    BY <1>4, LineFacts DEF lk, lv
  <2>2. lk + 1 + (p - (lk + 1)) = p
    BY <1>1
  <2> QED
    BY <1>4, <2>1, <2>2 DEF Contains, lv
<1> QED
  BY <1>1, <1>2, <1>3, <1>4

\* Where the lines are in the text.
HasLine(text, kvs, i) ==
  /\ kvs[i] \in KV /\ LineOf(kvs[i]) \in Text /\ Len(LineOf(kvs[i])) \in Nat
  /\ text[i] \in Text /\ text[i - 1] \in Text /\ Len(text[i - 1]) \in Nat
  /\ Len(text[i]) = Len(text[i - 1]) + Len(LineOf(kvs[i])) + 1
  /\ \A p \in 1..Len(text[i - 1]) : text[i][p] = text[i - 1][p]
  /\ \A p \in 1..Len(LineOf(kvs[i])) : text[i][Len(text[i - 1]) + p] = LineOf(kvs[i])[p]
  /\ text[i][Len(text[i - 1]) + Len(LineOf(kvs[i])) + 1] = NewLine

\* After the i-th pair its line is at the end of the text.
LEMMA TextLines ==
  ASSUME NEW kvs \in Seq(KV), NEW text, IsTextOf(text, kvs), NEW i \in 1..Len(kvs)
  PROVE  HasLine(text, kvs, i)
<1> DEFINE t == text[i - 1]
           line == LineOf(kvs[i])
           u == t \o line
<1>0. i \in 0..Len(kvs) /\ i - 1 \in 0..Len(kvs)
  OBVIOUS
<1>1. t \in Text /\ line \in Text /\ kvs[i] \in KV /\ text[i] \in Text
  <2>1. kvs[i] \in KV
    OBVIOUS
  <2>2. t \in Text /\ text[i] \in Text
    BY <1>0 DEF IsTextOf
  <2> QED
    BY <2>1, <2>2, Texts
<1>2. text[i] = u \o <<NewLine>>
  BY DEF IsTextOf
<1> HIDE DEF t, line
<1>3. /\ u \in Text /\ Len(t) \in Nat /\ Len(line) \in Nat /\ Len(u) = Len(t) + Len(line)
      /\ \A p \in 1..Len(t) : u[p] = t[p]
      /\ \A p \in 1..Len(line) : u[Len(t) + p] = line[p]
  BY <1>1, Concat
<1> HIDE DEF u
<1> DEFINE nl == <<NewLine>>
<1>4. /\ Len(u \o nl) = Len(u) + 1 /\ (u \o nl)[Len(u) + 1] = NewLine
      /\ \A p \in 1..Len(u) : (u \o nl)[p] = u[p]
  <2>1. nl \in Text /\ Len(nl) = 1 /\ nl[1] = NewLine
    BY Texts
  <2> HIDE DEF nl
  <2>2. /\ Len(u \o nl) = Len(u) + Len(nl)
        /\ \A p \in 1..Len(u) : (u \o nl)[p] = u[p]
        /\ \A p \in 1..Len(nl) : (u \o nl)[Len(u) + p] = nl[p]
    BY <1>3, <2>1, Concat
  <2> QED
    BY <2>1, <2>2
<1>5. /\ \A p \in 1..Len(t) : p \in 1..Len(u)
      /\ \A p \in 1..Len(line) : Len(t) + p \in 1..Len(u)
  BY <1>3
<1>6. /\ \A p \in 1..Len(t) : text[i][p] = t[p]
      /\ \A p \in 1..Len(line) : text[i][Len(t) + p] = line[p]
  BY <1>2, <1>3, <1>4, <1>5
<1>7. Len(text[i]) = Len(t) + Len(line) + 1 /\ text[i][Len(t) + Len(line) + 1] = NewLine
  BY <1>2, <1>3, <1>4
<1> QED
  BY <1>1, <1>3, <1>6, <1>7 DEF t, line, HasLine

\* What was written stays where it is.
LEMMA TextGrows ==
  ASSUME NEW kvs \in Seq(KV), NEW text, IsTextOf(text, kvs)
  PROVE  \A i \in 0..Len(kvs) :
           /\ text[i] \in Text /\ Len(text[i]) \in Nat /\ Len(text[i]) <= Len(text[Len(kvs)])
           /\ \A p \in 1..Len(text[i]) : text[Len(kvs)][p] = text[i][p]
<1> DEFINE N == Len(kvs)
           Grown(i, j) == Len(text[i]) <= Len(text[j]) /\ \A p \in 1..Len(text[i]) : text[j][p] = text[i][p]
           S == {j \in 0..N : \A i \in 0..j : Grown(i, j)}
<1>0. N \in Nat
  OBVIOUS
<1>1. \A i \in 0..N : text[i] \in Text /\ Len(text[i]) \in Nat
  BY TextFacts DEF IsTextOf
<1>2. 0 \in S
  BY <1>0, <1>1
<1>3. ASSUME NEW j \in 1..N, j - 1 \in S PROVE j \in S
  <2> DEFINE len == Len(LineOf(kvs[j]))
             old == Len(text[j - 1])
             new == Len(text[j])
  <2>1. /\ old \in Nat /\ len \in Nat /\ new = old + len + 1
        /\ \A p \in 1..old : text[j][p] = text[j - 1][p]
    <3>1. HasLine(text, kvs, j)
      BY TextLines
    <3> QED
      BY <3>1 DEF HasLine
  <2> HIDE DEF len, old, new
  <2>2. old <= new /\ new \in Nat
    BY <2>1
  <2>3. ASSUME NEW i \in 0..j PROVE Grown(i, j)
    <3>1. CASE i = j
      BY <1>1, <3>1
    <3>2. CASE i \in 0..(j - 1)
      <4> DEFINE m == Len(text[i])
      <4>1. m <= old /\ m \in Nat /\ \A p \in 1..m : text[j - 1][p] = text[i][p]
        BY <1>1, <1>3, <3>2 DEF old
      <4> HIDE DEF m
      <4>2. \A p \in 1..m : p \in 1..old
        BY <2>1, <4>1
      <4>3. m <= new
        BY <2>1, <2>2, <4>1
      <4>4. \A p \in 1..m : text[j][p] = text[i][p]
        BY <2>1, <4>1, <4>2
      <4> QED
        BY <4>3, <4>4 DEF m, new
    <3> QED
      BY <3>1, <3>2
  <2> HIDE DEF Grown
  <2> QED
    BY <2>3
<1>4. N \in S
  <2>1. \A j \in 0..N : j \in S
    <3> HIDE DEF S, N
    <3> QED
      BY <1>0, <1>2, <1>3, Induct
  <2> QED
    BY <1>0, <2>1
<1> QED
  BY <1>1, <1>4

\* Split finds the lines.
LEMMA SplitText ==
  ASSUME NEW kvs \in Seq(KV), NoBreaks(kvs), NEW text, IsTextOf(text, kvs),
         NEW parts, IsSplitOf(parts, text[Len(kvs)], NewLine)
  PROVE  /\ parts[Len(text[Len(kvs)])] = Append(Lines(kvs, Len(kvs)), <<>>)
         /\ kvs # <<>> => parts[Len(text[Len(kvs)]) - 1] = Lines(kvs, Len(kvs))
<1> DEFINE N == Len(kvs)
           s == text[N]
           S == {i \in 0..N : parts[Len(text[i])] = Append(Lines(kvs, i), <<>>)}
<1>0. N \in Nat /\ s \in Text /\ Len(s) \in Nat
  BY TextGrows
<1>1. 0 \in S
  <2>1. text[0] = <<>> /\ parts[0] = << <<>> >>
    BY DEF IsTextOf, IsSplitOf
  <2>2. Lines(kvs, 0) = <<>>
    BY DEF Lines
  <2>3. Len(text[0]) = 0 /\ Append(<<>>, <<>>) = << <<>> >>
    BY <2>1
  <2>4. parts[Len(text[0])] = Append(Lines(kvs, 0), <<>>)
    BY <2>1, <2>2, <2>3
  <2> QED
    BY <1>0, <2>4
<1>2. ASSUME NEW i \in 1..N, i - 1 \in S
      PROVE  /\ parts[Len(text[i]) - 1] = Lines(kvs, i)
             /\ i \in S
  <2> DEFINE a == Len(text[i - 1])
             line == LineOf(kvs[i])
             ps == Lines(kvs, i - 1)
  <2>1. /\ kvs[i] \in KV /\ line \in Text /\ a \in Nat /\ Len(line) \in Nat
        /\ Len(text[i]) = a + Len(line) + 1
        /\ \A p \in 1..Len(line) : text[i][a + p] = line[p]
        /\ text[i][a + Len(line) + 1] = NewLine
    <3>1. HasLine(text, kvs, i)
      BY TextLines
    <3> QED
      BY <3>1 DEF HasLine
  <2>2. Len(text[i]) <= Len(s) /\ \A p \in 1..Len(text[i]) : s[p] = text[i][p]
    BY TextGrows
  <2>3. \A p \in 1..Len(line) : line[p] # NewLine
    BY <2>1, LineNoBreak DEF NoBreaks
  <2>4. ps \in Seq(Text)
    <3>1. \A j \in 1..(i - 1) : LineOf(kvs[j]) \in Text
      BY Texts
    <3>2. i - 1 \in Nat
      OBVIOUS
    <3> QED
      BY <3>1, <3>2 DEF Lines
  <2>5. parts[a] = Append(ps, <<>>)
    BY <1>2
  <2>6. Lines(kvs, i) = Append(ps, line)
    <3> DEFINE x == Lines(kvs, i)
               y == Append(ps, line)
    <3>1. x \in Seq(Text) /\ Len(x) = i
      <4>1. \A j \in 1..i : LineOf(kvs[j]) \in Text
        BY Texts
      <4> QED
        BY <4>1 DEF Lines
    <3>2. y \in Seq(Text) /\ Len(y) = i
      BY <2>1, <2>4 DEF Lines
    <3>3. ASSUME NEW j \in 1..i PROVE x[j] = y[j]
      BY <2>1, <2>4 DEF Lines
    <3> QED
      BY <3>1, <3>2, <3>3
  <2> HIDE DEF a, line, ps, s, S
  <2>7. a + Len(line) <= Len(s)
    BY <1>0, <2>1, <2>2
  <2>8. \A p \in 1..Len(line) : s[a + p] = line[p] /\ line[p] # NewLine
    <3>1. \A p \in 1..Len(line) : a + p \in 1..Len(text[i])
      BY <2>1
    <3> QED
      BY <2>1, <2>2, <2>3, <3>1
  <2>9. IsSplitOf(parts, s, NewLine)
    BY DEF s
  <2>10. parts[a + Len(line)] = Append(ps, line)
    <3>1. Follows(line, a, s, NewLine)
      BY <2>7, <2>8 DEF Follows
    <3> DEFINE nl == NewLine
    <3>2. IsSplitOf(parts, s, nl) /\ Follows(line, a, s, nl)
      BY <2>9, <3>1
    <3> HIDE DEF nl
    <3> QED
      BY <1>0, <2>1, <2>4, <2>5, <3>2, SplitLine
  <2>11. s[a + Len(line) + 1] = NewLine /\ a + Len(line) + 1 \in 1..Len(s)
    BY <1>0, <2>1, <2>2
  <2>12. parts[a + Len(line) + 1] = Append(parts[(a + Len(line) + 1) - 1], <<>>)
    BY <2>9, <2>11 DEF IsSplitOf
  <2>13. (a + Len(line) + 1) - 1 = a + Len(line)
    BY <2>1
  <2>14. Len(text[i]) - 1 = a + Len(line) /\ Len(text[i]) = a + Len(line) + 1 /\ i \in 0..N
    BY <2>1
  <2>15. parts[Len(text[i]) - 1] = Lines(kvs, i)
    BY <2>6, <2>10, <2>14
  <2>16. parts[Len(text[i])] = Append(Lines(kvs, i), <<>>)
    BY <2>6, <2>10, <2>12, <2>13, <2>14
  <2> QED
    BY <2>14, <2>15, <2>16 DEF S
<1>3. \A i \in 0..N : i \in S
  <2> HIDE DEF S, N
  <2> QED
    BY <1>0, <1>1, <1>2, Induct
<1>4. N \in S
  BY <1>0, <1>3
<1>5. kvs # <<>> => parts[Len(s) - 1] = Lines(kvs, N)
  <2> SUFFICES ASSUME kvs # <<>> PROVE parts[Len(s) - 1] = Lines(kvs, N)
    OBVIOUS
  <2>1. N \in 1..N /\ N - 1 \in 0..N
    OBVIOUS
  <2> HIDE DEF S, N
  <2> QED
    BY <1>2, <1>3, <2>1
<1> QED
  BY <1>4, <1>5

-----------------------------------------------------------------------------
(* Trimming.                                                               *)

\* Least and greatest elements.
LEMMA Extremes ==
  ASSUME NEW N \in Nat, NEW S \in SUBSET (1..N), S # {}
  PROVE  /\ Min(S) \in S /\ \A x \in S : Min(S) <= x
         /\ Max(S) \in S /\ \A x \in S : x <= Max(S)
<1> DEFINE R == OpToRel(<, Nat)
<1>0. IsWellFoundedOn(R, Nat)
  BY NatLessThanWellFounded
<1>1. ASSUME NEW T, T \subseteq Nat, T # {} PROVE \E x \in T : \A y \in T : x <= y
  <2>1. PICK x \in T : \A y \in T : ~(<<y, x>> \in R)
    <3> HIDE DEF R
    <3> QED
      BY <1>0, <1>1, WFMin
  <2>2. ASSUME NEW y \in T PROVE x <= y
    <3>1. x \in Nat /\ y \in Nat
      BY <1>1
    <3>2. y < x => <<y, x>> \in R
      BY <3>1 DEF OpToRel
    <3> HIDE DEF R
    <3> QED
      BY <2>1, <3>1, <3>2
  <2> QED
    BY <2>2
<1>2. \E x \in S : \A y \in S : x <= y
  <2>1. S \subseteq Nat
    OBVIOUS
  <2> QED
    BY <1>1, <2>1
<1>3. \E x \in S : \A y \in S : x >= y
  <2> DEFINE T == {N - x : x \in S}
  <2>1. T \subseteq Nat /\ T # {}
    <3>1. \A x \in S : N - x \in Nat
      OBVIOUS
    <3>2. PICK x : x \in S
      OBVIOUS
    <3>3. N - x \in T
      BY <3>2
    <3> QED
      BY <3>1, <3>3
  <2>2. PICK m \in T : \A y \in T : m <= y
    <3> HIDE DEF T
    <3> QED
      BY <1>1, <2>1
  <2>3. PICK x \in S : m = N - x
    OBVIOUS
  <2>4. ASSUME NEW y \in S PROVE x >= y
    <3>1. N - x <= N - y
      BY <2>2, <2>3
    <3>2. x \in Nat /\ y \in Nat
      OBVIOUS
    <3> QED
      BY <3>1, <3>2
  <2> QED
    BY <2>4
<1> DEFINE lo == CHOOSE x \in S : \A y \in S : x <= y
           hi == CHOOSE x \in S : \A y \in S : x >= y
<1>4. lo \in S /\ \A y \in S : lo <= y
  BY <1>2
<1>5. hi \in S /\ \A y \in S : hi >= y
  BY <1>3
<1>6. Min(S) = lo /\ Max(S) = hi
  BY DEF Min, Max
<1> HIDE DEF lo, hi
<1> QED
  BY <1>4, <1>5, <1>6

\* A stretch of a text.
LEMMA Stretch ==
  ASSUME NEW s \in Text, NEW lo \in Nat, NEW hi \in Nat, 1 <= lo, lo <= hi + 1, hi <= Len(s)
  PROVE  /\ SubSeq(s, lo, hi) \in Text /\ Len(SubSeq(s, lo, hi)) = hi - lo + 1
         /\ \A p \in 1..(hi - lo + 1) : SubSeq(s, lo, hi)[p] = s[lo - 1 + p]
<1>1. SubSeq(s, lo, hi) \in Text /\ Len(SubSeq(s, lo, hi)) = hi - lo + 1
  BY DEF Text
<1>2. \A p \in 1..(hi - lo + 1) : SubSeq(s, lo, hi)[p] = s[lo - 1 + p]
  BY DEF Text
<1> QED
  BY <1>1, <1>2

\* The bounds of what TrimSpace leaves.
Bounds(s, lo, hi) ==
  /\ lo \in 1..Len(s) /\ hi \in 1..Len(s) /\ lo <= hi
  /\ s[lo] \notin Blank /\ s[hi] \notin Blank
  /\ \A p \in 1..Len(s) : s[p] \notin Blank => lo <= p /\ p <= hi

\* TrimSpace leaves nothing or what is between the bounds.
LEMMA TrimCases ==
  ASSUME NEW s \in Text
  PROVE  \/ TrimSpace(s) = <<>> /\ \A p \in 1..Len(s) : s[p] \in Blank
         \/ \E lo, hi : Bounds(s, lo, hi) /\ TrimSpace(s) = SubSeq(s, lo, hi)
<1> DEFINE solid == {i \in DOMAIN s : s[i] \notin Blank}
<1>1. Len(s) \in Nat /\ DOMAIN s = 1..Len(s)
  BY TextFacts
<1>2. TrimSpace(s) = IF solid = {} THEN <<>> ELSE SubSeq(s, Min(solid), Max(solid))
  BY DEF TrimSpace
<1>3. solid \in SUBSET (1..Len(s)) /\ \A p \in 1..Len(s) : p \in solid <=> s[p] \notin Blank
  BY <1>1
<1> HIDE DEF solid
<1>4. CASE solid = {}
  BY <1>2, <1>3, <1>4
<1>5. CASE solid # {}
  <2>1. /\ Min(solid) \in solid /\ \A x \in solid : Min(solid) <= x
        /\ Max(solid) \in solid /\ \A x \in solid : x <= Max(solid)
    BY <1>1, <1>3, <1>5, Extremes
  <2>2. Bounds(s, Min(solid), Max(solid))
    BY <1>3, <2>1 DEF Bounds
  <2> QED
    BY <1>2, <1>5, <2>2
<1> QED
  BY <1>4, <1>5

\* The bounds are unique.
LEMMA TrimBounds ==
  ASSUME NEW s \in Text, NEW lo, NEW hi, Bounds(s, lo, hi)
  PROVE  TrimSpace(s) = SubSeq(s, lo, hi)
<1>1. Len(s) \in Nat
  BY TextFacts
<1>2. PICK a, b : Bounds(s, a, b) /\ TrimSpace(s) = SubSeq(s, a, b)
  BY TrimCases DEF Bounds
<1>3. a = lo /\ b = hi
  <2>1. a \in Nat /\ b \in Nat /\ lo \in Nat /\ hi \in Nat
    BY <1>1, <1>2 DEF Bounds
  <2>2. a <= lo /\ lo <= a /\ b <= hi /\ hi <= b
    BY <1>2 DEF Bounds
  <2> QED
    BY <2>1, <2>2
<1> QED
  BY <1>2, <1>3

\* What is trimmed has no blank at its ends: trimming it again, as decodeIMDKVs
\* does, leaves it alone.
LEMMA TrimTwice ==
  ASSUME NEW s \in Text
  PROVE  TrimSpace(s) \in Text /\ TrimSpace(TrimSpace(s)) = TrimSpace(s)
<1>0. Len(s) \in Nat
  BY TextFacts
<1>1. CASE TrimSpace(s) = <<>>
  <2>1. <<>> \in Text /\ Len(<<>>) = 0
    BY Texts
  <2>2. TrimSpace(<<>>) = <<>>
    <3> DEFINE e == <<>>
    <3>1. e \in Text /\ Len(e) = 0
      BY <2>1
    <3> HIDE DEF e
    <3>2. TrimSpace(e) = <<>> \/ \E lo, hi : Bounds(e, lo, hi)
      BY <3>1, TrimCases
    <3>3. \A lo, hi : ~Bounds(e, lo, hi)
      BY <3>1 DEF Bounds
    <3> QED
      BY <3>2, <3>3 DEF e
  <2> QED
    BY <1>1, <2>1, <2>2
<1>2. ASSUME NEW lo, NEW hi, Bounds(s, lo, hi), TrimSpace(s) = SubSeq(s, lo, hi)
      PROVE  TrimSpace(s) \in Text /\ TrimSpace(TrimSpace(s)) = TrimSpace(s)
  <2> DEFINE t == TrimSpace(s)
             n == hi - lo + 1
  <2>1. lo \in Nat /\ hi \in Nat /\ 1 <= lo /\ lo <= hi + 1 /\ hi <= Len(s) /\ n \in Nat /\ 1 <= n
    BY <1>0, <1>2 DEF Bounds
  <2>2. t \in Text /\ Len(t) = n /\ \A p \in 1..n : t[p] = s[lo - 1 + p]
    BY <1>2, <2>1, Stretch
  <2>3. t[1] \notin Blank /\ t[n] \notin Blank
    <3>1. 1 \in 1..n /\ n \in 1..n /\ lo - 1 + 1 = lo /\ lo - 1 + n = hi
      BY <2>1
    <3> QED
      BY <1>2, <2>2, <3>1 DEF Bounds
  <2> HIDE DEF t, n
  <2>4. Bounds(t, 1, n)
    BY <2>1, <2>2, <2>3 DEF Bounds
  <2>5. TrimSpace(t) = SubSeq(t, 1, n)
    BY <2>2, <2>4, TrimBounds
  <2>6. SubSeq(t, 1, Len(t)) = t
    BY <2>2, PrefixFacts DEF Text
  <2> QED
    BY <2>2, <2>5, <2>6 DEF t
<1> QED
  BY <1>1, <1>2, TrimCases

-----------------------------------------------------------------------------
(* The parts of any text.                                                  *)

\* The parts of a prefix of s are those of the loop over s.
LEMMA SplitPrefix ==
  ASSUME NEW s \in Text, NEW c, NEW parts, IsSplitOf(parts, s, c), NEW n \in 0..Len(s)
  PROVE  SubSeq(s, 1, n) \in Text /\ Split(SubSeq(s, 1, n), c) = parts[n]
<1> DEFINE t == SubSeq(s, 1, n)
<1>1. Len(s) \in Nat /\ n \in Nat
  BY TextFacts
<1>2. t \in Text /\ Len(t) = n /\ \A p \in 1..n : t[p] = s[p]
  <2>1. 1 \in Nat /\ 1 <= 1 /\ 1 <= n + 1 /\ n <= Len(s)
    BY <1>1
  <2>2. t \in Text /\ Len(t) = n - 1 + 1 /\ \A p \in 1..(n - 1 + 1) : t[p] = s[1 - 1 + p]
    BY <1>1, <2>1, Stretch
  <2>3. n - 1 + 1 = n /\ \A p \in 1..n : 1 - 1 + p = p
    BY <1>1
  <2> QED
    BY <2>2, <2>3
<1> HIDE DEF t
<1>3. PICK qs : IsSplitOf(qs, t, c)
  BY <1>2, SplitParts
<1> DEFINE S == {m \in 0..n : qs[m] = parts[m]}
<1>4. 0 \in S
  BY <1>1, <1>3 DEF IsSplitOf
<1>5. ASSUME NEW m \in 1..n, m - 1 \in S PROVE m \in S
  <2>1. m \in 1..Len(s) /\ m \in 1..Len(t) /\ t[m] = s[m] /\ qs[m - 1] = parts[m - 1]
    BY <1>1, <1>2, <1>5
  <2>2. qs[m] = IF s[m] = c THEN Append(parts[m - 1], <<>>) ELSE Extend(parts[m - 1], s[m])
    BY <1>3, <2>1 DEF IsSplitOf
  <2>3. parts[m] = IF s[m] = c THEN Append(parts[m - 1], <<>>) ELSE Extend(parts[m - 1], s[m])
    BY <2>1 DEF IsSplitOf
  <2> QED
    BY <2>2, <2>3
<1>6. n \in S
  <2> HIDE DEF S
  <2>1. \A m \in 0..n : m \in S
    BY <1>1, <1>4, <1>5, Induct
  <2> QED
    BY <1>1, <2>1
<1>7. Split(t, c) = qs[n]
  BY <1>2, <1>3 DEF IsSplitOf
<1> QED
  BY <1>2, <1>6, <1>7 DEF t

\* Where the parts of the first n characters begin: one after the other, with a
\* separator between them.  No part holds a separator.
IsLayout(at, ps, n, c) ==
  /\ at \in [1..Len(ps) -> Nat] /\ at[1] = 0
  /\ \A j \in 1..(Len(ps) - 1) : at[j + 1] = at[j] + Len(ps[j]) + 1
  /\ at[Len(ps)] + Len(ps[Len(ps)]) = n
  /\ \A j \in 1..Len(ps) : \A p \in 1..Len(ps[j]) : ps[j][p] # c

\* There is a part, and each is a text.
LEMMA PartsFacts ==
  ASSUME NEW ps \in Parts
  PROVE  /\ Len(ps) \in Nat /\ Len(ps) >= 1
         /\ \A j \in 1..Len(ps) : ps[j] \in Text /\ Len(ps[j]) \in Nat
<1>1. ps \in Seq(Text) /\ Len(ps) \in Nat /\ Len(ps) >= 1 /\ \A j \in 1..Len(ps) : ps[j] \in Text
  BY DEF Parts
<1> QED
  BY <1>1, TextFacts

\* A separator begins a part.
LEMMA LayoutAppend ==
  ASSUME NEW ps \in Parts, NEW n \in Nat, NEW c, NEW at, IsLayout(at, ps, n, c)
  PROVE  \E new : IsLayout(new, Append(ps, <<>>), n + 1, c)
<1> DEFINE K == Len(ps)
           qs == Append(ps, <<>>)
           new == [j \in 1..(K + 1) |-> IF j = K + 1 THEN n + 1 ELSE at[j]]
<1>1. K \in Nat /\ K >= 1 /\ \A j \in 1..K : Len(ps[j]) \in Nat
  BY PartsFacts
<1>2. Len(qs) = K + 1 /\ qs[K + 1] = <<>> /\ (\A j \in 1..K : qs[j] = ps[j])
  <2>1. ps \in Seq(Text) /\ <<>> \in Text
    BY Texts DEF Parts
  <2> QED
    BY <2>1
<1>3. Len(<<>>) = 0
  OBVIOUS
<1> HIDE DEF qs
<1>4. new \in [1..(K + 1) -> Nat] /\ new[1] = 0 /\ new[K + 1] = n + 1 /\ \A j \in 1..K : new[j] = at[j]
  BY <1>1 DEF IsLayout
<1>5. \A j \in 1..K : new[j + 1] = new[j] + Len(ps[j]) + 1
  <2> SUFFICES ASSUME NEW j \in 1..K PROVE new[j + 1] = new[j] + Len(ps[j]) + 1
    OBVIOUS
  <2>1. CASE j = K
    <3>1. at[K] + Len(ps[K]) = n /\ at[K] \in Nat /\ Len(ps[K]) \in Nat /\ new[K] = at[K]
      BY <1>1, <1>4 DEF IsLayout
    <3> QED
      BY <1>4, <2>1, <3>1
  <2>2. CASE j \in 1..(K - 1)
    <3>1. at[j + 1] = at[j] + Len(ps[j]) + 1 /\ j + 1 \in 1..K
      BY <1>1, <2>2 DEF IsLayout
    <3> QED
      BY <1>4, <3>1
  <2> QED
    BY <1>1, <2>1, <2>2
<1> HIDE DEF new
<1>6. \A j \in 1..((K + 1) - 1) : new[j + 1] = new[j] + Len(qs[j]) + 1
  <2>1. (K + 1) - 1 = K
    BY <1>1
  <2> QED
    BY <1>2, <1>5, <2>1
<1>7. \A j \in 1..(K + 1) : \A p \in 1..Len(qs[j]) : qs[j][p] # c
  <2>1. \A j \in 1..(K + 1) : j \in 1..K \/ j = K + 1
    BY <1>1
  <2>2. \A p \in 1..Len(qs[K + 1]) : FALSE
    BY <1>2, <1>3
  <2>3. \A j \in 1..K : \A p \in 1..Len(ps[j]) : ps[j][p] # c
    BY DEF IsLayout
  <2> QED
    BY <1>2, <2>1, <2>2, <2>3
<1>8. new[K + 1] + Len(qs[K + 1]) = n + 1
  BY <1>2, <1>3, <1>4
<1>9. IsLayout(new, qs, n + 1, c)
  BY <1>2, <1>4, <1>6, <1>7, <1>8 DEF IsLayout
<1> QED
  BY <1>9 DEF qs

\* Another character is in the last part.
LEMMA LayoutExtend ==
  ASSUME NEW ps \in Parts, NEW n \in Nat, NEW c, NEW at, IsLayout(at, ps, n, c), NEW b \in Char, b # c
  PROVE  IsLayout(at, Extend(ps, b), n + 1, c)
<1> DEFINE K == Len(ps)
           qs == Extend(ps, b)
<1>1. K \in Nat /\ K >= 1 /\ \A j \in 1..K : ps[j] \in Text /\ Len(ps[j]) \in Nat
  BY PartsFacts
<1>2. Len(qs) = K /\ qs[K] = Append(ps[K], b) /\ (\A j \in 1..(K - 1) : qs[j] = ps[j])
  BY ExtendProperties
<1>3. /\ Len(Append(ps[K], b)) = Len(ps[K]) + 1 /\ Append(ps[K], b)[Len(ps[K]) + 1] = b
      /\ \A p \in 1..Len(ps[K]) : Append(ps[K], b)[p] = ps[K][p]
  <2>1. ps[K] \in Seq(Char)
    BY <1>1 DEF Text
  <2> QED
    BY <2>1
<1> HIDE DEF qs
<1>4. \A j \in 1..(K - 1) : at[j + 1] = at[j] + Len(qs[j]) + 1
  BY <1>2 DEF IsLayout
<1>5. at[K] + Len(qs[K]) = n + 1
  <2>1. at[K] + Len(ps[K]) = n /\ at[K] \in Nat /\ Len(ps[K]) \in Nat
    BY <1>1 DEF IsLayout
  <2> QED
    BY <1>2, <1>3, <2>1
<1>6. ASSUME NEW j \in 1..K, NEW p \in 1..Len(qs[j]) PROVE qs[j][p] # c
  <2>1. CASE j \in 1..(K - 1)
    <3>1. qs[j] = ps[j] /\ j \in 1..K
      BY <1>2, <2>1
    <3> QED
      BY <3>1 DEF IsLayout
  <2>2. CASE j = K
    <3>1. p \in 1..Len(ps[K]) \/ p = Len(ps[K]) + 1
      BY <1>1, <1>2, <1>3, <2>2
    <3>2. K \in 1..K
      BY <1>1
    <3> QED
      BY <1>2, <1>3, <2>2, <3>1, <3>2 DEF IsLayout
  <2> QED
    BY <1>1, <2>1, <2>2
<1>7. IsLayout(at, qs, n + 1, c)
  BY <1>2, <1>4, <1>5, <1>6 DEF IsLayout
<1> QED
  BY <1>7 DEF qs

\* The parts are laid out over the whole text.
LEMMA SplitLayout ==
  ASSUME NEW s \in Text, NEW c
  PROVE  Split(s, c) \in Parts /\ \E at : IsLayout(at, Split(s, c), Len(s), c)
<1>1. PICK parts : IsSplitOf(parts, s, c)
  BY SplitParts
<1> DEFINE N == Len(s)
           S == {n \in 0..N : \E at : IsLayout(at, parts[n], n, c)}
<1>2. N \in Nat /\ (\A n \in 1..N : s[n] \in Char) /\ (\A n \in 0..N : parts[n] \in Parts)
  BY <1>1, TextFacts DEF IsSplitOf
<1>3. 0 \in S
  <2> DEFINE at == [j \in 1..1 |-> 0]
             ps == << <<>> >>
  <2>1. /\ Len(ps) = 1 /\ Len(ps[1]) = 0 /\ at[1] = 0 /\ at \in [1..1 -> Nat]
        /\ (\A j \in 1..1 : j = 1) /\ (\A j \in 1..(1 - 1) : FALSE) /\ (\A p \in 1..0 : FALSE)
    OBVIOUS
  <2> HIDE DEF at, ps
  <2>2. IsLayout(at, ps, 0, c)
    BY <2>1 DEF IsLayout
  <2>3. parts[0] = ps
    BY <1>1 DEF IsSplitOf, ps
  <2> QED
    BY <1>2, <2>2, <2>3
<1>4. ASSUME NEW n \in 1..N, n - 1 \in S PROVE n \in S
  <2>1. n - 1 \in 0..N /\ n - 1 \in Nat /\ (n - 1) + 1 = n /\ n \in 0..N
    BY <1>2
  <2>2. PICK at : IsLayout(at, parts[n - 1], n - 1, c)
    BY <1>4
  <2>3. parts[n] = IF s[n] = c THEN Append(parts[n - 1], <<>>) ELSE Extend(parts[n - 1], s[n])
    BY <1>1 DEF IsSplitOf
  <2> DEFINE ps == parts[n - 1]
             m == n - 1
             b == s[n]
  <2>4. ps \in Parts /\ m \in Nat /\ IsLayout(at, ps, m, c) /\ b \in Char /\ m + 1 = n
    BY <1>2, <2>1, <2>2
  <2> HIDE DEF S, ps, m, b
  <2>5. CASE b = c
    <3>1. \E new : IsLayout(new, Append(ps, <<>>), m + 1, c)
      BY <2>4, LayoutAppend
    <3>2. \E new : IsLayout(new, parts[n], n, c)
      BY <2>3, <2>4, <2>5, <3>1 DEF ps, b
    <3> QED
      BY <2>1, <3>2 DEF S
  <2>6. CASE b # c
    <3>1. IsLayout(at, Extend(ps, b), m + 1, c)
      BY <2>4, <2>6, LayoutExtend
    <3>2. IsLayout(at, parts[n], n, c)
      BY <2>3, <2>4, <2>6, <3>1 DEF ps, b
    <3> QED
      BY <2>1, <3>2 DEF S
  <2> QED
    BY <2>5, <2>6
<1>5. N \in S
  <2> HIDE DEF S, N
  <2>1. \A m \in 0..N : m \in S
    BY <1>2, <1>3, <1>4, Induct
  <2> QED
    BY <1>2, <2>1
<1>6. Split(s, c) = parts[N] /\ N \in 0..N
  BY <1>1, <1>2 DEF IsSplitOf
<1> QED
  BY <1>2, <1>5, <1>6

-----------------------------------------------------------------------------
(* Reading the lines.                                                      *)

\* Encoding one pair more.
LEMMA EncodeAppend ==
  ASSUME NEW kvs \in Seq(KV), NEW kv \in KV
  PROVE  /\ encodeIMDKVs(kvs) \in Text /\ encodeIMDKVs(Append(kvs, kv)) \in Text
         /\ Len(encodeIMDKVs(Append(kvs, kv))) = Len(encodeIMDKVs(kvs)) + Len(LineOf(kv)) + 1
<1> DEFINE q == Append(kvs, kv)
           N == Len(kvs)
<1>1. /\ q \in Seq(KV) /\ N \in Nat /\ Len(q) = N + 1 /\ q[N + 1] = kv
      /\ \A n \in 1..N : q[n] = kvs[n]
  OBVIOUS
<1> HIDE DEF q
<1>2. PICK f : IsTextOf(f, kvs)
  BY EncodeText
<1>3. PICK g : IsTextOf(g, q)
  BY <1>1, EncodeText
<1> DEFINE S == {n \in 0..N : g[n] = f[n]}
<1>4. 0 \in S
  BY <1>1, <1>2, <1>3 DEF IsTextOf
<1>5. ASSUME NEW n \in 1..N, n - 1 \in S PROVE n \in S
  <2>1. n \in 1..Len(kvs) /\ n \in 1..Len(q) /\ q[n] = kvs[n] /\ g[n - 1] = f[n - 1]
    BY <1>1, <1>5
  <2>2. g[n] = f[n - 1] \o LineOf(kvs[n]) \o <<NewLine>>
    BY <1>3, <2>1 DEF IsTextOf
  <2>3. f[n] = f[n - 1] \o LineOf(kvs[n]) \o <<NewLine>>
    BY <1>2, <2>1 DEF IsTextOf
  <2>4. n \in 0..N
    BY <1>1
  <2> QED
    BY <2>2, <2>3, <2>4
<1>6. N \in S
  <2> HIDE DEF S, N
  <2>1. \A m \in 0..N : m \in S
    BY <1>1, <1>4, <1>5, Induct
  <2> QED
    BY <1>1, <2>1
<1>7. encodeIMDKVs(kvs) = f[N] /\ encodeIMDKVs(q) = g[N + 1] /\ f[N] \in Text /\ g[N + 1] \in Text
  <2>1. N \in 0..Len(kvs) /\ N + 1 \in 0..Len(q)
    BY <1>1
  <2>2. encodeIMDKVs(kvs) = f[N] /\ f[N] \in Text
    BY <1>2, <2>1 DEF IsTextOf
  <2>3. encodeIMDKVs(q) = g[Len(q)] /\ g[N + 1] \in Text
    BY <1>3, <2>1 DEF IsTextOf
  <2> QED
    BY <1>1, <2>2, <2>3
<1>8. HasLine(g, q, N + 1)
  <2>1. N + 1 \in 1..Len(q)
    BY <1>1
  <2> DEFINE M == N + 1
  <2>2. M \in 1..Len(q)
    BY <2>1
  <2> HIDE DEF M, S
  <2>3. HasLine(g, q, M)
    BY <1>1, <1>3, <2>2, TextLines
  <2> QED
    BY <2>3 DEF M
<1>9. Len(g[N + 1]) = Len(g[(N + 1) - 1]) + Len(LineOf(q[N + 1])) + 1
  BY <1>8 DEF HasLine
<1>10. (N + 1) - 1 = N
  BY <1>1
<1> QED
  BY <1>1, <1>6, <1>7, <1>9, <1>10 DEF q

\* Without pairs there is no text.
LEMMA EncodeEmpty == encodeIMDKVs(<<>>) = <<>>
<1> DEFINE e == <<>>
<1>1. e \in Seq(KV) /\ Len(e) = 0
  OBVIOUS
<1> HIDE DEF e
<1>2. PICK f : IsTextOf(f, e)
  BY <1>1, EncodeText
<1>3. encodeIMDKVs(e) = <<>>
  BY <1>1, <1>2 DEF IsTextOf
<1> QED
  BY <1>3 DEF e

\* The pair of a line with a tab.
LEMMA KVOfFacts ==
  ASSUME NEW line \in Text, Contains(line, Tab)
  PROVE  /\ KVOf(line) \in KV
         /\ Len(LineOf(KVOf(line))) = Len(line)
         /\ ~Contains(KVOf(line).key, Tab)
         /\ ~Contains(line, NewLine) => ~Contains(KVOf(line).key, NewLine) /\ ~Contains(KVOf(line).value, NewLine)
<1> DEFINE tabs == {i \in DOMAIN line : line[i] = Tab}
           t == Min(tabs)
           k == SubSeq(line, 1, t - 1)
           v == SubSeq(line, t + 1, Len(line))
<1>1. Len(line) \in Nat /\ DOMAIN line = 1..Len(line)
  BY TextFacts
<1>2. tabs \in SUBSET (1..Len(line)) /\ tabs # {}
  BY <1>1 DEF Contains
<1>3. t \in tabs /\ \A x \in tabs : t <= x
  <2> HIDE DEF tabs
  <2> QED
    BY <1>1, <1>2, Extremes
<1>4. t \in 1..Len(line) /\ line[t] = Tab /\ \A p \in 1..Len(line) : line[p] = Tab => t <= p
  BY <1>1, <1>3
<1>5. KVOf(line) = [key |-> k, value |-> v]
  BY DEF KVOf
<1> HIDE DEF t
<1>6. k \in Text /\ Len(k) = t - 1 /\ \A p \in 1..(t - 1) : k[p] = line[p]
  <2> DEFINE h == t - 1
  <2>1. 1 \in Nat /\ h \in Nat /\ 1 <= 1 /\ 1 <= h + 1 /\ h <= Len(line)
    BY <1>1, <1>4
  <2>2. h - 1 + 1 = h /\ \A p \in 1..h : 1 - 1 + p = p
    BY <2>1
  <2> HIDE DEF h
  <2>3. /\ SubSeq(line, 1, h) \in Text /\ Len(SubSeq(line, 1, h)) = h - 1 + 1
        /\ \A p \in 1..(h - 1 + 1) : SubSeq(line, 1, h)[p] = line[1 - 1 + p]
    BY <2>1, Stretch
  <2> QED
    BY <2>2, <2>3 DEF h
<1>7. v \in Text /\ Len(v) = Len(line) - t /\ \A p \in 1..(Len(line) - t) : v[p] = line[t + p]
  <2> DEFINE lo == t + 1
             hi == Len(line)
  <2>1. lo \in Nat /\ hi \in Nat /\ 1 <= lo /\ lo <= hi + 1 /\ hi <= Len(line)
    BY <1>1, <1>4
  <2>2. hi - lo + 1 = Len(line) - t /\ \A p \in 1..(Len(line) - t) : lo - 1 + p = t + p
    BY <1>1, <1>4
  <2> HIDE DEF lo, hi
  <2>3. /\ SubSeq(line, lo, hi) \in Text /\ Len(SubSeq(line, lo, hi)) = hi - lo + 1
        /\ \A p \in 1..(hi - lo + 1) : SubSeq(line, lo, hi)[p] = line[lo - 1 + p]
    BY <2>1, Stretch
  <2> QED
    BY <2>2, <2>3 DEF lo, hi
<1> HIDE DEF k, v
<1>8. KVOf(line) \in KV /\ KVOf(line).key = k /\ KVOf(line).value = v
  BY <1>5, <1>6, <1>7 DEF KV
<1>9. Len(LineOf(KVOf(line))) = Len(line)
  <2>1. Len(LineOf(KVOf(line))) = Len(k) + 1 + Len(v)
    BY <1>8, LineFacts
  <2> QED
    BY <1>1, <1>4, <1>6, <1>7, <2>1
<1>10. ~Contains(k, Tab)
  <2>1. \A p \in 1..(t - 1) : p \in 1..Len(line) /\ ~(t <= p)
    BY <1>1, <1>4
  <2> QED
    BY <1>4, <1>6, <2>1 DEF Contains
<1>11. ASSUME ~Contains(line, NewLine) PROVE ~Contains(k, NewLine) /\ ~Contains(v, NewLine)
  <2>1. \A p \in 1..(t - 1) : p \in 1..Len(line)
    BY <1>1, <1>4
  <2>2. \A p \in 1..(Len(line) - t) : t + p \in 1..Len(line)
    BY <1>1, <1>4
  <2> QED
    BY <1>6, <1>7, <1>11, <2>1, <2>2 DEF Contains
<1> QED
  BY <1>8, <1>9, <1>10, <1>11

\* A line with its key's end at the first tab is read as it was written.
LEMMA KVOfLine ==
  ASSUME NEW kv \in KV, ~Contains(kv.key, Tab)
  PROVE  Contains(LineOf(kv), Tab) /\ KVOf(LineOf(kv)) = kv
<1> DEFINE line == LineOf(kv)
           lk == Len(kv.key)
           lv == Len(kv.value)
           tabs == {i \in DOMAIN line : line[i] = Tab}
<1>1. /\ line \in Text /\ lk \in Nat /\ lv \in Nat /\ Len(line) = lk + 1 + lv
      /\ \A p \in 1..lk : line[p] = kv.key[p]
      /\ line[lk + 1] = Tab
      /\ \A p \in 1..lv : line[lk + 1 + p] = kv.value[p]
  BY LineFacts
<1>2. DOMAIN line = 1..Len(line) /\ kv.key \in Text /\ kv.value \in Text
  BY <1>1, TextFacts DEF KV
<1>3. KVOf(line) = [key |-> SubSeq(line, 1, Min(tabs) - 1), value |-> SubSeq(line, Min(tabs) + 1, Len(line))]
  BY DEF KVOf
<1>0. \A p \in 1..lk : kv.key[p] # Tab
  BY DEF Contains
<1>10. Len(kv.key) = lk /\ Len(kv.value) = lv
  OBVIOUS
<1> HIDE DEF line, lk, lv
<1>4. lk + 1 \in 1..Len(line) /\ Contains(line, Tab)
  BY <1>1 DEF Contains
<1>5. Min(tabs) = lk + 1
  <2>1. tabs \in SUBSET (1..Len(line)) /\ lk + 1 \in tabs /\ Len(line) \in Nat
    BY <1>1, <1>2, <1>4
  <2>2. \A p \in tabs : lk + 1 <= p
    <3> SUFFICES ASSUME NEW p \in tabs, p < lk + 1 PROVE FALSE
      BY <1>1, <2>1
    <3>1. p \in 1..lk /\ line[p] = Tab
      BY <1>1, <2>1
    <3> QED
      BY <1>0, <1>1, <3>1
  <2> HIDE DEF tabs
  <2>3. Min(tabs) \in tabs /\ \A x \in tabs : Min(tabs) <= x
    BY <2>1, Extremes
  <2>4. Min(tabs) \in 1..Len(line) /\ Min(tabs) <= lk + 1 /\ lk + 1 <= Min(tabs)
    BY <2>1, <2>2, <2>3
  <2> DEFINE m == Min(tabs)
  <2> HIDE DEF m
  <2>5. m \in 1..Len(line) /\ m <= lk + 1 /\ lk + 1 <= m
    BY <2>4 DEF m
  <2>6. m = lk + 1
    BY <1>1, <2>5
  <2> QED
    BY <2>6 DEF m
<1> DEFINE k == SubSeq(line, 1, lk)
           v == SubSeq(line, lk + 2, lk + 1 + lv)
<1>6. k = kv.key
  <2>1. 1 \in Nat /\ 1 <= 1 /\ 1 <= lk + 1 /\ lk <= Len(line) /\ lk - 1 + 1 = lk /\ \A p \in 1..lk : 1 - 1 + p = p
    BY <1>1
  <2>2. k \in Text /\ Len(k) = lk - 1 + 1 /\ \A p \in 1..(lk - 1 + 1) : k[p] = line[1 - 1 + p]
    BY <1>1, <2>1, Stretch
  <2> HIDE DEF k
  <2>3. k \in Text /\ Len(k) = lk /\ \A p \in 1..lk : k[p] = kv.key[p]
    BY <1>1, <2>1, <2>2
  <2> QED
    BY <1>10, <1>2, <2>3 DEF Text
<1>7. v = kv.value
  <2> DEFINE lo == lk + 2
             hi == lk + 1 + lv
  <2>1. lo \in Nat /\ hi \in Nat /\ 1 <= lo /\ lo <= hi + 1 /\ hi <= Len(line)
    BY <1>1
  <2>2. hi - lo + 1 = lv /\ \A p \in 1..lv : lo - 1 + p = lk + 1 + p
    BY <1>1
  <2> HIDE DEF lo, hi
  <2>3. /\ SubSeq(line, lo, hi) \in Text /\ Len(SubSeq(line, lo, hi)) = hi - lo + 1
        /\ \A p \in 1..(hi - lo + 1) : SubSeq(line, lo, hi)[p] = line[lo - 1 + p]
    BY <1>1, <2>1, Stretch
  <2>4. v \in Text /\ Len(v) = lv /\ \A p \in 1..lv : v[p] = kv.value[p]
    BY <1>1, <2>2, <2>3 DEF lo, hi
  <2> HIDE DEF v
  <2> QED
    BY <1>10, <1>2, <2>4 DEF Text
<1>8. KVOf(line) = [key |-> k, value |-> v]
  <2>1. (lk + 1) - 1 = lk /\ (lk + 1) + 1 = lk + 2 /\ Len(line) = lk + 1 + lv
    BY <1>1
  <2> QED
    BY <1>3, <1>5, <2>1
<1>9. kv = [key |-> kv.key, value |-> kv.value]
  BY DEF KV
<1> QED
  BY <1>4, <1>6, <1>7, <1>8, <1>9 DEF line

\* What the loop of decodeIMDKVs has after n lines.
IsDecodeOf(out, lines) ==
  /\ \A n \in 0..Len(lines) : out[n] \in Seq(KV)
  /\ out[0] = <<>>
  /\ \A n \in 1..Len(lines) :
       out[n] = IF Contains(lines[n], Tab) THEN Append(out[n - 1], KVOf(lines[n])) ELSE out[n - 1]

\* The loop of decodeIMDKVs.
LEMMA DecodeLoop ==
  ASSUME NEW raw \in Text, NEW lines, lines = Split(TrimSpace(raw), NewLine), lines \in Parts
  PROVE  \E out : IsDecodeOf(out, lines) /\ decodeIMDKVs(raw) = out[Len(lines)]
<1> DEFINE N == Len(lines)
           W(kvs, n) == IF Contains(lines[n], Tab) THEN Append(kvs, KVOf(lines[n])) ELSE kvs
           X == Seq(KV)
           step == [n \in 1..N |-> [kvs \in X |-> W(kvs, n)]]
           Eqn(g) == g = [n \in 0..N |-> IF n = 0 THEN <<>> ELSE W(g[n - 1], n)]
<1>1. N \in Nat /\ \A n \in 1..N : lines[n] \in Text
  BY PartsFacts
<1>2. ASSUME NEW kvs \in X, NEW n \in 1..N PROVE W(kvs, n) \in X
  <2>1. CASE Contains(lines[n], Tab)
    <3>1. KVOf(lines[n]) \in KV
      BY <1>1, <2>1, KVOfFacts
    <3> QED
      BY <2>1, <3>1
  <2> QED
    BY <2>1
<1>3. step \in [1..N -> [X -> X]]
  <2> HIDE DEF W, X
  <2> QED
    BY <1>2
<1>4. PICK f : f \in [0..N -> X] /\ f[0] = <<>> /\ \A n \in 1..N : f[n] = step[n][f[n - 1]]
  <2> DEFINE base == <<>>
  <2>1. base \in X /\ N \in Nat
    BY <1>1
  <2> HIDE DEF step, N, base, X
  <2>2. \E f : Recursive(f, N, X, base, step)
    BY <1>3, <2>1, Recursion
  <2> QED
    BY <2>2 DEF base, Recursive
<1> HIDE DEF X
<1>5. Eqn(f)
  <2>1. ASSUME NEW n \in 1..N PROVE f[n] = W(f[n - 1], n)
    <3>1. f[n - 1] \in X
      BY <1>1, <1>4
    <3> HIDE DEF W
    <3> QED
      BY <1>4, <3>1
  <2> HIDE DEF W
  <2>2. \A n \in 0..N : n # 0 => n \in 1..N
    OBVIOUS
  <2> QED
    BY <1>1, <1>4, <2>1, <2>2
<1> DEFINE g == CHOOSE g : Eqn(g)
<1>6. Eqn(g)
  BY <1>5
<1>7. decodeIMDKVs(raw) = g[N]
  BY DEF decodeIMDKVs
<1> HIDE DEF g, W
<1>8. g[0] = <<>> /\ \A n \in 1..N : g[n] = W(g[n - 1], n)
  <2>1. ASSUME NEW n \in 0..N PROVE g[n] = IF n = 0 THEN <<>> ELSE W(g[n - 1], n)
    BY <1>6
  <2> QED
    BY <1>1, <2>1
<1>9. \A n \in 0..N : g[n] \in X
  <2> DEFINE S == {n \in 0..N : g[n] \in X}
  <2>1. 0 \in S
    <3>1. <<>> \in Seq(KV) /\ 0 \in 0..N
      BY <1>1
    <3> QED
      BY <1>8, <3>1 DEF X
  <2>2. ASSUME NEW n \in 1..N, n - 1 \in S PROVE n \in S
    BY <1>2, <1>8, <2>2
  <2> HIDE DEF S, N
  <2>3. \A n \in 0..N : n \in S
    BY <1>1, <2>1, <2>2, Induct
  <2> QED
    BY <2>3 DEF S
<1>10. IsDecodeOf(g, lines)
  BY <1>8, <1>9 DEF IsDecodeOf, W, X
<1> QED
  BY <1>7, <1>10

\* What decodeIMDKVs makes of the lines of pairs whose keys have no tab.
LEMMA DecodeLines ==
  ASSUME NEW kvs \in Seq(KV), \A i \in DOMAIN kvs : ~Contains(kvs[i].key, Tab),
         NEW out, IsDecodeOf(out, Lines(kvs, Len(kvs)))
  PROVE  out[Len(kvs)] = kvs
<1> DEFINE N == Len(kvs)
           lines == Lines(kvs, N)
           S == {n \in 0..N : out[n] = SubSeq(kvs, 1, n)}
<1>1. N \in Nat /\ DOMAIN kvs = 1..N /\ \A n \in 1..N : kvs[n] \in KV
  OBVIOUS
<1>2. Len(lines) = N /\ \A n \in 1..N : lines[n] = LineOf(kvs[n])
  BY <1>1 DEF Lines
<1>3. /\ SubSeq(kvs, 1, 0) = <<>> /\ SubSeq(kvs, 1, N) = kvs
      /\ \A p \in 1..N : Append(SubSeq(kvs, 1, p - 1), kvs[p]) = SubSeq(kvs, 1, p)
  BY PrefixFacts
<1>4. 0 \in S
  BY <1>1, <1>3 DEF IsDecodeOf
<1>5. ASSUME NEW n \in 1..N, n - 1 \in S PROVE n \in S
  <2>1. Contains(LineOf(kvs[n]), Tab) /\ KVOf(LineOf(kvs[n])) = kvs[n]
    <3> DEFINE kv == kvs[n]
    <3>1. kv \in KV /\ ~Contains(kv.key, Tab)
      BY <1>1
    <3> HIDE DEF kv
    <3>2. Contains(LineOf(kv), Tab) /\ KVOf(LineOf(kv)) = kv
      BY <3>1, KVOfLine
    <3> QED
      BY <3>2 DEF kv
  <2>2. n \in 1..Len(lines) /\ lines[n] = LineOf(kvs[n])
    BY <1>2
  <2> HIDE DEF lines
  <2>3. out[n] = Append(out[n - 1], kvs[n])
    BY <2>1, <2>2 DEF IsDecodeOf, lines
  <2>4. out[n - 1] = SubSeq(kvs, 1, n - 1)
    BY <1>5
  <2>5. n \in 0..N
    BY <1>1
  <2> QED
    BY <1>3, <2>3, <2>4, <2>5
<1>6. N \in S
  <2> HIDE DEF S, N
  <2>1. \A m \in 0..N : m \in S
    BY <1>1, <1>4, <1>5, Induct
  <2> QED
    BY <1>1, <2>1
<1> QED
  BY <1>3, <1>6

\* What decodeIMDKVs returns has no line break inside, and no tab in a key.
LEMMA DecodeClean ==
  ASSUME NEW lines \in Parts, NEW out, IsDecodeOf(out, lines),
         \A j \in 1..Len(lines) : ~Contains(lines[j], NewLine)
  PROVE  \A i \in 1..Len(out[Len(lines)]) :
           /\ ~Contains(out[Len(lines)][i].key, NewLine) /\ ~Contains(out[Len(lines)][i].value, NewLine)
           /\ ~Contains(out[Len(lines)][i].key, Tab)
<1> DEFINE K == Len(lines)
           Clean(kv) == ~Contains(kv.key, NewLine) /\ ~Contains(kv.value, NewLine) /\ ~Contains(kv.key, Tab)
           S == {n \in 0..K : \A i \in 1..Len(out[n]) : Clean(out[n][i])}
<1>1. K \in Nat /\ (\A n \in 1..K : lines[n] \in Text) /\ (\A n \in 0..K : out[n] \in Seq(KV))
  BY PartsFacts DEF IsDecodeOf
<1>2. 0 \in S
  <2>1. out[0] = <<>> /\ Len(<<>>) = 0 /\ 0 \in 0..K /\ \A i \in 1..0 : FALSE
    BY <1>1 DEF IsDecodeOf
  <2> HIDE DEF Clean
  <2> QED
    BY <2>1
<1>3. ASSUME NEW n \in 1..K, n - 1 \in S PROVE n \in S
  <2>1. n \in 0..K /\ n - 1 \in 0..K
    BY <1>1
  <2>2. CASE ~Contains(lines[n], Tab)
    <3>1. out[n] = out[n - 1]
      BY <2>2 DEF IsDecodeOf
    <3> HIDE DEF Clean
    <3> QED
      BY <1>3, <2>1, <3>1
  <2>3. CASE Contains(lines[n], Tab)
    <3> DEFINE kv == KVOf(lines[n])
               old == out[n - 1]
               new == Append(old, kv)
    <3>1. kv \in KV /\ Clean(kv)
      BY <1>1, <2>3, KVOfFacts
    <3>2. out[n] = new /\ old \in Seq(KV)
      BY <1>1, <2>1, <2>3 DEF IsDecodeOf
    <3>3. \A i \in 1..Len(old) : Clean(old[i])
      BY <1>3
    <3> HIDE DEF Clean, kv, old
    <3>4. Len(old) \in Nat /\ Len(new) = Len(old) + 1 /\ new[Len(old) + 1] = kv /\ \A i \in 1..Len(old) : new[i] = old[i]
      BY <3>1, <3>2
    <3> HIDE DEF new
    <3>5. \A i \in 1..(Len(old) + 1) : i \in 1..Len(old) \/ i = Len(old) + 1
      BY <3>4
    <3>6. \A i \in 1..Len(new) : Clean(new[i])
      BY <3>1, <3>3, <3>4, <3>5
    <3> QED
      BY <2>1, <3>2, <3>6
  <2> QED
    BY <2>2, <2>3
<1>4. K \in S
  <2> HIDE DEF S, K
  <2>1. \A m \in 0..K : m \in S
    BY <1>1, <1>2, <1>3, Induct
  <2> QED
    BY <1>1, <2>1
<1> QED
  BY <1>4

\* Nor does it need more text than it was decoded from.
LEMMA DecodeShort ==
  ASSUME NEW lines \in Parts, NEW out, IsDecodeOf(out, lines),
         NEW at, NEW size \in Nat, NEW c, IsLayout(at, lines, size, c)
  PROVE  Len(encodeIMDKVs(out[Len(lines)])) <= size + 1
<1> DEFINE K == Len(lines)
           e == [n \in 0..K |-> IF n = K THEN size + 1 ELSE at[n + 1]]
           len(n) == Len(encodeIMDKVs(out[n]))
           S == {n \in 0..K : len(n) <= e[n]}
<1>1. /\ K \in Nat /\ K >= 1 /\ (\A n \in 1..K : lines[n] \in Text /\ Len(lines[n]) \in Nat)
      /\ (\A n \in 0..K : out[n] \in Seq(KV))
  BY PartsFacts DEF IsDecodeOf
<1>2. e[0] = 0 /\ e[K] = size + 1 /\ \A n \in 1..K : e[n - 1] \in Nat /\ e[n] = e[n - 1] + Len(lines[n]) + 1
  <2>1. 0 # K /\ 0 \in 0..K /\ K \in 0..K /\ 0 + 1 = 1
    BY <1>1
  <2>2. e[0] = 0 /\ e[K] = size + 1
    BY <2>1 DEF IsLayout
  <2>3. ASSUME NEW n \in 1..K PROVE e[n - 1] \in Nat /\ e[n] = e[n - 1] + Len(lines[n]) + 1
    <3>1. n - 1 \in 0..K /\ n - 1 # K /\ n \in 0..K /\ (n - 1) + 1 = n
      BY <1>1
    <3>2. e[n - 1] = at[n] /\ at[n] \in Nat
      BY <3>1 DEF IsLayout
    <3>3. CASE n = K
      <4>1. at[K] + Len(lines[K]) = size /\ at[K] \in Nat /\ Len(lines[K]) \in Nat
        BY <1>1, <3>2, <3>3 DEF IsLayout
      <4> HIDE DEF e
      <4> QED
        BY <2>2, <3>2, <3>3, <4>1
    <3>4. CASE n # K
      <4>1. n \in 1..(K - 1) /\ e[n] = at[n + 1]
        BY <1>1, <3>1, <3>4
      <4>2. at[n + 1] = at[n] + Len(lines[n]) + 1
        BY <4>1 DEF IsLayout
      <4> QED
        BY <3>2, <4>1, <4>2
    <3> QED
      BY <3>3, <3>4
  <2> QED
    BY <2>2, <2>3
<1> HIDE DEF e
<1>3. 0 \in S
  <2>1. out[0] = <<>> /\ Len(<<>>) = 0 /\ 0 \in 0..K
    BY <1>1 DEF IsDecodeOf
  <2>2. len(0) = 0
    BY <2>1, EncodeEmpty
  <2> QED
    BY <1>2, <2>1, <2>2
<1>4. ASSUME NEW n \in 1..K, n - 1 \in S PROVE n \in S
  <2>1. n \in 0..K /\ n - 1 \in 0..K
    BY <1>1
  <2>2. len(n - 1) <= e[n - 1] /\ e[n - 1] \in Nat /\ e[n] = e[n - 1] + Len(lines[n]) + 1 /\ Len(lines[n]) \in Nat
    BY <1>1, <1>2, <1>4
  <2>3. CASE ~Contains(lines[n], Tab)
    <3>1. len(n) = len(n - 1)
      BY <2>3 DEF IsDecodeOf
    <3>2. len(n - 1) \in Nat
      <4> DEFINE q == out[n - 1]
      <4>1. q \in Seq(KV)
        BY <1>1, <2>1
      <4> HIDE DEF q
      <4>2. PICK text : IsTextOf(text, q)
        BY <4>1, EncodeText
      <4>3. encodeIMDKVs(q) \in Text
        BY <4>1, <4>2 DEF IsTextOf
      <4> QED
        BY <4>3, TextFacts DEF q
    <3> HIDE DEF len
    <3>3. len(n) <= e[n]
      BY <2>2, <3>1, <3>2
    <3> QED
      BY <2>1, <3>3
  <2>4. CASE Contains(lines[n], Tab)
    <3> DEFINE kv == KVOf(lines[n])
               q == out[n - 1]
    <3>1. kv \in KV /\ Len(LineOf(kv)) = Len(lines[n]) /\ q \in Seq(KV) /\ out[n] = Append(q, kv)
      BY <1>1, <2>1, <2>4, KVOfFacts DEF IsDecodeOf
    <3>2. len(n - 1) = Len(encodeIMDKVs(q)) /\ len(n) = Len(encodeIMDKVs(Append(q, kv)))
      BY <3>1
    <3> HIDE DEF kv, q, len
    <3>3. encodeIMDKVs(q) \in Text /\ Len(encodeIMDKVs(Append(q, kv))) = Len(encodeIMDKVs(q)) + Len(LineOf(kv)) + 1
      BY <3>1, EncodeAppend
    <3>4. len(n - 1) \in Nat
      BY <3>2, <3>3, TextFacts
    <3>5. len(n) = len(n - 1) + Len(lines[n]) + 1
      BY <3>1, <3>2, <3>3
    <3>6. len(n) <= e[n]
      BY <2>2, <3>4, <3>5
    <3> QED
      BY <2>1, <3>6
  <2> QED
    BY <2>3, <2>4
<1>5. K \in S
  <2> HIDE DEF S, K
  <2>1. \A m \in 0..K : m \in S
    BY <1>1, <1>3, <1>4, Induct
  <2> QED
    BY <1>1, <2>1
<1> QED
  BY <1>2, <1>5

-----------------------------------------------------------------------------
(* There and back.                                                         *)

\* The ends of the text of some pairs: the first key or its tab, the last value or
\* its tab, and a line break.
FirstSolid(kvs) == kvs[1].key # <<>> /\ kvs[1].key[1] \notin Blank
LastSolid(kvs) == Last(kvs).value # <<>> /\ Last(Last(kvs).value) \notin Blank

\* They are solid or blank as the texts of the pairs are.
LEMMA TextEnds ==
  ASSUME NEW kvs \in Seq(KV), kvs # <<>>, NEW s, s = encodeIMDKVs(kvs)
  PROVE  /\ s \in Text /\ Len(s) \in Nat /\ Len(s) >= 2 /\ s[Len(s)] = NewLine
         /\ s[1] \notin Blank <=> FirstSolid(kvs)
         /\ s[Len(s) - 1] \notin Blank <=> LastSolid(kvs)
<1> DEFINE N == Len(kvs)
           a == kvs[1]
           z == kvs[N]
<1>1. PICK text : IsTextOf(text, kvs)
  BY EncodeText
<1>2. N \in Nat /\ 1 \in 1..N /\ N \in 1..N /\ a \in KV /\ z \in KV /\ Last(kvs) = z
  BY DEF Last
<1>3. s = text[N]
  BY <1>1 DEF IsTextOf
<1>4. HasLine(text, kvs, 1) /\ HasLine(text, kvs, N)
  <2> HIDE DEF N
  <2> QED
    BY <1>1, <1>2, TextLines DEF N
<1>5. text[0] = <<>> /\ Len(<<>>) = 0 /\ Len(text[0]) = 0
  BY <1>1 DEF IsTextOf
<1>6. /\ LineOf(a) \in Text /\ Len(a.key) \in Nat /\ Len(a.value) \in Nat
      /\ Len(LineOf(a)) = Len(a.key) + 1 + Len(a.value)
      /\ (\A p \in 1..Len(a.key) : LineOf(a)[p] = a.key[p])
      /\ LineOf(a)[Len(a.key) + 1] = Tab
  <2> HIDE DEF a
  <2> QED
    BY <1>2, LineFacts
<1>7. /\ LineOf(z) \in Text /\ Len(z.key) \in Nat /\ Len(z.value) \in Nat
      /\ Len(LineOf(z)) = Len(z.key) + 1 + Len(z.value)
      /\ LineOf(z)[Len(z.key) + 1] = Tab
      /\ (\A p \in 1..Len(z.value) : LineOf(z)[Len(z.key) + 1 + p] = z.value[p])
  <2> HIDE DEF z
  <2> QED
    BY <1>2, LineFacts
<1>8. Tab \in Blank
  BY DEF Blank
<1>9. a.key \in Text /\ z.value \in Text /\ (a.key # <<>> <=> Len(a.key) > 0) /\ (z.value # <<>> <=> Len(z.value) > 0)
  <2>1. a.key \in Text /\ z.value \in Text
    BY <1>2 DEF KV
  <2>2. \A t \in Text : t # <<>> <=> Len(t) > 0
    BY DEF Text
  <2> QED
    BY <2>1, <2>2
<1>10. /\ text[1] \in Text /\ Len(text[1]) = Len(LineOf(a)) + 1
       /\ \A p \in 1..Len(LineOf(a)) : text[1][p] = LineOf(a)[p]
  <2> DEFINE m == Len(LineOf(a))
  <2>1. /\ text[1] \in Text /\ Len(text[1]) = Len(text[1 - 1]) + m + 1
        /\ \A p \in 1..m : text[1][Len(text[1 - 1]) + p] = LineOf(a)[p]
    BY <1>4 DEF HasLine
  <2>2. m \in Nat
    BY <1>6, TextFacts
  <2>3. Len(text[1 - 1]) = 0
    BY <1>5
  <2> HIDE DEF m
  <2>4. text[1] \in Text /\ Len(text[1]) = 0 + m + 1 /\ \A p \in 1..m : text[1][0 + p] = LineOf(a)[p]
    BY <2>1, <2>3
  <2>5. 0 + m + 1 = m + 1 /\ \A p \in 1..m : 0 + p = p
    BY <2>2
  <2> QED
    BY <2>4, <2>5 DEF m
<1>11. s[1] = LineOf(a)[1]
  <2>1. \A p \in 1..Len(text[1]) : s[p] = text[1][p]
    <3>1. 1 \in 0..Len(kvs)
      BY <1>2
    <3> HIDE DEF N
    <3> QED
      BY <1>1, <1>3, <3>1, TextGrows DEF N
  <2>2. 1 \in 1..Len(LineOf(a)) /\ 1 \in 1..Len(text[1])
    <3> DEFINE k == Len(a.key)
               v == Len(a.value)
               m == Len(LineOf(a))
    <3>1. k \in Nat /\ v \in Nat /\ m = k + 1 + v /\ Len(text[1]) = m + 1
      BY <1>6, <1>10
    <3> HIDE DEF k, v, m
    <3>2. 1 \in 1..m /\ 1 \in 1..(m + 1)
      BY <3>1
    <3> QED
      BY <3>1, <3>2 DEF m
  <2> QED
    BY <1>10, <2>1, <2>2
<1>12. s[1] \notin Blank <=> FirstSolid(kvs)
  <2>1. CASE Len(a.key) = 0
    <3>1. s[1] = Tab
      BY <1>6, <1>11, <2>1
    <3> QED
      BY <1>8, <1>9, <2>1, <3>1 DEF FirstSolid
  <2>2. CASE Len(a.key) > 0
    <3>1. 1 \in 1..Len(a.key)
      BY <1>6, <2>2
    <3>2. s[1] = a.key[1]
      BY <1>6, <1>11, <3>1
    <3> QED
      BY <1>9, <2>2, <3>2 DEF FirstSolid
  <2> QED
    BY <1>6, <2>1, <2>2
<1> DEFINE b == Len(text[N - 1])
           m == Len(LineOf(z))
<1>13. /\ s \in Text /\ b \in Nat /\ m \in Nat /\ Len(s) = b + m + 1
       /\ \A p \in 1..m : s[b + p] = LineOf(z)[p]
       /\ s[b + m + 1] = NewLine
  BY <1>3, <1>4 DEF HasLine
<1> HIDE DEF b, z
<1>14. m >= 1
  <2> DEFINE k == Len(z.key)
             v == Len(z.value)
  <2>1. k \in Nat /\ v \in Nat /\ m = k + 1 + v
    BY <1>7
  <2> HIDE DEF k, v, m
  <2> QED
    BY <2>1
<1> HIDE DEF m
<1>15. Len(s) \in Nat /\ Len(s) >= 2 /\ s[Len(s)] = NewLine /\ Len(s) - 1 = b + m /\ m \in 1..m
  BY <1>13, <1>14
<1>16. s[Len(s) - 1] = LineOf(z)[m]
  BY <1>13, <1>15
<1>17. s[Len(s) - 1] \notin Blank <=> LastSolid(kvs)
  <2> DEFINE v == Len(z.value)
             k == Len(z.key)
  <2>0. /\ v \in Nat /\ k \in Nat /\ m = k + 1 + v /\ LineOf(z)[k + 1] = Tab
        /\ \A p \in 1..v : LineOf(z)[k + 1 + p] = z.value[p]
    BY <1>7 DEF m
  <2>9. LastSolid(kvs) <=> v > 0 /\ z.value[v] \notin Blank
    BY <1>2, <1>9 DEF LastSolid, Last
  <2> HIDE DEF v, k
  <2>1. CASE v = 0
    <3>1. m = k + 1
      BY <2>0, <2>1
    <3> QED
      BY <1>8, <1>16, <2>0, <2>9, <2>1, <3>1
  <2>2. CASE v > 0
    <3>1. v \in 1..v
      BY <2>0, <2>2
    <3>2. LineOf(z)[m] = z.value[v]
      BY <2>0, <3>1
    <3> QED
      BY <1>16, <2>9, <2>2, <3>2
  <2> QED
    BY <2>0, <2>1, <2>2
<1> QED
  BY <1>12, <1>13, <1>15, <1>17

\* Transportable, in these terms.
LEMMA TransportableParts ==
  ASSUME NEW kvs \in Seq(KV)
  PROVE  Transportable(kvs) <=> /\ NoBreaks(kvs)
                                /\ \A i \in DOMAIN kvs : ~Contains(kvs[i].key, Tab)
                                /\ kvs # <<>> => FirstSolid(kvs) /\ LastSolid(kvs)
BY DEF Transportable, NoBreaks, FirstSolid, LastSolid

\* The holder trims, the reducer trims again and decodes.
LEMMA GetDecodes ==
  ASSUME NEW s \in Text, NEW t, t = TrimSpace(s), NEW lines, lines = Split(t, NewLine)
  PROVE  /\ t \in Text /\ lines \in Parts
         /\ \E out : IsDecodeOf(out, lines) /\ GetIMDData(s) = out[Len(lines)]
<1>1. t \in Text /\ TrimSpace(t) = t
  BY TrimTwice
<1>2. lines \in Parts /\ lines = Split(TrimSpace(t), NewLine)
  BY <1>1, SplitLayout
<1>3. PICK out : IsDecodeOf(out, lines) /\ decodeIMDKVs(t) = out[Len(lines)]
  BY <1>1, <1>2, DecodeLoop
<1>4. GetIMDData(s) = decodeIMDKVs(t)
  BY DEF GetIMDData
<1> QED
  BY <1>1, <1>2, <1>3, <1>4

\* An empty file has no pairs.
LEMMA DecodeEmpty == GetIMDData(<<>>) = <<>>
<1> DEFINE e == <<>>
           nl == NewLine
           t == TrimSpace(e)
           lines == Split(t, NewLine)
<1>1. e \in Text /\ Len(e) = 0
  BY Texts
<1> HIDE DEF e
<1>2. t = <<>>
  <2>1. \A lo, hi : ~Bounds(e, lo, hi)
    BY <1>1 DEF Bounds
  <2> QED
    BY <1>1, <2>1, TrimCases
<1>3. t = e
  BY <1>2 DEF e
<1> HIDE DEF t
<1>4. lines = << <<>> >>
  <2>1. PICK parts : IsSplitOf(parts, e, nl)
    <3> HIDE DEF nl
    <3> QED
      BY <1>1, SplitParts
  <2>2. Split(e, NewLine) = << <<>> >>
    BY <1>1, <2>1 DEF IsSplitOf
  <2> QED
    BY <1>3, <2>2
<1> HIDE DEF lines
<1>5. PICK out : IsDecodeOf(out, lines) /\ GetIMDData(e) = out[Len(lines)]
  BY <1>1, GetDecodes DEF t, lines
<1>6. Len(lines) = 1 /\ lines[1] = <<>> /\ ~Contains(<<>>, Tab)
  BY <1>4 DEF Contains
<1>7. 1 \in 1..1 /\ 1 - 1 = 0
  OBVIOUS
<1>8. out[1] = out[0]
  BY <1>5, <1>6, <1>7 DEF IsDecodeOf
<1>9. out[0] = <<>>
  BY <1>5 DEF IsDecodeOf
<1> QED
  BY <1>5, <1>6, <1>8, <1>9 DEF e

\* What is transportable arrives.
LEMMA Arrives ==
  ASSUME NEW kvs \in Seq(KV), Transportable(kvs)
  PROVE  GetIMDData(encodeIMDKVs(kvs)) = kvs
<1>1. CASE kvs = <<>>
  BY <1>1, EncodeEmpty, DecodeEmpty
<1>2. CASE kvs # <<>>
  <2> DEFINE s == encodeIMDKVs(kvs)
             L == Len(s)
             h == L - 1
             t == TrimSpace(s)
             nl == NewLine
             lines == Split(t, NewLine)
  <2>1. /\ s \in Text /\ L \in Nat /\ L >= 2 /\ s[L] = NewLine
        /\ s[1] \notin Blank /\ s[L - 1] \notin Blank
    BY <1>2, TextEnds, TransportableParts
  <2>2. NoBreaks(kvs) /\ \A i \in DOMAIN kvs : ~Contains(kvs[i].key, Tab)
    BY TransportableParts
  <2>3. PICK text : IsTextOf(text, kvs)
    BY EncodeText
  <2>4. s = text[Len(kvs)]
    BY <2>3 DEF IsTextOf
  <2> HIDE DEF s
  <2>5. PICK parts : IsSplitOf(parts, s, nl)
    <3> HIDE DEF nl
    <3> QED
      BY <2>1, SplitParts
  <2>6. parts[h] = Lines(kvs, Len(kvs))
    <3>1. IsSplitOf(parts, text[Len(kvs)], NewLine)
      BY <2>4, <2>5
    <3>2. parts[Len(text[Len(kvs)]) - 1] = Lines(kvs, Len(kvs))
      BY <1>2, <2>2, <2>3, <3>1, SplitText
    <3> QED
      BY <2>4, <3>2
  <2> HIDE DEF L
  <2>7. h \in 1..L /\ h \in 0..L /\ \A p \in 1..L : p = L \/ p <= h
    BY <2>1
  <2>8. NewLine \in Blank
    BY DEF Blank
  <2>9. Bounds(s, 1, h)
    <3>1. 1 \in 1..L /\ 1 <= h /\ \A p \in 1..L : 1 <= p
      BY <2>1
    <3> HIDE DEF h
    <3>2. \A p \in 1..L : s[p] \notin Blank => p <= h
      BY <2>1, <2>7, <2>8
    <3>3. s[h] \notin Blank
      BY <2>1 DEF h
    <3> QED
      BY <2>1, <2>7, <3>1, <3>2, <3>3 DEF Bounds, L
  <2> HIDE DEF h
  <2>10. t = SubSeq(s, 1, h)
    <3> DEFINE one == 1
    <3>1. Bounds(s, one, h)
      BY <2>9
    <3> HIDE DEF one
    <3>2. TrimSpace(s) = SubSeq(s, one, h)
      BY <2>1, <3>1, TrimBounds
    <3> QED
      BY <3>2 DEF one
  <2>11. Split(t, nl) = parts[h]
    <3>1. h \in 0..Len(s)
      BY <2>7 DEF L
    <3> HIDE DEF nl
    <3> QED
      BY <2>1, <2>5, <2>10, <3>1, SplitPrefix
  <2>12. lines = Lines(kvs, Len(kvs))
    BY <2>6, <2>11
  <2> HIDE DEF t, lines
  <2>13. PICK out : IsDecodeOf(out, lines) /\ GetIMDData(s) = out[Len(lines)]
    BY <2>1, GetDecodes DEF t, lines
  <2>14. Len(lines) = Len(kvs)
    BY <2>12 DEF Lines
  <2>15. out[Len(kvs)] = kvs
    BY <2>2, <2>12, <2>13, DecodeLines
  <2> QED
    BY <2>13, <2>14, <2>15 DEF s
<1> QED
  BY <1>1, <1>2

\* What arrives is transportable.
LEMMA Arrived ==
  ASSUME NEW kvs \in Seq(KV), GetIMDData(encodeIMDKVs(kvs)) = kvs
  PROVE  Transportable(kvs)
<1> DEFINE s == encodeIMDKVs(kvs)
           t == TrimSpace(s)
           lines == Split(t, NewLine)
<1>1. s \in Text
  <2>1. PICK text : IsTextOf(text, kvs)
    BY EncodeText
  <2> QED
    BY <2>1 DEF IsTextOf
<1> HIDE DEF s
<1>2. /\ t \in Text /\ lines \in Parts
      /\ \E out : IsDecodeOf(out, lines) /\ GetIMDData(s) = out[Len(lines)]
  <2> DEFINE nl == NewLine
  <2> HIDE DEF t, lines
  <2> QED
    BY <1>1, GetDecodes DEF t, lines
<1>3. PICK out : IsDecodeOf(out, lines) /\ GetIMDData(s) = out[Len(lines)]
  BY <1>2
<1>4. out[Len(lines)] = kvs
  BY <1>3 DEF s
<1>5. PICK at : IsLayout(at, lines, Len(t), NewLine)
  <2> HIDE DEF t
  <2> DEFINE nl == NewLine
  <2> HIDE DEF nl
  <2>1. \E at : IsLayout(at, Split(t, nl), Len(t), nl)
    BY <1>2, SplitLayout
  <2> QED
    BY <2>1 DEF nl
<1> HIDE DEF t, lines
<1>6. NoBreaks(kvs) /\ \A i \in DOMAIN kvs : ~Contains(kvs[i].key, Tab)
  <2>1. \A j \in 1..Len(lines) : ~Contains(lines[j], NewLine)
    BY <1>5 DEF IsLayout, Contains
  <2>2. \A i \in 1..Len(out[Len(lines)]) :
           /\ ~Contains(out[Len(lines)][i].key, NewLine) /\ ~Contains(out[Len(lines)][i].value, NewLine)
           /\ ~Contains(out[Len(lines)][i].key, Tab)
    BY <1>2, <1>3, <2>1, DecodeClean
  <2>3. DOMAIN kvs = 1..Len(kvs)
    OBVIOUS
  <2> QED
    BY <1>4, <2>2, <2>3 DEF NoBreaks
<1>7. ASSUME kvs # <<>> PROVE FirstSolid(kvs) /\ LastSolid(kvs)
  <2> DEFINE L == Len(s)
             n == Len(t)
  <2>1. /\ L \in Nat /\ L >= 2 /\ s[L] = NewLine
        /\ s[1] \notin Blank <=> FirstSolid(kvs)
        /\ s[L - 1] \notin Blank <=> LastSolid(kvs)
    BY <1>7, TextEnds DEF s
  <2>2. L <= n + 1 /\ n \in Nat
    <3>1. n \in Nat
      BY <1>2, TextFacts
    <3>2. Len(encodeIMDKVs(out[Len(lines)])) <= n + 1
      <4> DEFINE nl == NewLine
      <4>1. IsLayout(at, lines, n, nl)
        BY <1>5
      <4> HIDE DEF n, nl
      <4> QED
        BY <1>2, <1>3, <3>1, <4>1, DecodeShort
    <3> QED
      BY <1>4, <3>1, <3>2 DEF s
  <2>3. CASE t = <<>>
    <3>1. n = 0
      BY <2>3
    <3> QED
      BY <2>1, <2>2, <3>1
  <2>4. ASSUME NEW lo, NEW hi, Bounds(s, lo, hi), t = SubSeq(s, lo, hi) PROVE FirstSolid(kvs) /\ LastSolid(kvs)
    <3>1. lo \in Nat /\ hi \in Nat /\ 1 <= lo /\ lo <= hi + 1 /\ hi <= L
      BY <2>1, <2>4 DEF Bounds
    <3>2. n = hi - lo + 1
      BY <1>1, <2>4, <3>1, Stretch
    <3>3. hi # L
      <4>1. NewLine \in Blank
        BY DEF Blank
      <4> QED
        BY <2>1, <2>4, <4>1 DEF Bounds
    <3> HIDE DEF L, n
    <3>4. lo = 1 /\ hi = L - 1
      BY <2>1, <2>2, <3>1, <3>2, <3>3
    <3> QED
      BY <2>1, <2>4, <3>4 DEF Bounds
  <2>5. t = <<>> \/ \E lo, hi : Bounds(s, lo, hi) /\ t = SubSeq(s, lo, hi)
    BY <1>1, TrimCases DEF t
  <2> QED
    BY <2>3, <2>4, <2>5
<1> QED
  BY <1>6, <1>7, TransportableParts

\* For every sequence of pairs: the reducer gets back what the mapper wrote
\* exactly when it is transportable.
THEOREM RoundTrip ==
  \A kvs \in Seq(KV) : GetIMDData(encodeIMDKVs(kvs)) = kvs <=> Transportable(kvs)
BY Arrives, Arrived

-----------------------------------------------------------------------------
(* The order of keys, and counting.                                        *)

\* Of two different keys one is less than the other.
LEMMA LessTotal ==
  ASSUME NEW s \in Text, NEW t \in Text, ~Less(s, t), ~Less(t, s)
  PROVE  s = t
<1> SUFFICES ASSUME s # t PROVE FALSE
  OBVIOUS
<1> DEFINE m == Len(s)
           n == Len(t)
           N == IF m < n THEN n ELSE m
           D == {i \in 1..N : i > m \/ i > n \/ s[i] # t[i]}
           d == Min(D)
<1>1. /\ m \in Nat /\ n \in Nat /\ N \in Nat /\ m <= N /\ n <= N
      /\ (\A i \in 1..m : s[i] \in Nat) /\ (\A i \in 1..n : t[i] \in Nat)
  <2>1. m \in Nat /\ n \in Nat
    BY TextFacts
  <2>2. (\A i \in 1..m : s[i] \in Nat) /\ (\A i \in 1..n : t[i] \in Nat)
    <3>1. Char \subseteq Nat
      BY DEF Char
    <3> QED
      BY <3>1, TextFacts
  <2> HIDE DEF m, n
  <2> QED
    BY <2>1, <2>2
<1>2. \A i \in 1..N : i <= m \/ i <= n
  BY <1>1
<1>3. D # {}
  <2> SUFFICES ASSUME D = {} PROVE FALSE
    OBVIOUS
  <2>1. \A i \in 1..N : i <= m /\ i <= n /\ s[i] = t[i]
    BY <1>1
  <2>2. m = n
    BY <1>1, <2>1
  <2>3. \A i \in 1..m : s[i] = t[i]
    BY <1>1, <2>1
  <2>4. s = t
    BY <2>2, <2>3 DEF Text
  <2> QED
    BY <2>4
<1>4. d \in D /\ \A i \in D : d <= i
  <2>1. D \in SUBSET (1..N)
    OBVIOUS
  <2> HIDE DEF D, N
  <2> QED
    BY <1>1, <1>3, <2>1, Extremes
<1> HIDE DEF d
<1>5. d \in 1..N /\ d \in Nat /\ d >= 1 /\ (d > m \/ d > n \/ s[d] # t[d])
  BY <1>1, <1>4
<1>6. \A j \in 1..(d - 1) : j <= m /\ j <= n /\ s[j] = t[j]
  <2> SUFFICES ASSUME NEW j \in 1..(d - 1) PROVE j <= m /\ j <= n /\ s[j] = t[j]
    OBVIOUS
  <2>1. j \in 1..N /\ ~(d <= j)
    BY <1>1, <1>5
  <2>2. j \notin D
    BY <1>4, <2>1
  <2> QED
    BY <1>1, <2>1, <2>2
<1> HIDE DEF D, N
<1>7. d - 1 <= m /\ d - 1 <= n
  <2>1. CASE d = 1
    BY <1>1, <2>1
  <2>2. CASE d # 1
    <3>1. d - 1 \in 1..(d - 1)
      BY <1>5, <2>2
    <3> QED
      BY <1>6, <3>1
  <2> QED
    BY <2>1, <2>2
<1>8. \A j \in 1..(d - 1) : j <= n /\ t[j] = s[j]
  BY <1>6
<1>9. CASE d > m
  <2>1. m = d - 1 /\ d \in 1..n
    BY <1>1, <1>2, <1>5, <1>7, <1>9
  <2>2. Less(s, t)
    BY <1>6, <2>1 DEF Less
  <2> QED
    BY <2>2
<1>10. CASE d > n
  <2>1. n = d - 1 /\ d \in 1..m
    BY <1>1, <1>2, <1>5, <1>7, <1>10
  <2>2. Less(t, s)
    BY <1>8, <2>1 DEF Less
  <2> QED
    BY <2>2
<1>11. CASE d <= m /\ d <= n
  <2>1. d \in 1..m /\ d \in 1..n /\ s[d] \in Nat /\ t[d] \in Nat /\ s[d] # t[d]
    BY <1>1, <1>5, <1>11
  <2>2. s[d] < t[d] => Less(s, t)
    BY <1>6, <1>11, <2>1 DEF Less
  <2>3. t[d] < s[d] => Less(t, s)
    BY <1>8, <1>11, <2>1 DEF Less
  <2>4. s[d] < t[d] \/ t[d] < s[d]
    BY <2>1
  <2> QED
    BY <2>2, <2>3, <2>4
<1> QED
  BY <1>1, <1>5, <1>9, <1>10, <1>11

\* The places of x in s are finitely many.
Places(s, x) == {i \in DOMAIN s : s[i] = x}

\* They are as many as Count says.
LEMMA CountFinite ==
  ASSUME NEW S, NEW s \in Seq(S), NEW x
  PROVE  /\ IsFiniteSet(Places(s, x)) /\ Count(s, x) = Cardinality(Places(s, x)) /\ Count(s, x) \in Nat
         /\ Count(s, x) = 0 <=> \A i \in DOMAIN s : s[i] # x
<1> DEFINE P == {i \in DOMAIN s : s[i] = x}
<1>1. DOMAIN s = 1..Len(s) /\ Len(s) \in Nat
  OBVIOUS
<1>2. IsFiniteSet(DOMAIN s)
  <2>1. 1 \in Int /\ Len(s) \in Int
    BY <1>1
  <2> QED
    BY <1>1, <2>1, FS_Interval
<1>3. P \in SUBSET (DOMAIN s)
  OBVIOUS
<1>4. IsFiniteSet(P)
  <2> HIDE DEF P
  <2> QED
    BY <1>2, <1>3, FS_Subset
<1>5. Cardinality(P) \in Nat /\ (Cardinality(P) = 0 <=> P = {})
  <2> HIDE DEF P
  <2> QED
    BY <1>4, FS_CardinalityType, FS_EmptySet
<1> QED
  BY <1>4, <1>5 DEF Count, Places

\* Sets with a one to one correspondence have the same size.
LEMMA SameSize ==
  ASSUME NEW S, NEW T, IsFiniteSet(S), NEW f \in [S -> T],
         \A x, y \in S : f[x] = f[y] => x = y,
         \A y \in T : \E x \in S : f[x] = y
  PROVE  IsFiniteSet(T) /\ Cardinality(S) = Cardinality(T)
<1>1. f \in Bijection(S, T)
  BY DEF Bijection, Injection, Surjection, IsInjective
<1> QED
  BY <1>1, FS_Bijection DEF ExistsBijection

\* The count in a concatenation.
LEMMA CountConcat ==
  ASSUME NEW S, NEW s \in Seq(S), NEW t \in Seq(S), NEW x
  PROVE  Count(s \o t, x) = Count(s, x) + Count(t, x)
<1> DEFINE u == s \o t
           m == Len(s)
           n == Len(t)
           A == {i \in DOMAIN s : s[i] = x}
           B == {i \in DOMAIN t : t[i] = x}
           C == {i \in (m + 1)..(m + n) : u[i] = x}
           U == {i \in DOMAIN u : u[i] = x}
<1>1. /\ u \in Seq(S) /\ m \in Nat /\ n \in Nat /\ Len(u) = m + n /\ DOMAIN s = 1..m /\ DOMAIN t = 1..n /\ DOMAIN u = 1..(m + n)
      /\ (\A i \in 1..m : u[i] = s[i]) /\ (\A i \in 1..n : u[m + i] = t[i])
  OBVIOUS
<1>2. IsFiniteSet(A) /\ IsFiniteSet(B) /\ IsFiniteSet(U)
  <2> HIDE DEF u
  <2>1. IsFiniteSet(Places(s, x)) /\ IsFiniteSet(Places(t, x)) /\ IsFiniteSet(Places(u, x))
    BY <1>1, CountFinite
  <2> QED
    BY <2>1 DEF Places
<1> HIDE DEF u, m, n
<1>3. U = A \cup C /\ A \cap C = {}
  BY <1>1
<1>4. IsFiniteSet(C)
  BY <1>2, <1>3, FS_Subset
<1>5. Cardinality(B) = Cardinality(C)
  <2> DEFINE f == [i \in B |-> m + i]
  <2>1. f \in [B -> C]
    BY <1>1
  <2>2. \A i, j \in B : f[i] = f[j] => i = j
    BY <1>1
  <2>3. ASSUME NEW j \in C PROVE \E i \in B : f[i] = j
    <3>1. j - m \in 1..n /\ m + (j - m) = j
      BY <1>1
    <3>2. j - m \in B
      BY <1>1, <3>1
    <3> QED
      BY <3>1, <3>2
  <2> HIDE DEF f, B, C
  <2> QED
    BY <1>2, <2>1, <2>2, <2>3, SameSize
<1>6. Cardinality(U) = Cardinality(A) + Cardinality(C)
  <2>1. Cardinality(A) \in Nat /\ Cardinality(C) \in Nat /\ Cardinality({}) = 0
    BY <1>2, <1>4, FS_CardinalityType, FS_EmptySet
  <2>2. Cardinality(A \cup C) = Cardinality(A) + Cardinality(C) - Cardinality(A \cap C)
    <3> HIDE DEF A, C
    <3> QED
      BY <1>2, <1>4, FS_Union
  <2> DEFINE a == Cardinality(A)
             c == Cardinality(C)
  <2>3. Cardinality(U) = a + c - 0 /\ a \in Nat /\ c \in Nat
    BY <1>3, <2>1, <2>2
  <2> HIDE DEF a, c
  <2>4. Cardinality(U) = a + c
    BY <2>3
  <2> QED
    BY <2>4 DEF a, c
<1> QED
  BY <1>5, <1>6 DEF Count, u

-----------------------------------------------------------------------------
(* The files.                                                              *)

\* The files hold the partitions, which nobody changes any more.
Written ==
  rpc # "mapping" => pc = "end" /\ \A r \in Reducer : imdFile[r] = encodeIMDKVs(KVs(r))

\* The pairs of a partition are pairs of texts.
LEMMA PartitionKVs ==
  ASSUME MapInv, PairsInv, NEW r \in Reducer
  PROVE  /\ KVs(r) \in Seq(KV) /\ imdKV[r] \in Seq(Pairs) /\ DOMAIN KVs(r) = DOMAIN imdKV[r]
         /\ \A i \in DOMAIN imdKV[r] : KVs(r)[i] = imdKV[r][i].kv
<1> DEFINE ps == imdKV[r]
<1>1. ps \in Seq(Pairs) /\ emits \in Emissions
  BY DEF PairsInv, Followed, MapInv, Typed
<1>2. \A p \in Pairs : p.kv \in KV
  <2> SUFFICES ASSUME NEW p \in Pairs PROVE p.kv \in KV
    OBVIOUS
  <2>1. p.file \in File /\ p.n \in 1..Len(emits[p.file]) /\ p = Pair(p.file, p.n)
    BY <1>1, PairFacts
  <2>2. p.kv = emits[p.file][p.n]
    BY <2>1 DEF Pair
  <2>3. p.n \in DOMAIN emits[p.file]
    BY <1>1, <2>1, Numbered
  <2> QED
    BY <1>1, <2>1, <2>2, <2>3, TextsAssumption DEF File
<1>3. DOMAIN ps = 1..Len(ps) /\ Len(ps) \in Nat /\ \A i \in 1..Len(ps) : ps[i] \in Pairs
  BY <1>1
<1>4. KVs(r) = [i \in 1..Len(ps) |-> ps[i].kv]
  BY <1>3 DEF KVs
<1> HIDE DEF ps
<1>5. \A i \in 1..Len(ps) : ps[i].kv \in KV
  BY <1>2, <1>3
<1>6. KVs(r) \in Seq(KV) /\ DOMAIN KVs(r) = 1..Len(ps) /\ \A i \in 1..Len(ps) : KVs(r)[i] = ps[i].kv
  BY <1>3, <1>4, <1>5
<1> QED
  BY <1>1, <1>3, <1>6 DEF ps

\* Once the handler of Map has left its loop the partitions stay.
LEMMA MapEnded ==
  ASSUME pc = "end", [MapNext]_vars
  PROVE  pc' = "end" /\ imdKV' = imdKV /\ emits' = emits
BY DEF MapNext, Handler, Goroutine, Spawn, EnterLoop, ReceiveKV, ReceiveDone, BreakLoop, EmitIntermediate, MapfReturns,
       Report, vars

\* The pairs of a partition depend on the partition only.
LEMMA KVsKept ==
  ASSUME imdKV' = imdKV, NEW r
  PROVE  KVs(r)' = KVs(r)
BY DEF KVs

\* Every step leaves the files alone or writes them.
LEMMA WrittenStep ==
  ASSUME Written, [Next]_allVars
  PROVE  Written'
<1>1. CASE rpc # "mapping"
  <2>1. pc = "end" /\ \A r \in Reducer : imdFile[r] = encodeIMDKVs(KVs(r))
    BY <1>1 DEF Written
  <2>2. pc' = "end" /\ imdKV' = imdKV
    BY <2>1, NextOfMap, MapEnded
  <2>3. imdFile' = imdFile
    BY <1>1 DEF Next, allVars, reduceVars, ReduceNext, WriteIMD, Fetch, Sort, Reducef, WriteOutput, ReduceReturns, Terminated
  <2>4. \A r \in Reducer : imdFile'[r] = encodeIMDKVs(KVs(r)')
    BY <2>1, <2>2, <2>3, KVsKept
  <2> QED
    BY <2>2, <2>4 DEF Written, encodeIMDKVs
<1>2. CASE rpc = "mapping"
  <2>1. CASE WriteIMD
    <3>1. pc' = "end" /\ imdKV' = imdKV /\ imdFile' = [r \in Reducer |-> encodeIMDKVs(KVs(r))]
      BY <2>1 DEF WriteIMD, vars
    <3>2. \A r \in Reducer : imdFile'[r] = encodeIMDKVs(KVs(r)')
      BY <3>1, KVsKept
    <3> QED
      BY <3>1, <3>2 DEF Written, encodeIMDKVs
  <2>2. CASE ~WriteIMD
    <3>1. rpc' = "mapping"
      BY <1>2, <2>2 DEF Next, allVars, reduceVars, ReduceNext, Fetch, Sort, Reducef, WriteOutput, ReduceReturns, Terminated
    <3> QED
      BY <3>1 DEF Written
  <2> QED
    BY <2>1, <2>2
<1> QED
  BY <1>1, <1>2

-----------------------------------------------------------------------------
(* Fetching and sorting.                                                   *)

\* The pairs of both files, as often as they were written.
Fetched ==
  rpc \notin {"mapping", "fetch"} =>
    /\ other \in Seq(KV) /\ imdKVs \in Seq(KV)
    /\ Transportable(KVs(task)) /\ Transportable(other) =>
         \A kv \in KV : Count(imdKVs, kv) = Count(KVs(task), kv) + Count(other, kv)

\* No key is less than one before it.
Reducing == {"reducef", "receive", "full", "done"}
InOrder ==
  rpc \in Reducing =>
    \A j \in 1..Len(imdKVs) : \A i \in 1..(j - 1) : ~Less(imdKVs[j].key, imdKVs[i].key)

\* Nothing is reduced before.
Beginning == rpc \in {"mapping", "fetch", "sort"} => next = 1 /\ reduceChan = <<>> /\ ofile = <<>>

\* Whatever is decoded, it is pairs of texts.
LEMMA Decoded ==
  ASSUME NEW kvs \in Seq(KV)
  PROVE  GetIMDData(encodeIMDKVs(kvs)) \in Seq(KV)
<1> DEFINE s == encodeIMDKVs(kvs)
           t == TrimSpace(s)
           lines == Split(t, NewLine)
<1>1. s \in Text
  <2>1. PICK text : IsTextOf(text, kvs)
    BY EncodeText
  <2> QED
    BY <2>1 DEF IsTextOf
<1> HIDE DEF s, t, lines
<1>2. /\ lines \in Parts
      /\ \E out : IsDecodeOf(out, lines) /\ GetIMDData(s) = out[Len(lines)]
  BY <1>1, GetDecodes DEF t, lines
<1>3. PICK out : IsDecodeOf(out, lines) /\ GetIMDData(s) = out[Len(lines)]
  BY <1>2
<1>4. Len(lines) \in 0..Len(lines)
  BY <1>2, PartsFacts
<1> QED
  BY <1>3, <1>4 DEF IsDecodeOf, s

\* Fetch gets the pairs of both files.
LEMMA FetchFetches ==
  ASSUME MapInv, PairsInv, Written, task \in Reducer, Fetch
  PROVE  Fetched'
<1>1. PICK o \in Others : other' = o /\ imdKVs' = GetIMDData(imdFile[task]) \o GetIMDData(encodeIMDKVs(o))
  BY DEF Fetch
<1>2. UNCHANGED <<task, imdKV>> /\ rpc = "fetch"
  BY DEF Fetch, vars
<1> DEFINE mine == KVs(task)
           a == GetIMDData(encodeIMDKVs(mine))
           b == GetIMDData(encodeIMDKVs(o))
<1>3. mine \in Seq(KV) /\ o \in Seq(KV) /\ imdFile[task] = encodeIMDKVs(mine)
  BY <1>2, PartitionKVs, TextsAssumption DEF Written
<1>4. a \in Seq(KV) /\ b \in Seq(KV)
  <2> HIDE DEF mine
  <2> QED
    BY <1>3, Decoded
<1>5. imdKVs' = a \o b
  BY <1>1, <1>3
<1>6. Transportable(mine) => a = mine
  <2> HIDE DEF mine
  <2> QED
    BY <1>3, RoundTrip
<1>7. Transportable(o) => b = o
  BY <1>3, RoundTrip
<1> HIDE DEF a, b, mine
<1>8. imdKVs' \in Seq(KV)
  BY <1>4, <1>5
<1>9. ASSUME Transportable(mine), Transportable(o), NEW kv \in KV
      PROVE  Count(imdKVs', kv) = Count(mine, kv) + Count(o, kv)
  <2>1. Count(a \o b, kv) = Count(a, kv) + Count(b, kv)
    BY <1>4, CountConcat
  <2> QED
    BY <1>5, <1>6, <1>7, <1>9, <2>1
<1>10. KVs(task)' = mine /\ other' = o
  BY <1>1, <1>2 DEF KVs, mine
<1> QED
  BY <1>3, <1>8, <1>9, <1>10 DEF Fetched

\* Sorting keeps the pairs.
LEMMA SortedKeeps ==
  ASSUME NEW kvs \in Seq(KV), NEW s \in Sorted(kvs)
  PROVE  /\ s \in Seq(KV) /\ Len(s) = Len(kvs)
         /\ \A kv \in KV : Count(s, kv) = Count(kvs, kv)
         /\ \A j \in 1..Len(s) : \A i \in 1..(j - 1) : ~Less(s[j].key, s[i].key)
<1>1. /\ s \in [DOMAIN kvs -> ToSet(kvs)]
      /\ \A j \in DOMAIN s : \A i \in 1..(j - 1) : ~Less(s[j].key, s[i].key)
      /\ \A kv \in ToSet(kvs) : Count(s, kv) = Count(kvs, kv)
  BY DEF Sorted
<1>2. DOMAIN kvs = 1..Len(kvs) /\ Len(kvs) \in Nat /\ \A kv \in ToSet(kvs) : kv \in KV
  BY DEF ToSet
<1>3. s \in [1..Len(kvs) -> KV]
  BY <1>1, <1>2
<1>4. s \in Seq(KV) /\ Len(s) = Len(kvs) /\ DOMAIN s = 1..Len(kvs)
  BY <1>2, <1>3
<1>5. ASSUME NEW kv \in KV PROVE Count(s, kv) = Count(kvs, kv)
  <2>1. CASE kv \in ToSet(kvs)
    BY <1>1, <2>1
  <2>2. CASE kv \notin ToSet(kvs)
    <3>1. \A i \in DOMAIN kvs : kvs[i] # kv
      BY <2>2 DEF ToSet
    <3>2. \A i \in DOMAIN s : s[i] # kv
      BY <1>1, <2>2
    <3>3. Count(kvs, kv) = 0
      BY <3>1, CountFinite
    <3>4. Count(s, kv) = 0
      BY <1>4, <3>2, CountFinite
    <3> QED
      BY <3>3, <3>4
  <2> QED
    BY <2>1, <2>2
<1> QED
  BY <1>1, <1>4, <1>5

-----------------------------------------------------------------------------
(* The groups.                                                             *)

\* Between two pairs of one key there are only pairs of that key.
LEMMA Contiguous ==
  ASSUME NEW kvs \in Seq(KV),
         \A j \in 1..Len(kvs) : \A i \in 1..(j - 1) : ~Less(kvs[j].key, kvs[i].key),
         NEW i \in 1..Len(kvs), NEW j \in 1..Len(kvs), NEW k \in 1..Len(kvs), i < j, j < k,
         kvs[i].key = kvs[k].key
  PROVE  kvs[j].key = kvs[i].key
<1>1. i \in 1..(j - 1) /\ j \in 1..(k - 1)
  OBVIOUS
<1>2. kvs[i].key \in Text /\ kvs[j].key \in Text
  <2>1. kvs[i] \in KV /\ kvs[j] \in KV
    OBVIOUS
  <2> QED
    BY <2>1 DEF KV
<1>3. ~Less(kvs[j].key, kvs[i].key) /\ ~Less(kvs[i].key, kvs[j].key)
  BY <1>1
<1> DEFINE a == kvs[i].key
           b == kvs[j].key
<1> HIDE DEF a, b
<1>4. a \in Text /\ b \in Text /\ ~Less(b, a) /\ ~Less(a, b)
  BY <1>2, <1>3 DEF a, b
<1>5. b = a
  BY <1>4, LessTotal
<1> QED
  BY <1>5 DEF a, b

\* n and end are the bounds of the group of n's key.
IsGroup(kvs, n, end) ==
  /\ end \in (n + 1)..(Len(kvs) + 1)
  /\ \A i \in 1..Len(kvs) : kvs[i].key = kvs[n].key <=> n <= i /\ i < end

\* The pairs before n and those from n on have no key in common.
Apart(kvs, n) == \A i \in 1..(n - 1) : \A j \in n..Len(kvs) : kvs[i].key # kvs[j].key

\* The handler finds the group at next.
LEMMA GroupFound ==
  ASSUME imdKVs \in Seq(KV), next \in 1..Len(imdKVs),
         \A j \in 1..Len(imdKVs) : \A i \in 1..(j - 1) : ~Less(imdKVs[j].key, imdKVs[i].key),
         Apart(imdKVs, next)
  PROVE  IsGroup(imdKVs, next, GroupEnd)
<1> DEFINE L == Len(imdKVs)
           E == {j \in (next + 1)..(L + 1) : j > L \/ imdKVs[j].key # imdKVs[next].key}
           end == Min(E)
<1>1. L \in Nat /\ next \in Nat /\ 1 <= next /\ next <= L
  OBVIOUS
<1>2. E \in SUBSET (1..(L + 1)) /\ L + 1 \in Nat /\ E # {}
  <2>1. L + 1 \in E
    BY <1>1
  <2> QED
    BY <1>1, <2>1
<1>3. end \in E /\ \A j \in E : end <= j
  <2> DEFINE M == L + 1
  <2>1. E \in SUBSET (1..M) /\ M \in Nat
    BY <1>2
  <2> HIDE DEF E, M
  <2> QED
    BY <1>2, <2>1, Extremes
<1>4. GroupEnd = end
  BY DEF GroupEnd
<1> HIDE DEF end
<1>5. end \in (next + 1)..(L + 1) /\ (end > L \/ imdKVs[end].key # imdKVs[next].key)
  BY <1>3
<1>6. \A j \in (next + 1)..(end - 1) : imdKVs[j].key = imdKVs[next].key
  <2> SUFFICES ASSUME NEW j \in (next + 1)..(end - 1) PROVE imdKVs[j].key = imdKVs[next].key
    OBVIOUS
  <2>1. j \in (next + 1)..(L + 1) /\ ~(j > L) /\ ~(end <= j)
    BY <1>1, <1>5
  <2> QED
    BY <1>3, <2>1
<1> HIDE DEF E, L
<1>7. ASSUME NEW i \in 1..L, next <= i, i < end PROVE imdKVs[i].key = imdKVs[next].key
  <2>1. i = next \/ i \in (next + 1)..(end - 1)
    BY <1>1, <1>5, <1>7
  <2> QED
    BY <1>6, <2>1
<1>8. ASSUME NEW i \in 1..L, i < next PROVE imdKVs[i].key # imdKVs[next].key
  <2>1. i \in 1..(next - 1) /\ next \in next..L
    BY <1>1, <1>8
  <2> QED
    BY <2>1 DEF Apart, L
<1>9. ASSUME NEW i \in 1..L, end <= i PROVE imdKVs[i].key # imdKVs[next].key
  <2> SUFFICES ASSUME imdKVs[i].key = imdKVs[next].key PROVE FALSE
    OBVIOUS
  <2>1. end \in 1..L /\ next \in 1..L /\ next < end
    BY <1>1, <1>5, <1>9
  <2>2. imdKVs[end].key # imdKVs[next].key
    BY <1>1, <1>5, <2>1
  <2>3. end # i /\ end < i
    BY <1>1, <1>9, <2>1, <2>2
  <2>4. imdKVs[end].key = imdKVs[next].key
    <3> DEFINE kvs == imdKVs
    <3>1. /\ kvs \in Seq(KV) /\ (\A j \in 1..Len(kvs) : \A p \in 1..(j - 1) : ~Less(kvs[j].key, kvs[p].key))
          /\ next \in 1..Len(kvs) /\ end \in 1..Len(kvs) /\ i \in 1..Len(kvs) /\ kvs[next].key = kvs[i].key
      BY <2>1 DEF L
    <3> QED
      BY <2>1, <2>3, <3>1, Contiguous
  <2> QED
    BY <2>2, <2>4
<1>10. \A i \in 1..L : imdKVs[i].key = imdKVs[next].key <=> next <= i /\ i < end
  <2>1. \A i \in 1..L : i < next \/ end <= i \/ (next <= i /\ i < end)
    BY <1>1, <1>5
  <2>2. \A i \in 1..L : ~(i < next /\ next <= i) /\ ~(end <= i /\ i < end)
    BY <1>1, <1>5
  <2> QED
    BY <1>7, <1>8, <1>9, <2>1, <2>2
<1> QED
  BY <1>4, <1>5, <1>10 DEF IsGroup, L

\* The values of a group are those of its key, as often.
ValuesOf(kvs, n, end) == [i \in 1..(end - n) |-> kvs[n + i - 1].value]

\* Reducef is called with all values of the key.
LEMMA GroupValues ==
  ASSUME NEW kvs \in Seq(KV), NEW n \in 1..Len(kvs), NEW end, IsGroup(kvs, n, end)
  PROVE  /\ ValuesOf(kvs, n, end) \in Seq(Text)
         /\ \A v : Count(ValuesOf(kvs, n, end), v) = Count(kvs, [key |-> kvs[n].key, value |-> v])
<1> DEFINE L == Len(kvs)
           vs == ValuesOf(kvs, n, end)
<1>1. L \in Nat /\ n \in Nat /\ 1 <= n /\ n <= L /\ end \in Nat /\ n < end /\ end <= L + 1
  BY DEF IsGroup
<1>2. DOMAIN kvs = 1..L /\ \A i \in 1..L : kvs[i] \in KV /\ kvs[i].value \in Text /\ kvs[i] = [key |-> kvs[i].key, value |-> kvs[i].value]
  <2>1. DOMAIN kvs = 1..L /\ \A i \in 1..L : kvs[i] \in KV
    OBVIOUS
  <2>2. \A kv \in KV : kv.value \in Text /\ kv = [key |-> kv.key, value |-> kv.value]
    BY DEF KV
  <2> QED
    BY <2>1, <2>2
<1>3. \A i \in 1..L : kvs[i].key = kvs[n].key <=> n <= i /\ i < end
  BY DEF IsGroup
<1> HIDE DEF L
<1>4. \A i \in 1..(end - n) : n + i - 1 \in 1..L /\ n <= n + i - 1 /\ n + i - 1 < end
  BY <1>1
<1>5. vs \in [1..(end - n) -> Text] /\ end - n \in Nat
  BY <1>1, <1>2, <1>4 DEF ValuesOf
<1>6. vs \in Seq(Text) /\ DOMAIN vs = 1..(end - n) /\ \A i \in 1..(end - n) : vs[i] = kvs[n + i - 1].value
  <2>1. vs \in Seq(Text)
    <3> HIDE DEF vs
    <3> QED
      BY <1>5
  <2> QED
    BY <1>5, <2>1 DEF ValuesOf
<1> HIDE DEF vs
<1>7. ASSUME NEW v PROVE Count(vs, v) = Count(kvs, [key |-> kvs[n].key, value |-> v])
  <2> DEFINE kv == [key |-> kvs[n].key, value |-> v]
             A == Places(vs, v)
             B == Places(kvs, kv)
             f == [i \in A |-> n + i - 1]
  <2>1. \A i \in 1..L : kvs[i] = kv <=> n <= i /\ i < end /\ kvs[i].value = v
    <3> SUFFICES ASSUME NEW i \in 1..L PROVE kvs[i] = kv <=> kvs[i].key = kvs[n].key /\ kvs[i].value = v
      BY <1>3
    <3>1. kvs[i] = [key |-> kvs[i].key, value |-> kvs[i].value]
      BY <1>2
    <3> DEFINE k == kvs[i].key
               w == kvs[i].value
               h == kvs[n].key
    <3>2. kvs[i] = [key |-> k, value |-> w]
      BY <3>1
    <3> HIDE DEF k, w, h
    <3>3. [key |-> k, value |-> w] = [key |-> h, value |-> v] <=> k = h /\ w = v
      OBVIOUS
    <3>4. kv = [key |-> h, value |-> v]
      BY DEF h
    <3> HIDE DEF kv
    <3>5. kvs[i] = kv <=> k = h /\ w = v
      BY <3>2, <3>3, <3>4
    <3> QED
      BY <3>5 DEF k, w, h
  <2>2. A = {i \in 1..(end - n) : kvs[n + i - 1].value = v}
    BY <1>6 DEF Places
  <2>3. B = {i \in 1..L : kvs[i] = kv}
    BY <1>2 DEF Places
  <2> HIDE DEF A, B, kv
  <2>4. f \in [A -> B]
    BY <1>4, <2>1, <2>2, <2>3
  <2>5. \A i, j \in A : f[i] = f[j] => i = j
    BY <1>1, <2>2
  <2>6. ASSUME NEW j \in B PROVE \E i \in A : f[i] = j
    <3>1. j \in 1..L /\ n <= j /\ j < end /\ kvs[j].value = v
      BY <2>1, <2>3
    <3>2. j - n + 1 \in 1..(end - n) /\ n + (j - n + 1) - 1 = j
      BY <1>1, <3>1
    <3>3. j - n + 1 \in A
      BY <2>2, <3>1, <3>2
    <3> QED
      BY <3>2, <3>3
  <2>7. IsFiniteSet(A) /\ Count(vs, v) = Cardinality(A)
    BY <1>6, CountFinite DEF A
  <2>8. Count(kvs, kv) = Cardinality(B)
    BY CountFinite DEF B
  <2> HIDE DEF f
  <2>9. Cardinality(A) = Cardinality(B)
    BY <2>4, <2>5, <2>6, <2>7, SameSize
  <2> QED
    BY <2>7, <2>8, <2>9 DEF kv
<1> QED
  BY <1>6, <1>7 DEF vs

\* What Reducef is called with for the group of n, and passes on.
Output == [key : Text, values : Seq(Text)]
OutputAt(kvs, n, end) == [key |-> kvs[n].key, values |-> ValuesOf(kvs, n, end)]

\* Every key before n has one output, with all its values.
Reduced(kvs, n, out) ==
  /\ n \in 1..(Len(kvs) + 1)
  /\ Apart(kvs, n)
  /\ out \in Seq(Output)
  /\ \A l, m \in 1..Len(out) : out[l].key = out[m].key => l = m
  /\ \A l \in 1..Len(out) :
       /\ \E i \in 1..(n - 1) : kvs[i].key = out[l].key
       /\ \A v : Count(out[l].values, v) = Count(kvs, [key |-> out[l].key, value |-> v])
  /\ \A i \in 1..(n - 1) : \E l \in 1..Len(out) : out[l].key = kvs[i].key

\* At first nothing is reduced.
LEMMA ReducedFirst ==
  ASSUME NEW kvs \in Seq(KV)
  PROVE  Reduced(kvs, 1, <<>>)
<1>1. Len(kvs) \in Nat /\ Len(<<>>) = 0 /\ <<>> \in Seq(Output) /\ \A i \in 1..0 : FALSE
  OBVIOUS
<1>2. 1 \in 1..(Len(kvs) + 1) /\ 1 - 1 = 0
  BY <1>1
<1> QED
  BY <1>1, <1>2 DEF Reduced, Apart

\* The next group's output comes last.
LEMMA ReducedGroup ==
  ASSUME NEW kvs \in Seq(KV), NEW n \in 1..Len(kvs), NEW out, Reduced(kvs, n, out),
         NEW end, IsGroup(kvs, n, end)
  PROVE  Reduced(kvs, end, Append(out, OutputAt(kvs, n, end)))
<1> DEFINE L == Len(kvs)
           o == OutputAt(kvs, n, end)
           k == kvs[n].key
           new == Append(out, o)
           M == Len(out)
<1>1. L \in Nat /\ n \in Nat /\ 1 <= n /\ n <= L /\ end \in Nat /\ n < end /\ end <= L + 1
  BY DEF IsGroup
<1>2. kvs[n] \in KV /\ k \in Text
  <2>1. kvs[n] \in KV
    OBVIOUS
  <2> QED
    BY <2>1 DEF KV
<1>3. /\ ValuesOf(kvs, n, end) \in Seq(Text)
      /\ \A v : Count(ValuesOf(kvs, n, end), v) = Count(kvs, [key |-> k, value |-> v])
  BY GroupValues
<1>4. \A i \in 1..L : kvs[i].key = k <=> n <= i /\ i < end
  BY DEF IsGroup
<1> DEFINE vs == ValuesOf(kvs, n, end)
<1>5. o = [key |-> k, values |-> vs]
  BY DEF OutputAt
<1> HIDE DEF o, k, vs, L
<1>6. o \in Output /\ o.key = k /\ o.values = vs
  BY <1>2, <1>3, <1>5 DEF Output, vs
<1>7. out \in Seq(Output) /\ M \in Nat
  BY DEF Reduced
<1>8. new \in Seq(Output) /\ Len(new) = M + 1 /\ new[M + 1] = o /\ \A l \in 1..M : new[l] = out[l]
  BY <1>6, <1>7
<1> HIDE DEF new, M
<1>9. \A l \in 1..(M + 1) : l \in 1..M \/ l = M + 1
  BY <1>7
<1>10. end \in 1..(L + 1)
  BY <1>1
<1>11. ASSUME NEW i \in 1..(end - 1), NEW j \in end..L PROVE kvs[i].key # kvs[j].key
  <2>1. i \in 1..L /\ j \in 1..L /\ ~(n <= j /\ j < end) /\ j \in n..L
    BY <1>1
  <2>2. CASE i \in 1..(n - 1)
    BY <2>1, <2>2 DEF Reduced, Apart, L
  <2>3. CASE n <= i
    <3>1. n <= i /\ i < end
      BY <1>1, <2>3
    <3> QED
      BY <1>4, <2>1, <3>1
  <2> QED
    BY <1>1, <2>2, <2>3
<1>12. \A l \in 1..M : out[l].key # k
  <2> SUFFICES ASSUME NEW l \in 1..M, out[l].key = k PROVE FALSE
    OBVIOUS
  <2>1. PICK i \in 1..(n - 1) : kvs[i].key = out[l].key
    BY DEF Reduced, M
  <2>2. i \in 1..L /\ ~(n <= i)
    BY <1>1
  <2> QED
    BY <1>4, <2>1, <2>2
<1>13. ASSUME NEW l \in 1..(M + 1), NEW m \in 1..(M + 1), new[l].key = new[m].key PROVE l = m
  <2>1. CASE l \in 1..M /\ m \in 1..M
    BY <1>8, <1>13, <2>1 DEF Reduced, M
  <2>2. CASE l \in 1..M /\ m = M + 1
    BY <1>6, <1>8, <1>12, <1>13, <2>2
  <2>3. CASE l = M + 1 /\ m \in 1..M
    BY <1>6, <1>8, <1>12, <1>13, <2>3
  <2>4. CASE l = M + 1 /\ m = M + 1
    BY <2>4
  <2> QED
    BY <1>9, <2>1, <2>2, <2>3, <2>4
<1>14. ASSUME NEW l \in 1..(M + 1)
       PROVE  /\ \E i \in 1..(end - 1) : kvs[i].key = new[l].key
              /\ \A v : Count(new[l].values, v) = Count(kvs, [key |-> new[l].key, value |-> v])
  <2>1. CASE l \in 1..M
    <3>1. PICK i \in 1..(n - 1) : kvs[i].key = out[l].key
      BY <2>1 DEF Reduced, M
    <3>2. i \in 1..(end - 1)
      BY <1>1
    <3>3. \A v : Count(out[l].values, v) = Count(kvs, [key |-> out[l].key, value |-> v])
      BY <2>1 DEF Reduced, M
    <3> QED
      BY <1>8, <2>1, <3>1, <3>2, <3>3
  <2>2. CASE l = M + 1
    <3>1. n \in 1..(end - 1)
      BY <1>1
    <3>2. new[l].key = k /\ new[l].values = vs /\ kvs[n].key = k
      BY <1>6, <1>8, <2>2 DEF k
    <3> QED
      BY <1>3, <3>1, <3>2 DEF vs
  <2> QED
    BY <1>9, <2>1, <2>2
<1>15. ASSUME NEW i \in 1..(end - 1) PROVE \E l \in 1..(M + 1) : new[l].key = kvs[i].key
  <2>1. CASE i \in 1..(n - 1)
    <3>1. PICK l \in 1..M : out[l].key = kvs[i].key
      BY <2>1 DEF Reduced, M
    <3>2. l \in 1..(M + 1)
      BY <1>7
    <3> QED
      BY <1>8, <3>1, <3>2
  <2>2. CASE n <= i
    <3>1. i \in 1..L /\ n <= i /\ i < end /\ M + 1 \in 1..(M + 1)
      BY <1>1, <1>7, <2>2
    <3> QED
      BY <1>4, <1>6, <1>8, <3>1
  <2> QED
    BY <1>1, <2>1, <2>2
<1> QED
  BY <1>8, <1>10, <1>11, <1>13, <1>14, <1>15 DEF Reduced, Apart, new, L, o

-----------------------------------------------------------------------------
(* The handler's steps.                                                    *)

\* While each call of Reducef has emitted once, the channel holds the output of the
\* call that was just made, and no other.
Progress ==
  rpc \in Reducing /\ single =>
    /\ rpc # "full"
    /\ Reduced(imdKVs, next, ofile)
    /\ rpc \in {"reducef", "done"} => reduceChan = <<>>
    /\ rpc = "receive" => next <= Len(imdKVs) /\ reduceChan = <<OutputAt(imdKVs, next, GroupEnd)>>
    /\ rpc = "done" => next > Len(imdKVs)

ReduceInv ==
  /\ task \in Reducer /\ rpc \in ReducePc /\ single \in BOOLEAN
  /\ Written /\ Fetched /\ InOrder /\ Beginning /\ Progress

\* The invariant holds when the worker starts.
LEMMA InitReduceInv == ReduceInit => ReduceInv
BY DEF ReduceInit, ReduceInv, Written, Fetched, InOrder, Beginning, Progress, Reducing, ReducePc

\* Steps that leave Reduce's variables alone.
LEMMA UnchangedReduceInv ==
  ASSUME MapInv, PairsInv, ReduceInv, [MapNext]_vars, Written', UNCHANGED reduceVars
  PROVE  ReduceInv'
<1>1. UNCHANGED <<task, other, rpc, imdKVs, next, reduceChan, ofile, single>>
  BY DEF reduceVars
<1>2. GroupEnd' = GroupEnd
  BY <1>1 DEF GroupEnd
<1>3. Fetched'
  <2>1. CASE rpc \in {"mapping", "fetch"}
    BY <1>1, <2>1 DEF Fetched
  <2>2. CASE rpc \notin {"mapping", "fetch"}
    <3>1. imdKV' = imdKV
      BY <2>2, MapEnded DEF ReduceInv, Written
    <3>2. KVs(task)' = KVs(task)
      BY <1>1, <3>1 DEF KVs
    <3> QED
      BY <1>1, <3>2 DEF ReduceInv, Fetched
  <2> QED
    BY <2>1, <2>2
<1>4. InOrder' /\ Beginning'
  BY <1>1 DEF ReduceInv, InOrder, Beginning
<1>5. Progress'
  BY <1>1, <1>2 DEF ReduceInv, Progress
<1> QED
  BY <1>1, <1>3, <1>4, <1>5 DEF ReduceInv

\* Each of Reduce's own steps.
LEMMA StepReduceInv ==
  ASSUME MapInv, PairsInv, ReduceInv, ReduceNext, Written'
  PROVE  ReduceInv'
<1>0. task \in Reducer /\ single \in BOOLEAN /\ task' = task /\ imdKV' = imdKV
  BY DEF ReduceInv, ReduceNext, WriteIMD, Fetch, Sort, Reducef, WriteOutput, ReduceReturns, vars
<1>1. KVs(task)' = KVs(task)
  BY <1>0 DEF KVs
<1>2. CASE WriteIMD
  <2>1. rpc' = "fetch" /\ UNCHANGED <<next, reduceChan, ofile, single>> /\ rpc = "mapping"
    BY <1>2 DEF WriteIMD
  <2> QED
    BY <1>0, <2>1 DEF ReduceInv, ReducePc, Fetched, InOrder, Beginning, Progress, Reducing
<1>3. CASE Fetch
  <2>1. rpc' = "sort" /\ UNCHANGED <<next, reduceChan, ofile, single>> /\ rpc = "fetch"
    BY <1>3 DEF Fetch
  <2>2. Fetched'
    BY <1>0, <1>3, FetchFetches DEF ReduceInv
  <2> QED
    BY <1>0, <2>1, <2>2 DEF ReduceInv, ReducePc, InOrder, Beginning, Progress, Reducing
<1>4. CASE Sort
  <2>1. /\ rpc = "sort" /\ rpc' = "reducef" /\ imdKVs' \in Sorted(imdKVs)
        /\ UNCHANGED <<other, next, reduceChan, ofile, single>>
    BY <1>4 DEF Sort
  <2>2. imdKVs \in Seq(KV) /\ other \in Seq(KV)
    BY <2>1 DEF ReduceInv, Fetched
  <2>3. /\ imdKVs' \in Seq(KV) /\ \A kv \in KV : Count(imdKVs', kv) = Count(imdKVs, kv)
        /\ \A j \in 1..Len(imdKVs') : \A i \in 1..(j - 1) : ~Less(imdKVs'[j].key, imdKVs'[i].key)
    <3> DEFINE s == imdKVs'
               t == imdKVs
    <3>1. s \in Sorted(t) /\ t \in Seq(KV)
      BY <2>1, <2>2
    <3> HIDE DEF s, t
    <3>2. /\ s \in Seq(KV) /\ (\A kv \in KV : Count(s, kv) = Count(t, kv))
          /\ \A j \in 1..Len(s) : \A i \in 1..(j - 1) : ~Less(s[j].key, s[i].key)
      BY <3>1, SortedKeeps
    <3> QED
      BY <3>2 DEF s, t
  <2>4. Fetched'
    BY <1>0, <1>1, <2>1, <2>2, <2>3 DEF ReduceInv, Fetched
  <2>5. InOrder'
    BY <2>3 DEF InOrder
  <2>6. next' = 1 /\ ofile' = <<>> /\ reduceChan' = <<>>
    BY <2>1 DEF ReduceInv, Beginning
  <2>7. Reduced(imdKVs', 1, <<>>)
    BY <2>3, ReducedFirst
  <2>8. Progress'
    BY <2>1, <2>6, <2>7 DEF Progress
  <2> QED
    BY <1>0, <2>1, <2>4, <2>5, <2>8 DEF ReduceInv, ReducePc, Beginning
<1>5. ASSUME NEW e \in ReduceEmits, Reducef(e) PROVE ReduceInv'
  <2>1. /\ rpc = "reducef" /\ next <= Len(imdKVs) /\ single' = (single /\ e = 1)
        /\ reduceChan' = reduceChan \o [i \in 1..Min({e, ChanCap - Len(reduceChan)}) |-> OutputAt(imdKVs, next, GroupEnd)]
        /\ rpc' = IF Len(reduceChan) + e > ChanCap THEN "full" ELSE "receive"
        /\ UNCHANGED <<other, imdKVs, next, ofile>>
    BY <1>5 DEF Reducef, OutputAt, ValuesOf
  <2>2. rpc' \in {"full", "receive"}
    BY <2>1
  <2>3. Fetched' /\ InOrder' /\ Beginning'
    BY <1>0, <1>1, <2>1, <2>2 DEF ReduceInv, Fetched, InOrder, Beginning, Reducing
  <2>4. ASSUME single' PROVE rpc' = "receive" /\ reduceChan' = <<OutputAt(imdKVs, next, GroupEnd)>> /\ Reduced(imdKVs, next, ofile)
    <3>1. single /\ e = 1
      BY <2>1, <2>4
    <3>2. reduceChan = <<>> /\ Reduced(imdKVs, next, ofile)
      BY <2>1, <3>1 DEF ReduceInv, Progress, Reducing
    <3>3. Len(reduceChan) = 0 /\ ChanCap \in Nat /\ ChanCap >= 1
      BY <3>2, CapAssumption
    <3>4. rpc' = "receive"
      BY <2>1, <3>1, <3>3
    <3>5. Min({e, ChanCap - Len(reduceChan)}) = 1
      <4> DEFINE S == {1, ChanCap}
      <4>1. S \in SUBSET (1..ChanCap) /\ S # {} /\ 1 \in S
        BY <3>3
      <4>2. Min(S) \in S /\ \A x \in S : Min(S) <= x
        <5> HIDE DEF S
        <5> QED
          BY <3>3, <4>1, Extremes
      <4>3. Min(S) = 1
        BY <3>3, <4>1, <4>2
      <4>4. {e, ChanCap - Len(reduceChan)} = S
        BY <3>1, <3>3
      <4> QED
        BY <4>3, <4>4
    <3> DEFINE o == OutputAt(imdKVs, next, GroupEnd)
    <3>6. reduceChan' = <<>> \o [i \in 1..1 |-> o]
      BY <2>1, <3>2, <3>5
    <3> HIDE DEF o
    <3>7. <<>> \o [i \in 1..1 |-> o] = <<o>>
      OBVIOUS
    <3> QED
      BY <3>2, <3>4, <3>6, <3>7 DEF o
  <2>5. GroupEnd' = GroupEnd
    BY <2>1 DEF GroupEnd
  <2>6. Progress'
    BY <2>1, <2>4, <2>5 DEF Progress
  <2>7. single' \in BOOLEAN
    BY <2>1
  <2> QED
    BY <1>0, <2>2, <2>3, <2>6, <2>7 DEF ReduceInv, ReducePc
<1>6. CASE WriteOutput
  <2>1. /\ rpc = "receive" /\ reduceChan # <<>> /\ ofile' = Append(ofile, Head(reduceChan))
        /\ reduceChan' = Tail(reduceChan) /\ next' = GroupEnd /\ rpc' = "reducef"
        /\ UNCHANGED <<other, imdKVs, single>>
    BY <1>6 DEF WriteOutput
  <2>2. Fetched' /\ InOrder' /\ Beginning'
    BY <1>0, <1>1, <2>1 DEF ReduceInv, Fetched, InOrder, Beginning, Reducing
  <2>3. ASSUME single' PROVE Reduced(imdKVs, GroupEnd, ofile') /\ reduceChan' = <<>>
    <3>1. /\ Reduced(imdKVs, next, ofile) /\ next <= Len(imdKVs) /\ imdKVs \in Seq(KV)
          /\ reduceChan = <<OutputAt(imdKVs, next, GroupEnd)>>
          /\ \A j \in 1..Len(imdKVs) : \A i \in 1..(j - 1) : ~Less(imdKVs[j].key, imdKVs[i].key)
      BY <2>1, <2>3 DEF ReduceInv, Progress, Reducing, Fetched, InOrder
    <3>2. next \in 1..Len(imdKVs) /\ Apart(imdKVs, next)
      BY <3>1 DEF Reduced
    <3>3. IsGroup(imdKVs, next, GroupEnd)
      BY <3>1, <3>2, GroupFound
    <3>4. Reduced(imdKVs, GroupEnd, Append(ofile, OutputAt(imdKVs, next, GroupEnd)))
      BY <3>1, <3>2, <3>3, ReducedGroup
    <3> DEFINE o == OutputAt(imdKVs, next, GroupEnd)
    <3>5. reduceChan = <<o>>
      BY <3>1
    <3> HIDE DEF o
    <3>6. Head(reduceChan) = o /\ Tail(reduceChan) = <<>>
      BY <3>5
    <3> QED
      BY <2>1, <3>4, <3>6 DEF o
  <2>4. Progress'
    BY <2>1, <2>3 DEF Progress
  <2> QED
    BY <1>0, <2>1, <2>2, <2>4 DEF ReduceInv, ReducePc
<1>7. CASE ReduceReturns
  <2>1. /\ rpc = "reducef" /\ next > Len(imdKVs) /\ rpc' = "done"
        /\ UNCHANGED <<other, imdKVs, next, reduceChan, ofile, single>>
    BY <1>7 DEF ReduceReturns
  <2>2. Fetched' /\ InOrder' /\ Beginning'
    BY <1>0, <1>1, <2>1 DEF ReduceInv, Fetched, InOrder, Beginning, Reducing
  <2>3. Progress'
    BY <2>1 DEF ReduceInv, Progress, Reducing
  <2> QED
    BY <1>0, <2>1, <2>2, <2>3 DEF ReduceInv, ReducePc
<1> QED
  BY <1>2, <1>3, <1>4, <1>5, <1>6, <1>7 DEF ReduceNext

\* A pair is in the partition as often as it was emitted for the task.
LEMMA SourcesCount ==
  ASSUME MapInv, PairsInv, PartitionsExact, pc = "end", task \in Reducer, NEW kv
  PROVE  Count(KVs(task), kv) = Cardinality({s \in Sources : SourceKV(s) = kv})
<1> DEFINE ps == imdKV[task]
           A == Places(KVs(task), kv)
           B == {s \in Sources : SourceKV(s) = kv}
           f == [i \in A |-> <<ps[i].file, ps[i].n>>]
<1>1. /\ KVs(task) \in Seq(KV) /\ ps \in Seq(Pairs) /\ DOMAIN KVs(task) = DOMAIN ps
      /\ \A i \in DOMAIN ps : KVs(task)[i] = ps[i].kv
  BY PartitionKVs
<1>2. /\ \A i, j \in DOMAIN ps : ps[i] = ps[j] => i = j
      /\ \A p : p \in PairsOf(task) <=> \E i \in DOMAIN ps : p = ps[i]
  BY DEF PartitionsExact, IsInjective, ToSet
<1>3. A = {i \in DOMAIN ps : ps[i].kv = kv}
  BY <1>1 DEF Places
<1>4. emits \in Emissions
  BY DEF MapInv, Typed
<1>5. \A p \in PairsOf(task) :
        /\ p.file \in File /\ p.n \in DOMAIN emits[p.file] /\ p.kv = emits[p.file][p.n]
        /\ p = Pair(p.file, p.n) /\ ReducerForKey[p.kv.key] = task
  <2> SUFFICES ASSUME NEW p \in PairsOf(task)
               PROVE  /\ p.file \in File /\ p.n \in DOMAIN emits[p.file] /\ p.kv = emits[p.file][p.n]
                      /\ p = Pair(p.file, p.n) /\ ReducerForKey[p.kv.key] = task
    OBVIOUS
  <2>1. p \in Pairs /\ ReducerForKey[p.kv.key] = task
    BY DEF PairsOf
  <2>2. p.file \in File /\ p.n \in 1..Len(emits[p.file]) /\ p = Pair(p.file, p.n)
    BY <1>4, <2>1, PairFacts
  <2>3. p.kv = emits[p.file][p.n]
    BY <2>2 DEF Pair
  <2>4. p.n \in DOMAIN emits[p.file]
    BY <1>4, <2>2, Numbered
  <2> QED
    BY <2>1, <2>2, <2>3, <2>4
<1>6. \A g, n : <<g, n>> \in Sources <=> /\ g \in File /\ n \in DOMAIN emits[g]
                                         /\ ReducerForKey[emits[g][n].key] = task
  BY DEF Sources, SourceKV
<1>7. \A s \in Sources : \E g, n : s = <<g, n>>
  BY DEF Sources
<1> HIDE DEF ps, A, B
<1>8. f \in [A -> B]
  <2> SUFFICES ASSUME NEW i \in A PROVE <<ps[i].file, ps[i].n>> \in B
    OBVIOUS
  <2>1. i \in DOMAIN ps /\ ps[i].kv = kv /\ ps[i] \in PairsOf(task)
    BY <1>2, <1>3
  <2> DEFINE p == ps[i]
             g == p.file
             n == p.n
  <2>2. g \in File /\ n \in DOMAIN emits[g] /\ p.kv = emits[g][n] /\ ReducerForKey[p.kv.key] = task
    BY <1>5, <2>1
  <2> HIDE DEF p, g, n
  <2>3. <<g, n>> \in Sources /\ emits[g][n] = kv
    BY <1>6, <2>1, <2>2 DEF p
  <2>4. SourceKV(<<g, n>>) = emits[g][n]
    BY DEF SourceKV
  <2>5. <<g, n>> \in B
    BY <2>3, <2>4 DEF B
  <2> QED
    BY <2>5 DEF g, n, p
<1>9. ASSUME NEW i \in A, NEW j \in A, f[i] = f[j] PROVE i = j
  <2>1. i \in DOMAIN ps /\ j \in DOMAIN ps /\ ps[i] \in PairsOf(task) /\ ps[j] \in PairsOf(task)
    BY <1>2, <1>3
  <2>2. ps[i].file = ps[j].file /\ ps[i].n = ps[j].n
    BY <1>9
  <2>3. ps[i] = Pair(ps[i].file, ps[i].n) /\ ps[j] = Pair(ps[j].file, ps[j].n)
    BY <1>5, <2>1
  <2>4. ps[i] = ps[j]
    BY <2>2, <2>3
  <2> QED
    BY <1>2, <2>1, <2>4
<1>10. ASSUME NEW s \in B PROVE \E i \in A : f[i] = s
  <2>1. s \in Sources /\ SourceKV(s) = kv
    BY DEF B
  <2>2. PICK g, n : s = <<g, n>>
    BY <1>7, <2>1
  <2>3. g \in File /\ n \in DOMAIN emits[g] /\ ReducerForKey[emits[g][n].key] = task /\ emits[g][n] = kv
    BY <1>6, <2>1, <2>2 DEF SourceKV
  <2> DEFINE p == Pair(g, n)
  <2>4. p.file = g /\ p.n = n /\ p.kv = kv
    BY <2>3 DEF Pair
  <2>5. p \in PairsOf(task)
    <3>1. n \in 1..Len(emits[g])
      BY <1>4, <2>3, Numbered
    <3>2. p \in Pairs
      BY <2>3, <3>1 DEF Pairs
    <3> QED
      BY <2>3, <2>4, <3>2 DEF PairsOf
  <2> HIDE DEF p
  <2>6. PICK i \in DOMAIN ps : p = ps[i]
    BY <1>2, <2>5
  <2>7. i \in A
    BY <1>3, <2>4, <2>6
  <2>8. f[i] = <<g, n>>
    BY <2>4, <2>6, <2>7
  <2> QED
    BY <2>2, <2>7, <2>8
<1>11. IsFiniteSet(A) /\ Count(KVs(task), kv) = Cardinality(A)
  <2> DEFINE kvs == KVs(task)
  <2>1. kvs \in Seq(KV)
    BY <1>1
  <2> HIDE DEF kvs
  <2>2. IsFiniteSet(Places(kvs, kv)) /\ Count(kvs, kv) = Cardinality(Places(kvs, kv))
    BY <2>1, CountFinite
  <2> QED
    BY <2>2 DEF kvs, A
<1>12. Cardinality(A) = Cardinality(B)
  <2> HIDE DEF f
  <2> QED
    BY <1>8, <1>9, <1>10, <1>11, SameSize
<1> QED
  BY <1>11, <1>12 DEF B

\* The invariant of Worker.Reduce holds in every behaviour.
THEOREM ReduceInvariant == Spec => [](MapInv /\ PairsInv /\ ReduceInv)
<1>1. ReduceInit => MapInv /\ PairsInv /\ ReduceInv
  BY InitMapInv, InitPairsInv, InitReduceInv DEF ReduceInit
<1>2. MapInv /\ PairsInv /\ ReduceInv /\ [Next]_allVars => (MapInv /\ PairsInv /\ ReduceInv)'
  <2> SUFFICES ASSUME MapInv, PairsInv, ReduceInv, [Next]_allVars PROVE (MapInv /\ PairsInv /\ ReduceInv)'
    OBVIOUS
  <2>1. [MapNext]_vars /\ MapInv' /\ PairsInv' /\ Written'
    BY NextOfMap, StepMapInv, StepPairsInv, WrittenStep DEF ReduceInv
  <2>2. CASE ReduceNext
    BY <2>1, <2>2, StepReduceInv
  <2>3. CASE UNCHANGED reduceVars
    BY <2>1, <2>3, UnchangedReduceInv
  <2>4. ReduceNext \/ UNCHANGED reduceVars
    BY DEF Next, Terminated, allVars
  <2> QED
    BY <2>1, <2>2, <2>3, <2>4
<1> QED
  BY <1>1, <1>2, PTL DEF Spec

\* When the handler returns, all groups are reduced, and the counts are those of the
\* emitted pairs.
LEMMA ReducedOnceFollows ==
  ASSUME MapInv, PairsInv, PartitionsExact, ReduceInv
  PROVE  ReducedOnce
<1> DEFINE kvs == {SourceKV(s) : s \in Sources} \cup ToSet(other)
           mine == KVs(task)
<1> SUFFICES ASSUME rpc = "done", single, Transportable(mine), Transportable(other),
                    NEW k \in {kv.key : kv \in kvs}
             PROVE  \E l \in DOMAIN ofile :
                      /\ \A m \in DOMAIN ofile : ofile[m].key = k <=> m = l
                      /\ \A v \in {kv.value : kv \in kvs} \cup ToSet(ofile[l].values) :
                           Count(ofile[l].values, v) = Meant(k, v)
  BY DEF ReducedOnce
<1>1. /\ task \in Reducer /\ pc = "end" /\ other \in Seq(KV) /\ imdKVs \in Seq(KV)
      /\ \A kv \in KV : Count(imdKVs, kv) = Count(mine, kv) + Count(other, kv)
      /\ Reduced(imdKVs, next, ofile) /\ next > Len(imdKVs)
  BY DEF ReduceInv, Written, Fetched, Progress, Reducing
<1>2. mine \in Seq(KV)
  BY <1>1, PartitionKVs
<1>3. \A kv : Count(mine, kv) = Cardinality({s \in Sources : SourceKV(s) = kv})
  BY <1>1, SourcesCount
<1>4. \A kv \in kvs : kv \in KV
  <2>1. \A s \in Sources : SourceKV(s) \in KV
    <3> SUFFICES ASSUME NEW s \in Sources PROVE SourceKV(s) \in KV
      OBVIOUS
    <3>1. PICK g \in File : s \in {g} \X DOMAIN emits[g]
      BY DEF Sources
    <3>2. s[1] = g /\ s[2] \in DOMAIN emits[g] /\ emits \in Emissions
      BY <3>1 DEF MapInv, Typed
    <3> QED
      BY <3>2, TextsAssumption DEF SourceKV, File
  <2>2. \A kv \in ToSet(other) : kv \in KV
    BY <1>1 DEF ToSet
  <2> QED
    BY <2>1, <2>2
<1>5. PICK kv0 \in kvs : kv0.key = k
  OBVIOUS
<1> HIDE DEF mine
<1>6. Count(imdKVs, kv0) # 0
  <2>1. kv0 \in KV
    BY <1>4
  <2>2. /\ Count(imdKVs, kv0) = Count(mine, kv0) + Count(other, kv0)
        /\ Count(mine, kv0) \in Nat /\ Count(other, kv0) \in Nat
    BY <1>1, <1>2, <2>1, CountFinite
  <2>3. CASE kv0 \in ToSet(other)
    <3>1. Count(other, kv0) # 0
      BY <1>1, <2>3, CountFinite DEF ToSet
    <3> QED
      BY <2>2, <3>1
  <2>4. CASE kv0 \in {SourceKV(s) : s \in Sources}
    <3> DEFINE B == {s \in Sources : SourceKV(s) = kv0}
    <3>1. PICK i \in DOMAIN imdKV[task] : imdKV[task][i].kv = kv0
      <4>1. PICK s \in Sources : SourceKV(s) = kv0
        BY <2>4
      <4>2. PICK g \in File : s \in {g} \X DOMAIN emits[g]
        BY DEF Sources
      <4>3. PICK n \in DOMAIN emits[g] : s = <<g, n>>
        BY <4>2
      <4>4. emits[g][n] = kv0 /\ ReducerForKey[emits[g][n].key] = task /\ emits \in Emissions
        BY <4>1, <4>3 DEF Sources, SourceKV, MapInv, Typed
      <4>5. n \in 1..Len(emits[g])
        BY <4>4, Numbered
      <4>6. Pair(g, n) \in Pairs /\ Pair(g, n).kv = kv0
        BY <4>4, <4>5 DEF Pairs, Pair
      <4>7. Pair(g, n) \in PairsOf(task)
        BY <4>4, <4>6 DEF PairsOf
      <4>8. Pair(g, n) \in ToSet(imdKV[task])
        BY <1>1, <4>7 DEF PartitionsExact
      <4> QED
        BY <4>6, <4>8 DEF ToSet
    <3>2. i \in DOMAIN mine /\ mine[i] = kv0
      BY <1>1, <3>1, PartitionKVs DEF mine
    <3>3. Count(mine, kv0) # 0
      BY <1>2, <3>2, CountFinite
    <3> QED
      BY <2>2, <3>3
  <2> QED
    BY <2>3, <2>4
<1>7. PICK i \in DOMAIN imdKVs : imdKVs[i] = kv0
  BY <1>1, <1>6, CountFinite
<1>8. i \in 1..(next - 1) /\ imdKVs[i].key = k
  <2>1. DOMAIN imdKVs = 1..Len(imdKVs) /\ Len(imdKVs) \in Nat
    BY <1>1
  <2>2. next \in 1..(Len(imdKVs) + 1)
    BY <1>1 DEF Reduced
  <2> QED
    BY <1>1, <1>5, <1>7, <2>1, <2>2
<1>9. PICK l \in 1..Len(ofile) : ofile[l].key = k
  BY <1>1, <1>8 DEF Reduced
<1>10. DOMAIN ofile = 1..Len(ofile) /\ ofile[l] \in Output
  <2>1. ofile \in Seq(Output)
    BY <1>1 DEF Reduced
  <2> QED
    BY <2>1
<1>11. \A m \in DOMAIN ofile : ofile[m].key = k <=> m = l
  BY <1>1, <1>9, <1>10 DEF Reduced
<1>12. ASSUME NEW v \in {kv.value : kv \in kvs} \cup ToSet(ofile[l].values)
       PROVE  Count(ofile[l].values, v) = Meant(k, v)
  <2> DEFINE kv == [key |-> k, value |-> v]
  <2>1. k \in Text
    BY <1>4, <1>5 DEF KV
  <2>2. v \in Text
    <3>1. CASE v \in {p.value : p \in kvs}
      BY <1>4, <3>1 DEF KV
    <3>2. CASE v \in ToSet(ofile[l].values)
      <4>1. ofile[l].values \in Seq(Text)
        BY <1>10 DEF Output
      <4> QED
        BY <3>2, <4>1 DEF ToSet
    <3> QED
      BY <3>1, <3>2
  <2>3. kv \in KV
    BY <2>1, <2>2 DEF KV
  <2>4. Count(ofile[l].values, v) = Count(imdKVs, kv)
    BY <1>1, <1>9 DEF Reduced
  <2> HIDE DEF kv
  <2>5. Count(imdKVs, kv) = Cardinality({s \in Sources : SourceKV(s) = kv}) + Count(other, kv)
    BY <1>1, <1>3, <2>3
  <2> QED
    BY <2>4, <2>5 DEF Meant, kv
<1> QED
  BY <1>9, <1>10, <1>11, <1>12

\* For any Mapf, whatever it emits, the reducer decodes a partition as the mapper
\* held it exactly when no key or value has a line break, no key a tab, the first
\* key does not begin and the last value does not end with a blank or is empty:
\* encodeIMDKVs and decodeIMDKVs lose nothing else.
THEOREM CodecExactHolds == Spec => []CodecExact
<1>1. MapInv /\ PairsInv /\ ReduceInv => CodecExact
  <2> SUFFICES ASSUME MapInv, PairsInv, ReduceInv, rpc # "mapping", NEW r \in Reducer
               PROVE  GetIMDData(imdFile[r]) = KVs(r) <=> Transportable(KVs(r))
    BY DEF CodecExact
  <2>1. imdFile[r] = encodeIMDKVs(KVs(r)) /\ KVs(r) \in Seq(KV)
    BY PartitionKVs DEF ReduceInv, Written
  <2> QED
    BY <2>1, RoundTrip
<1> QED
  BY <1>1, ReduceInvariant, PTL

\* When Worker.Reduce returns and each call of Reducef has emitted once, Reducef has
\* been called once for each key with exactly the values that were emitted for it,
\* by this map task or another, if the pairs are transportable: for any Mapf, any
\* number of slices and pairs, and whatever order an unstable sort leaves.
THEOREM ReducedOnceHolds == Spec => []ReducedOnce
<1>1. MapInv /\ PairsInv /\ PartitionsExact /\ ReduceInv => ReducedOnce
  BY ReducedOnceFollows
<1> QED
  BY <1>1, ReduceInvariant, PartitionsExactHolds, PTL
=============================================================================
