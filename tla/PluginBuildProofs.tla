-------------------------- MODULE PluginBuildProofs --------------------------
(***************************************************************************)
(* Proofs about PluginBuild, for any calls, processes, edits and times.    *)
(*                                                                         *)
(* The mutex and the flock make a build and its rename exclusive (Locks),  *)
(* so what a call has read is never older than the output it replaces, and *)
(* the times of the files show which output is current unless an edit is   *)
(* hidden (Files, CallInv).  A process keeps the plugin that its first     *)
(* call has opened (Opened).                                               *)
(***************************************************************************)
EXTENDS PluginBuild, TLAPS

-----------------------------------------------------------------------------
\* The calls that hold the flock, and the ones that hold the mutex.
Holding == {"stat", "compare", "build", "building", "rename", "release"}
InMutex == Holding \cup {"flock", "unlock"}

\* A lock that a call has taken is its own.
Locks ==
  \A c \in Callers :
    /\ pc[c] \in InMutex => mu[ProcOf[c]] = c
    /\ pc[c] \in Holding => flock = c

\* The output is complete and of no version that was not written yet; unless an edit
\* is hidden, one that is not older than the source is of its version.
Files ==
  /\ out = NoFile \/ out.whole
  /\ out.version <= source.version /\ out.time <= clock /\ source.time <= clock
  /\ ~hidden /\ out # NoFile /\ out.time >= source.time => out.version = source.version

\* What a call has read, built or found.
CallInv(c) ==
  /\ begun[c] <= source.version
  /\ pc[c] \in {"building", "rename"} =>
       /\ begun[c] <= read[c] /\ out.version <= read[c] /\ read[c] <= source.version
       /\ hidden \/ read[c] = source.version
  /\ pc[c] = "rename" =>
       LET t == tmp[ProcOf[c]] IN t.whole /\ t.version = read[c] /\ t.time <= clock
  /\ pc[c] = "compare" /\ out # NoFile /\ out.time >= stat[c] => Current(out, c)
  /\ pc[c] \in {"release", "unlock", "load"} /\ c \notin err => Current(out, c)
  /\ pc[c] = "load" => c \notin err

CallsInv == \A c \in Callers : CallInv(c)

\* Whoever has opened the plugin in a process is done, and found a current one; the
\* other calls of the process have what it found.
Opened ==
  /\ \A p \in Proc :
       opener[p] # NoCaller => pc[opener[p]] = "done" /\ Current(loaded[opener[p]], opener[p])
  /\ \A c \in Callers \ err :
       pc[c] = "done" => /\ opener[ProcOf[c]] # NoCaller
                         /\ loaded[c] = loaded[opener[ProcOf[c]]]

IInv == TypeOK /\ Locks /\ Files /\ CallsInv /\ Opened
-----------------------------------------------------------------------------
(* Types.                                                                  *)

\* A call moves from one place to another.
LEMMA GoToMoves ==
  ASSUME TypeOK, NEW c \in Callers, NEW from, NEW to, GoTo(c, from, to)
  PROVE  /\ pc[c] = from /\ pc'[c] = to
         /\ \A d \in Callers : d # c => pc'[d] = pc[d]
  BY DEF TypeOK, GoTo

\* Every step of a call keeps the types.
LEMMA CallType == ASSUME TypeOK, NEW c \in Callers, Call(c) PROVE TypeOK'
<1> USE BoundsAssumption DEF TypeOK, GoTo, NoFile, File
<1>0. ProcOf[c] \in Proc
  BY DEF Proc
<1>1. CASE Start(c)
  BY <1>0, <1>1 DEF Start
<1>2. CASE LockMu(c)
  BY <1>0, <1>2 DEF LockMu
<1>3. CASE Flock(c)
  BY <1>0, <1>3 DEF Flock
<1>4. CASE StatSource(c)
  BY <1>0, <1>4 DEF StatSource
<1>5. CASE StatOutput(c)
  BY <1>0, <1>5 DEF StatOutput
<1>6. CASE GoBuild(c)
  BY <1>0, <1>6 DEF GoBuild
<1>7. CASE GoBuildDone(c)
  BY <1>0, <1>7 DEF GoBuildDone
<1>8. CASE Rename(c)
  BY <1>0, <1>8 DEF Rename
<1>9. CASE Fails(c)
  BY <1>0, <1>9 DEF Fails
<1>10. CASE Release(c)
  BY <1>0, <1>10 DEF Release
<1>11. CASE UnlockMu(c)
  BY <1>0, <1>11 DEF UnlockMu
<1>12. CASE Load(c)
  BY <1>0, <1>12 DEF Load
<1> QED
  BY <1>1, <1>2, <1>3, <1>4, <1>5, <1>6, <1>7, <1>8, <1>9, <1>10, <1>11, <1>12 DEF Call

\* So does every step.
LEMMA NextType == TypeOK /\ [Next]_vars => TypeOK'
<1> SUFFICES ASSUME TypeOK, [Next]_vars PROVE TypeOK'
  OBVIOUS
<1> USE BoundsAssumption DEF TypeOK
<1>1. CASE \E c \in Callers : Call(c)
  BY <1>1, CallType
<1>2. CASE Tick
  BY <1>2 DEF Tick
<1>3. CASE Edit
  BY <1>3 DEF Edit
<1>4. CASE EditImport
  BY <1>4 DEF EditImport
<1>5. ASSUME NEW p \in Proc, Crash(p) PROVE TypeOK'
  BY <1>5 DEF Crash
<1>6. CASE UNCHANGED vars
  BY <1>6 DEF vars
<1> QED
  BY <1>1, <1>2, <1>3, <1>4, <1>5, <1>6 DEF Next, Terminated

\* The initial state has the types.
LEMMA InitType == Init => TypeOK
<1> SUFFICES ASSUME Init PROVE TypeOK
  OBVIOUS
<1>1. NoFile \in File
  BY BoundsAssumption DEF File, NoFile
<1>2. hidden \in BOOLEAN
  BY Zenon DEF Init
<1>3. source \in [version : 1..(MaxEdits + 1), time : 0..MaxClock]
  BY BoundsAssumption DEF Init
<1> QED
  BY <1>1, <1>2, <1>3, BoundsAssumption DEF Init, TypeOK

\* Files, locks and calls are always what they may be.
THEOREM TypeInvariant == Spec => []TypeOK
  BY InitType, NextType, PTL DEF Spec

-----------------------------------------------------------------------------
(* The locks.                                                              *)

\* Every step of a call keeps the locks with the calls that have taken them.
LEMMA CallLocks == ASSUME TypeOK, Locks, NEW c \in Callers, Call(c) PROVE Locks'
<1> SUFFICES ASSUME NEW d \in Callers
             PROVE  /\ pc'[d] \in InMutex => mu'[ProcOf[d]] = d
                    /\ pc'[d] \in Holding => flock' = d
  BY DEF Locks
<1>0. /\ ProcOf[c] \in Proc /\ ProcOf[d] \in Proc /\ c # NoCaller /\ d # NoCaller
      /\ mu \in [Proc -> Callers \cup {NoCaller}]
  BY NoCallerAssumption DEF Proc, TypeOK
<1> USE GoToMoves, <1>0 DEF Locks, InMutex, Holding
<1>1. CASE Start(c)
  BY <1>1 DEF Start
<1>2. CASE LockMu(c)
  BY <1>2 DEF LockMu
<1>3. CASE Flock(c)
  BY <1>3 DEF Flock
<1>4. CASE StatSource(c)
  BY <1>4 DEF StatSource
<1>5. CASE StatOutput(c)
  BY <1>5 DEF StatOutput
<1>6. CASE GoBuild(c)
  BY <1>6 DEF GoBuild
<1>7. CASE GoBuildDone(c)
  BY <1>7 DEF GoBuildDone
<1>8. CASE Rename(c)
  BY <1>8 DEF Rename
<1>9. CASE Fails(c)
  BY <1>9 DEF Fails
<1>10. CASE Release(c)
  BY <1>10 DEF Release
<1>11. CASE UnlockMu(c)
  BY <1>11 DEF UnlockMu
<1>12. CASE Load(c)
  BY <1>12 DEF Load
<1> QED
  BY <1>1, <1>2, <1>3, <1>4, <1>5, <1>6, <1>7, <1>8, <1>9, <1>10, <1>11, <1>12 DEF Call

\* So does every step.
LEMMA NextLocks == TypeOK /\ Locks /\ [Next]_vars => Locks'
<1> SUFFICES ASSUME TypeOK, Locks, [Next]_vars PROVE Locks'
  OBVIOUS
<1>1. CASE \E c \in Callers : Call(c)
  BY <1>1, CallLocks
<1>2. CASE UNCHANGED <<pc, mu, flock>>
  BY <1>2 DEF Locks
<1>3. ASSUME NEW p \in Proc, Crash(p), NEW d \in Callers
      PROVE  /\ pc'[d] \in InMutex => mu'[ProcOf[d]] = d
             /\ pc'[d] \in Holding => flock' = d
  <2>1. CASE ProcOf[d] = p
    BY <1>3, <2>1 DEF Crash, InMutex, Holding
  <2>2. CASE ProcOf[d] # p
    <3>1. pc'[d] = pc[d] /\ mu'[ProcOf[d]] = mu[ProcOf[d]]
      BY <1>3, <2>2 DEF Crash, TypeOK, Proc
    <3>2. flock = d => flock' = d
      BY <1>3, <2>2 DEF Crash
    <3> QED
      BY <3>1, <3>2 DEF Locks
  <2> QED
    BY <2>1, <2>2
<1>4. ASSUME NEW p \in Proc, Crash(p) PROVE Locks'
  BY <1>3, <1>4 DEF Locks
<1> QED
  BY <1>1, <1>2, <1>4 DEF Next, Tick, Edit, EditImport, Terminated, vars

-----------------------------------------------------------------------------
(* The files.                                                              *)

\* One call at a time is between taking and giving back the flock.
LEMMA Exclusive ==
  ASSUME Locks, NEW c \in Callers, NEW d \in Callers, c # d, pc[c] \in Holding
  PROVE  pc[d] \notin Holding
  BY DEF Locks

\* Every step of a call keeps what the output is, and never brings back an older one.
LEMMA CallFiles ==
  ASSUME IInv, NEW c \in Callers, Call(c)
  PROVE  Files' /\ out'.version >= out.version
<1>0. out.version \in Nat
  BY BoundsAssumption DEF IInv, TypeOK, File
<1>1. CASE Rename(c)
  <2>1. pc[c] = "rename" /\ out' = tmp[ProcOf[c]] /\ UNCHANGED <<source, clock, hidden>>
    BY <1>1 DEF Rename, GoTo
  <2>2. /\ out'.whole /\ out'.version = read[c] /\ out'.time <= clock
        /\ out.version <= read[c] /\ read[c] <= source.version
        /\ hidden \/ read[c] = source.version
    BY <2>1 DEF IInv, CallsInv, CallInv
  <2>3. out.version <= out'.version
    BY <2>2
  <2>4. Files'
    BY <2>1, <2>2 DEF IInv, Files
  <2> QED
    BY <2>3, <2>4, BoundsAssumption DEF IInv, TypeOK, File
<1>2. CASE UNCHANGED <<out, source, clock, hidden>>
  BY <1>0, <1>2 DEF IInv, Files
<1> QED
  BY <1>1, <1>2 DEF Call, Start, LockMu, Flock, StatSource, StatOutput, GoBuild, GoBuildDone,
                    Fails, Release, UnlockMu, Load

\* A step of one call does not disturb what another one relies on.
LEMMA OtherCallInv ==
  ASSUME IInv, NEW c \in Callers, Call(c), NEW d \in Callers, c # d
  PROVE  CallInv(d)'
<1>1. pc'[d] = pc[d]
  BY DEF Call, Start, LockMu, Flock, StatSource, StatOutput, GoBuild, GoBuildDone, Rename,
         Fails, Release, UnlockMu, Load, GoTo, IInv, TypeOK
<1>2. begun'[d] = begun[d] /\ read'[d] = read[d] /\ stat'[d] = stat[d] /\ loaded'[d] = loaded[d]
  BY DEF Call, Start, LockMu, Flock, StatSource, StatOutput, GoBuild, GoBuildDone, Rename,
         Fails, Release, UnlockMu, Load, GoTo, IInv, TypeOK
<1>3. (d \in err' <=> d \in err) /\ UNCHANGED <<source, clock, hidden>>
  BY DEF Call, Start, LockMu, Flock, StatSource, StatOutput, GoBuild, GoBuildDone, Rename,
         Fails, Release, UnlockMu, Load, GoTo, IInv, TypeOK
<1>4. pc[d] = "rename" => tmp'[ProcOf[d]] = tmp[ProcOf[d]]
  <2>1. CASE pc[c] \in InMutex /\ pc[d] = "rename"
    <3>1. ProcOf[c] # ProcOf[d]
      BY <2>1 DEF IInv, Locks, InMutex, Holding
    <3> QED
      BY <3>1 DEF Call, Start, LockMu, Flock, StatSource, StatOutput, GoBuild, GoBuildDone, Rename,
         Fails, Release, UnlockMu, Load, IInv, TypeOK, Proc
  <2>2. CASE pc[c] \notin InMutex
    BY <2>2 DEF Call, Start, LockMu, Flock, StatSource, StatOutput, GoBuild, GoBuildDone, Rename,
         Fails, Release, UnlockMu, Load, GoTo, InMutex, Holding
  <2> QED
    BY <2>1, <2>2
<1>5. CASE UNCHANGED out
  BY <1>1, <1>2, <1>3, <1>4, <1>5 DEF IInv, CallsInv, CallInv, Current
<1>6. CASE Rename(c)
  <2>1. pc[d] \notin Holding
    BY <1>6, Exclusive DEF Rename, GoTo, Holding, IInv
  <2>2. out'.whole /\ out'.version >= out.version
    BY <1>6, CallFiles DEF Rename, GoTo, IInv, CallsInv, CallInv
  <2>3. out.version \in Nat /\ out'.version \in Nat /\ begun[d] \in Nat
    BY <1>6, BoundsAssumption DEF Rename, IInv, TypeOK, File, Proc
  <2>4. Current(out, d) => Current(out, d)'
    BY <1>2, <1>3, <2>2, <2>3 DEF Current
  <2> QED
    BY <1>1, <1>2, <1>3, <2>1, <2>4 DEF IInv, CallsInv, CallInv, Current, Holding
<1> QED
  BY <1>5, <1>6 DEF Call, Start, LockMu, Flock, StatSource, StatOutput, GoBuild, GoBuildDone,
                    Fails, Release, UnlockMu, Load

\* A step of a call leaves it with what it relies on.
LEMMA OwnCallInv == ASSUME IInv, NEW c \in Callers, Call(c) PROVE CallInv(c)'
<1>0. /\ TypeOK /\ Files /\ CallInv(c) /\ ProcOf[c] \in Proc
      /\ source.version \in Nat /\ source.time \in Nat /\ out.version \in Nat /\ out.time \in Nat
      /\ begun[c] \in Nat /\ clock \in Nat
  BY BoundsAssumption DEF IInv, CallsInv, TypeOK, File, Proc
<1> USE GoToMoves, <1>0 DEF CallInv, Current, TypeOK
<1>1. CASE Start(c)
  BY <1>1 DEF Start
<1>2. CASE LockMu(c)
  BY <1>2 DEF LockMu
<1>3. CASE Flock(c)
  BY <1>3 DEF Flock
<1>4. CASE StatSource(c)
  BY <1>4 DEF StatSource, Files
<1>5. CASE StatOutput(c)
  BY <1>5 DEF StatOutput
<1>6. CASE GoBuild(c)
  BY <1>6 DEF GoBuild, Files
<1>7. CASE GoBuildDone(c)
  BY <1>7 DEF GoBuildDone
<1>8. CASE Rename(c)
  BY <1>8 DEF Rename
<1>9. CASE Fails(c)
  BY <1>9 DEF Fails
<1>10. CASE Release(c)
  BY <1>10 DEF Release
<1>11. CASE UnlockMu(c)
  BY <1>11 DEF UnlockMu
<1>12. CASE Load(c)
  BY <1>12 DEF Load
<1> QED
  BY <1>1, <1>2, <1>3, <1>4, <1>5, <1>6, <1>7, <1>8, <1>9, <1>10, <1>11, <1>12 DEF Call

\* The surroundings keep all of it: an edit that a build or an output of the same time
\* would not show is hidden from then on.
LEMMA SurroundingsFiles ==
  ASSUME IInv, \/ Tick \/ Edit \/ EditImport \/ \E p \in Proc : Crash(p)
               \/ UNCHANGED vars
  PROVE  Files' /\ CallsInv' /\ out' = out
<1>0. /\ TypeOK /\ Files /\ CallsInv
      /\ source.version \in Nat /\ source.time \in Nat /\ out.version \in Nat /\ out.time \in Nat
      /\ clock \in Nat
      /\ \A c \in Callers : /\ begun[c] \in Nat /\ read[c] \in Nat /\ ProcOf[c] \in Proc
                            /\ tmp[ProcOf[c]].time \in Nat
  BY BoundsAssumption DEF IInv, TypeOK, File, Proc
<1>1. CASE Tick
  BY <1>0, <1>1 DEF Tick, Files, CallsInv, CallInv, Current
<1>2. CASE Edit
  <2>1. /\ source'.version = source.version + 1 /\ source'.time = clock
        /\ UNCHANGED <<out, tmp, mu, flock, pc, stat, read, err, begun, loaded, opener, clock>>
    BY <1>2 DEF Edit
  <2>2. /\ hidden => hidden'
        /\ \A c \in Callers : pc[c] \in {"building", "rename"} => hidden'
        /\ out # NoFile /\ out.time = clock => hidden'
    BY <1>2, Zenon DEF Edit
  <2>3. Files'
    BY <1>0, <2>1, <2>2 DEF Files
  <2>4. CallsInv'
    BY <1>0, <2>1, <2>2 DEF CallsInv, CallInv, Current
  <2> QED
    BY <2>1, <2>3, <2>4
<1>3. CASE EditImport
  <2>1. /\ source'.version = source.version + 1 /\ source'.time = source.time
        /\ UNCHANGED <<out, tmp, mu, flock, pc, stat, read, err, begun, loaded, opener, clock>>
        /\ hidden'
    BY <1>0, <1>3 DEF EditImport, TypeOK
  <2> QED
    BY <1>0, <2>1 DEF Files, CallsInv, CallInv, Current
<1>4. ASSUME NEW p \in Proc, Crash(p) PROVE Files' /\ CallsInv' /\ out' = out
  <2>1. /\ UNCHANGED <<source, out, tmp, stat, read, err, begun, loaded, opener, clock, hidden>>
        /\ \A c \in Callers : pc'[c] = "dead" \/ pc'[c] = pc[c]
    BY <1>4 DEF Crash
  <2> QED
    BY <1>0, <2>1 DEF Files, CallsInv, CallInv, Current
<1>5. CASE UNCHANGED vars
  BY <1>0, <1>5 DEF vars, Files, CallsInv, CallInv, Current
<1> QED
  BY <1>1, <1>2, <1>3, <1>4, <1>5

-----------------------------------------------------------------------------
(* The plugins that processes have opened.                                 *)

\* A step that loads nothing and brings nobody to the end without an error keeps them.
LEMMA OpenedKept ==
  ASSUME IInv, UNCHANGED <<loaded, opener>>, err \subseteq err', hidden => hidden',
         \A c \in Callers : /\ pc[c] = "done" => pc'[c] = "done" /\ begun'[c] = begun[c]
                            /\ pc'[c] = "done" => pc[c] = "done" \/ c \in err'
  PROVE  Opened'
<1>1. ASSUME NEW p \in Proc, opener[p] # NoCaller
      PROVE  pc'[opener[p]] = "done" /\ Current(loaded[opener[p]], opener[p])'
  <2>1. opener[p] \in Callers
    BY <1>1 DEF IInv, TypeOK
  <2>2. pc[opener[p]] = "done" /\ Current(loaded[opener[p]], opener[p])
    BY <1>1 DEF IInv, Opened
  <2>3. pc'[opener[p]] = "done" /\ begun'[opener[p]] = begun[opener[p]]
    BY <2>1, <2>2
  <2> QED
    BY <2>2, <2>3 DEF Current
<1>2. ASSUME NEW c \in Callers, c \notin err', pc'[c] = "done"
      PROVE  opener'[ProcOf[c]] # NoCaller /\ loaded'[c] = loaded'[opener'[ProcOf[c]]]
  BY <1>2 DEF IInv, Opened
<1> QED
  BY <1>1, <1>2 DEF Opened

\* Every step keeps them.
LEMMA OpenedStep == ASSUME IInv, [Next]_vars PROVE Opened'
<1>1. ASSUME NEW c \in Callers, Load(c) PROVE Opened'
  <2> DEFINE p == ProcOf[c]
             f == opener[p]
  <2>1. /\ p \in Proc /\ pc[c] = "load" /\ pc'[c] = "done" /\ UNCHANGED <<err, begun, hidden>>
        /\ \A d \in Callers : d # c => pc'[d] = pc[d]
        /\ \A d \in Callers : ProcOf[d] \in Proc
    BY <1>1, GoToMoves DEF Load, Proc, IInv
  <2>2. /\ loaded'[c] = IF f = NoCaller THEN out ELSE loaded[f]
        /\ \A d \in Callers : d # c => loaded'[d] = loaded[d]
        /\ opener'[p] = IF f = NoCaller THEN c ELSE f
        /\ \A q \in Proc : q # p => opener'[q] = opener[q]
    BY <1>1, <2>1 DEF Load, IInv, TypeOK
  <2>3. c # NoCaller /\ \A q \in Proc : opener[q] # NoCaller => opener[q] \in Callers /\ opener[q] # c
    BY <2>1, NoCallerAssumption DEF IInv, TypeOK, Opened
  <2>4. ASSUME NEW q \in Proc, opener[q] # NoCaller
        PROVE  /\ opener'[q] = opener[q] /\ loaded'[opener[q]] = loaded[opener[q]]
               /\ pc'[opener[q]] = "done" /\ Current(loaded[opener[q]], opener[q])
    <3>1. pc[opener[q]] = "done" /\ Current(loaded[opener[q]], opener[q])
      BY <2>4 DEF IInv, Opened
    <3> QED
      BY <2>1, <2>2, <2>3, <2>4, <3>1
  <2>5. f = NoCaller => loaded'[c] = out /\ (c \in err \/ Current(out, c))
    BY <2>1, <2>2 DEF IInv, CallsInv, CallInv
  <2>6. c \notin err
    BY <2>1 DEF IInv, CallsInv, CallInv
  <2>7. ASSUME NEW q \in Proc, opener'[q] # NoCaller
        PROVE  pc'[opener'[q]] = "done" /\ Current(loaded[opener[q]], opener[q])'
    <3>1. CASE opener[q] # NoCaller
      BY <2>1, <2>4, <3>1 DEF Current
    <3>2. CASE opener[q] = NoCaller
      <4>1. q = p /\ f = NoCaller /\ opener'[q] = c
        BY <2>2, <2>7, <3>2
      <4> QED
        BY <2>1, <2>5, <2>6, <4>1 DEF Current
    <3> QED
      BY <3>1, <3>2
  <2>8. ASSUME NEW d \in Callers, d \notin err', pc'[d] = "done"
        PROVE  opener'[ProcOf[d]] # NoCaller /\ loaded'[d] = loaded'[opener'[ProcOf[d]]]
    <3>1. CASE d = c
      <4>1. CASE f = NoCaller
        BY <2>2, <2>3, <3>1, <4>1
      <4>2. CASE f # NoCaller
        BY <2>1, <2>2, <2>4, <3>1, <4>2
      <4> QED
        BY <4>1, <4>2
    <3>2. CASE d # c
      <4>1. opener[ProcOf[d]] # NoCaller /\ loaded[d] = loaded[opener[ProcOf[d]]]
        BY <2>1, <2>8, <3>2 DEF IInv, Opened
      <4> QED
        BY <2>1, <2>2, <2>4, <3>2, <4>1
    <3> QED
      BY <3>1, <3>2
  <2> QED
    BY <2>7, <2>8 DEF Opened
<1>2. ASSUME NEW c \in Callers, Call(c), ~Load(c) PROVE Opened'
  <2>1. pc[c] # "done" /\ \A d \in Callers : d # c => pc'[d] = pc[d] /\ begun'[d] = begun[d]
    BY <1>2 DEF Call, Start, LockMu, Flock, StatSource, StatOutput, GoBuild, GoBuildDone, Rename,
         Fails, Release, UnlockMu, GoTo, IInv, TypeOK
  <2>2. pc'[c] = "done" => c \in err'
    BY <1>2, GoToMoves DEF Call, Start, LockMu, Flock, StatSource, StatOutput, GoBuild, GoBuildDone, Rename,
         Fails, Release, UnlockMu, IInv
  <2>3. UNCHANGED <<loaded, opener, hidden>> /\ err \subseteq err'
    BY <1>2 DEF Call, Start, LockMu, Flock, StatSource, StatOutput, GoBuild, GoBuildDone, Rename,
         Fails, Release, UnlockMu
  <2> QED
    BY <2>1, <2>2, <2>3, OpenedKept
<1>3. CASE Tick \/ Edit \/ EditImport \/ UNCHANGED vars
  <2>1. UNCHANGED <<loaded, opener, pc, begun, err>>
    BY <1>3 DEF Tick, Edit, EditImport, vars
  <2>2. hidden => hidden'
    BY <1>3, Zenon DEF Tick, Edit, EditImport, vars
  <2> QED
    BY <2>1, <2>2, OpenedKept
<1>4. ASSUME NEW p \in Proc, Crash(p) PROVE Opened'
  <2>1. UNCHANGED <<loaded, opener, begun, err, hidden>>
    BY <1>4 DEF Crash
  <2>2. \A c \in Callers : pc'[c] = IF ProcOf[c] = p /\ pc[c] # "done" THEN "dead" ELSE pc[c]
    BY <1>4 DEF Crash
  <2> QED
    BY <2>1, <2>2, OpenedKept
<1> QED
  BY <1>1, <1>2, <1>3, <1>4 DEF Next, Terminated

-----------------------------------------------------------------------------
(* The theorems.                                                           *)

\* The inductive invariant: every step keeps it.
THEOREM InductiveInvariant == Spec => []IInv
<1>1. Init => IInv
  <2> SUFFICES ASSUME Init PROVE Locks /\ Files /\ CallsInv /\ Opened
    BY InitType DEF IInv
  <2>1. Locks /\ CallsInv /\ Opened
    BY DEF Init, Locks, CallsInv, CallInv, InMutex, Holding, Opened
  <2>2. Files
    BY DEF Init, Files, NoFile
  <2> QED
    BY <2>1, <2>2
<1>2. IInv /\ [Next]_vars => IInv'
  <2> SUFFICES ASSUME IInv, [Next]_vars PROVE IInv'
    OBVIOUS
  <2>1. TypeOK' /\ Locks'
    BY NextType, NextLocks DEF IInv
  <2>2. ASSUME NEW c \in Callers, Call(c) PROVE Files' /\ CallsInv'
    BY <2>2, CallFiles, OtherCallInv, OwnCallInv DEF CallsInv
  <2>3. Files' /\ CallsInv'
    BY <2>2, SurroundingsFiles DEF Next, Terminated
  <2> QED
    BY <2>1, <2>3, OpenedStep DEF IInv
<1> QED
  BY <1>1, <1>2, PTL DEF Spec

\* Whoever was told that the plugin is there finds a complete and current file, and runs
\* what the first call of its process to load it found, for any number of calls and
\* processes and any edits and crashes.
THEOREM LoadsCurrentHolds == Spec => []LoadsCurrent
<1>1. IInv => LoadsCurrent
  <2> SUFFICES ASSUME IInv, NEW c \in Callers, c \notin err
               PROVE  LET first == opener[ProcOf[c]]
                      IN  /\ pc[c] = "load" => Current(out, c)
                          /\ pc[c] = "done" => loaded[c] = loaded[first] /\ Current(loaded[c], first)
    BY DEF LoadsCurrent
  <2>1. pc[c] = "load" => Current(out, c)
    BY DEF IInv, CallsInv, CallInv
  <2>2. pc[c] = "done" => /\ opener[ProcOf[c]] # NoCaller
                          /\ loaded[c] = loaded[opener[ProcOf[c]]]
    BY DEF IInv, Opened
  <2>3. ProcOf[c] \in Proc
    BY DEF Proc
  <2>4. pc[c] = "done" => Current(loaded[c], opener[ProcOf[c]])
    BY <2>2, <2>3 DEF IInv, Opened
  <2> QED
    BY <2>1, <2>2, <2>4
<1> QED
  BY <1>1, InductiveInvariant, PTL

\* The plugin is never replaced by one of an older source.
THEOREM NeverOlderHolds == Spec => NeverOlder
<1>1. IInv /\ [Next]_vars => [out'.version >= out.version]_vars
  <2> SUFFICES ASSUME IInv, Next PROVE out'.version >= out.version
    OBVIOUS
  <2>1. out.version \in Nat
    BY BoundsAssumption DEF IInv, TypeOK, File
  <2>2. CASE \E c \in Callers : Call(c)
    BY <2>2, CallFiles
  <2>3. CASE out' = out
    BY <2>1, <2>3
  <2> QED
    BY <2>2, <2>3, SurroundingsFiles DEF Next, Terminated
<1> QED
  BY <1>1, InductiveInvariant, PTL DEF Spec, NeverOlder
=============================================================================
