----------------------------- MODULE PluginBuild -----------------------------
(***************************************************************************)
(* ensureBuiltinPlugin: the plugin of a builtin transform is built when it *)
(* is not there or older than its source, by callers in several goroutines *)
(* and processes that share the cache directory.  A caller holds the mutex *)
(* of its process and an exclusive flock on the lock file, builds into a   *)
(* file of its own and renames that.  The plugin is loaded later.          *)
(*                                                                         *)
(* A version of the source stands for its text and the packages it imports *)
(* together.  Files have the time of their last write.  The source may be  *)
(* edited at any time, and a process may die at any time, which frees its  *)
(* flock and leaves its files behind.  Local variables are reset when they *)
(* are used for the last time.                                             *)
(***************************************************************************)
EXTENDS Naturals, FiniteSets

CONSTANTS
  Callers,    \* the calls
  NoCaller,   \* holds a lock that nobody holds
  ProcOf,     \* the process of each call
  MaxEdits,   \* bound: edits of the source
  MaxClock    \* bound: the time

Proc == {ProcOf[c] : c \in Callers}

ASSUME NoCallerAssumption == NoCaller \notin Callers
ASSUME BoundsAssumption == MaxEdits \in Nat /\ MaxClock \in Nat

VARIABLES
  source,    \* version and time of the source
  out,       \* outputPath
  tmp,       \* tmpOutput of each process
  mu,        \* holder of builtinPluginBuildMu in each process
  flock,     \* holder of the flock
  pc,        \* where each call is
  stat,      \* the time of the source each call has found
  read,      \* the version its build has read
  err,       \* the calls that return an error
  begun,     \* history: the version of the source when the call began
  loaded,    \* the plugin each caller's job runs
  opener,    \* the call that has opened the plugin in each process
  clock,     \* the time
  hidden     \* history: an edit that the times of the files do not show

vars == <<source, out, tmp, mu, flock, pc, stat, read, err, begun, loaded, opener, clock, hidden>>

NoFile == [version |-> 0, time |-> 0, whole |-> FALSE]
File == [version : 0..(MaxEdits + 1), time : 0..MaxClock, whole : BOOLEAN]

\* Files, locks and calls are what they may be.
TypeOK ==
  /\ source \in [version : 1..(MaxEdits + 1), time : 0..MaxClock]
  /\ out \in File /\ tmp \in [Proc -> File] /\ loaded \in [Callers -> File]
  /\ mu \in [Proc -> Callers \cup {NoCaller}] /\ flock \in Callers \cup {NoCaller}
  /\ pc \in [Callers -> {"start", "lock", "flock", "stat", "compare", "build", "building", "rename",
                         "release", "unlock", "load", "done", "dead"}]
  /\ stat \in [Callers -> 0..MaxClock]
  /\ {read, begun} \subseteq [Callers -> 0..(MaxEdits + 1)]
  /\ err \subseteq Callers /\ opener \in [Proc -> Callers \cup {NoCaller}]
  /\ clock \in 0..MaxClock /\ hidden \in BOOLEAN

Init ==
  /\ source = [version |-> 1, time |-> 0]
  /\ out = NoFile /\ tmp = [p \in Proc |-> NoFile]
  /\ mu = [p \in Proc |-> NoCaller] /\ flock = NoCaller
  /\ pc = [c \in Callers |-> "start"]
  /\ stat = [c \in Callers |-> 0]
  /\ read = [c \in Callers |-> 0] /\ begun = [c \in Callers |-> 0]
  /\ err = {}
  /\ loaded = [c \in Callers |-> NoFile] /\ opener = [p \in Proc |-> NoCaller]
  /\ clock = 0 /\ hidden = FALSE

-----------------------------------------------------------------------------
GoTo(c, from, to) == pc[c] = from /\ pc' = [pc EXCEPT ![c] = to]

\* The source is there, and the cache directory.
Start(c) ==
  /\ GoTo(c, "start", "lock")
  /\ begun' = [begun EXCEPT ![c] = source.version]
  /\ UNCHANGED <<source, out, tmp, mu, flock, stat, read, err, loaded, opener, clock, hidden>>

\* builtinPluginBuildMu.Lock()
LockMu(c) ==
  /\ mu[ProcOf[c]] = NoCaller
  /\ mu' = [mu EXCEPT ![ProcOf[c]] = c]
  /\ GoTo(c, "lock", "flock")
  /\ UNCHANGED <<source, out, tmp, flock, stat, read, err, begun, loaded, opener, clock, hidden>>

\* Faulty variant of Flock: the lock is a shared one.
FlockShared(c) ==
  /\ flock' = c
  /\ GoTo(c, "flock", "stat")
  /\ UNCHANGED <<source, out, tmp, mu, stat, read, err, begun, loaded, opener, clock, hidden>>

\* syscall.Flock(LOCK_EX), on a descriptor of the call's own
Flock(c) ==
  /\ flock = NoCaller
  /\ flock' = c
  /\ GoTo(c, "flock", "stat")
  /\ UNCHANGED <<source, out, tmp, mu, stat, read, err, begun, loaded, opener, clock, hidden>>

StatSource(c) ==
  /\ GoTo(c, "stat", "compare")
  /\ stat' = [stat EXCEPT ![c] = source.time]
  /\ UNCHANGED <<source, out, tmp, mu, flock, read, err, begun, loaded, opener, clock, hidden>>

\* Nothing is to be done when the output is there and not older.
StatOutput(c) ==
  /\ GoTo(c, "compare", IF out # NoFile /\ out.time >= stat[c] THEN "release" ELSE "build")
  /\ stat' = [stat EXCEPT ![c] = 0]
  /\ UNCHANGED <<source, out, tmp, mu, flock, read, err, begun, loaded, opener, clock, hidden>>

\* Faulty variant of GoBuild: go build -o outputPath.
GoBuildInPlace(c) ==
  /\ GoTo(c, "build", "building")
  /\ read' = [read EXCEPT ![c] = source.version]
  /\ out' = [version |-> source.version, time |-> clock, whole |-> FALSE]
  /\ UNCHANGED <<source, tmp, mu, flock, stat, err, begun, loaded, opener, clock, hidden>>

\* go build reads the source and begins to write the file.
GoBuild(c) ==
  /\ GoTo(c, "build", "building")
  /\ read' = [read EXCEPT ![c] = source.version]
  /\ tmp' = [tmp EXCEPT ![ProcOf[c]] = [version |-> source.version, time |-> clock, whole |-> FALSE]]
  /\ UNCHANGED <<source, out, mu, flock, stat, err, begun, loaded, opener, clock, hidden>>

GoBuildDone(c) ==
  /\ GoTo(c, "building", "rename")
  /\ tmp' = [tmp EXCEPT ![ProcOf[c]] = [version |-> read[c], time |-> clock, whole |-> TRUE]]
  /\ UNCHANGED <<source, out, mu, flock, stat, read, err, begun, loaded, opener, clock, hidden>>

\* Faulty variant of Fails: the locks are given back only on success.
FailsLocked(c) ==
  /\ \E at \in {"start", "flock", "stat", "building", "rename"} : GoTo(c, at, "done")
  /\ err' = err \cup {c}
  /\ UNCHANGED <<source, out, tmp, mu, flock, stat, read, begun, loaded, opener, clock, hidden>>

\* The lock file, the flock, the source, go build or the rename fails.
Fails(c) ==
  /\ \/ GoTo(c, "start", "done")
     \/ GoTo(c, "flock", "unlock")
     \/ \E at \in {"stat", "building", "rename"} : GoTo(c, at, "release")
  /\ err' = err \cup {c}
  /\ UNCHANGED <<source, out, tmp, mu, flock, stat, read, begun, loaded, opener, clock, hidden>>

\* os.Rename: the file takes the place of the output at once.
Rename(c) ==
  /\ GoTo(c, "rename", "release")
  /\ out' = tmp[ProcOf[c]]
  /\ tmp' = [tmp EXCEPT ![ProcOf[c]] = NoFile]
  /\ UNCHANGED <<source, mu, flock, stat, read, err, begun, loaded, opener, clock, hidden>>

\* The deferred functions: the file of a failed build is removed, the flock is
\* given back, and after the return the mutex.
Release(c) ==
  /\ GoTo(c, "release", "unlock")
  /\ tmp' = [tmp EXCEPT ![ProcOf[c]] = NoFile]
  /\ read' = [read EXCEPT ![c] = 0]
  /\ flock' = IF flock = c THEN NoCaller ELSE flock
  /\ UNCHANGED <<source, out, mu, stat, err, begun, loaded, opener, clock, hidden>>

UnlockMu(c) ==
  /\ GoTo(c, "unlock", IF c \in err THEN "done" ELSE "load")
  /\ mu' = [mu EXCEPT ![ProcOf[c]] = NoCaller]
  /\ UNCHANGED <<source, out, tmp, flock, stat, read, err, begun, loaded, opener, clock, hidden>>

\* The job loads the plugin: plugin.Open (external) reads the file when the process
\* has not opened that path before, and else returns the plugin it has.
Load(c) ==
  /\ GoTo(c, "load", "done")
  /\ LET p == ProcOf[c]
         first == opener[p] = NoCaller
     IN  /\ loaded' = [loaded EXCEPT ![c] = IF first THEN out ELSE loaded[opener[p]]]
         /\ opener' = [opener EXCEPT ![p] = IF first THEN c ELSE @]
  /\ UNCHANGED <<source, out, tmp, mu, flock, stat, read, err, begun, clock, hidden>>

-----------------------------------------------------------------------------
(* The surroundings.                                                       *)

Tick ==
  /\ clock < MaxClock
  /\ clock' = clock + 1
  /\ UNCHANGED <<source, out, tmp, mu, flock, pc, stat, read, err, begun, loaded, opener, hidden>>

\* The source is saved.  A build under way has not read it but will be newer, and
\* so are files written within the same unit of time.
Edit ==
  /\ source.version <= MaxEdits
  /\ source' = [version |-> source.version + 1, time |-> clock]
  /\ hidden' = (\/ hidden
                \/ \E c \in Callers : pc[c] \in {"building", "rename"}
                \/ out # NoFile /\ out.time = clock)
  /\ UNCHANGED <<out, tmp, mu, flock, pc, stat, read, err, begun, loaded, opener, clock>>

\* Another file that goes into the plugin is saved, a package that it imports: only
\* the time of the source itself is looked at.
EditImport ==
  /\ source.version <= MaxEdits
  /\ source' = [source EXCEPT !.version = @ + 1]
  /\ hidden' = TRUE
  /\ UNCHANGED <<out, tmp, mu, flock, pc, stat, read, err, begun, loaded, opener, clock>>

\* A process dies; the kernel closes its lock file.
Crash(p) ==
  /\ \E c \in Callers : ProcOf[c] = p /\ pc[c] \notin {"start", "done", "dead"}
  /\ pc' = [c \in Callers |-> IF ProcOf[c] = p /\ pc[c] # "done" THEN "dead" ELSE pc[c]]
  /\ flock' = IF flock # NoCaller /\ ProcOf[flock] = p THEN NoCaller ELSE flock
  /\ mu' = [mu EXCEPT ![p] = NoCaller]
  /\ UNCHANGED <<source, out, tmp, stat, read, err, begun, loaded, opener, clock, hidden>>

-----------------------------------------------------------------------------
Call(c) ==
  \/ Start(c) \/ LockMu(c) \/ Flock(c) \/ StatSource(c) \/ StatOutput(c)
  \/ GoBuild(c) \/ GoBuildDone(c) \/ Rename(c) \/ Fails(c)
  \/ Release(c) \/ UnlockMu(c) \/ Load(c)

Over(c) == pc[c] \in {"done", "dead"}

Terminated == (\A c \in Callers : Over(c)) /\ UNCHANGED vars

Next ==
  \/ \E c \in Callers : Call(c)
  \/ Tick \/ Edit \/ EditImport \/ \E p \in Proc : Crash(p)
  \/ Terminated

Spec == Init /\ [][Next]_vars

\* Goroutines are scheduled, builds end and locks are given to their waiters.
FairSpec == Spec /\ \A c \in Callers : WF_vars(Call(c))

-----------------------------------------------------------------------------
(* Properties.                                                             *)

\* A file is complete, and at least as new as the source was when the call began.  An
\* edit that fell into a build, into the same unit of time as one, or on a file
\* whose time is not looked at is the exception: such a plugin is stale, and
\* stays so for every later call.
Current(file, c) == file.whole /\ (file.version >= begun[c] \/ hidden)

\* Whoever was told that the plugin is there finds a complete and current file,
\* whichever process died while building it, and whatever others build until the
\* job loads it.  What the job runs is the file only if it is the first of its process to
\* load it: the others run what the first one found, complete, and current for that
\* one, though the source was edited and the file built again since.
LoadsCurrent ==
  \A c \in Callers \ err :
    LET first == opener[ProcOf[c]]
    IN  /\ pc[c] = "load" => Current(out, c)
        /\ pc[c] = "done" => loaded[c] = loaded[first] /\ Current(loaded[c], first)

\* The plugin is never replaced by one of an older source, although builds of
\* several processes may overlap with edits.
NeverOlder == [][out'.version >= out.version]_vars

\* Every call returns unless its process dies, whatever fails and whoever dies with
\* the lock.
CallsReturn == <>(\A c \in Callers : Over(c))
=============================================================================
