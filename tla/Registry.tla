------------------------------ MODULE Registry ------------------------------
(***************************************************************************)
(* The start and the end of a single machine job: every worker looks for a *)
(* free port, loads the plugin, registers with the master and waits for    *)
(* End; the master waits for enough registrations, runs its two phases and *)
(* calls End for every entry of its table.                                 *)
(*                                                                         *)
(* A registration is a call with a deadline: its answer may be lost after  *)
(* the master has handled it, and the worker then calls again, so that a   *)
(* worker can be in the table twice, and an entry can be added while the   *)
(* phases run.  ms.Workers is a slice: the phases hold pointers into its   *)
(* array, and an append that finds the array full copies it to a new one   *)
(* (one step) before the new one takes its place (another), while the      *)
(* phases, which take no lock, go on with the old one.                     *)
(*                                                                         *)
(* Of the phases only the use of the table and the names of the reduce     *)
(* outputs are here, and no call of them fails; MapPhase and ReducePhase   *)
(* have the rest.                                                          *)
(***************************************************************************)
EXTENDS Naturals, Sequences, FiniteSets

CONSTANTS
  NWorker,       \* workers to start = ms.totalWorkers
  NReduce,       \* ms.numReducer
  BusyPorts,     \* which ports other programs may have taken: a set of sets
  MaxAttempts,   \* ports a worker tries (128 in the code)
  MaxRegister    \* registrations a worker tries (40 in the code)

ASSUME NWorkerAssumption == NWorker \in Nat \ {0}
ASSUME NReduceAssumption == NReduce \in 1..NWorker
ASSUME AttemptsAssumption == MaxAttempts \in Nat \ {0} /\ MaxRegister \in Nat \ {0}

Worker == 1..NWorker

\* The k-th port worker w tries, counted from the master's port.
Candidate(w, k) == w + (k - 1) * NWorker

VARIABLES
  busy,       \* the ports taken by other programs
  pluginOk,   \* the plugin can be loaded
  wpc,        \* where each worker is
  tried,      \* ports each worker found occupied
  port,       \* the port each worker listens on; 0 = none
  calls,      \* registrations each worker has sent
  inflight,   \* those that can still reach the master: <<worker, number>>
  answers,    \* the answers that can still arrive: [call, id]
  id,         \* wr.ID; 0 before setID as well
  ends,       \* End handlers of each worker that wait to send on EndChan
  table,      \* ms.Workers: the worker of each entry
  state,      \* ... and its WorkerState, in the current array
  cap,        \* the capacity of that array
  gen,        \* its number
  growing,    \* the registration that copies the array and the copy; or <<>>
  mpc,        \* where the master is
  scan,       \* the entry availableWorkers visits next
  pass,       \* the entries that its pass over the table ranges over
  taken,      \* the pointers a phase holds: [gen, entry, back]
  endAt,      \* the entry endWorkers calls next
  endLen,     \* the entries it will call
  out,        \* the task whose output each mr-out file has; 0 = none
  stale,      \* history: an array was replaced that the phases still wrote to
  unset       \* history: a Reduce ran at a worker before its setID

netVars == <<calls, inflight, answers, id, ends>>
tabVars == <<table, state, cap, gen, growing, stale>>
phaseVars == <<mpc, scan, pass, taken, endAt, endLen, out, unset>>
vars == <<busy, pluginOk, wpc, tried, port, netVars, tabVars, phaseVars>>

MaxTable == NWorker * MaxRegister

\* Workers, entries and pointers exist.
TypeOK ==
  /\ busy \in BusyPorts /\ pluginOk \in BOOLEAN
  /\ wpc \in [Worker -> {"listen", "load", "call", "ready", "ended", "noPort", "failed"}]
  /\ tried \in [Worker -> 0..MaxAttempts] /\ port \in [Worker -> Nat]
  /\ calls \in [Worker -> 0..MaxRegister]
  /\ inflight \subseteq Worker \X (1..MaxRegister)
  /\ answers \subseteq [call : Worker \X (1..MaxRegister), id : 0..(MaxTable - 1)]
  /\ id \in [Worker -> 0..(MaxTable - 1)] /\ ends \in [Worker -> 0..MaxTable]
  /\ table \in Seq(Worker) /\ Len(state) = Len(table)
  /\ \A i \in DOMAIN state : state[i] \in {"IDLE", "BUSY"}
  /\ Len(table) <= cap /\ gen \in Nat
  /\ mpc \in {"wait", "map", "reduce", "end", "done"}
  /\ scan \in Nat \ {0} /\ pass \in Nat /\ \A k \in DOMAIN taken : taken[k].entry \in DOMAIN table
  /\ endAt \in 1..(endLen + 1) /\ endLen \in 0..MaxTable
  /\ out \in [0..(MaxTable - 1) -> 0..NReduce]
  /\ stale \in BOOLEAN /\ unset \in BOOLEAN

Init ==
  /\ busy \in BusyPorts /\ pluginOk \in BOOLEAN
  /\ wpc = [w \in Worker |-> "listen"]
  /\ tried = [w \in Worker |-> 0] /\ port = [w \in Worker |-> 0]
  /\ calls = [w \in Worker |-> 0] /\ inflight = {} /\ answers = {}
  /\ id = [w \in Worker |-> 0] /\ ends = [w \in Worker |-> 0]
  /\ table = <<>> /\ state = <<>> /\ cap = 0 /\ gen = 0 /\ growing = <<>>
  /\ mpc = "wait" /\ scan = 1 /\ pass = 0 /\ taken = <<>> /\ endAt = 1 /\ endLen = 0
  /\ out = [n \in 0..(MaxTable - 1) |-> 0]
  /\ stale = FALSE /\ unset = FALSE

WorkerTo(w, from, to) == wpc[w] = from /\ wpc' = [wpc EXCEPT ![w] = to]

-----------------------------------------------------------------------------
(* A worker: startWorkerWithRetryE, StartWorker, WorkerRegister.           *)

Occupied(p) == p \in busy \/ \E v \in Worker : port[v] = p

\* net.Listen succeeds.
Listen(w) ==
  /\ WorkerTo(w, "listen", "load")
  /\ LET p == Candidate(w, tried[w] + 1)
     IN  ~Occupied(p) /\ port' = [port EXCEPT ![w] = p]
  /\ UNCHANGED <<busy, pluginOk, tried, netVars, tabVars, phaseVars>>

\* "address already in use": the next candidate, or after MaxAttempts an error.
ListenFails(w) ==
  /\ Occupied(Candidate(w, tried[w] + 1))
  /\ WorkerTo(w, "listen", IF tried[w] + 1 = MaxAttempts THEN "noPort" ELSE "listen")
  /\ tried' = [tried EXCEPT ![w] = @ + 1]
  /\ UNCHANGED <<busy, pluginOk, port, netVars, tabVars, phaseVars>>

\* client.master.WorkerRegister, attempt n.
Send(w, n) ==
  /\ calls' = [calls EXCEPT ![w] = n]
  /\ inflight' = inflight \cup {<<w, n>>}

\* loadPlugin panics, which startWorkerOnce turns into an error; the server stays up.
LoadFails(w) ==
  /\ ~pluginOk
  /\ WorkerTo(w, "load", "failed")
  /\ UNCHANGED <<busy, pluginOk, tried, port, netVars, tabVars, phaseVars>>

Load(w) ==
  /\ pluginOk
  /\ WorkerTo(w, "load", "call")
  /\ Send(w, 1)
  /\ UNCHANGED <<busy, pluginOk, tried, port, answers, id, ends, tabVars, phaseVars>>

\* Unavailable, or no answer within 2 s: once more, up to MaxRegister times.
CallFails(w) ==
  /\ calls[w] < MaxRegister
  /\ WorkerTo(w, "call", "call")
  /\ Send(w, calls[w] + 1)
  /\ UNCHANGED <<busy, pluginOk, tried, port, answers, id, ends, tabVars, phaseVars>>

\* Another error, or the last attempt: log.Panic, turned into an error.
RegisterFails(w) ==
  /\ WorkerTo(w, "call", "failed")
  /\ UNCHANGED <<busy, pluginOk, tried, port, netVars, tabVars, phaseVars>>

\* Faulty variants of Receive: the ID is the number of workers when the answer is
\* made, not when the entry was added, and setID is forgotten.
ReceiveLater(w) ==
  /\ WorkerTo(w, "call", "ready")
  /\ \E a \in answers : a.call = <<w, calls[w]>>
  /\ id' = [id EXCEPT ![w] = Len(table) - 1]
  /\ UNCHANGED <<busy, pluginOk, tried, port, calls, inflight, answers, ends, tabVars, phaseVars>>

ReceiveNoID(w) ==
  /\ WorkerTo(w, "call", "ready")
  /\ \E a \in answers : a.call = <<w, calls[w]>>
  /\ UNCHANGED <<busy, pluginOk, tried, port, netVars, tabVars, phaseVars>>

\* The answer to the last attempt; an answer to an earlier one is thrown away.
Receive(w) ==
  /\ WorkerTo(w, "call", "ready")
  /\ \E a \in answers :
       /\ a.call = <<w, calls[w]>>
       /\ id' = [id EXCEPT ![w] = a.id]
  /\ UNCHANGED <<busy, pluginOk, tried, port, calls, inflight, answers, ends, tabVars, phaseVars>>

\* <-EndChan meets an End handler.
ReceiveEnd(w) ==
  /\ ends[w] > 0
  /\ WorkerTo(w, "ready", "ended")
  /\ ends' = [ends EXCEPT ![w] = @ - 1]
  /\ UNCHANGED <<busy, pluginOk, tried, port, calls, inflight, answers, id, tabVars, phaseVars>>

-----------------------------------------------------------------------------
(* Master.WorkerRegister, under ms.mux, for the request c; the server is   *)
(* up until the job is done.                                               *)

Answer(c, n) ==
  /\ inflight' = inflight \ {c}
  /\ answers' = answers \cup {[call |-> c, id |-> n]}

\* The append finds room in the array.
Register(c) ==
  /\ c \in inflight /\ mpc # "done" /\ growing = <<>>
  /\ Len(table) < cap
  /\ table' = Append(table, c[1])
  /\ state' = Append(state, "IDLE")
  /\ Answer(c, Len(table))
  /\ UNCHANGED <<busy, pluginOk, wpc, tried, port, calls, id, ends, cap, gen, growing, stale, phaseVars>>

\* The array is full: it is copied ...
RegisterCopy(c) ==
  /\ c \in inflight /\ mpc # "done" /\ growing = <<>>
  /\ Len(table) = cap
  /\ growing' = <<c, state>>
  /\ UNCHANGED <<busy, pluginOk, wpc, tried, port, netVars, table, state, cap, gen, stale, phaseVars>>

\* ... and the copy, with the new entry, takes its place.
RegisterPublish ==
  /\ growing # <<>>
  /\ table' = Append(table, growing[1][1])
  /\ state' = Append(growing[2], "IDLE")
  /\ cap' = IF cap = 0 THEN 1 ELSE 2 * cap
  /\ gen' = gen + 1
  /\ growing' = <<>>
  /\ stale' = (stale \/ growing[2] # state \/ \E k \in DOMAIN taken : ~taken[k].back)
  /\ Answer(growing[1], Len(table))
  /\ UNCHANGED <<busy, pluginOk, wpc, tried, port, calls, id, ends, phaseVars>>

-----------------------------------------------------------------------------
(* StartMaster.                                                            *)

\* waitForEnoughWorker, which counts registrations under ms.mux.
EnoughWorkers ==
  /\ mpc = "wait" /\ growing = <<>> /\ Len(table) >= NWorker
  /\ mpc' = "map"
  /\ UNCHANGED <<busy, pluginOk, wpc, tried, port, netVars, tabVars, scan, pass, taken, endAt, endLen, out, unset>>

\* It spins until then.
Spin == mpc = "wait" /\ Len(table) < NWorker /\ UNCHANGED vars

Need == IF mpc = "map" THEN NWorker ELSE NReduce

\* availableWorkers visits an entry; a healthy one is taken by a pointer.  Each pass
\* ranges over as many entries as the table has when it begins.
Take ==
  /\ mpc \in {"map", "reduce"} /\ Len(taken) < Need
  /\ pass' = IF scan = 1 THEN Len(table) ELSE pass
  /\ scan' = (scan % pass') + 1
  /\ IF state[scan] = "IDLE"
       THEN /\ state' = [state EXCEPT ![scan] = "BUSY"]
            /\ taken' = Append(taken, [gen |-> gen, entry |-> scan, back |-> FALSE])
       ELSE UNCHANGED <<state, taken>>
  /\ UNCHANGED <<busy, pluginOk, wpc, tried, port, netVars, table, cap, gen, growing, stale,
                 mpc, endAt, endLen, out, unset>>

\* The call of the k-th task returns; SetState(WORKER_IDLE) through its pointer
\* reaches the table only if its array is still the current one.  A reduce task
\* has written the file named after the ID its worker then had.
TaskDone(k) ==
  /\ mpc \in {"map", "reduce"} /\ Len(taken) = Need /\ ~taken[k].back
  /\ taken' = [taken EXCEPT ![k].back = TRUE]
  /\ state' = IF taken[k].gen = gen THEN [state EXCEPT ![taken[k].entry] = "IDLE"] ELSE state
  /\ LET w == table[taken[k].entry]
     IN  IF mpc = "reduce"
           THEN /\ out' = [out EXCEPT ![id[w]] = k]
                /\ unset' = (unset \/ wpc[w] # "ready")
           ELSE UNCHANGED <<out, unset>>
  /\ UNCHANGED <<busy, pluginOk, wpc, tried, port, netVars, table, cap, gen, growing, stale,
                 mpc, scan, pass, endAt, endLen>>

\* The phase returns; after the reduce phase endWorkers ranges over the table.
NextPhase ==
  /\ mpc \in {"map", "reduce"} /\ Len(taken) = Need /\ \A k \in DOMAIN taken : taken[k].back
  /\ mpc' = IF mpc = "map" THEN "reduce" ELSE "end"
  /\ scan' = 1 /\ taken' = <<>>
  /\ endLen' = IF mpc = "reduce" THEN Len(table) ELSE 0
  /\ UNCHANGED <<busy, pluginOk, wpc, tried, port, netVars, tabVars, pass, endAt, out, unset>>

\* Faulty variant of EndWorker: only the first entry is called.
EndWorkerOnce ==
  /\ mpc = "end" /\ endAt <= endLen
  /\ endAt' = endLen + 1
  /\ ends' = [ends EXCEPT ![table[endAt]] = @ + 1]
  /\ UNCHANGED <<busy, pluginOk, wpc, tried, port, calls, inflight, answers, id, tabVars,
                 mpc, scan, pass, taken, endLen, out, unset>>

\* client.End: the handler waits to send on EndChan, the master for a second at most.
EndWorker ==
  /\ mpc = "end" /\ endAt <= endLen
  /\ endAt' = endAt + 1
  /\ ends' = [ends EXCEPT ![table[endAt]] = @ + 1]
  /\ UNCHANGED <<busy, pluginOk, wpc, tried, port, calls, inflight, answers, id, tabVars,
                 mpc, scan, pass, taken, endLen, out, unset>>

\* baseServer.Stop
Stop ==
  /\ mpc = "end" /\ endAt > endLen /\ growing = <<>>
  /\ mpc' = "done"
  /\ UNCHANGED <<busy, pluginOk, wpc, tried, port, netVars, tabVars, scan, pass, taken, endAt, endLen, out, unset>>

-----------------------------------------------------------------------------
WorkerStep(w) ==
  \/ Listen(w) \/ ListenFails(w) \/ LoadFails(w) \/ Load(w)
  \/ CallFails(w) \/ RegisterFails(w) \/ Receive(w) \/ ReceiveEnd(w)

MasterStep == EnoughWorkers \/ Take \/ NextPhase \/ EndWorker \/ Stop \/ \E k \in DOMAIN taken : TaskDone(k)

Handle == \E c \in inflight : Register(c) \/ RegisterCopy(c)

Terminated == mpc = "done" /\ UNCHANGED vars

Next == (\E w \in Worker : WorkerStep(w)) \/ Handle \/ RegisterPublish \/ MasterStep \/ Spin \/ Terminated

Spec == Init /\ [][Next]_vars

\* Goroutines are scheduled, and calls return.  Requests may be lost.
FairSpec ==
  /\ Spec
  /\ WF_vars(MasterStep) /\ WF_vars(RegisterPublish)
  /\ \A w \in Worker : WF_vars(WorkerStep(w))

-----------------------------------------------------------------------------
(* Properties.                                                             *)

\* A worker that knows its ID has an entry of its own under it, however many
\* registrations were repeated, reordered or handled late; so no two workers
\* that know theirs write to the same mr-out file.
IdsOwned ==
  \A w \in Worker : wpc[w] \in {"ready", "ended"} => id[w] + 1 \in DOMAIN table /\ table[id[w] + 1] = w

\* After the reduce phase the output of every reduce task is in a file, unless a
\* worker is in the table twice (and got two tasks), or ran Reduce before it
\* knew its ID (and wrote to another one's file).
OutputsKept ==
  /\ mpc \in {"end", "done"} /\ ~unset
  /\ \A i, j \in DOMAIN table : table[i] = table[j] => i = j
  => \A t \in 1..NReduce : \E n \in DOMAIN out : out[n] = t

\* A worker that registered only after endWorkers had looked at the table.
Forgotten(w) == mpc \in {"end", "done"} /\ wpc[w] = "ready" /\ \A i \in 1..endLen : table[i] # w

\* The job ends with all its workers, unless all ports of a worker were taken by
\* others, the plugin cannot be loaded, a registration failed for good, a late
\* one replaced the array the phases wrote to (then they wait for entries that
\* stay busy) or came too late for End: nothing else keeps it waiting, in
\* particular not a worker that is in the table, and is ended, twice.
JobEnds ==
  <>(\/ mpc = "done" /\ \A w \in Worker : wpc[w] = "ended"
     \/ \E w \in Worker : \A k \in 1..MaxAttempts : Candidate(w, k) \in busy
     \/ \E w \in Worker : wpc[w] = "failed" \/ Forgotten(w)
     \/ stale)
=============================================================================
