------------------------------- MODULE OrDone -------------------------------
(***************************************************************************)
(* orDone, the goroutine that stands between the task goroutines and the   *)
(* phase's loop: it selects on the two buffered channels finish and        *)
(* crashChan, counts the finishes, hands every crash to the loop through   *)
(* the unbuffered valStream, and closes valStream when numberOfTasks       *)
(* finishes have been counted.                                             *)
(*                                                                         *)
(* finish is a set of goroutine numbers: orDone throws the UUID away and   *)
(* only counts, so neither the order nor the value matters, and the        *)
(* sender's number keeps equal UUIDs apart.  count is Cardinality(counted).*)
(***************************************************************************)
EXTENDS Naturals, Sequences, FiniteSets

CONSTANT ChanCap                        \* capacity of finish and of crashChan

ASSUME ChanCapAssumption == ChanCap \in Nat \ {0}

VARIABLES
  finish,      \* goroutines whose message is in the channel finish
  crashChan,   \* ms.crashChan: UUIDs of crashed workers, in FIFO order
  counted,     \* goroutines whose finish has been received
  orState,     \* "off" | "select" | "deliver" | "closed"
  held         \* the UUID being sent on valStream, when orState = "deliver"

orVars == <<finish, crashChan, counted, orState, held>>

-----------------------------------------------------------------------------
\* finish <- uuid, by goroutine g; blocks while the buffer is full.
SendFinish(g) ==
  /\ Cardinality(finish) < ChanCap
  /\ finish' = finish \cup {g}

\* ms.crashChan <- u; blocks while the buffer is full.
SendCrash(u) ==
  /\ Len(crashChan) < ChanCap
  /\ crashChan' = Append(crashChan, u)

\* The range expression orDone(...) starts the goroutine.
StartOrDone == orState = "off" /\ orState' = "select"

\* case <-finish
OrDoneFinish(numberOfTasks) ==
  /\ orState = "select"
  /\ \E g \in finish :
       /\ finish' = finish \ {g}
       /\ counted' = counted \cup {g}
  /\ orState' = IF Cardinality(counted') = numberOfTasks THEN "closed" ELSE "select"
  /\ UNCHANGED <<crashChan, held>>

\* case crashUUID := <-crashChan (the channel is never closed)
OrDoneCrash ==
  /\ orState = "select"
  /\ crashChan # <<>>
  /\ held' = Head(crashChan)
  /\ crashChan' = Tail(crashChan)
  /\ orState' = "deliver"
  /\ UNCHANGED <<finish, counted>>

\* valStream <- crashUUID meets the receive of the phase's loop.
Deliver ==
  /\ orState = "deliver"
  /\ orState' = "select"
=============================================================================
