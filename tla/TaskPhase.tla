------------------------------ MODULE TaskPhase ------------------------------
(***************************************************************************)
(* What a phase of the job (map or reduce) promises: an attempt of every   *)
(* task succeeds, only one attempt does, the phase ends only when all      *)
(* tasks have, and nothing succeeds after the end.  How often a task is    *)
(* attempted, on which worker, and which attempts fail is invisible here.  *)
(***************************************************************************)
CONSTANT Tasks

VARIABLES
  successes,   \* the attempts that have succeeded: records with a field task
  ended        \* the phase's function has returned

phaseVars == <<successes, ended>>

Init == successes = {} /\ ended = FALSE

Complete(t) ==
  /\ ~ended
  /\ \A s \in successes : s.task # t
  /\ \E s \in successes' : s.task = t /\ successes' = successes \cup {s}
  /\ UNCHANGED ended

End ==
  /\ ~ended
  /\ \A t \in Tasks : \E s \in successes : s.task = t
  /\ ended' = TRUE
  /\ UNCHANGED successes

Next == End \/ \E t \in Tasks : Complete(t)

Spec == Init /\ [][Next]_phaseVars
=============================================================================
