----------------------------- MODULE TapePool -----------------------------
(***************************************************************************)
(* What the virtual machine promises to a program about its tapes: the     *)
(* main tape starts tapes on free threads, every tape runs once, a thread  *)
(* is joined only after its tape has finished, and the machine is done     *)
(* only after the main tape and every tape it started.  ThreadPool shows   *)
(* how the queues and the worker loops of Machine::run achieve it.         *)
(***************************************************************************)
EXTENDS Integers

CONSTANTS
  Helpers,     \* the threads tapes are started on
  MaxTapes     \* bound: tapes the main tape starts

VARIABLES
  phase,       \* "before", "tape" (the main tape runs), "over", "stopped"
  started,     \* number of tapes started
  run,         \* run[i]: tape started on thread i and not joined, 0 if none
  finished     \* the tapes that have finished

vars == <<phase, started, run, finished>>

Init ==
  /\ phase = "before"
  /\ started = 0
  /\ run = [i \in Helpers |-> 0]
  /\ finished = {}

Begin ==
  /\ phase = "before"
  /\ phase' = "tape"
  /\ UNCHANGED <<started, run, finished>>

RunTape(i) ==
  /\ phase = "tape"
  /\ started < MaxTapes
  /\ run[i] = 0
  /\ started' = started + 1
  /\ run' = [run EXCEPT ![i] = started + 1]
  /\ UNCHANGED <<phase, finished>>

FinishTape(k) ==
  /\ k \notin finished
  /\ finished' = finished \cup {k}
  /\ UNCHANGED <<phase, started, run>>

JoinTape(i) ==
  /\ phase = "tape"
  /\ run[i] \in finished
  /\ run' = [run EXCEPT ![i] = 0]
  /\ UNCHANGED <<phase, started, finished>>

End ==
  /\ phase = "tape"
  /\ phase' = "over"
  /\ UNCHANGED <<started, run, finished>>

Stop ==
  /\ phase = "over"
  /\ finished = 1 .. started
  /\ phase' = "stopped"
  /\ UNCHANGED <<started, run, finished>>

Next ==
  \/ Begin \/ End \/ Stop
  \/ \E i \in Helpers : RunTape(i) \/ JoinTape(i)
  \/ \E k \in 1 .. started : FinishTape(k)

(* Started tapes finish and the machine stops; the main tape's length is   *)
(* the program's affair.                                                   *)
Fairness ==
  /\ WF_vars(Begin) /\ WF_vars(Stop)
  /\ WF_vars(\E k \in 1 .. started : FinishTape(k))

Spec == Init /\ [][Next]_vars
FairSpec == Spec /\ Fairness
===========================================================================
