----------------------------- MODULE Handover -----------------------------
(***************************************************************************)
(* What a queue between threads promises: the values put into it reach the *)
(* one thread at its end, each once, in the order they were put, and all   *)
(* of them, also when the queue is closed.  WaitQueue shows how a mutex    *)
(* and a condition variable achieve it.                                    *)
(***************************************************************************)
EXTENDS Naturals, Sequences

CONSTANT Values     \* what may be put into the queue

VARIABLES
  sent,             \* the values put so far, in order
  got,              \* the values the consumer has been handed, in order
  open              \* whether the queue has not been closed

vars == <<sent, got, open>>

Init == sent = <<>> /\ got = <<>> /\ open = TRUE

Put(v) ==
  /\ open
  /\ sent' = Append(sent, v)
  /\ UNCHANGED <<got, open>>

Get ==
  /\ Len(got) < Len(sent)
  /\ got' = Append(got, sent[Len(got) + 1])
  /\ UNCHANGED <<sent, open>>

Close ==
  /\ open
  /\ open' = FALSE
  /\ UNCHANGED <<sent, got>>

Next == Get \/ Close \/ \E v \in Values : Put(v)

Spec == Init /\ [][Next]_vars
FairSpec == Spec /\ WF_vars(Get)
===========================================================================
