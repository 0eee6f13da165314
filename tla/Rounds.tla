------------------------------ MODULE Rounds ------------------------------
(***************************************************************************)
(* What a program may rely on when its parties call the collective         *)
(* operations of a player (Networking/Player.h): every party takes part in *)
(* the same sequence of operations, gets in each the messages that the     *)
(* other parties contributed to this very operation, and does not leave it *)
(* before.  Nobody waits for those it only sends to.                       *)
(***************************************************************************)
EXTENDS Integers, Sequences

CONSTANTS
  Parties,
  Programs     \* sequences of operations: who sends to whom, and how much

VARIABLES
  prog,        \* the program all parties run
  at,          \* at[p]: operations p has begun
  heard        \* heard[p][q]: message p got from q in its present operation

vars == <<prog, at, heard>>

(* Those p sends to and hears from in operation o.                         *)
Sends(o, p) == {q \in Parties : <<p, q>> \in o.chan}
Hears(o, p) == {q \in Parties : <<q, p>> \in o.chan}

(* On a stream a message is its length followed by its units.              *)
Unit(k, q, i, n) == [round |-> k, from |-> q, part |-> i, of |-> n]
Message(k, q) ==
  [i \in 1 .. 1 + prog[k].size[q] |-> Unit(k, q, i - 1, prog[k].size[q])]

HeardAll(p) ==
  at[p] > 0 => \A q \in Hears(prog[at[p]], p) : heard[p][q] = Message(at[p], q)

Init ==
  /\ prog \in Programs
  /\ at = [p \in Parties |-> 0]
  /\ heard = [p \in Parties |-> [q \in Parties |-> <<>>]]

Enter(p) ==
  /\ at[p] < Len(prog)
  /\ HeardAll(p)
  /\ at' = [at EXCEPT ![p] = @ + 1]
  /\ heard' = [heard EXCEPT ![p] = [q \in Parties |-> <<>>]]
  /\ UNCHANGED prog

(* Messages arrive only from parties that have begun the operation.        *)
Hear(p, S) ==
  /\ at[p] > 0
  /\ \A q \in S :
       /\ q \in Hears(prog[at[p]], p)
       /\ heard[p][q] = <<>>
       /\ at[q] >= at[p]
  /\ heard' = [heard EXCEPT ![p] =
                 [q \in Parties |-> IF q \in S THEN Message(at[p], q) ELSE @[q]]]
  /\ UNCHANGED <<prog, at>>

Next == \E p \in Parties : Enter(p) \/ \E S \in SUBSET Parties : Hear(p, S)

Over == \A p \in Parties : at[p] = Len(prog) /\ HeardAll(p)

Spec == Init /\ [][Next]_vars
FairSpec == Spec /\ WF_vars(Next)
===========================================================================
