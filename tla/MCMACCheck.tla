---------------------------- MODULE MCMACCheck ----------------------------
(* Trees of all depths for up to five parties; two objects of one thread;  *)
(* faulty parties at the top, in the middle and at the leaves.             *)
EXTENDS MACCheck

Shape(sum, bcast, base) == [sum |-> sum, bcast |-> bcast, base |-> base]
Open(n, m) == [kind |-> "open", n |-> n, mc |-> m]
Direct(n, m) == [kind |-> "direct", n |-> n, mc |-> m]
AddToCheck(m) == [kind |-> "add", n |-> 1, mc |-> m]
CheckOf(m) == [kind |-> "check", n |-> 0, mc |-> m]
Setup(n, program, shape, faulty, cap) ==
  [parties |-> n, program |-> program, shape |-> shape, faulty |-> faulty, cap |-> cap]

Twice == <<Open(1, 1), Open(1, 1), CheckOf(1)>>
TwoObjects ==
  <<Open(2, 1), Direct(1, 2), AddToCheck(2), Open(0, 1), Open(1, 1), CheckOf(1),
    CheckOf(2), CheckOf(1)>>
Again == <<Open(1, 1), CheckOf(1), Open(1, 1), CheckOf(1)>>
DirectAgain == <<Direct(1, 1), CheckOf(1), Direct(2, 1), CheckOf(1)>>

Trees == {Shape(s, b, 0) : s \in {0, 2, 3}, b \in {0, 2, 3}} \cup {Shape(2, 2, 1)}

MCSetups ==
  {Setup(5, Twice, <<s>>, {}, 0) : s \in Trees}
  \cup {Setup(n, TwoObjects, <<Shape(2, 2, 0), Shape(0, 0, 0)>>, {}, cap) :
          n \in 1 .. 3, cap \in 0 .. 1}
  \cup {Setup(4, Again, <<Shape(2, 2, 0)>>, {f}, 0) : f \in 0 .. 3}
  \cup {Setup(3, DirectAgain, <<Shape(0, 0, 0)>>, {1}, 0)}
===========================================================================
