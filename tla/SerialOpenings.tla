-------------------------- MODULE SerialOpenings --------------------------
(***************************************************************************)
(* What the coordinator promises to the MAC checks of concurrent threads:  *)
(* although every party runs its threads in an order of its own, the       *)
(* openings of the checks form one agreed sequence, and no party opens the *)
(* next one before every party has opened the last.                        *)
(***************************************************************************)
EXTENDS Naturals, Sequences

CONSTANTS Parties, Ids

VARIABLES
  agreed,   \* the threads whose checks are opened, in the agreed order
  opened    \* opened[p]: how many of them party p has opened

vars == <<agreed, opened>>

Init == agreed = <<>> /\ opened = [p \in Parties |-> 0]

(* A party that is behind opens the check the others have opened.          *)
Follow(p) ==
  /\ opened[p] < Len(agreed)
  /\ opened' = [opened EXCEPT ![p] = @ + 1]
  /\ UNCHANGED agreed

(* The first party to open the next check.                                 *)
Lead(p, t) ==
  /\ \A q \in Parties : opened[q] = Len(agreed)
  /\ agreed' = Append(agreed, t)
  /\ opened' = [opened EXCEPT ![p] = @ + 1]

Next == \E p \in Parties : Follow(p) \/ \E t \in Ids : Lead(p, t)

Spec == Init /\ [][Next]_vars
===========================================================================
