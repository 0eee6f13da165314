---------------------------- MODULE MCExchange ----------------------------
(* Programs of two or three operations for three parties, with messages    *)
(* that are empty, as large as a buffer and larger.                        *)
EXTENDS Exchange

Ring(offset) == {<<p, (p + offset) % N>> : p \in Parties}
Operation(kind, chan, size) == [kind |-> kind, chan |-> chan, size |-> size]
Sizes(a, b, c) == [p \in Parties |-> IF p = 0 THEN a ELSE IF p = 1 THEN b ELSE c]

(* To one party, from one party, and a set without symmetry.               *)
Subsets == {{<<1, 0>>, <<2, 0>>}, {<<1, 0>>, <<1, 2>>, <<2, 0>>, <<0, 2>>}}

MCPrograms ==
  {<<Operation("broadcast", Channels, Sizes(2, 0, 0)),
     Operation("channels", C, Sizes(1, 2, 0))>> : C \in Subsets}
  \cup
  {<<Operation("channels", C, Sizes(2, 2, 2)),
     Operation("inplace", Ring(d), Sizes(2, 3, 2))>> : C \in Subsets, d \in 1 .. 2}
  \cup
  {<<Operation("inplace", {<<0, 1>>, <<1, 0>>}, Sizes(3, 1, 0)),
     Operation("pass", Ring(2), Sizes(2, 2, 0)),
     Operation("channels", {<<0, 2>>, <<1, 2>>, <<1, 0>>}, Sizes(1, 1, 0))>>}
===========================================================================
