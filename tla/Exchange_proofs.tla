-------------------------- MODULE Exchange_proofs --------------------------
(***************************************************************************)
(* Proofs, for any number of parties, programs of operations and sizes of  *)
(* messages and buffers, that a wait gets what was requested, that the     *)
(* players provide the rounds of module Rounds, and that they deliver the  *)
(* buffers as they were sent.                                              *)
(*                                                                         *)
(* QueueInv says how far the threads' requests and answers are; from it    *)
(* come WaitsMatch and what each party still owes to and expects from each *)
(* other.  TransferInv says how far every message is: what a stream holds  *)
(* is what its sender has sent and its receiver has not got, in order.     *)
(***************************************************************************)
EXTENDS Exchange, WellFoundedInduction, TLAPS

(* An operation of a program.                                              *)
Call(o) ==
  /\ o \in Operations
  /\ o.kind \in {"pass", "inplace"} => OnePeer(o)

(* The operations of a program are such.                                   *)
LEMMA CallFacts ==
  ASSUME NEW pr \in Programs, NEW k \in DOMAIN pr
  PROVE  Call(pr[k]) /\ pr \in Seq(Operations)
BY ProgramAssumption DEF Call

(* Nobody sends to itself.                                                 *)
LEMMA PeerFacts ==
  ASSUME NEW o, Call(o), NEW p \in Parties
  PROVE  /\ R!Sends(o, p) \subseteq Parties \ {p}
         /\ R!Hears(o, p) \subseteq Parties \ {p}
BY DEF Call, Operations, Channels, R!Sends, R!Hears

(* Passing around has one peer.                                            *)
LEMMA PickFacts ==
  ASSUME NEW S, NEW p, \A q, r \in S : q = r
  PROVE  /\ S = {} => Pick(S, p) = p
         /\ \A q \in S : Pick(S, p) = q
<1>1. ASSUME NEW q \in S PROVE Pick(S, p) = q
  BY <1>1 DEF Pick
<1> QED BY <1>1 DEF Pick

LEMMA OnePeerFacts ==
  ASSUME NEW o, Call(o), o.kind \in {"pass", "inplace"}, NEW p \in Parties
  PROVE  /\ \A q, r \in R!Sends(o, p) : q = r
         /\ \A q, r \in R!Hears(o, p) : q = r
<1>1. ASSUME NEW q \in R!Sends(o, p), NEW r \in R!Sends(o, p) PROVE q = r
  <2>1. <<p, q>> \in o.chan /\ <<p, r>> \in o.chan
    BY DEF R!Sends
  <2>2. (<<p, q>>[1] = <<p, r>>[1]) <=> (<<p, q>>[2] = <<p, r>>[2])
    BY <2>1 DEF Call, OnePeer
  <2> QED BY <2>2
<1>2. ASSUME NEW q \in R!Hears(o, p), NEW r \in R!Hears(o, p) PROVE q = r
  <2>1. <<q, p>> \in o.chan /\ <<r, p>> \in o.chan
    BY DEF R!Hears
  <2>2. (<<q, p>>[1] = <<r, p>>[1]) <=> (<<q, p>>[2] = <<r, p>>[2])
    BY <2>1 DEF Call, OnePeer
  <2> QED BY <2>2
<1> QED BY <1>1, <1>2

(* get_player: offsets 1 .. N - 1 lead to all others, each to another one. *)
LEMMA PlayerValue ==
  ASSUME NEW p \in Parties, NEW j \in 1 .. N - 1
  PROVE  GetPlayer(p, j) = IF p + j < N THEN p + j ELSE p + j - N
BY SizeAssumption DEF GetPlayer, Parties

LEMMA PlayerFacts ==
  ASSUME NEW p \in Parties
  PROVE  /\ \A j \in 1 .. N - 1 : GetPlayer(p, j) \in Parties \ {p}
         /\ \A j, i \in 1 .. N - 1 : GetPlayer(p, j) = GetPlayer(p, i) => j = i
         /\ \A q \in Parties \ {p} : \E j \in 1 .. N - 1 : GetPlayer(p, j) = q
<1>1. ASSUME NEW j \in 1 .. N - 1 PROVE GetPlayer(p, j) \in Parties \ {p}
  BY PlayerValue, SizeAssumption DEF Parties
<1>2. ASSUME NEW j \in 1 .. N - 1, NEW i \in 1 .. N - 1, GetPlayer(p, j) = GetPlayer(p, i)
      PROVE  j = i
  BY <1>2, PlayerValue, SizeAssumption DEF Parties
<1>3. ASSUME NEW q \in Parties \ {p} PROVE \E j \in 1 .. N - 1 : GetPlayer(p, j) = q
  <2>1. CASE p < q
    <3>1. q - p \in 1 .. N - 1
      BY <2>1, SizeAssumption DEF Parties
    <3>2. GetPlayer(p, q - p) = q
      BY <2>1, <3>1, PlayerValue, SizeAssumption DEF Parties
    <3> QED BY <3>1, <3>2
  <2>2. CASE q < p
    <3>1. q - p + N \in 1 .. N - 1
      BY <2>2, SizeAssumption DEF Parties
    <3>2. GetPlayer(p, q - p + N) = q
      BY <2>2, <3>1, PlayerValue, SizeAssumption DEF Parties
    <3> QED BY <3>1, <3>2
  <2> QED BY <2>1, <2>2, SizeAssumption DEF Parties
<1> QED BY <1>1, <1>2, <1>3

---------------------------------------------------------------------------
(* What a plan has to do with a peer.                                      *)
SentStep(s, p, q) == s.do = "sent" /\ <<q, p>> \in s.xs
ReceivedStep(s, p, q) == s.do = "received" /\ <<p, q>> \in s.xs

(* The waits of CryptoPlayer: one for each request.                        *)
WaitStep(s, o, p) ==
  /\ s.nr \in Nat
  /\ \/ s.do = "sent" /\ \E q \in R!Sends(o, p) : s.xs = {<<q, p>>}
     \/ s.do = "received" /\ \E q \in R!Hears(o, p) : s.xs = {<<p, q>>}

Wanted(s, o, p) ==
  \A x \in s.xs : IF s.do = "sent" THEN x[1] \in R!Sends(o, p) ELSE x[2] \in R!Hears(o, p)

LEMMA WantedFacts ==
  ASSUME NEW o, NEW p, NEW q, NEW nr \in Nat
  PROVE  /\ Wanted(Step(nr, "sent", {<<q, p>>}), o, p) <=> q \in R!Sends(o, p)
         /\ Wanted(Step(nr, "received", {<<p, q>>}), o, p) <=> q \in R!Hears(o, p)
<1>1. /\ Step(nr, "sent", {<<q, p>>}).do = "sent"
      /\ Step(nr, "sent", {<<q, p>>}).xs = {<<q, p>>}
      /\ Step(nr, "received", {<<p, q>>}).do = "received"
      /\ Step(nr, "received", {<<p, q>>}).xs = {<<p, q>>}
  BY DEF Step
<1>2. <<q, p>>[1] = q /\ <<p, q>>[2] = q
  OBVIOUS
<1> QED BY <1>1, <1>2 DEF Wanted

LEMMA StepKind ==
  ASSUME NEW p, NEW q, NEW r, NEW nr \in Int
  PROVE  /\ SentStep(Step(nr, "sent", {<<r, p>>}), p, q) => r = q
         /\ ReceivedStep(Step(nr, "received", {<<p, r>>}), p, q) => r = q
         /\ ~SentStep(Step(nr, "received", {<<p, r>>}), p, q)
         /\ ~ReceivedStep(Step(nr, "sent", {<<r, p>>}), p, q)
BY DEF SentStep, ReceivedStep, Step

(* CryptoPlayer waits once for every request, and for nothing else.        *)
LEMMA WaitsFacts ==
  ASSUME NEW o, Call(o), NEW p \in Parties
  PROVE  /\ \A s \in WaitsPlan(o, p) : WaitStep(s, o, p)
         /\ \A q \in R!Sends(o, p) : \E s \in WaitsPlan(o, p) : SentStep(s, p, q)
         /\ \A q \in R!Hears(o, p) : \E s \in WaitsPlan(o, p) : ReceivedStep(s, p, q)
         /\ \A q \in Parties : \A s, r \in WaitsPlan(o, p) :
              \/ SentStep(s, p, q) /\ SentStep(r, p, q)
              \/ ReceivedStep(s, p, q) /\ ReceivedStep(r, p, q)
              => s = r
<1> DEFINE ToSteps == {Step(2 * j - 1, "sent", {<<GetPlayer(p, j), p>>}) : j \in 1 .. N - 1}
           FromSteps == {Step(2 * j, "received", {<<p, GetPlayer(p, j)>>}) : j \in 1 .. N - 1}
           One == Exchanger(o, p, 1)
           To == Step(1, "sent", {<<One[1], p>>})
           From == Step(2, "received", {<<p, One[2]>>})
<1>1. CASE o.kind = "pass"
  <2>1. WaitsPlan(o, p) = {s \in {To, From} : Wanted(s, o, p)}
    BY <1>1 DEF WaitsPlan, Waits, Wanted
  <2>2. One[1] = Pick(R!Sends(o, p), p) /\ One[2] = Pick(R!Hears(o, p), p)
    BY <1>1 DEF Exchanger
  <2>3. /\ To.nr = 1 /\ To.do = "sent" /\ To.xs = {<<One[1], p>>}
        /\ From.nr = 2 /\ From.do = "received" /\ From.xs = {<<p, One[2]>>}
    BY DEF Step
  <2>4. To \in WaitsPlan(o, p) <=> One[1] \in R!Sends(o, p)
    BY <2>1, WantedFacts
  <2>5. From \in WaitsPlan(o, p) <=> One[2] \in R!Hears(o, p)
    BY <2>1, WantedFacts
  <2>6. WaitsPlan(o, p) \subseteq {To, From}
    BY <2>1
  <2>7. \A q \in R!Sends(o, p) : One[1] = q
    BY <1>1, <2>2, PickFacts, OnePeerFacts
  <2>8. \A q \in R!Hears(o, p) : One[2] = q
    BY <1>1, <2>2, PickFacts, OnePeerFacts
  <2>9. ASSUME NEW s \in WaitsPlan(o, p) PROVE WaitStep(s, o, p)
    <3>1. CASE s = To
      <4>1. s.nr = 1 /\ s.do = "sent" /\ s.xs = {<<One[1], p>>}
        BY <2>3, <3>1
      <4>2. One[1] \in R!Sends(o, p)
        BY <2>4, <3>1
      <4> QED BY <4>1, <4>2 DEF WaitStep
    <3>2. CASE s = From
      <4>1. s.nr = 2 /\ s.do = "received" /\ s.xs = {<<p, One[2]>>}
        BY <2>3, <3>2
      <4>2. One[2] \in R!Hears(o, p)
        BY <2>5, <3>2
      <4> QED BY <4>1, <4>2 DEF WaitStep
    <3> QED BY <2>6, <3>1, <3>2
  <2>10. ASSUME NEW q \in R!Sends(o, p) PROVE \E s \in WaitsPlan(o, p) : SentStep(s, p, q)
    BY <2>3, <2>4, <2>7 DEF SentStep
  <2>11. ASSUME NEW q \in R!Hears(o, p) PROVE \E s \in WaitsPlan(o, p) : ReceivedStep(s, p, q)
    BY <2>3, <2>5, <2>8 DEF ReceivedStep
  <2>12. ASSUME NEW q \in Parties, NEW s \in WaitsPlan(o, p), NEW r \in WaitsPlan(o, p),
                s.do = r.do
         PROVE  s = r
    BY <2>3, <2>6, <2>12
  <2> QED BY <2>9, <2>10, <2>11, <2>12 DEF SentStep, ReceivedStep
<1>2. CASE o.kind # "pass"
  <2>1. WaitsPlan(o, p) = {s \in ToSteps \cup FromSteps : Wanted(s, o, p)}
    BY <1>2 DEF WaitsPlan, Waits, Wanted
  <2>2. ASSUME NEW s \in WaitsPlan(o, p)
        PROVE  \E j \in 1 .. N - 1 :
                 \/ /\ s = Step(2 * j - 1, "sent", {<<GetPlayer(p, j), p>>})
                    /\ GetPlayer(p, j) \in R!Sends(o, p)
                 \/ /\ s = Step(2 * j, "received", {<<p, GetPlayer(p, j)>>})
                    /\ GetPlayer(p, j) \in R!Hears(o, p)
    <3>1. CASE s \in ToSteps
      <4>1. PICK j \in 1 .. N - 1 : s = Step(2 * j - 1, "sent", {<<GetPlayer(p, j), p>>})
        BY <3>1
      <4>2. s.do = "sent" /\ s.xs = {<<GetPlayer(p, j), p>>}
        BY <4>1 DEF Step
      <4>3. 2 * j - 1 \in Nat /\ 2 * j \in Nat
        BY SizeAssumption
      <4> QED BY <2>1, <4>1, <4>3, WantedFacts
    <3>2. CASE s \in FromSteps
      <4>1. PICK j \in 1 .. N - 1 : s = Step(2 * j, "received", {<<p, GetPlayer(p, j)>>})
        BY <3>2
      <4>2. s.do = "received" /\ s.xs = {<<p, GetPlayer(p, j)>>}
        BY <4>1 DEF Step
      <4>3. 2 * j - 1 \in Nat /\ 2 * j \in Nat
        BY SizeAssumption
      <4> QED BY <2>1, <4>1, <4>3, WantedFacts
    <3> QED BY <2>1, <3>1, <3>2
  <2>3. ASSUME NEW s \in WaitsPlan(o, p) PROVE WaitStep(s, o, p)
    <3>1. PICK j \in 1 .. N - 1 :
            \/ /\ s = Step(2 * j - 1, "sent", {<<GetPlayer(p, j), p>>})
               /\ GetPlayer(p, j) \in R!Sends(o, p)
            \/ /\ s = Step(2 * j, "received", {<<p, GetPlayer(p, j)>>})
               /\ GetPlayer(p, j) \in R!Hears(o, p)
      BY <2>2
    <3>2. 2 * j - 1 \in Nat /\ 2 * j \in Nat
      BY SizeAssumption
    <3> QED BY <3>1, <3>2 DEF WaitStep, Step
  <2>4. ASSUME NEW q \in R!Sends(o, p) PROVE \E s \in WaitsPlan(o, p) : SentStep(s, p, q)
    <3>1. PICK j \in 1 .. N - 1 : GetPlayer(p, j) = q
      BY PeerFacts, PlayerFacts
    <3> DEFINE s == Step(2 * j - 1, "sent", {<<GetPlayer(p, j), p>>})
    <3>2. s \in ToSteps /\ s.do = "sent" /\ s.xs = {<<q, p>>}
      BY <3>1 DEF Step
    <3>3. s \in WaitsPlan(o, p)
      <4>1. 2 * j - 1 \in Nat /\ 2 * j \in Nat
        BY SizeAssumption
      <4> QED BY <2>1, <3>1, <3>2, <4>1, WantedFacts
    <3> QED BY <3>2, <3>3 DEF SentStep
  <2>5. ASSUME NEW q \in R!Hears(o, p) PROVE \E s \in WaitsPlan(o, p) : ReceivedStep(s, p, q)
    <3>1. PICK j \in 1 .. N - 1 : GetPlayer(p, j) = q
      BY PeerFacts, PlayerFacts
    <3> DEFINE s == Step(2 * j, "received", {<<p, GetPlayer(p, j)>>})
    <3>2. s \in FromSteps /\ s.do = "received" /\ s.xs = {<<p, q>>}
      BY <3>1 DEF Step
    <3>3. s \in WaitsPlan(o, p)
      <4>1. 2 * j - 1 \in Nat /\ 2 * j \in Nat
        BY SizeAssumption
      <4> QED BY <2>1, <3>1, <3>2, <4>1, WantedFacts
    <3> QED BY <3>2, <3>3 DEF ReceivedStep
  <2>6. ASSUME NEW q \in Parties, NEW s \in WaitsPlan(o, p), NEW r \in WaitsPlan(o, p),
               SentStep(s, p, q), SentStep(r, p, q)
        PROVE  s = r
    <3>1. ASSUME NEW t \in WaitsPlan(o, p), SentStep(t, p, q)
          PROVE  \E j \in 1 .. N - 1 : t = Step(2 * j - 1, "sent", {<<GetPlayer(p, j), p>>}) /\ GetPlayer(p, j) = q
      <4>1. PICK j \in 1 .. N - 1 :
              \/ t = Step(2 * j - 1, "sent", {<<GetPlayer(p, j), p>>})
              \/ t = Step(2 * j, "received", {<<p, GetPlayer(p, j)>>})
        BY <2>2
      <4>2. 2 * j - 1 \in Int /\ 2 * j \in Int
        BY SizeAssumption
      <4> QED BY <3>1, <4>1, <4>2, StepKind
    <3>2. PICK j \in 1 .. N - 1 : s = Step(2 * j - 1, "sent", {<<GetPlayer(p, j), p>>}) /\ GetPlayer(p, j) = q
      BY <2>6, <3>1
    <3>3. PICK i \in 1 .. N - 1 : r = Step(2 * i - 1, "sent", {<<GetPlayer(p, i), p>>}) /\ GetPlayer(p, i) = q
      BY <2>6, <3>1
    <3>4. j = i
      BY <3>2, <3>3, PlayerFacts
    <3> QED BY <3>2, <3>3, <3>4
  <2>7. ASSUME NEW q \in Parties, NEW s \in WaitsPlan(o, p), NEW r \in WaitsPlan(o, p),
               ReceivedStep(s, p, q), ReceivedStep(r, p, q)
        PROVE  s = r
    <3>1. ASSUME NEW t \in WaitsPlan(o, p), ReceivedStep(t, p, q)
          PROVE  \E j \in 1 .. N - 1 : t = Step(2 * j, "received", {<<p, GetPlayer(p, j)>>}) /\ GetPlayer(p, j) = q
      <4>1. PICK j \in 1 .. N - 1 :
              \/ t = Step(2 * j - 1, "sent", {<<GetPlayer(p, j), p>>})
              \/ t = Step(2 * j, "received", {<<p, GetPlayer(p, j)>>})
        BY <2>2
      <4>2. 2 * j - 1 \in Int /\ 2 * j \in Int
        BY SizeAssumption
      <4> QED BY <3>1, <4>1, <4>2, StepKind
    <3>2. PICK j \in 1 .. N - 1 : s = Step(2 * j, "received", {<<p, GetPlayer(p, j)>>}) /\ GetPlayer(p, j) = q
      BY <2>7, <3>1
    <3>3. PICK i \in 1 .. N - 1 : r = Step(2 * i, "received", {<<p, GetPlayer(p, i)>>}) /\ GetPlayer(p, i) = q
      BY <2>7, <3>1
    <3>4. j = i
      BY <3>2, <3>3, PlayerFacts
    <3> QED BY <3>2, <3>3, <3>4
  <2> QED BY <2>3, <2>4, <2>5, <2>6, <2>7
<1> QED BY <1>1, <1>2


(* The Exchangers of an operation: every peer has one, and only one.       *)
LEMMA ExchangerFacts ==
  ASSUME NEW o, Call(o), NEW p \in Parties
  PROVE  /\ \A j \in 1 .. Stages(o) :
              /\ Exchanger(o, p, j) = <<Exchanger(o, p, j)[1], Exchanger(o, p, j)[2]>>
              /\ Exchanger(o, p, j)[1] \in {p} \cup R!Sends(o, p)
              /\ Exchanger(o, p, j)[2] \in {p} \cup R!Hears(o, p)
         /\ \A q \in R!Sends(o, p) : \E j \in 1 .. Stages(o) : Exchanger(o, p, j)[1] = q
         /\ \A q \in R!Hears(o, p) : \E j \in 1 .. Stages(o) : Exchanger(o, p, j)[2] = q
         /\ \A i, j \in 1 .. Stages(o) :
              \/ Exchanger(o, p, i)[1] = Exchanger(o, p, j)[1] /\ Exchanger(o, p, i)[1] # p
              \/ Exchanger(o, p, i)[2] = Exchanger(o, p, j)[2] /\ Exchanger(o, p, i)[2] # p
              => i = j
<1>1. CASE o.kind \in {"pass", "inplace"}
  <2>1. Stages(o) = 1 /\ 1 .. Stages(o) = {1}
    BY <1>1 DEF Stages
  <2>2. \A j : /\ Exchanger(o, p, j) = <<Pick(R!Sends(o, p), p), Pick(R!Hears(o, p), p)>>
    BY <1>1 DEF Exchanger
  <2>3. /\ Pick(R!Sends(o, p), p) \in {p} \cup R!Sends(o, p)
        /\ \A q \in R!Sends(o, p) : Pick(R!Sends(o, p), p) = q
    BY <1>1, OnePeerFacts, PickFacts
  <2>4. /\ Pick(R!Hears(o, p), p) \in {p} \cup R!Hears(o, p)
        /\ \A q \in R!Hears(o, p) : Pick(R!Hears(o, p), p) = q
    BY <1>1, OnePeerFacts, PickFacts
  <2>5. Exchanger(o, p, 1)[1] = Pick(R!Sends(o, p), p) /\ Exchanger(o, p, 1)[2] = Pick(R!Hears(o, p), p)
    BY <2>2
  <2> QED BY <2>1, <2>2, <2>3, <2>4, <2>5
<1>2. CASE o.kind \notin {"pass", "inplace"}
  <2>1. Stages(o) = N - 1
    BY <1>2 DEF Stages
  <2>2. ASSUME NEW j \in 1 .. N - 1
        PROVE  /\ Exchanger(o, p, j)[1] = IF GetPlayer(p, j) \in R!Sends(o, p) THEN GetPlayer(p, j) ELSE p
               /\ Exchanger(o, p, j)[2] = IF GetPlayer(p, N - j) \in R!Hears(o, p) THEN GetPlayer(p, N - j) ELSE p
               /\ Exchanger(o, p, j) = <<Exchanger(o, p, j)[1], Exchanger(o, p, j)[2]>>
               /\ N - j \in 1 .. N - 1
    BY <1>2, SizeAssumption DEF Exchanger
  <2>3. ASSUME NEW q \in R!Sends(o, p) PROVE \E j \in 1 .. N - 1 : Exchanger(o, p, j)[1] = q
    <3>1. PICK j \in 1 .. N - 1 : GetPlayer(p, j) = q
      BY PeerFacts, PlayerFacts
    <3> QED BY <2>2, <3>1
  <2>4. ASSUME NEW q \in R!Hears(o, p) PROVE \E j \in 1 .. N - 1 : Exchanger(o, p, j)[2] = q
    <3>1. PICK i \in 1 .. N - 1 : GetPlayer(p, i) = q
      BY PeerFacts, PlayerFacts
    <3>2. N - i \in 1 .. N - 1 /\ N - (N - i) = i
      BY SizeAssumption
    <3>3. Exchanger(o, p, N - i)[2] = q
      BY <2>2, <3>1, <3>2
    <3> QED BY <3>2, <3>3
  <2>5. ASSUME NEW i \in 1 .. N - 1, NEW j \in 1 .. N - 1,
               Exchanger(o, p, i)[1] = Exchanger(o, p, j)[1], Exchanger(o, p, i)[1] # p
        PROVE  i = j
    <3>1. GetPlayer(p, i) = GetPlayer(p, j)
      BY <2>2, <2>5
    <3> QED BY <3>1, PlayerFacts
  <2>6. ASSUME NEW i \in 1 .. N - 1, NEW j \in 1 .. N - 1,
               Exchanger(o, p, i)[2] = Exchanger(o, p, j)[2], Exchanger(o, p, i)[2] # p
        PROVE  i = j
    <3>1. GetPlayer(p, N - i) = GetPlayer(p, N - j)
      BY <2>2, <2>6
    <3>2. N - i = N - j
      BY <2>2, <3>1, PlayerFacts
    <3> QED BY <3>2, SizeAssumption
  <2>7. ASSUME NEW j \in 1 .. N - 1
        PROVE  /\ Exchanger(o, p, j)[1] \in {p} \cup R!Sends(o, p)
               /\ Exchanger(o, p, j)[2] \in {p} \cup R!Hears(o, p)
    BY <2>2
  <2> QED BY <2>1, <2>2, <2>3, <2>4, <2>5, <2>6, <2>7
<1> QED BY <1>1, <1>2

(* The plan of an operation with Exchangers.                               *)
RoundTo(s, q) == s.do = "rounds" /\ \E x \in s.xs : x[1] = q
RoundFrom(s, q) == s.do = "rounds" /\ \E x \in s.xs : x[2] = q

OpenStep(s, o, p) ==
  \E j \in 1 .. Stages(o) : /\ s = Step(2 * j - 1, "open", {Exchanger(o, p, j)})
                            /\ Exchanger(o, p, j)[1] # p
OneRounds(s, o, p) ==
  \E j \in 1 .. Stages(o) : /\ s = Step(2 * j, "rounds", {Exchanger(o, p, j)})
                            /\ Exchanger(o, p, j) # <<p, p>>
AllRounds(o, p) ==
  Step(2 * N, "rounds", UNION {{Exchanger(o, p, j)} : j \in 1 .. Stages(o)})

LEMMA RoundsMembers ==
  ASSUME NEW o, NEW p \in Parties
  PROVE  \A s : s \in RoundsPlan(o, p) <=>
           \/ OpenStep(s, o, p)
           \/ o.kind # "broadcast" /\ OneRounds(s, o, p)
           \/ o.kind = "broadcast" /\ s = AllRounds(o, p) /\ s.xs # {<<p, p>>}
<1> DEFINE X(j) == {Exchanger(o, p, j)}
           Opens == {Step(2 * j - 1, "open", X(j)) : j \in 1 .. Stages(o)}
           Ones == {Step(2 * j, "rounds", X(j)) : j \in 1 .. Stages(o)}
           Used(s) == IF s.do = "open" THEN \A x \in s.xs : x[1] # p ELSE s.xs # {<<p, p>>}
<1>1. RoundsPlan(o, p) =
        {s \in Opens \cup (IF o.kind = "broadcast" THEN {AllRounds(o, p)} ELSE Ones) : Used(s)}
  BY DEF RoundsPlan, AllRounds
<1>2. ASSUME NEW s PROVE (s \in Opens /\ Used(s)) <=> OpenStep(s, o, p)
  <2>1. ASSUME NEW j \in 1 .. Stages(o), s = Step(2 * j - 1, "open", X(j))
        PROVE  Used(s) <=> Exchanger(o, p, j)[1] # p
    BY <2>1 DEF Step
  <2> QED BY <2>1 DEF OpenStep
<1>3. ASSUME NEW s PROVE (s \in Ones /\ Used(s)) <=> OneRounds(s, o, p)
  <2>1. ASSUME NEW j \in 1 .. Stages(o), s = Step(2 * j, "rounds", X(j))
        PROVE  Used(s) <=> Exchanger(o, p, j) # <<p, p>>
    BY <2>1 DEF Step
  <2> QED BY <2>1 DEF OneRounds
<1>4. Used(AllRounds(o, p)) <=> AllRounds(o, p).xs # {<<p, p>>}
  BY DEF AllRounds, Step
<1> QED BY <1>1, <1>2, <1>3, <1>4

LEMMA AllRoundsFacts ==
  ASSUME NEW o, NEW p \in Parties
  PROVE  /\ AllRounds(o, p).nr = 2 * N /\ AllRounds(o, p).do = "rounds"
         /\ \A x : x \in AllRounds(o, p).xs <=> \E j \in 1 .. Stages(o) : x = Exchanger(o, p, j)
BY DEF AllRounds, Step

LEMMA OneRoundsFacts ==
  ASSUME NEW o, NEW p \in Parties, NEW s, OneRounds(s, o, p)
  PROVE  \E j \in 1 .. Stages(o) :
           s.nr = 2 * j /\ s.do = "rounds" /\ s.xs = {Exchanger(o, p, j)}
BY DEF OneRounds, Step

LEMMA OpenStepFacts ==
  ASSUME NEW o, NEW p \in Parties, NEW s, OpenStep(s, o, p)
  PROVE  \E j \in 1 .. Stages(o) :
           /\ s.nr = 2 * j - 1 /\ s.do = "open" /\ s.xs = {Exchanger(o, p, j)}
           /\ Exchanger(o, p, j)[1] # p
BY DEF OpenStep, Step

(* All peers of the steps are Exchangers of the operation.                 *)
LEMMA RoundsExchangers ==
  ASSUME NEW o, NEW p \in Parties, NEW s \in RoundsPlan(o, p)
  PROVE  /\ s.do \in {"open", "rounds"}
         /\ \A x \in s.xs : \E j \in 1 .. Stages(o) : x = Exchanger(o, p, j)
<1>1. CASE OpenStep(s, o, p)
  BY <1>1 DEF OpenStep, Step
<1>2. CASE OneRounds(s, o, p)
  BY <1>2 DEF OneRounds, Step
<1>3. CASE s = AllRounds(o, p)
  BY <1>3, AllRoundsFacts
<1> QED BY <1>1, <1>2, <1>3, RoundsMembers

(* The kind of a step tells its form.                                      *)
LEMMA RoundsForms ==
  ASSUME NEW o, NEW p \in Parties, NEW s \in RoundsPlan(o, p)
  PROVE  /\ s.do = "open" => OpenStep(s, o, p)
         /\ s.do = "rounds" => \/ o.kind # "broadcast" /\ OneRounds(s, o, p)
                               \/ o.kind = "broadcast" /\ s = AllRounds(o, p)
<1>1. OpenStep(s, o, p) => s.do = "open"
  BY DEF OpenStep, Step
<1>2. OneRounds(s, o, p) => s.do = "rounds"
  BY DEF OneRounds, Step
<1>3. AllRounds(o, p).do = "rounds"
  BY AllRoundsFacts
<1> QED BY <1>1, <1>2, <1>3, RoundsMembers

LEMMA StagesNat ==
  ASSUME NEW o
  PROVE  Stages(o) \in Nat /\ Stages(o) <= N /\ (o.kind = "broadcast" => Stages(o) = N - 1)
BY SizeAssumption DEF Stages

(* A buffer is opened before its rounds.                                   *)
LEMMA OpenFacts ==
  ASSUME NEW o, NEW p \in Parties, NEW s \in RoundsPlan(o, p), s.do = "open"
  PROVE  /\ \E x : s.xs = {x} /\ x[1] # p
         /\ \E r \in RoundsPlan(o, p) : r.do = "rounds" /\ s.nr < r.nr /\ s.xs \subseteq r.xs
<1>1. OpenStep(s, o, p)
  BY RoundsForms
<1>2. PICK j \in 1 .. Stages(o) :
        /\ s.nr = 2 * j - 1 /\ s.do = "open" /\ s.xs = {Exchanger(o, p, j)}
        /\ Exchanger(o, p, j)[1] # p
  BY <1>1 DEF OpenStep, Step
<1>3. CASE o.kind = "broadcast"
  <2>1. Exchanger(o, p, j) \in AllRounds(o, p).xs
    BY AllRoundsFacts
  <2>2. AllRounds(o, p).xs # {<<p, p>>}
    <3>1. Exchanger(o, p, j) # <<p, p>>
      BY <1>2
    <3> QED BY <2>1, <3>1
  <2>3. AllRounds(o, p) \in RoundsPlan(o, p)
    BY <1>3, <2>2, RoundsMembers
  <2>4. s.nr < AllRounds(o, p).nr
    BY <1>2, <1>3, AllRoundsFacts, StagesNat, SizeAssumption
  <2> QED BY <1>2, <2>1, <2>3, <2>4, AllRoundsFacts
<1>4. CASE o.kind # "broadcast"
  <2> DEFINE r == Step(2 * j, "rounds", {Exchanger(o, p, j)})
  <2>1. Exchanger(o, p, j) # <<p, p>>
    BY <1>2
  <2>2. r \in RoundsPlan(o, p)
    BY <1>4, <2>1, RoundsMembers DEF OneRounds
  <2>3. r.do = "rounds" /\ r.nr = 2 * j /\ r.xs = s.xs
    BY <1>2 DEF Step
  <2>4. s.nr < r.nr
    <3>1. j \in Int /\ 2 * j - 1 < 2 * j
      BY StagesNat
    <3>2. s.nr = 2 * j - 1 /\ r.nr = 2 * j
      BY <1>2, <2>3
    <3> HIDE DEF r
    <3> QED BY <3>1, <3>2
  <2> QED BY <1>2, <2>2, <2>3, <2>4
<1> QED BY <1>3, <1>4

(* An Exchanger is constructed once.                                       *)
LEMMA OpenOnce ==
  ASSUME NEW o, Call(o), NEW p \in Parties, NEW s \in RoundsPlan(o, p), NEW r \in RoundsPlan(o, p),
         s.do = "open", r.do = "open", NEW x \in s.xs, NEW y \in r.xs, x[1] = y[1]
  PROVE  s = r
<1>1. OpenStep(s, o, p) /\ OpenStep(r, o, p)
  BY RoundsForms
<1>2. PICK j \in 1 .. Stages(o) : /\ s = Step(2 * j - 1, "open", {Exchanger(o, p, j)})
                                  /\ Exchanger(o, p, j)[1] # p
  BY <1>1 DEF OpenStep
<1>3. PICK i \in 1 .. Stages(o) : /\ r = Step(2 * i - 1, "open", {Exchanger(o, p, i)})
                                  /\ Exchanger(o, p, i)[1] # p
  BY <1>1 DEF OpenStep
<1>4. x = Exchanger(o, p, j) /\ y = Exchanger(o, p, i)
  BY <1>2, <1>3 DEF Step
<1>5. i = j
  BY <1>2, <1>4, ExchangerFacts
<1> QED BY <1>2, <1>3, <1>5

(* Every peer has one round to be finished in.                             *)
LEMMA RoundsPeers ==
  ASSUME NEW o, Call(o), NEW p \in Parties
  PROVE  /\ \A s \in RoundsPlan(o, p) : \A x \in s.xs :
              x = <<x[1], x[2]>> /\ x[1] \in {p} \cup R!Sends(o, p) /\ x[2] \in {p} \cup R!Hears(o, p)
         /\ \A q \in R!Sends(o, p) : \E s \in RoundsPlan(o, p) : RoundTo(s, q)
         /\ \A q \in R!Hears(o, p) : \E s \in RoundsPlan(o, p) : RoundFrom(s, q)
<1>1. ASSUME NEW s \in RoundsPlan(o, p), NEW x \in s.xs
      PROVE  /\ x = <<x[1], x[2]>>
             /\ x[1] \in {p} \cup R!Sends(o, p) /\ x[2] \in {p} \cup R!Hears(o, p)
  <2>1. PICK j \in 1 .. Stages(o) : x = Exchanger(o, p, j)
    BY RoundsExchangers
  <2> QED BY <2>1, ExchangerFacts
<1>2. ASSUME NEW j \in 1 .. Stages(o), Exchanger(o, p, j) # <<p, p>>
      PROVE  \E s \in RoundsPlan(o, p) : s.do = "rounds" /\ Exchanger(o, p, j) \in s.xs
  <2>1. CASE o.kind = "broadcast"
    <3>1. Exchanger(o, p, j) \in AllRounds(o, p).xs
      BY AllRoundsFacts
    <3>2. AllRounds(o, p) \in RoundsPlan(o, p)
      BY <1>2, <2>1, <3>1, RoundsMembers
    <3> QED BY <3>1, <3>2, AllRoundsFacts
  <2>2. CASE o.kind # "broadcast"
    <3>1. Step(2 * j, "rounds", {Exchanger(o, p, j)}) \in RoundsPlan(o, p)
      BY <1>2, <2>2, RoundsMembers DEF OneRounds
    <3> QED BY <3>1 DEF Step
  <2> QED BY <2>1, <2>2
<1>3. ASSUME NEW q \in R!Sends(o, p) PROVE \E s \in RoundsPlan(o, p) : RoundTo(s, q)
  <2>1. PICK j \in 1 .. Stages(o) : Exchanger(o, p, j)[1] = q
    BY ExchangerFacts
  <2>2. Exchanger(o, p, j) # <<p, p>>
    BY <2>1, PeerFacts
  <2> QED BY <1>2, <2>1, <2>2 DEF RoundTo
<1>4. ASSUME NEW q \in R!Hears(o, p) PROVE \E s \in RoundsPlan(o, p) : RoundFrom(s, q)
  <2>1. PICK j \in 1 .. Stages(o) : Exchanger(o, p, j)[2] = q
    BY ExchangerFacts
  <2>2. Exchanger(o, p, j) # <<p, p>>
    BY <2>1, PeerFacts
  <2> QED BY <1>2, <2>1, <2>2 DEF RoundFrom
<1> QED BY <1>1, <1>3, <1>4

(* Every peer has only one.                                                *)
LEMMA RoundsOnce ==
  ASSUME NEW o, Call(o), NEW p \in Parties, NEW q \in Parties \ {p},
         NEW s \in RoundsPlan(o, p), NEW r \in RoundsPlan(o, p),
         (RoundTo(s, q) /\ RoundTo(r, q)) \/ (RoundFrom(s, q) /\ RoundFrom(r, q))
  PROVE  s = r
<1>1. s.do = "rounds" /\ r.do = "rounds"
  BY DEF RoundTo, RoundFrom
<1>2. CASE o.kind = "broadcast"
  BY <1>1, <1>2, RoundsForms
<1>3. CASE o.kind # "broadcast"
  <2>1. PICK j \in 1 .. Stages(o) : s = Step(2 * j, "rounds", {Exchanger(o, p, j)})
    BY <1>1, <1>3, RoundsForms DEF OneRounds
  <2>2. PICK i \in 1 .. Stages(o) : r = Step(2 * i, "rounds", {Exchanger(o, p, i)})
    BY <1>1, <1>3, RoundsForms DEF OneRounds
  <2>3. s.xs = {Exchanger(o, p, j)} /\ r.xs = {Exchanger(o, p, i)}
    BY <2>1, <2>2 DEF Step
  <2>4. i = j
    BY <2>3, ExchangerFacts DEF RoundTo, RoundFrom
  <2> QED BY <2>1, <2>2, <2>4
<1> QED BY <1>2, <1>3

(* In place, there is one buffer, sent and received in one round.          *)
LEMMA InPlaceFacts ==
  ASSUME NEW o, o.kind = "inplace", NEW p \in Parties, NEW s \in RoundsPlan(o, p)
  PROVE  /\ s.do = "open" => s.nr = 1
         /\ s.do = "rounds" => s.nr = 2 /\ s.xs = {Exchanger(o, p, 1)}
<1>1. Stages(o) = 1 /\ 1 .. Stages(o) = {1}
  BY DEF Stages
<1>2. OpenStep(s, o, p) \/ OneRounds(s, o, p)
  BY RoundsMembers
<1> QED BY <1>1, <1>2, OneRoundsFacts, OpenStepFacts

---------------------------------------------------------------------------
(***************************************************************************)
(* What a stream carries: a set of places in the messages of a party, in   *)
(* the order of the operations and of the parts of a message.              *)
(***************************************************************************)
Places == Nat \X Nat
UnitAt(pr, q, e) == R!Unit(e[1], q, e[2], pr[e[1]].size[q])
PlaceOf(u) == <<u.round, u.part>>
Before(e, f) == e[1] < f[1] \/ (e[1] = f[1] /\ e[2] < f[2])
UnitsOf(pr, q) == {UnitAt(pr, q, e) : e \in Places}

Carries(L, W, pr, q) ==
  /\ L \in Seq(UnitsOf(pr, q))
  /\ \A n \in DOMAIN L : PlaceOf(L[n]) \in W
  /\ \A e \in W : \E n \in DOMAIN L : PlaceOf(L[n]) = e
  /\ \A m, n \in DOMAIN L : m < n => Before(PlaceOf(L[m]), PlaceOf(L[n]))

LEMMA PlaceFacts ==
  ASSUME NEW pr, NEW q
  PROVE  /\ \A e \in Places : PlaceOf(UnitAt(pr, q, e)) = e
         /\ \A u \in UnitsOf(pr, q) : PlaceOf(u) \in Places /\ u = UnitAt(pr, q, PlaceOf(u))
<1>1. ASSUME NEW e \in Places PROVE PlaceOf(UnitAt(pr, q, e)) = e
  BY DEF PlaceOf, UnitAt, R!Unit, Places
<1>2. ASSUME NEW u \in UnitsOf(pr, q)
      PROVE  PlaceOf(u) \in Places /\ u = UnitAt(pr, q, PlaceOf(u))
  <2>1. PICK e \in Places : u = UnitAt(pr, q, e)
    BY DEF UnitsOf
  <2> QED BY <1>1, <2>1
<1> QED BY <1>1, <1>2

LEMMA BeforeFacts ==
  ASSUME NEW e \in Places, NEW f \in Places
  PROVE  e = f \/ Before(e, f) \/ Before(f, e)
BY DEF Places, Before

LEMMA BeforeStrict ==
  ASSUME NEW e \in Places, NEW f \in Places, Before(e, f)
  PROVE  e # f /\ ~Before(f, e)
BY DEF Places, Before

(* A later part goes to the end of the stream,                             *)
LEMMA CarriesAppend ==
  ASSUME NEW pr, NEW q, NEW L, NEW W, Carries(L, W, pr, q), NEW e \in Places,
         \A f \in W : Before(f, e)
  PROVE  Carries(Append(L, UnitAt(pr, q, e)), W \cup {e}, pr, q)
<1> DEFINE u == UnitAt(pr, q, e)
           M == Append(L, u)
<1>1. L \in Seq(UnitsOf(pr, q)) /\ u \in UnitsOf(pr, q) /\ PlaceOf(u) = e
  BY PlaceFacts DEF Carries, UnitsOf
<1> HIDE DEF u
<1>2. /\ M \in Seq(UnitsOf(pr, q)) /\ Len(M) = Len(L) + 1 /\ Len(L) \in Nat
      /\ DOMAIN M = 1 .. Len(L) + 1 /\ DOMAIN L = 1 .. Len(L)
      /\ \A n \in DOMAIN L : M[n] = L[n]
      /\ M[Len(L) + 1] = u
  BY <1>1
<1>3. \A n \in DOMAIN M : n \in DOMAIN L \/ n = Len(L) + 1
  BY <1>2
<1> HIDE DEF M
<1>4. ASSUME NEW n \in DOMAIN M PROVE PlaceOf(M[n]) \in W \cup {e}
  BY <1>1, <1>2, <1>3 DEF Carries
<1>5. ASSUME NEW f \in W \cup {e} PROVE \E n \in DOMAIN M : PlaceOf(M[n]) = f
  <2>1. CASE f = e
    <3>1. Len(L) + 1 \in DOMAIN M
      BY <1>2
    <3> QED BY <1>1, <1>2, <2>1, <3>1
  <2>2. CASE f \in W
    <3>1. PICK n \in DOMAIN L : PlaceOf(L[n]) = f
      BY <2>2 DEF Carries
    <3>2. n \in DOMAIN M
      BY <1>2
    <3> QED BY <1>2, <3>1, <3>2
  <2> QED BY <2>1, <2>2
<1>6. ASSUME NEW m \in DOMAIN M, NEW n \in DOMAIN M, m < n
      PROVE  Before(PlaceOf(M[m]), PlaceOf(M[n]))
  <2>1. m \in DOMAIN L
    BY <1>2, <1>3, <1>6
  <2>2. CASE n \in DOMAIN L
    BY <1>2, <1>6, <2>1, <2>2 DEF Carries
  <2>3. CASE n = Len(L) + 1
    BY <1>1, <1>2, <2>1, <2>3 DEF Carries
  <2> QED BY <1>3, <2>2, <2>3
<1> QED BY <1>2, <1>4, <1>5, <1>6 DEF Carries, u, M

(* and the earliest comes out first.                                       *)
LEMMA CarriesHead ==
  ASSUME NEW pr, NEW q, NEW L, NEW W, Carries(L, W, pr, q), L # <<>>
  PROVE  /\ PlaceOf(Head(L)) \in W /\ PlaceOf(Head(L)) \in Places
         /\ Head(L) = UnitAt(pr, q, PlaceOf(Head(L)))
         /\ \A f \in W : f = PlaceOf(Head(L)) \/ Before(PlaceOf(Head(L)), f)
         /\ Carries(Tail(L), W \ {PlaceOf(Head(L))}, pr, q)
<1>1. /\ L \in Seq(UnitsOf(pr, q)) /\ Len(L) \in Nat /\ Len(L) > 0
      /\ DOMAIN L = 1 .. Len(L) /\ Head(L) = L[1] /\ 1 \in DOMAIN L
  BY DEF Carries
<1> DEFINE T == Tail(L)
           e == PlaceOf(L[1])
<1>2. /\ T \in Seq(UnitsOf(pr, q)) /\ DOMAIN T = 1 .. Len(L) - 1
      /\ \A n \in DOMAIN T : T[n] = L[n + 1] /\ n + 1 \in DOMAIN L
  BY <1>1
<1>3. e \in W /\ L[1] \in UnitsOf(pr, q)
  BY <1>1 DEF Carries
<1>4. e \in Places /\ L[1] = UnitAt(pr, q, e)
  BY <1>3, PlaceFacts
<1>5. \A n \in DOMAIN L : n = 1 \/ (1 < n /\ n - 1 \in DOMAIN T /\ T[n - 1] = L[n])
  BY <1>1, <1>2
<1> HIDE DEF T, e
<1>6. ASSUME NEW f \in W PROVE f = e \/ (Before(e, f) /\ \E n \in DOMAIN T : PlaceOf(T[n]) = f)
  <2>1. PICK n \in DOMAIN L : PlaceOf(L[n]) = f
    BY DEF Carries
  <2>2. CASE n = 1
    BY <2>1, <2>2 DEF e
  <2>3. CASE 1 < n
    BY <1>1, <1>5, <2>1, <2>3 DEF Carries, e
  <2> QED BY <1>5, <2>2, <2>3
<1>7. ASSUME NEW n \in DOMAIN T PROVE PlaceOf(T[n]) \in W \ {e}
  <2>1. PlaceOf(L[n + 1]) \in W /\ L[n + 1] \in UnitsOf(pr, q)
    BY <1>1, <1>2 DEF Carries
  <2>2. Before(e, PlaceOf(L[n + 1]))
    BY <1>1, <1>2 DEF Carries, e
  <2>3. PlaceOf(L[n + 1]) \in Places
    BY <2>1, PlaceFacts
  <2> QED BY <1>2, <1>4, <2>1, <2>2, <2>3, BeforeStrict
<1>8. ASSUME NEW m \in DOMAIN T, NEW n \in DOMAIN T, m < n
      PROVE  Before(PlaceOf(T[m]), PlaceOf(T[n]))
  <2>1. m + 1 < n + 1
    BY <1>2, <1>8
  <2> QED BY <1>2, <2>1 DEF Carries
<1>9. Carries(T, W \ {e}, pr, q)
  BY <1>2, <1>6, <1>7, <1>8 DEF Carries
<1> QED BY <1>1, <1>3, <1>4, <1>6, <1>9 DEF T, e

(* The least place is in front.                                            *)
LEMMA CarriesLeast ==
  ASSUME NEW pr, NEW q, NEW L, NEW W \in SUBSET Places, Carries(L, W, pr, q), L # <<>>,
         NEW e \in W, \A f \in W : f = e \/ Before(e, f)
  PROVE  Head(L) = UnitAt(pr, q, e) /\ Carries(Tail(L), W \ {e}, pr, q)
<1>1. PlaceOf(Head(L)) \in W
  BY CarriesHead
<1>2. PlaceOf(Head(L)) = e
  BY <1>1, CarriesHead, BeforeStrict
<1> QED BY <1>2, CarriesHead

LEMMA RoundsFacts ==
  ASSUME NEW o, NEW p \in Parties
  PROVE  \A s \in RoundsPlan(o, p) : s.nr \in Nat /\ s.do \in {"open", "rounds"}
BY SizeAssumption DEF RoundsPlan, Step, Stages

---------------------------------------------------------------------------
(* The requests and answers of CryptoPlayer's threads.  A wait that is to  *)
(* come has either its request on the one queue or its answer on the       *)
(* other; a peer that is not waited for has neither.                       *)
Asking(T, p, q) == \E s \in T : SentStep(s, p, q)
Awaiting(T, p, q) == \E s \in T : ReceivedStep(s, p, q)
Answer(a, k) == a.buffer = k

Owed(ask, k, req, out) ==
  /\ ask => (req = <<k>> /\ out = <<>>) \/ (req = <<>> /\ out = <<k>>)
  /\ ~ask => req = <<>> /\ out = <<>>
OwedAnswer(ask, k, req, out) ==
  /\ ask => \/ req = <<k>> /\ out = <<>>
            \/ req = <<>> /\ \E a : out = <<a>> /\ a.buffer = k
  /\ ~ask => req = <<>> /\ out = <<>>

PlanInv ==
  /\ prog \in Programs /\ tls \in BOOLEAN
  /\ at \in [Parties -> Nat] /\ DOMAIN todo = Parties
  /\ \A p \in Parties :
       /\ at[p] = 0 \/ at[p] \in DOMAIN prog
       /\ at[p] = 0 => todo[p] = {}
       /\ at[p] # 0 => todo[p] \subseteq Plan(Op(p), p)

QueueShape(f) == DOMAIN f = Parties /\ \A p \in Parties : DOMAIN f[p] = Parties
QueueInv ==
  /\ PlanInv
  /\ QueueShape(sreq) /\ QueueShape(sout) /\ QueueShape(rreq) /\ QueueShape(rout)
  /\ \A p, q \in Parties :
       /\ Owed(Asking(todo[p], p, q), at[p], sreq[p][q], sout[p][q])
       /\ OwedAnswer(Awaiting(todo[p], p, q), at[p], rreq[p][q], rout[p][q])

LEMMA OpFacts ==
  ASSUME PlanInv, NEW p \in Parties, at[p] # 0
  PROVE  Call(Op(p)) /\ Op(p) = prog[at[p]]
BY CallFacts DEF PlanInv, Op

(* The step that is next is one of the plan's.                             *)
LEMMA NextFacts ==
  ASSUME PlanInv, NEW p \in Parties, todo[p] # {}
  PROVE  /\ at[p] # 0 /\ NextStep(p) \in todo[p] /\ NextStep(p) \in Plan(Op(p), p)
         /\ \A r \in todo[p] : NextStep(p).nr <= r.nr
<1>1. at[p] # 0 /\ todo[p] \subseteq Plan(Op(p), p)
  BY DEF PlanInv
<1>2. \A s \in Plan(Op(p), p) : s.nr \in Nat
  BY <1>1, OpFacts, WaitsFacts, RoundsFacts DEF Plan, WaitStep
<1> DEFINE S == {s.nr : s \in todo[p]}
<1>3. S \subseteq Nat /\ S # {}
  BY <1>1, <1>2
<1>4. PICK n \in S : \A m \in S : ~(<<m, n>> \in OpToRel(<, Nat))
  BY <1>3, NatLessThanWellFounded, WFMin
<1>5. PICK s \in todo[p] : s.nr = n
  BY <1>4
<1>6. \A r \in todo[p] : ~(r.nr < n)
  BY <1>3, <1>4 DEF OpToRel
<1>7. \A r \in todo[p] : s.nr <= r.nr
  BY <1>1, <1>2, <1>3, <1>5, <1>6
<1>8. NextStep(p) \in todo[p] /\ \A r \in todo[p] : NextStep(p).nr <= r.nr
  BY <1>7 DEF NextStep
<1> QED BY <1>1, <1>8

(* QueueInv is inductive; first the initial states and each action.        *)
LEMMA QueueInit == Init => QueueInv
<1> SUFFICES ASSUME Init PROVE QueueInv
  OBVIOUS
<1>1. PlanInv
  BY DEF Init, PlanInv
<1>2. QueueShape(sreq) /\ QueueShape(sout) /\ QueueShape(rreq) /\ QueueShape(rout)
  BY DEF Init, QueueShape, Nothing
<1>3. ASSUME NEW p \in Parties, NEW q \in Parties
      PROVE  /\ Owed(Asking(todo[p], p, q), at[p], sreq[p][q], sout[p][q])
             /\ OwedAnswer(Awaiting(todo[p], p, q), at[p], rreq[p][q], rout[p][q])
  BY DEF Init, Nothing, Owed, OwedAnswer, Asking, Awaiting
<1> QED BY <1>1, <1>2, <1>3 DEF QueueInv

LEMMA PlanFixed ==
  ASSUME UNCHANGED mainVars, NEW o, NEW p
  PROVE  Plan(o, p)' = Plan(o, p)
BY DEF mainVars, Plan, Threaded, WaitsPlan, Waits, RoundsPlan, Stages, Exchanger, GetPlayer,
       R!Sends, R!Hears, Step, Pick

(* Only steps of the plan are ever left.                                   *)
LEMMA PlanKept ==
  ASSUME PlanInv, UNCHANGED <<mainVars, at>>, DOMAIN todo' = Parties,
         \A p \in Parties : todo'[p] \subseteq todo[p]
  PROVE  PlanInv'
<1>1. ASSUME NEW p \in Parties, at[p] # 0 PROVE Plan(Op(p), p)' = Plan(Op(p), p)
  BY PlanFixed DEF Op, mainVars
<1> QED BY <1>1 DEF PlanInv, mainVars

LEMMA BeginPlan ==
  ASSUME PlanInv, NEW p \in Parties, Begin(p)
  PROVE  /\ PlanInv'
         /\ at[p] + 1 \in DOMAIN prog
         /\ \A q \in Parties : q # p => todo'[q] = todo[q] /\ at'[q] = at[q]
         /\ todo'[p] = Plan(prog[at[p] + 1], p) /\ at'[p] = at[p] + 1
<1>1. prog \in Seq(Operations) /\ at[p] \in Nat /\ at[p] < Len(prog)
  BY ProgramAssumption DEF PlanInv, Begin
<1>2. at[p] + 1 \in DOMAIN prog /\ at[p] + 1 \in Nat /\ at[p] + 1 # 0
  BY <1>1
<1>3. at' = [at EXCEPT ![p] = at[p] + 1] /\ prog' = prog /\ tls' = tls
  BY DEF Begin, mainVars
<1>4. todo' = [todo EXCEPT ![p] = Plan(prog[at[p] + 1], p)]
  BY DEF Begin
<1>5. ASSUME NEW q \in Parties
      PROVE  /\ at'[q] = 0 \/ at'[q] \in DOMAIN prog'
             /\ at'[q] = 0 => todo'[q] = {}
             /\ at'[q] # 0 => todo'[q] \subseteq Plan(Op(q), q)'
  <2>1. Plan(Op(q), q)' = Plan(prog[at'[q]], q)
    BY <1>3, PlanFixed DEF Op, mainVars
  <2>2. CASE q = p
    BY <1>2, <1>3, <1>4, <2>1, <2>2 DEF PlanInv
  <2>3. CASE q # p
    BY <1>3, <1>4, <2>1, <2>3 DEF PlanInv, Op
  <2> QED BY <2>2, <2>3
<1>6. PlanInv'
  BY <1>2, <1>3, <1>4, <1>5 DEF PlanInv
<1> QED BY <1>2, <1>3, <1>4, <1>6 DEF PlanInv

(* What a plan has for the threads is what Begin requests.                 *)
LEMMA PlanAsks ==
  ASSUME NEW o, Call(o), NEW p \in Parties, NEW q \in Parties
  PROVE  /\ Asking(Plan(o, p), p, q) <=> Threaded(o) /\ q \in R!Sends(o, p)
         /\ Awaiting(Plan(o, p), p, q) <=> Threaded(o) /\ q \in R!Hears(o, p)
<1>1. CASE Threaded(o)
  <2>1. ASSUME Asking(Plan(o, p), p, q) PROVE q \in R!Sends(o, p)
    <3>1. PICK s \in WaitsPlan(o, p) : s.do = "sent" /\ <<q, p>> \in s.xs
      BY <1>1, <2>1 DEF Asking, Plan, SentStep
    <3>2. PICK r \in R!Sends(o, p) : s.xs = {<<r, p>>}
      BY <3>1, WaitsFacts DEF WaitStep
    <3> QED BY <3>1, <3>2
  <2>2. ASSUME Awaiting(Plan(o, p), p, q) PROVE q \in R!Hears(o, p)
    <3>1. PICK s \in WaitsPlan(o, p) : s.do = "received" /\ <<p, q>> \in s.xs
      BY <1>1, <2>2 DEF Awaiting, Plan, ReceivedStep
    <3>2. PICK r \in R!Hears(o, p) : s.xs = {<<p, r>>}
      BY <3>1, WaitsFacts DEF WaitStep
    <3> QED BY <3>1, <3>2
  <2> QED BY <1>1, <2>1, <2>2, WaitsFacts DEF Asking, Awaiting, Plan
<1>2. CASE ~Threaded(o)
  BY <1>2, RoundsFacts DEF Asking, Awaiting, Plan, SentStep, ReceivedStep
<1> QED BY <1>1, <1>2

(* The requests of an operation are one for each wait that is planned.     *)
LEMMA BeginQueues ==
  ASSUME QueueInv, NEW p \in Parties, Begin(p)
  PROVE  QueueInv'
<1> DEFINE k == at[p] + 1
<1>1. /\ PlanInv' /\ k \in DOMAIN prog
      /\ \A q \in Parties : q # p => todo'[q] = todo[q] /\ at'[q] = at[q]
      /\ todo'[p] = Plan(prog[k], p) /\ at'[p] = k
  BY BeginPlan DEF QueueInv
<1>2. Call(prog[k])
  BY <1>1, CallFacts DEF QueueInv, PlanInv
<1>3. todo[p] = {} /\ sout' = sout /\ rout' = rout
  BY DEF Begin
<1>4. \A q \in Parties : /\ sreq[p][q] = <<>> /\ sout[p][q] = <<>>
                         /\ rreq[p][q] = <<>> /\ rout[p][q] = <<>>
  BY <1>3 DEF QueueInv, Owed, OwedAnswer, Asking, Awaiting
<1>5. /\ sreq' = IF Threaded(prog[k]) THEN [sreq EXCEPT ![p] = Push(@, R!Sends(prog[k], p), k)]
                                     ELSE sreq
      /\ rreq' = IF Threaded(prog[k]) THEN [rreq EXCEPT ![p] = Push(@, R!Hears(prog[k], p), k)]
                                     ELSE rreq
  BY DEF Begin
<1>6. QueueShape(sreq)' /\ QueueShape(sout)' /\ QueueShape(rreq)' /\ QueueShape(rout)'
  BY <1>3, <1>5 DEF QueueInv, QueueShape, Push
<1>7. ASSUME NEW q \in Parties
      PROVE  /\ sreq'[p][q] = IF Threaded(prog[k]) /\ q \in R!Sends(prog[k], p) THEN <<k>> ELSE <<>>
             /\ rreq'[p][q] = IF Threaded(prog[k]) /\ q \in R!Hears(prog[k], p) THEN <<k>> ELSE <<>>
  <2>1. Append(<<>>, k) = <<k>>
    OBVIOUS
  <2>2. sreq'[p][q] = IF Threaded(prog[k]) /\ q \in R!Sends(prog[k], p) THEN <<k>> ELSE <<>>
    BY <1>4, <1>5, <2>1 DEF QueueInv, QueueShape, Push
  <2>3. rreq'[p][q] = IF Threaded(prog[k]) /\ q \in R!Hears(prog[k], p) THEN <<k>> ELSE <<>>
    BY <1>4, <1>5, <2>1 DEF QueueInv, QueueShape, Push
  <2> QED BY <2>2, <2>3
<1>8. ASSUME NEW r \in Parties, NEW q \in Parties
      PROVE  /\ Owed(Asking(todo'[r], r, q), at'[r], sreq'[r][q], sout'[r][q])
             /\ OwedAnswer(Awaiting(todo'[r], r, q), at'[r], rreq'[r][q], rout'[r][q])
  <2>1. CASE r = p
    BY <1>1, <1>2, <1>3, <1>4, <1>7, <2>1, PlanAsks DEF Owed, OwedAnswer
  <2>2. CASE r # p
    <3>1. sreq'[r] = sreq[r] /\ rreq'[r] = rreq[r]
      BY <1>5, <2>2 DEF QueueInv, QueueShape
    <3> QED BY <1>1, <1>3, <2>2, <3>1 DEF QueueInv
  <2> QED BY <2>1, <2>2
<1> QED BY <1>1, <1>6, <1>8 DEF QueueInv

(* A step that waits for nothing leaves the queues as they are.            *)
LEMMA OtherQueues ==
  ASSUME QueueInv, UNCHANGED <<mainVars, at, queueVars>>, NEW p \in Parties,
         \/ UNCHANGED todo
         \/ /\ todo[p] # {} /\ NextStep(p).do \in {"open", "rounds"}
            /\ Proceed(p)
  PROVE  QueueInv'
<1>1. CASE UNCHANGED todo
  <2>1. PlanInv'
    BY <1>1, PlanKept DEF QueueInv, PlanInv
  <2> QED BY <1>1, <2>1 DEF QueueInv, queueVars, QueueShape
<1>2. CASE todo[p] # {} /\ NextStep(p).do \in {"open", "rounds"} /\ Proceed(p)
  <2>1. /\ DOMAIN todo' = Parties
        /\ \A q \in Parties : q # p => todo'[q] = todo[q]
        /\ todo'[p] = todo[p] \ {NextStep(p)}
    BY <1>2 DEF Proceed, QueueInv, PlanInv
  <2>2. PlanInv'
    BY <2>1, PlanKept DEF QueueInv
  <2>3. ASSUME NEW r \in Parties, NEW q \in Parties
        PROVE  /\ Asking(todo'[r], r, q) <=> Asking(todo[r], r, q)
               /\ Awaiting(todo'[r], r, q) <=> Awaiting(todo[r], r, q)
    BY <1>2, <2>1 DEF Asking, Awaiting, SentStep, ReceivedStep
  <2>4. ASSUME NEW r \in Parties, NEW q \in Parties
        PROVE  /\ Owed(Asking(todo'[r], r, q), at'[r], sreq'[r][q], sout'[r][q])
               /\ OwedAnswer(Awaiting(todo'[r], r, q), at'[r], rreq'[r][q], rout'[r][q])
    BY <2>3 DEF QueueInv, queueVars, Owed, OwedAnswer
  <2> QED BY <2>2, <2>4 DEF QueueInv, queueVars, QueueShape
<1> QED BY <1>1, <1>2

(* A wait takes the answer to its own request.                             *)
LEMMA WaitPlan ==
  ASSUME PlanInv, NEW p \in Parties, NEW do \in {"sent", "received"}, Doing(p, do)
  PROVE  /\ NextStep(p) \in todo[p] /\ NextStep(p) \in WaitsPlan(Op(p), p)
         /\ todo[p] \subseteq WaitsPlan(Op(p), p) /\ at[p] # 0 /\ Call(Op(p))
         /\ Threaded(Op(p))
<1>1. todo[p] # {} /\ NextStep(p).do = do
  BY DEF Doing
<1>2. at[p] # 0 /\ NextStep(p) \in todo[p] /\ NextStep(p) \in Plan(Op(p), p)
  BY <1>1, NextFacts
<1>3. Threaded(Op(p))
  BY <1>1, <1>2, RoundsFacts DEF Plan
<1>4. Call(Op(p))
  BY <1>2, OpFacts
<1> QED BY <1>2, <1>3, <1>4 DEF Plan, PlanInv

LEMMA SentQueues ==
  ASSUME QueueInv, NEW p \in Parties, WaitSent(p)
  PROVE  QueueInv' /\ Proceed(p)
<1>1. Doing(p, "sent") /\ UNCHANGED <<mainVars, at, sreq, rreq, rout>>
  BY DEF WaitSent
<1> DEFINE s == NextStep(p)
<1>2. /\ s \in todo[p] /\ s \in WaitsPlan(Op(p), p) /\ todo[p] \subseteq WaitsPlan(Op(p), p)
      /\ s.do = "sent" /\ Call(Op(p))
  BY <1>1, WaitPlan DEF QueueInv, Doing
<1>3. PICK q \in R!Sends(Op(p), p) : s.xs = {<<q, p>>}
  BY <1>2, WaitsFacts DEF WaitStep
<1>4. q \in Parties
  BY <1>2, <1>3, PeerFacts
<1>5. Asking(todo[p], p, q)
  BY <1>2, <1>3 DEF Asking, SentStep
<1>6. /\ sout[p][q] # <<>> /\ sout' = [sout EXCEPT ![p][q] = Tail(@)]
      /\ ProceedIf(p, Head(sout[p][q]) = at[p])
  <2>1. PICK x \in s.xs : /\ sout[p][x[1]] # <<>>
                         /\ sout' = [sout EXCEPT ![p][x[1]] = Tail(@)]
                         /\ ProceedIf(p, Head(sout[p][x[1]]) = at[p])
    BY DEF WaitSent
  <2>2. x[1] = q
    BY <1>3, <2>1
  <2> QED BY <2>1, <2>2
<1>7. sout[p][q] = <<at[p]>> /\ sreq[p][q] = <<>>
  BY <1>4, <1>5, <1>6 DEF QueueInv, Owed
<1>8. Proceed(p)
  BY <1>6, <1>7 DEF ProceedIf, Proceed
<1>9. /\ DOMAIN todo' = Parties
      /\ \A r \in Parties : r # p => todo'[r] = todo[r]
      /\ todo'[p] = todo[p] \ {s}
  BY <1>8 DEF Proceed, QueueInv, PlanInv
<1>10. PlanInv'
  BY <1>1, <1>9, PlanKept DEF QueueInv
<1>11. ~Asking(todo'[p], p, q)
  <2>1. SentStep(s, p, q)
    BY <1>2, <1>3 DEF SentStep
  <2> QED BY <1>2, <1>4, <1>9, <2>1, WaitsFacts DEF Asking
<1>12. ASSUME NEW r \in Parties, NEW u \in Parties, r # p \/ u # q
       PROVE  (Asking(todo'[r], r, u) <=> Asking(todo[r], r, u)) /\ sout'[r][u] = sout[r][u]
  <2>1. ~SentStep(s, p, u) \/ r # p
    BY <1>3, <1>12 DEF SentStep
  <2>2. Asking(todo'[r], r, u) <=> Asking(todo[r], r, u)
    BY <1>9, <2>1 DEF Asking
  <2> QED BY <1>4, <1>6, <1>12, <2>2 DEF QueueInv, QueueShape
<1>13. ASSUME NEW r \in Parties, NEW u \in Parties
       PROVE  Awaiting(todo'[r], r, u) <=> Awaiting(todo[r], r, u)
  BY <1>2, <1>9 DEF Awaiting, ReceivedStep
<1>14. sout'[p][q] = <<>>
  BY <1>4, <1>6, <1>7 DEF QueueInv, QueueShape
<1>15. ASSUME NEW r \in Parties, NEW u \in Parties
       PROVE  /\ Owed(Asking(todo'[r], r, u), at'[r], sreq'[r][u], sout'[r][u])
              /\ OwedAnswer(Awaiting(todo'[r], r, u), at'[r], rreq'[r][u], rout'[r][u])
  <2>1. OwedAnswer(Awaiting(todo'[r], r, u), at'[r], rreq'[r][u], rout'[r][u])
    BY <1>1, <1>13 DEF QueueInv, OwedAnswer
  <2>2. CASE r = p /\ u = q
    BY <1>1, <1>7, <1>11, <1>14, <2>1, <2>2 DEF Owed
  <2>3. CASE r # p \/ u # q
    BY <1>1, <1>12, <2>1, <2>3 DEF QueueInv, Owed, OwedAnswer
  <2> QED BY <2>2, <2>3
<1>16. QueueShape(sout)' /\ QueueShape(sreq)' /\ QueueShape(rreq)' /\ QueueShape(rout)'
  BY <1>1, <1>6 DEF QueueInv, QueueShape
<1> QED BY <1>8, <1>10, <1>15, <1>16 DEF QueueInv

LEMMA ReceivedQueues ==
  ASSUME QueueInv, NEW p \in Parties, WaitReceived(p)
  PROVE  QueueInv' /\ Proceed(p)
<1>1. Doing(p, "received") /\ UNCHANGED <<mainVars, at, sreq, sout, rreq>>
  BY DEF WaitReceived
<1> DEFINE s == NextStep(p)
<1>2. /\ s \in todo[p] /\ s \in WaitsPlan(Op(p), p) /\ todo[p] \subseteq WaitsPlan(Op(p), p)
      /\ s.do = "received" /\ Call(Op(p))
  BY <1>1, WaitPlan DEF QueueInv, Doing
<1>3. PICK q \in R!Hears(Op(p), p) : s.xs = {<<p, q>>}
  BY <1>2, WaitsFacts DEF WaitStep
<1>4. q \in Parties
  BY <1>2, <1>3, PeerFacts
<1>5. Awaiting(todo[p], p, q)
  BY <1>2, <1>3 DEF Awaiting, ReceivedStep
<1>6. /\ rout[p][q] # <<>> /\ rout' = [rout EXCEPT ![p][q] = Tail(@)]
      /\ ProceedIf(p, Head(rout[p][q]).buffer = at[p])
  <2>1. PICK x \in s.xs : /\ rout[p][x[2]] # <<>>
                         /\ rout' = [rout EXCEPT ![p][x[2]] = Tail(@)]
                         /\ ProceedIf(p, Head(rout[p][x[2]]).buffer = at[p])
    BY DEF WaitReceived
  <2>2. x[2] = q
    BY <1>3, <2>1
  <2> QED BY <2>1, <2>2
<1>7. PICK a : rout[p][q] = <<a>> /\ a.buffer = at[p] /\ rreq[p][q] = <<>>
  BY <1>4, <1>5, <1>6 DEF QueueInv, OwedAnswer
<1>8. Proceed(p)
  BY <1>6, <1>7 DEF ProceedIf, Proceed
<1>9. /\ DOMAIN todo' = Parties
      /\ \A r \in Parties : r # p => todo'[r] = todo[r]
      /\ todo'[p] = todo[p] \ {s}
  BY <1>8 DEF Proceed, QueueInv, PlanInv
<1>10. PlanInv'
  BY <1>1, <1>9, PlanKept DEF QueueInv
<1>11. ~Awaiting(todo'[p], p, q)
  <2>1. ReceivedStep(s, p, q)
    BY <1>2, <1>3 DEF ReceivedStep
  <2> QED BY <1>2, <1>4, <1>9, <2>1, WaitsFacts DEF Awaiting
<1>12. ASSUME NEW r \in Parties, NEW u \in Parties, r # p \/ u # q
       PROVE  (Awaiting(todo'[r], r, u) <=> Awaiting(todo[r], r, u)) /\ rout'[r][u] = rout[r][u]
  <2>1. ~ReceivedStep(s, p, u) \/ r # p
    BY <1>3, <1>12 DEF ReceivedStep
  <2>2. Awaiting(todo'[r], r, u) <=> Awaiting(todo[r], r, u)
    BY <1>9, <2>1 DEF Awaiting
  <2> QED BY <1>4, <1>6, <1>12, <2>2 DEF QueueInv, QueueShape
<1>13. ASSUME NEW r \in Parties, NEW u \in Parties
       PROVE  Asking(todo'[r], r, u) <=> Asking(todo[r], r, u)
  BY <1>2, <1>9 DEF Asking, SentStep
<1>14. rout'[p][q] = <<>>
  BY <1>4, <1>6, <1>7 DEF QueueInv, QueueShape
<1>15. ASSUME NEW r \in Parties, NEW u \in Parties
       PROVE  /\ Owed(Asking(todo'[r], r, u), at'[r], sreq'[r][u], sout'[r][u])
              /\ OwedAnswer(Awaiting(todo'[r], r, u), at'[r], rreq'[r][u], rout'[r][u])
  <2>1. Owed(Asking(todo'[r], r, u), at'[r], sreq'[r][u], sout'[r][u])
    BY <1>1, <1>13 DEF QueueInv, Owed
  <2>2. CASE r = p /\ u = q
    BY <1>1, <1>7, <1>11, <1>14, <2>1, <2>2 DEF OwedAnswer
  <2>3. CASE r # p \/ u # q
    BY <1>1, <1>12, <2>1, <2>3 DEF QueueInv, Owed, OwedAnswer
  <2> QED BY <2>2, <2>3
<1>16. QueueShape(sout)' /\ QueueShape(sreq)' /\ QueueShape(rreq)' /\ QueueShape(rout)'
  BY <1>1, <1>6 DEF QueueInv, QueueShape
<1> QED BY <1>8, <1>10, <1>15, <1>16 DEF QueueInv

(* The threads turn a request into its answer.                             *)
LEMMA SenderQueues ==
  ASSUME QueueInv, NEW p \in Parties, NEW q \in Parties, SenderRun(p, q)
  PROVE  QueueInv'
<1>1. UNCHANGED <<mainVars, at, todo, rreq, rout>> /\ sreq[p][q] # <<>>
  BY DEF SenderRun
<1>2. Asking(todo[p], p, q) /\ sreq[p][q] = <<at[p]>> /\ sout[p][q] = <<>>
  BY <1>1 DEF QueueInv, Owed
<1>3. \/ sreq' = sreq /\ sout' = sout
      \/ /\ sreq' = [sreq EXCEPT ![p][q] = Tail(@)]
         /\ sout' = [sout EXCEPT ![p][q] = Append(@, Head(sreq[p][q]))]
  BY DEF SenderRun
<1>4. PlanInv'
  BY <1>1, PlanKept DEF QueueInv, PlanInv
<1>5. CASE sreq' = sreq /\ sout' = sout
  BY <1>1, <1>4, <1>5 DEF QueueInv, QueueShape
<1>6. CASE /\ sreq' = [sreq EXCEPT ![p][q] = Tail(@)]
           /\ sout' = [sout EXCEPT ![p][q] = Append(@, Head(sreq[p][q]))]
  <2>1. Tail(<<at[p]>>) = <<>> /\ Append(<<>>, Head(<<at[p]>>)) = <<at[p]>>
    OBVIOUS
  <2>2. sreq'[p][q] = <<>> /\ sout'[p][q] = <<at[p]>>
    BY <1>2, <1>6, <2>1 DEF QueueInv, QueueShape
  <2>3. ASSUME NEW r \in Parties, NEW u \in Parties, r # p \/ u # q
        PROVE  sreq'[r][u] = sreq[r][u] /\ sout'[r][u] = sout[r][u]
    BY <1>6, <2>3 DEF QueueInv, QueueShape
  <2>4. ASSUME NEW r \in Parties, NEW u \in Parties
        PROVE  Owed(Asking(todo'[r], r, u), at'[r], sreq'[r][u], sout'[r][u])
    <3>1. CASE r = p /\ u = q
      BY <1>1, <1>2, <2>2, <3>1 DEF Owed
    <3>2. CASE r # p \/ u # q
      BY <1>1, <2>3, <3>2 DEF QueueInv
    <3> QED BY <3>1, <3>2
  <2>5. QueueShape(sreq)' /\ QueueShape(sout)'
    BY <1>6 DEF QueueInv, QueueShape
  <2> QED BY <1>1, <1>4, <2>4, <2>5 DEF QueueInv, QueueShape
<1> QED BY <1>3, <1>5, <1>6

LEMMA ReceiverQueues ==
  ASSUME QueueInv, NEW p \in Parties, NEW q \in Parties, ReceiverRun(p, q)
  PROVE  QueueInv'
<1>1. UNCHANGED <<mainVars, at, todo, sreq, sout>> /\ rreq[p][q] # <<>>
  BY DEF ReceiverRun
<1>2. Awaiting(todo[p], p, q) /\ rreq[p][q] = <<at[p]>> /\ rout[p][q] = <<>>
  BY <1>1 DEF QueueInv, OwedAnswer
<1>3. \/ rreq' = rreq /\ rout' = rout
      \/ /\ rreq' = [rreq EXCEPT ![p][q] = Tail(@)]
         /\ \E units : rout' = [rout EXCEPT ![p][q] =
                                  Append(@, [buffer |-> Head(rreq[p][q]), units |-> units])]
  BY DEF ReceiverRun
<1>4. PlanInv'
  BY <1>1, PlanKept DEF QueueInv, PlanInv
<1>5. CASE rreq' = rreq /\ rout' = rout
  BY <1>1, <1>4, <1>5 DEF QueueInv, QueueShape
<1>6. ASSUME rreq' = [rreq EXCEPT ![p][q] = Tail(@)], NEW units,
             rout' = [rout EXCEPT ![p][q] =
                        Append(@, [buffer |-> Head(rreq[p][q]), units |-> units])]
      PROVE  QueueInv'
  <2> DEFINE a == [buffer |-> at[p], units |-> units]
  <2>1. Tail(<<at[p]>>) = <<>> /\ Head(<<at[p]>>) = at[p] /\ Append(<<>>, a) = <<a>>
    OBVIOUS
  <2>2. rreq'[p][q] = <<>> /\ rout'[p][q] = <<a>> /\ a.buffer = at[p]
    BY <1>2, <1>6, <2>1 DEF QueueInv, QueueShape
  <2>3. ASSUME NEW r \in Parties, NEW u \in Parties, r # p \/ u # q
        PROVE  rreq'[r][u] = rreq[r][u] /\ rout'[r][u] = rout[r][u]
    BY <1>6, <2>3 DEF QueueInv, QueueShape
  <2>4. ASSUME NEW r \in Parties, NEW u \in Parties
        PROVE  OwedAnswer(Awaiting(todo'[r], r, u), at'[r], rreq'[r][u], rout'[r][u])
    <3>1. CASE r = p /\ u = q
      BY <1>1, <1>2, <2>2, <3>1 DEF OwedAnswer
    <3>2. CASE r # p \/ u # q
      BY <1>1, <2>3, <3>2 DEF QueueInv
    <3> QED BY <3>1, <3>2
  <2>5. QueueShape(rreq)' /\ QueueShape(rout)'
    BY <1>6 DEF QueueInv, QueueShape
  <2> QED BY <1>1, <1>4, <2>4, <2>5 DEF QueueInv, QueueShape
<1> QED BY <1>3, <1>5, <1>6

(* All actions together.                                                   *)
LEMMA QueueNext == QueueInv /\ [Next]_vars => QueueInv'
<1> SUFFICES ASSUME QueueInv, [Next]_vars PROVE QueueInv'
  OBVIOUS
<1>1. ASSUME NEW p \in Parties, Open(p) PROVE QueueInv'
  <2>1. /\ UNCHANGED <<mainVars, at, queueVars>> /\ Proceed(p)
        /\ todo[p] # {} /\ NextStep(p).do = "open"
    BY <1>1 DEF Open, Doing
  <2> QED BY <2>1, OtherQueues
<1>2. ASSUME NEW p \in Parties, Round(p) PROVE QueueInv'
  <2>1. UNCHANGED <<mainVars, at, todo, queueVars>>
    BY <1>2 DEF Round, Send, Receive
  <2> QED BY <2>1, OtherQueues
<1>3. ASSUME NEW p \in Parties, EndRounds(p) PROVE QueueInv'
  <2>1. /\ UNCHANGED <<mainVars, at, queueVars>> /\ Proceed(p)
        /\ todo[p] # {} /\ NextStep(p).do = "rounds"
    BY <1>3 DEF EndRounds, Doing
  <2> QED BY <2>1, OtherQueues
<1>4. CASE Done \/ UNCHANGED vars
  <2>1. UNCHANGED <<mainVars, at, todo, queueVars>>
    BY <1>4 DEF Done, vars, mainVars, queueVars
  <2>2. PlanInv'
    BY <2>1, PlanKept DEF QueueInv, PlanInv
  <2> QED BY <2>1, <2>2 DEF QueueInv, queueVars, QueueShape
<1> QED BY <1>1, <1>2, <1>3, <1>4, BeginQueues, SentQueues, ReceivedQueues, SenderQueues,
           ReceiverQueues DEF Next, Main

(* A wait always gets the buffer it was called with, so that Sender::wait  *)
(* and Receiver::wait never throw.                                         *)
THEOREM WaitsMatch == Spec => []WaitGetsRequest
<1>1. QueueInv => WaitGetsRequest
  <2> SUFFICES ASSUME QueueInv, NEW p \in Parties, Doing(p, "throw") PROVE FALSE
    BY DEF WaitGetsRequest
  <2>1. at[p] # 0 /\ NextStep(p) \in Plan(Op(p), p) /\ NextStep(p).do = "throw" /\ Call(Op(p))
    BY NextFacts, OpFacts DEF Doing, QueueInv
  <2> QED BY <2>1, WaitsFacts, RoundsFacts DEF Plan, WaitStep
<1> QED BY <1>1, QueueInit, QueueNext, PTL DEF Spec

---------------------------------------------------------------------------
(***************************************************************************)
(* The refinement of Rounds.  Two parties agree on how far a message is if *)
(* what is on the stream is what one has sent and the other has not got.   *)
(***************************************************************************)
Owing(p, q) == p # q /\ (sreq[p][q] # <<>> \/ \E s \in todo[p] : RoundTo(s, q))
Expecting(p, q) == p # q /\ (rreq[p][q] # <<>> \/ \E s \in todo[p] : RoundFrom(s, q))
Missing(p, q) == p # q /\ (Awaiting(todo[p], p, q) \/ \E s \in todo[p] : RoundFrom(s, q))

(* What has passed when n parts of the message of operation k have, or     *)
(* all of it.                                                              *)
Past(k, busy, n, e) == e[1] < k \/ (e[1] = k /\ (busy => e[2] < n))
HasSent(p, q, e) == Past(at[p], Owing(p, q), sent[p][q], e)
HasGot(p, q, e) == Past(at[p], Expecting(p, q), Len(got[p][q]), e)

SendPair(p, q) ==
  /\ sent[p][q] \in Nat
  /\ ~Owing(p, q) => sent[p][q] = 0
  /\ Owing(p, q) => sent[p][q] <= IF Threaded(Op(p)) THEN Size(p) ELSE Size(p) + 1

(* The first parts of a message.                                           *)
IsPart(g, k, q) ==
  /\ g \in Seq(UnitsOf(prog, q)) /\ Len(g) <= prog[k].size[q] + 1
  /\ \A i \in DOMAIN g : g[i] = UnitAt(prog, q, <<k, i - 1>>)
ReceivePair(p, q) ==
  /\ ~Expecting(p, q) => got[p][q] = <<>>
  /\ Expecting(p, q) => /\ IsPart(got[p][q], at[p], q)
                        /\ Threaded(Op(p)) => Len(got[p][q]) <= prog[at[p]].size[q]

HeardPair(p, q) ==
  /\ at[p] = 0 \/ Missing(p, q) => heard[p][q] = <<>>
  /\ at[p] # 0 /\ ~Missing(p, q) =>
       heard[p][q] = IF q \in Hears(p) THEN R!Message(at[p], q) ELSE <<>>
  /\ \A a : rout[p][q] = <<a>> => a.units = R!Message(at[p], q)

(* An Exchanger that is to be constructed has sent nothing.                *)
OpenParty(p) ==
  \A s \in todo[p] : s.do = "open" =>
    /\ \A x \in s.xs : sent[p][x[1]] = 0
    /\ \E r \in todo[p] : r.do = "rounds" /\ s.nr < r.nr /\ s.xs \subseteq r.xs

(* In place, the part received never reaches the part still to be sent.    *)
PlaceParty(p) ==
  /\ ~moved[p]
  /\ at[p] # 0 /\ InPlace(p) =>
       \A r \in todo[p] : r.do = "rounds" => \A x \in r.xs : x[1] # p =>
         /\ Len(got[p][x[2]]) <= sent[p][x[1]] \/ SentAll(p, x)
         /\ sent[p][x[1]] = 0 => \E s \in todo[p] : s.do = "open"

PartyInv(p) ==
  /\ \A q \in Parties : SendPair(p, q) /\ ReceivePair(p, q) /\ HeardPair(p, q)
  /\ OpenParty(p) /\ PlaceParty(p)

Parts(s, p, q) ==
  {e \in Places : /\ e[1] \in DOMAIN prog /\ q \in R!Sends(prog[e[1]], p)
                  /\ e[2] <= prog[e[1]].size[p] /\ Socket(e[1], p, q) = s}
OnTheWay(s, p, q) == {e \in Parts(s, p, q) : HasSent(p, q, e) /\ ~HasGot(q, p, e)}
FlowPair(s, p, q) ==
  /\ \A e \in Parts(s, p, q) : HasGot(q, p, e) => HasSent(p, q, e)
  /\ Carries(link[s][p][q], OnTheWay(s, p, q), prog, p)

Sockets == {0, 1}
FlowInv == \A s \in Sockets, p, q \in Parties : p # q => FlowPair(s, p, q)

Shapes ==
  /\ DOMAIN link = Sockets /\ \A s \in Sockets : QueueShape(link[s])
  /\ QueueShape(sent) /\ QueueShape(got) /\ QueueShape(heard)
  /\ DOMAIN moved = Parties

TransferInv == QueueInv /\ Shapes /\ FlowInv /\ \A p \in Parties : PartyInv(p)

(* What an action of p leaves of another party r.                          *)
Row(r) == <<at[r], todo[r], sent[r], got[r], heard[r], sreq[r], rreq[r], rout[r], moved[r]>>

(* A party whose row is unchanged is as it was.                            *)
LEMMA PartyKept ==
  ASSUME UNCHANGED mainVars, NEW r, UNCHANGED Row(r), PartyInv(r)
  PROVE  /\ PartyInv(r)'
         /\ \A q : \A e : (HasSent(r, q, e)' <=> HasSent(r, q, e)) /\ (HasGot(r, q, e)' <=> HasGot(r, q, e))
<1>1. /\ prog' = prog /\ tls' = tls /\ at'[r] = at[r] /\ todo'[r] = todo[r] /\ sent'[r] = sent[r]
      /\ got'[r] = got[r] /\ heard'[r] = heard[r] /\ sreq'[r] = sreq[r] /\ rreq'[r] = rreq[r]
      /\ rout'[r] = rout[r] /\ moved'[r] = moved[r]
  BY DEF Row, mainVars
<1>2. ASSUME NEW q
      PROVE  /\ Owing(r, q)' <=> Owing(r, q)
             /\ Expecting(r, q)' <=> Expecting(r, q)
             /\ Missing(r, q)' <=> Missing(r, q)
  BY <1>1 DEF Owing, Expecting, Missing
<1>3. Op(r)' = Op(r) /\ Size(r)' = Size(r) /\ InPlace(r)' = InPlace(r)
  BY <1>1 DEF Op, Size, InPlace
<1>4. Threaded(Op(r))' <=> Threaded(Op(r))
  BY <1>1, <1>3 DEF Threaded
<1>5. ASSUME NEW q
      PROVE  (SendPair(r, q) => SendPair(r, q)') /\ (ReceivePair(r, q) => ReceivePair(r, q)')
  BY <1>1, <1>2, <1>3, <1>4 DEF SendPair, ReceivePair, IsPart
<1>6. ASSUME NEW q
      PROVE  HeardPair(r, q) => HeardPair(r, q)'
  BY <1>1, <1>2, <1>3 DEF HeardPair, Hears, R!Hears, R!Message
<1>7. OpenParty(r) => OpenParty(r)'
  BY <1>1 DEF OpenParty
<1>8. PlaceParty(r) => PlaceParty(r)'
  BY <1>1, <1>3 DEF PlaceParty, SentAll
<1>9. ASSUME NEW q, NEW e
      PROVE  (HasSent(r, q, e)' <=> HasSent(r, q, e)) /\ (HasGot(r, q, e)' <=> HasGot(r, q, e))
  BY <1>1, <1>2 DEF HasSent, HasGot, Past
<1> QED BY <1>5, <1>6, <1>7, <1>8, <1>9 DEF PartyInv

LEMMA PartsFixed ==
  ASSUME UNCHANGED mainVars, NEW s, NEW p, NEW q
  PROVE  Parts(s, p, q)' = Parts(s, p, q)
BY DEF Parts, mainVars, Socket, Threaded, R!Sends

(* The stream is as it was if what was sent and got is.                    *)
LEMMA FlowKept ==
  ASSUME UNCHANGED mainVars, NEW s, NEW p, NEW q, FlowPair(s, p, q),
         link'[s][p][q] = link[s][p][q],
         \A e \in Parts(s, p, q) : /\ HasSent(p, q, e)' <=> HasSent(p, q, e)
                                   /\ HasGot(q, p, e)' <=> HasGot(q, p, e)
  PROVE  FlowPair(s, p, q)'
<1>1. Parts(s, p, q)' = Parts(s, p, q)
  BY PartsFixed
<1>2. OnTheWay(s, p, q)' = OnTheWay(s, p, q)
  BY <1>1 DEF OnTheWay
<1> QED BY <1>1, <1>2 DEF FlowPair, mainVars

(* One more part on the stream.                                            *)
LEMMA FlowSent ==
  ASSUME UNCHANGED mainVars, NEW s, NEW p, NEW q, FlowPair(s, p, q), NEW f \in Parts(s, p, q),
         link'[s][p][q] = Append(link[s][p][q], UnitAt(prog, p, f)),
         ~HasSent(p, q, f),
         \A e \in Parts(s, p, q) : HasSent(p, q, e) => Before(e, f),
         \A e \in Parts(s, p, q) : /\ HasSent(p, q, e)' <=> HasSent(p, q, e) \/ e = f
                                   /\ HasGot(q, p, e)' <=> HasGot(q, p, e)
  PROVE  FlowPair(s, p, q)'
<1>1. Parts(s, p, q)' = Parts(s, p, q)
  BY PartsFixed
<1>2. ~HasGot(q, p, f)
  BY DEF FlowPair
<1>3. OnTheWay(s, p, q)' = OnTheWay(s, p, q) \cup {f}
  BY <1>1, <1>2 DEF OnTheWay
<1>4. f \in Places /\ \A e \in OnTheWay(s, p, q) : Before(e, f)
  BY DEF OnTheWay, Parts
<1>5. Carries(link'[s][p][q], OnTheWay(s, p, q)', prog, p)
  BY <1>3, <1>4, CarriesAppend DEF FlowPair
<1> QED BY <1>1, <1>5 DEF FlowPair, mainVars

(* One part is taken from it: the next one that is expected.               *)
LEMMA FlowGot ==
  ASSUME UNCHANGED mainVars, NEW s, NEW p, NEW q, FlowPair(s, p, q), NEW f \in Parts(s, p, q),
         link[s][p][q] # <<>>, link'[s][p][q] = Tail(link[s][p][q]),
         ~HasGot(q, p, f),
         \A e \in Parts(s, p, q) : HasGot(q, p, e) \/ e = f \/ Before(f, e),
         \A e, d \in Parts(s, p, q) : HasSent(p, q, e) /\ Before(d, e) => HasSent(p, q, d),
         \A e \in Parts(s, p, q) : /\ HasSent(p, q, e)' <=> HasSent(p, q, e)
                                   /\ HasGot(q, p, e)' <=> HasGot(q, p, e) \/ e = f
  PROVE  FlowPair(s, p, q)' /\ Head(link[s][p][q]) = UnitAt(prog, p, f) /\ HasSent(p, q, f)
<1>1. Parts(s, p, q)' = Parts(s, p, q)
  BY PartsFixed
<1> DEFINE W == OnTheWay(s, p, q)
           d == PlaceOf(Head(link[s][p][q]))
<1>2. W \in SUBSET Places
  BY DEF OnTheWay, Parts
<1>3. d \in W
  BY CarriesHead DEF FlowPair
<1>4. HasSent(p, q, f)
  BY <1>3 DEF OnTheWay
<1>5. f \in W /\ \A e \in W : e = f \/ Before(f, e)
  BY <1>4 DEF OnTheWay
<1>6. /\ Head(link[s][p][q]) = UnitAt(prog, p, f)
      /\ Carries(Tail(link[s][p][q]), W \ {f}, prog, p)
  BY <1>2, <1>5, CarriesLeast DEF FlowPair
<1>7. OnTheWay(s, p, q)' = W \ {f}
  BY <1>1 DEF OnTheWay
<1> QED BY <1>1, <1>4, <1>6, <1>7 DEF FlowPair, mainVars

---------------------------------------------------------------------------
(* Operations and places of the program.                                   *)
LEMMA ProgFacts ==
  ASSUME PlanInv, NEW k \in DOMAIN prog
  PROVE  /\ k \in Nat /\ k # 0 /\ Call(prog[k])
         /\ \A q \in Parties : prog[k].size[q] \in Nat
<1>1. Call(prog[k]) /\ prog \in Seq(Operations)
  BY CallFacts DEF PlanInv
<1>2. k \in Nat /\ k # 0
  BY <1>1
<1>3. prog[k].size \in [Parties -> Nat]
  BY <1>1 DEF Call, Operations
<1> QED BY <1>1, <1>2, <1>3

LEMMA AtFacts ==
  ASSUME PlanInv, NEW p \in Parties
  PROVE  /\ at[p] \in Nat
         /\ at[p] # 0 => /\ at[p] \in DOMAIN prog /\ Call(Op(p)) /\ Op(p) = prog[at[p]]
                         /\ Size(p) = prog[at[p]].size[p]
                         /\ \A q \in Parties : prog[at[p]].size[q] \in Nat
BY ProgFacts DEF PlanInv, Op, Size

(* Places in the messages from p to q on one of their streams.             *)
LEMMA PartFacts ==
  ASSUME PlanInv, NEW s, NEW p \in Parties, NEW q \in Parties, NEW e \in Parts(s, p, q)
  PROVE  /\ e \in Places /\ e[1] \in Nat /\ e[2] \in Nat /\ e = <<e[1], e[2]>>
         /\ e[1] \in DOMAIN prog /\ q \in R!Sends(prog[e[1]], p)
         /\ e[2] <= prog[e[1]].size[p] /\ Socket(e[1], p, q) = s
BY DEF Parts, Places

(* The place in the operation p is in.                                     *)
LEMMA PlacePart ==
  ASSUME PlanInv, NEW p \in Parties, NEW q \in Parties, at[p] # 0, NEW n \in Nat
  PROVE  /\ q \in Sends(p) /\ n <= Size(p) =>
              <<at[p], n>> \in Parts(Socket(at[p], p, q), p, q)
         /\ q \in Hears(p) /\ n <= prog[at[p]].size[q] =>
              <<at[p], n>> \in Parts(Socket(at[p], q, p), q, p)
<1>1. at[p] \in DOMAIN prog /\ Op(p) = prog[at[p]] /\ Size(p) = prog[at[p]].size[p] /\ at[p] \in Nat
  BY AtFacts
<1>2. q \in R!Hears(prog[at[p]], p) => p \in R!Sends(prog[at[p]], q)
  BY DEF R!Hears, R!Sends
<1>3. <<at[p], n>> \in Places /\ <<at[p], n>>[1] = at[p] /\ <<at[p], n>>[2] = n
  BY <1>1 DEF Places
<1> QED BY <1>1, <1>2, <1>3 DEF Parts, Sends, Hears

LEMMA SocketFacts ==
  ASSUME NEW k, NEW p, NEW q
  PROVE  Socket(k, p, q) \in Sockets
BY DEF Socket, Sockets

(* A message that is being sent or received is of the present operation.   *)
LEMMA OwingFacts ==
  ASSUME QueueInv, NEW p \in Parties, NEW q \in Parties, Owing(p, q)
  PROVE  /\ at[p] # 0 /\ q # p /\ q \in Sends(p)
         /\ Threaded(Op(p)) => sreq[p][q] = <<at[p]>>
         /\ ~Threaded(Op(p)) => sreq[p][q] = <<>> /\ \E s \in todo[p] : RoundTo(s, q)
<1>1. CASE sreq[p][q] # <<>>
  <2>1. Asking(todo[p], p, q) /\ sreq[p][q] = <<at[p]>>
    BY <1>1 DEF QueueInv, Owed
  <2>2. PICK s \in todo[p] : SentStep(s, p, q)
    BY <2>1 DEF Asking
  <2>3. at[p] # 0 /\ todo[p] \subseteq Plan(Op(p), p)
    BY <2>2 DEF QueueInv, PlanInv
  <2>4. Asking(Plan(Op(p), p), p, q)
    BY <2>2, <2>3 DEF Asking
  <2>5. Threaded(Op(p)) /\ q \in Sends(p)
    BY <2>3, <2>4, PlanAsks, OpFacts DEF QueueInv, Sends
  <2> QED BY <2>1, <2>3, <2>5 DEF Owing
<1>2. CASE sreq[p][q] = <<>>
  <2>1. PICK s \in todo[p] : RoundTo(s, q)
    BY <1>2 DEF Owing
  <2>2. at[p] # 0 /\ s \in Plan(Op(p), p) /\ Call(Op(p))
    BY <2>1, OpFacts DEF QueueInv, PlanInv
  <2>3. ~Threaded(Op(p))
    BY <2>1, <2>2, WaitsFacts DEF Plan, WaitStep, RoundTo
  <2>4. s \in RoundsPlan(Op(p), p)
    BY <2>2, <2>3 DEF Plan
  <2>5. q \in Sends(p)
    BY <2>1, <2>2, <2>4, RoundsPeers DEF RoundTo, Sends, Owing
  <2> QED BY <1>2, <2>1, <2>2, <2>3, <2>5 DEF Owing
<1> QED BY <1>1, <1>2

(* The same of a message that is being received.                           *)
LEMMA ExpectingFacts ==
  ASSUME QueueInv, NEW p \in Parties, NEW q \in Parties, Expecting(p, q)
  PROVE  /\ at[p] # 0 /\ q # p /\ q \in Hears(p) /\ Missing(p, q)
         /\ Threaded(Op(p)) => rreq[p][q] = <<at[p]>>
         /\ ~Threaded(Op(p)) => rreq[p][q] = <<>> /\ \E s \in todo[p] : RoundFrom(s, q)
<1>1. CASE rreq[p][q] # <<>>
  <2>1. Awaiting(todo[p], p, q) /\ rreq[p][q] = <<at[p]>>
    BY <1>1 DEF QueueInv, OwedAnswer
  <2>2. PICK s \in todo[p] : ReceivedStep(s, p, q)
    BY <2>1 DEF Awaiting
  <2>3. at[p] # 0 /\ todo[p] \subseteq Plan(Op(p), p)
    BY <2>2 DEF QueueInv, PlanInv
  <2>4. Awaiting(Plan(Op(p), p), p, q)
    BY <2>2, <2>3 DEF Awaiting
  <2>5. Threaded(Op(p)) /\ q \in Hears(p)
    BY <2>3, <2>4, PlanAsks, OpFacts DEF QueueInv, Hears
  <2> QED BY <2>1, <2>3, <2>5 DEF Expecting, Missing
<1>2. CASE rreq[p][q] = <<>>
  <2>1. PICK s \in todo[p] : RoundFrom(s, q)
    BY <1>2 DEF Expecting
  <2>2. at[p] # 0 /\ s \in Plan(Op(p), p) /\ Call(Op(p))
    BY <2>1, OpFacts DEF QueueInv, PlanInv
  <2>3. ~Threaded(Op(p))
    BY <2>1, <2>2, WaitsFacts DEF Plan, WaitStep, RoundFrom
  <2>4. s \in RoundsPlan(Op(p), p)
    BY <2>2, <2>3 DEF Plan
  <2>5. q \in Hears(p)
    BY <2>1, <2>2, <2>4, RoundsPeers DEF RoundFrom, Hears, Expecting
  <2> QED BY <1>2, <2>1, <2>2, <2>3, <2>5 DEF Expecting, Missing
<1> QED BY <1>1, <1>2

(* and of one that is yet to be handed over.                               *)
LEMMA MissingFacts ==
  ASSUME QueueInv, NEW p \in Parties, NEW q \in Parties, Missing(p, q)
  PROVE  at[p] # 0 /\ q \in Hears(p) /\ q # p
<1>1. CASE Awaiting(todo[p], p, q)
  <2>1. PICK s \in todo[p] : ReceivedStep(s, p, q)
    BY <1>1 DEF Awaiting
  <2>2. at[p] # 0 /\ todo[p] \subseteq Plan(Op(p), p)
    BY <2>1 DEF QueueInv, PlanInv
  <2>3. Awaiting(Plan(Op(p), p), p, q)
    BY <2>1, <2>2 DEF Awaiting
  <2> QED BY <2>2, <2>3, PlanAsks, OpFacts DEF QueueInv, Hears, Missing
<1>2. CASE \E s \in todo[p] : RoundFrom(s, q)
  <2>1. Expecting(p, q)
    BY <1>2 DEF Expecting, Missing
  <2> QED BY <2>1, ExpectingFacts
<1> QED BY <1>1, <1>2 DEF Missing

(* Between two operations nothing is left to do.                           *)
LEMMA IdleFacts ==
  ASSUME QueueInv, NEW p \in Parties, todo[p] = {}, NEW q \in Parties
  PROVE  /\ ~Owing(p, q) /\ ~Expecting(p, q) /\ ~Missing(p, q)
         /\ sreq[p][q] = <<>> /\ rreq[p][q] = <<>> /\ rout[p][q] = <<>>
<1>1. ~Asking(todo[p], p, q) /\ ~Awaiting(todo[p], p, q)
  BY DEF Asking, Awaiting
<1>2. sreq[p][q] = <<>> /\ rreq[p][q] = <<>> /\ rout[p][q] = <<>>
  BY <1>1 DEF QueueInv, Owed, OwedAnswer
<1> QED BY <1>1, <1>2 DEF Owing, Expecting, Missing

(* The parts of messages are sent and received in order.                   *)
LEMMA SentBefore ==
  ASSUME PlanInv, NEW s, NEW p \in Parties, NEW q \in Parties, SendPair(p, q),
         NEW d \in Parts(s, p, q), NEW e \in Parts(s, p, q), HasSent(p, q, e), Before(d, e)
  PROVE  HasSent(p, q, d)
<1>1. /\ at[p] \in Nat /\ sent[p][q] \in Nat
      /\ d[1] \in Nat /\ d[2] \in Nat /\ e[1] \in Nat /\ e[2] \in Nat
  BY AtFacts, PartFacts DEF SendPair
<1> QED BY <1>1 DEF HasSent, Past, Before

---------------------------------------------------------------------------
(* The first parts of a message, and all of it.                            *)
LEMMA WholeFacts ==
  ASSUME PlanInv, NEW k \in DOMAIN prog, NEW q \in Parties, NEW g, IsPart(g, k, q)
  PROVE  /\ Len(g) \in Nat
         /\ Complete(g) <=> Len(g) = prog[k].size[q] + 1
         /\ Complete(g) => g = R!Message(k, q)
<1> DEFINE n == prog[k].size[q]
<1>1. n \in Nat /\ g \in Seq(UnitsOf(prog, q)) /\ k \in Nat
  BY ProgFacts DEF IsPart
<1>2. /\ Len(g) \in Nat /\ DOMAIN g = 1 .. Len(g) /\ g = [i \in 1 .. Len(g) |-> g[i]]
      /\ g # <<>> => 1 \in DOMAIN g /\ Head(g) = g[1]
      /\ g = <<>> <=> Len(g) = 0
  BY <1>1
<1>3. \A i \in DOMAIN g : g[i] = R!Unit(k, q, i - 1, n)
  <2>1. \A i \in DOMAIN g : g[i] = UnitAt(prog, q, <<k, i - 1>>)
    BY DEF IsPart
  <2> QED BY <2>1 DEF UnitAt
<1>4. g # <<>> => Head(g).of = n
  BY <1>2, <1>3 DEF R!Unit
<1>5. Complete(g) <=> Len(g) = n + 1
  <2>1. Complete(g) <=> g # <<>> /\ Len(g) = 1 + Head(g).of
    BY DEF Complete
  <2> HIDE DEF n
  <2>2. CASE g = <<>>
    BY <1>1, <1>2, <2>1, <2>2
  <2>3. CASE g # <<>>
    BY <1>1, <1>2, <1>4, <2>1, <2>3
  <2> QED BY <2>2, <2>3
<1>6. ASSUME Complete(g) PROVE g = R!Message(k, q)
  <2>1. 1 .. Len(g) = 1 .. 1 + n
    BY <1>1, <1>5, <1>6
  <2>2. R!Message(k, q) = [i \in 1 .. 1 + n |-> R!Unit(k, q, i - 1, n)]
    BY DEF R!Message
  <2> HIDE DEF n
  <2> QED BY <1>2, <1>3, <2>1, <2>2
<1> QED BY <1>2, <1>5, <1>6

(* The next part makes it one longer.                                      *)
LEMMA PartAppend ==
  ASSUME PlanInv, NEW k \in DOMAIN prog, NEW q \in Parties, NEW g, IsPart(g, k, q),
         ~Complete(g)
  PROVE  /\ Len(g) <= prog[k].size[q]
         /\ IsPart(Append(g, UnitAt(prog, q, <<k, Len(g)>>)), k, q)
         /\ Len(Append(g, UnitAt(prog, q, <<k, Len(g)>>))) = Len(g) + 1
<1> DEFINE n == prog[k].size[q]
           u == UnitAt(prog, q, <<k, Len(g)>>)
           h == Append(g, u)
<1>1. /\ n \in Nat /\ k \in Nat /\ g \in Seq(UnitsOf(prog, q)) /\ Len(g) \in Nat
      /\ Len(g) <= n + 1 /\ Len(g) # n + 1
  BY ProgFacts, WholeFacts DEF IsPart
<1>2. Len(g) <= n
  <2> HIDE DEF n
  <2> QED BY <1>1
<1>3. <<k, Len(g)>> \in Places
  BY <1>1 DEF Places
<1>4. u \in UnitsOf(prog, q)
  BY <1>3 DEF UnitsOf
<1>5. \A i \in DOMAIN g : g[i] = UnitAt(prog, q, <<k, i - 1>>)
  BY DEF IsPart
<1>6. /\ h \in Seq(UnitsOf(prog, q)) /\ Len(h) = Len(g) + 1
      /\ DOMAIN h = 1 .. Len(g) + 1
      /\ \A i \in 1 .. Len(g) : h[i] = g[i] /\ i \in DOMAIN g
      /\ h[Len(g) + 1] = u
  <2> HIDE DEF u
  <2> QED BY <1>1, <1>4
<1>7. ASSUME NEW i \in DOMAIN h PROVE h[i] = UnitAt(prog, q, <<k, i - 1>>)
  <2>1. CASE i = Len(g) + 1
    <3>1. i - 1 = Len(g)
      BY <1>1, <2>1
    <3> QED BY <1>6, <2>1, <3>1
  <2>2. CASE i # Len(g) + 1
    <3>1. i \in 1 .. Len(g)
      BY <1>1, <1>6, <2>2
    <3> QED BY <1>5, <1>6, <3>1
  <2> QED BY <2>1, <2>2
<1>8. Len(h) <= n + 1
  <2> HIDE DEF n, h
  <2> QED BY <1>1, <1>2, <1>6
<1> QED BY <1>2, <1>6, <1>7, <1>8 DEF IsPart

---------------------------------------------------------------------------
(* One direction of a pair at a time.                                      *)
LEMMA SendKept ==
  ASSUME UNCHANGED mainVars, NEW p, NEW q, at'[p] = at[p], sent'[p][q] = sent[p][q],
         Owing(p, q)' <=> Owing(p, q), SendPair(p, q)
  PROVE  SendPair(p, q)' /\ \A e : HasSent(p, q, e)' <=> HasSent(p, q, e)
<1>1. Op(p)' = Op(p) /\ Size(p)' = Size(p)
  BY DEF Op, Size, mainVars
<1>2. Threaded(Op(p))' <=> Threaded(Op(p))
  BY <1>1 DEF Threaded, mainVars
<1>3. SendPair(p, q)'
  BY <1>1, <1>2 DEF SendPair
<1>4. ASSUME NEW e PROVE HasSent(p, q, e)' <=> HasSent(p, q, e)
  BY DEF HasSent, Past
<1> QED BY <1>3, <1>4

LEMMA GotKept ==
  ASSUME UNCHANGED mainVars, NEW p, NEW q, at'[p] = at[p], got'[p][q] = got[p][q],
         Expecting(p, q)' <=> Expecting(p, q), ReceivePair(p, q)
  PROVE  ReceivePair(p, q)' /\ \A e : HasGot(p, q, e)' <=> HasGot(p, q, e)
<1>1. Op(p)' = Op(p)
  BY DEF Op, mainVars
<1>2. Threaded(Op(p))' <=> Threaded(Op(p))
  BY <1>1 DEF Threaded, mainVars
<1>3. ReceivePair(p, q)'
  BY <1>2 DEF ReceivePair, IsPart, mainVars
<1>4. ASSUME NEW e PROVE HasGot(p, q, e)' <=> HasGot(p, q, e)
  BY DEF HasGot, Past
<1> QED BY <1>3, <1>4

LEMMA HeardKept ==
  ASSUME UNCHANGED mainVars, NEW p, NEW q, at'[p] = at[p], heard'[p][q] = heard[p][q],
         rout'[p][q] = rout[p][q], Missing(p, q)' <=> Missing(p, q), HeardPair(p, q)
  PROVE  HeardPair(p, q)'
BY DEF HeardPair, Hears, Op, R!Hears, R!Message, mainVars

(* An action of p with q leaves the other parties alone.                   *)
LEMMA Combine ==
  ASSUME TransferInv, UNCHANGED mainVars, QueueInv', Shapes', NEW p \in Parties,
         \A r \in Parties : r # p => Row(r)' = Row(r),
         PartyInv(p)',
         \A s \in Sockets, q \in Parties : q # p => FlowPair(s, p, q)' /\ FlowPair(s, q, p)',
         \A s \in Sockets : \A r, u \in Parties :
           r # p /\ u # p => link'[s][r][u] = link[s][r][u]
  PROVE  TransferInv'
<1>1. ASSUME NEW r \in Parties, r # p
      PROVE  /\ PartyInv(r)'
             /\ \A q : \A e : /\ HasSent(r, q, e)' <=> HasSent(r, q, e)
                              /\ HasGot(r, q, e)' <=> HasGot(r, q, e)
  <2>1. UNCHANGED Row(r) /\ PartyInv(r)
    BY <1>1 DEF TransferInv
  <2> QED BY <2>1, PartyKept
<1>2. ASSUME NEW s \in Sockets, NEW r \in Parties, NEW u \in Parties, r # u, r # p, u # p
      PROVE  FlowPair(s, r, u)'
  <2>1. FlowPair(s, r, u) /\ link'[s][r][u] = link[s][r][u]
    BY <1>2 DEF TransferInv, FlowInv
  <2>2. \A e \in Parts(s, r, u) : /\ HasSent(r, u, e)' <=> HasSent(r, u, e)
                                  /\ HasGot(u, r, e)' <=> HasGot(u, r, e)
    BY <1>1, <1>2
  <2> QED BY <2>1, <2>2, FlowKept
<1>3. FlowInv'
  <2> SUFFICES ASSUME NEW s \in Sockets, NEW r \in Parties, NEW u \in Parties, r # u
               PROVE  FlowPair(s, r, u)'
    BY DEF FlowInv
  <2> QED BY <1>2
<1>4. \A r \in Parties : PartyInv(r)'
  BY <1>1
<1> QED BY <1>3, <1>4 DEF TransferInv

(* Nothing is transferred between p and q.                                 *)
LEMMA QuietPair ==
  ASSUME TransferInv, UNCHANGED mainVars, NEW p \in Parties, NEW q \in Parties, q # p,
         Row(q)' = Row(q), NEW s \in Sockets,
         link'[s][p][q] = link[s][p][q], link'[s][q][p] = link[s][q][p],
         \A e \in Parts(s, p, q) : HasSent(p, q, e)' <=> HasSent(p, q, e),
         \A e \in Parts(s, q, p) : HasGot(p, q, e)' <=> HasGot(p, q, e)
  PROVE  FlowPair(s, p, q)' /\ FlowPair(s, q, p)'
<1>1. UNCHANGED Row(q) /\ PartyInv(q)
  BY DEF TransferInv
<1>2. \A r : \A e : /\ HasSent(q, r, e)' <=> HasSent(q, r, e)
                    /\ HasGot(q, r, e)' <=> HasGot(q, r, e)
  BY <1>1, PartyKept
<1>3. FlowPair(s, p, q) /\ FlowPair(s, q, p)
  BY DEF TransferInv, FlowInv
<1> QED BY <1>2, <1>3, FlowKept

(* One part of p's message goes to q.                                      *)
LEMMA SendsPart ==
  ASSUME TransferInv, UNCHANGED mainVars, NEW p \in Parties, NEW q \in Parties, q # p,
         NEW c, c = at[p], NEW n, n = sent[p][q], NEW k, k = Socket(c, p, q),
         Row(q)' = Row(q), at'[p] = c, Owing(p, q), n <= Size(p),
         link' = [link EXCEPT ![k][p][q] = Append(@, R!Unit(c, p, n, Size(p)))],
         \/ Owing(p, q)' /\ sent'[p][q] = n + 1
         \/ ~Owing(p, q)' /\ n = Size(p),
         \A e : HasGot(p, q, e)' <=> HasGot(p, q, e)
  PROVE  \A s \in Sockets : FlowPair(s, p, q)' /\ FlowPair(s, q, p)'
<1> DEFINE f == <<c, n>>
<1>1. /\ PlanInv /\ QueueInv /\ c # 0 /\ q \in Sends(p) /\ c \in Nat /\ n \in Nat
      /\ Size(p) \in Nat /\ Size(p) = prog[c].size[p]
  <2>1. SendPair(p, q) /\ QueueInv /\ PlanInv
    BY DEF TransferInv, PartyInv, QueueInv
  <2>2. at[p] # 0 /\ q \in Sends(p)
    BY <2>1, OwingFacts
  <2> QED BY <2>1, <2>2, AtFacts DEF SendPair
<1>2. f \in Parts(k, p, q) /\ k \in Sockets /\ f[1] = c /\ f[2] = n
  BY <1>1, PlacePart, SocketFacts
<1>3. ASSUME NEW e, NEW s, e \in Parts(s, p, q)
      PROVE  /\ HasSent(p, q, e) <=> e[1] < c \/ (e[1] = c /\ e[2] < n)
             /\ HasSent(p, q, e)' <=> e[1] < c \/ (e[1] = c /\ e[2] < n + 1)
             /\ e[1] \in Nat /\ e[2] \in Nat /\ e = <<e[1], e[2]>>
             /\ e[1] = c => s = k /\ e[2] <= Size(p)
  <2>1. /\ e[1] \in Nat /\ e[2] \in Nat /\ e = <<e[1], e[2]>>
        /\ e[1] = c => s = k /\ e[2] <= Size(p)
    BY <1>1, <1>3, PartFacts
  <2>2. HasSent(p, q, e) <=> e[1] < c \/ (e[1] = c /\ e[2] < n)
    BY DEF HasSent, Past
  <2>3. HasSent(p, q, e)' <=> e[1] < c \/ (e[1] = c /\ (Owing(p, q)' => e[2] < sent'[p][q]))
    BY DEF HasSent, Past
  <2>4. CASE Owing(p, q)' /\ sent'[p][q] = n + 1
    BY <2>1, <2>2, <2>3, <2>4
  <2>5. CASE ~Owing(p, q)' /\ n = Size(p)
    <3>1. e[1] = c => e[2] < n + 1
      BY <1>1, <2>1, <2>5
    <3> QED BY <2>1, <2>2, <2>3, <2>5, <3>1
  <2> QED BY <2>4, <2>5
<1>4. \A e : HasGot(q, p, e)' <=> HasGot(q, p, e)
  <2>1. UNCHANGED Row(q) /\ PartyInv(q)
    BY DEF TransferInv
  <2> QED BY <2>1, PartyKept
<1>5. \A s \in Sockets : FlowPair(s, p, q) /\ FlowPair(s, q, p)
  BY DEF TransferInv, FlowInv
<1>6. /\ link'[k][p][q] = Append(link[k][p][q], UnitAt(prog, p, f))
      /\ \A s \in Sockets : link'[s][q][p] = link[s][q][p] /\ (s # k => link'[s][p][q] = link[s][p][q])
  <2>1. UnitAt(prog, p, f) = R!Unit(c, p, n, Size(p))
    BY <1>1, <1>2 DEF UnitAt
  <2>2. DOMAIN link = Sockets /\ \A s \in Sockets : QueueShape(link[s])
    BY DEF TransferInv, Shapes
  <2> QED BY <1>2, <2>1, <2>2 DEF QueueShape
<1>7. FlowPair(k, p, q)'
  <2>1. ~HasSent(p, q, f)
    BY <1>1, <1>2, <1>3
  <2>2. \A e \in Parts(k, p, q) : HasSent(p, q, e) => Before(e, f)
    BY <1>1, <1>2, <1>3 DEF Before
  <2>3. ASSUME NEW e \in Parts(k, p, q)
        PROVE  HasSent(p, q, e)' <=> HasSent(p, q, e) \/ e = f
    <3>1. (e[1] = c /\ e[2] = n) <=> e = f
      BY <1>2, <1>3
    <3>2. e[1] \in Nat /\ e[2] \in Nat
      BY <1>3
    <3>3. HasSent(p, q, e)' <=> (e[1] < c \/ (e[1] = c /\ e[2] < n) \/ (e[1] = c /\ e[2] = n))
      BY <1>1, <1>3, <3>2
    <3> QED BY <1>3, <3>1, <3>3
  <2>4. \A e \in Parts(k, p, q) : /\ HasSent(p, q, e)' <=> HasSent(p, q, e) \/ e = f
                                  /\ HasGot(q, p, e)' <=> HasGot(q, p, e)
    BY <1>4, <2>3
  <2>5. FlowPair(k, p, q)
    BY <1>2, <1>5
  <2> HIDE DEF f
  <2> QED BY <1>2, <1>6, <2>1, <2>2, <2>4, <2>5, FlowSent
<1>8. ASSUME NEW s \in Sockets, s # k PROVE FlowPair(s, p, q)'
  <2>1. ASSUME NEW e \in Parts(s, p, q) PROVE HasSent(p, q, e)' <=> HasSent(p, q, e)
    BY <1>3, <1>8
  <2> QED BY <1>4, <1>5, <1>6, <1>8, <2>1, FlowKept
<1>9. ASSUME NEW s \in Sockets PROVE FlowPair(s, q, p)'
  <2>1. \A e : HasSent(q, p, e)' <=> HasSent(q, p, e)
    <3>1. UNCHANGED Row(q) /\ PartyInv(q)
      BY DEF TransferInv
    <3> QED BY <3>1, PartyKept
  <2>2. \A e \in Parts(s, q, p) : /\ HasSent(q, p, e)' <=> HasSent(q, p, e)
                                  /\ HasGot(p, q, e)' <=> HasGot(p, q, e)
    BY <2>1
  <2>3. FlowPair(s, q, p) /\ link'[s][q][p] = link[s][q][p]
    BY <1>5, <1>6
  <2> QED BY <2>2, <2>3, FlowKept
<1> QED BY <1>7, <1>8, <1>9

(* The next part that p expects of q's message is in front of the stream.  *)
LEMMA NextPart ==
  ASSUME TransferInv, NEW p \in Parties, NEW q \in Parties, Expecting(p, q),
         Len(got[p][q]) <= prog[at[p]].size[q]
  PROVE  LET f == <<at[p], Len(got[p][q])>>
             k == Socket(at[p], q, p)
         IN  /\ at[p] \in DOMAIN prog /\ at[p] \in Nat /\ Len(got[p][q]) \in Nat /\ q # p
             /\ prog[at[p]].size[q] \in Nat
             /\ k \in Sockets /\ f \in Parts(k, q, p)
             /\ ~HasGot(p, q, f)
             /\ \A e \in Parts(k, q, p) : HasGot(p, q, e) \/ e = f \/ Before(f, e)
             /\ \A e, d \in Parts(k, q, p) : HasSent(q, p, e) /\ Before(d, e) => HasSent(q, p, d)
             /\ link[k][q][p] # <<>> => Head(link[k][q][p]) = UnitAt(prog, q, f)
<1> DEFINE n == Len(got[p][q])
           f == <<at[p], n>>
           k == Socket(at[p], q, p)
<1>1. PlanInv /\ QueueInv /\ ReceivePair(p, q) /\ SendPair(q, p)
  BY DEF TransferInv, PartyInv, QueueInv
<1>2. at[p] # 0 /\ q \in Hears(p) /\ q # p
  BY <1>1, ExpectingFacts
<1>3. /\ at[p] \in DOMAIN prog /\ at[p] \in Nat /\ prog[at[p]].size[q] \in Nat
  BY <1>1, <1>2, AtFacts
<1>4. n \in Nat
  BY <1>1 DEF ReceivePair, IsPart
<1>5. f \in Parts(k, q, p) /\ k \in Sockets /\ f[1] = at[p] /\ f[2] = n
  BY <1>1, <1>2, <1>4, PlacePart, SocketFacts
<1>6. ASSUME NEW e \in Parts(k, q, p)
      PROVE  /\ HasGot(p, q, e) <=> e[1] < at[p] \/ (e[1] = at[p] /\ e[2] < n)
             /\ e[1] \in Nat /\ e[2] \in Nat /\ e = <<e[1], e[2]>>
  <2>1. e[1] \in Nat /\ e[2] \in Nat /\ e = <<e[1], e[2]>>
    BY <1>1, PartFacts
  <2>2. HasGot(p, q, e) <=> e[1] < at[p] \/ (e[1] = at[p] /\ e[2] < n)
    BY DEF HasGot, Past
  <2> QED BY <2>1, <2>2
<1>7. ~HasGot(p, q, f)
  BY <1>3, <1>4, <1>5, <1>6
<1>8. ASSUME NEW e \in Parts(k, q, p) PROVE HasGot(p, q, e) \/ e = f \/ Before(f, e)
  <2>1. (e[1] = at[p] /\ e[2] = n) => e = f
    BY <1>6
  <2>2. Before(f, e) <=> at[p] < e[1] \/ (at[p] = e[1] /\ n < e[2])
    BY <1>5 DEF Before
  <2>3. e[1] \in Nat /\ e[2] \in Nat
    BY <1>6
  <2> QED BY <1>3, <1>4, <1>6, <2>1, <2>2, <2>3
<1>9. \A e, d \in Parts(k, q, p) : HasSent(q, p, e) /\ Before(d, e) => HasSent(q, p, d)
  BY <1>1, SentBefore
<1>10. ASSUME link[k][q][p] # <<>> PROVE Head(link[k][q][p]) = UnitAt(prog, q, f)
  <2> DEFINE W == OnTheWay(k, q, p)
             L == link[k][q][p]
  <2>1. FlowPair(k, q, p)
    BY <1>2, <1>5 DEF TransferInv, FlowInv
  <2>2. W \in SUBSET Places /\ W \subseteq Parts(k, q, p) /\ Carries(L, W, prog, q)
    BY <2>1 DEF OnTheWay, Parts, FlowPair
  <2>3. PlaceOf(Head(L)) \in W
    BY <1>10, <2>2, CarriesHead
  <2>4. HasSent(q, p, f)
    BY <1>5, <1>8, <1>9, <2>2, <2>3 DEF OnTheWay
  <2>5. f \in W /\ \A e \in W : e = f \/ Before(f, e)
    BY <1>5, <1>7, <1>8, <2>2, <2>4 DEF OnTheWay
  <2> QED BY <1>10, <2>2, <2>5, CarriesLeast
<1> QED BY <1>2, <1>3, <1>4, <1>5, <1>7, <1>8, <1>9, <1>10

(* It is taken.                                                            *)
LEMMA GetsPart ==
  ASSUME TransferInv, UNCHANGED mainVars, NEW p \in Parties, NEW q \in Parties,
         NEW c, c = at[p], NEW n, n = Len(got[p][q]), NEW k, k = Socket(c, q, p),
         Row(q)' = Row(q), at'[p] = c, Expecting(p, q), n <= prog[c].size[q],
         link[k][q][p] # <<>>, link' = [link EXCEPT ![k][q][p] = Tail(@)],
         \/ Expecting(p, q)' /\ Len(got'[p][q]) = n + 1
         \/ ~Expecting(p, q)' /\ n = prog[c].size[q],
         \A e : HasSent(p, q, e)' <=> HasSent(p, q, e)
  PROVE  \A s \in Sockets : FlowPair(s, p, q)' /\ FlowPair(s, q, p)'
<1> DEFINE f == <<c, n>>
<1>1. /\ c \in DOMAIN prog /\ c \in Nat /\ n \in Nat /\ q # p
      /\ prog[c].size[q] \in Nat
      /\ k \in Sockets /\ f \in Parts(k, q, p)
      /\ ~HasGot(p, q, f)
      /\ \A e \in Parts(k, q, p) : HasGot(p, q, e) \/ e = f \/ Before(f, e)
      /\ \A e, d \in Parts(k, q, p) : HasSent(q, p, e) /\ Before(d, e) => HasSent(q, p, d)
  BY NextPart
<1>2. PlanInv
  BY DEF TransferInv, QueueInv
<1>3. ASSUME NEW e, NEW s, e \in Parts(s, q, p)
      PROVE  /\ HasGot(p, q, e) <=> e[1] < c \/ (e[1] = c /\ e[2] < n)
             /\ HasGot(p, q, e)' <=> e[1] < c \/ (e[1] = c /\ e[2] < n + 1)
             /\ e[1] \in Nat /\ e[2] \in Nat /\ e = <<e[1], e[2]>>
             /\ e[1] = c => s = k
  <2>1. /\ e[1] \in Nat /\ e[2] \in Nat /\ e = <<e[1], e[2]>>
        /\ e[1] = c => s = k /\ e[2] <= prog[c].size[q]
    BY <1>2, <1>3, PartFacts
  <2>2. HasGot(p, q, e) <=> e[1] < c \/ (e[1] = c /\ e[2] < n)
    BY DEF HasGot, Past
  <2>3. HasGot(p, q, e)' <=>
          e[1] < c \/ (e[1] = c /\ (Expecting(p, q)' => e[2] < Len(got'[p][q])))
    BY DEF HasGot, Past
  <2>4. CASE Expecting(p, q)' /\ Len(got'[p][q]) = n + 1
    BY <2>1, <2>2, <2>3, <2>4
  <2>5. CASE ~Expecting(p, q)' /\ n = prog[c].size[q]
    <3>1. e[1] = c => e[2] < n + 1
      BY <1>1, <2>1, <2>5
    <3> QED BY <2>1, <2>2, <2>3, <2>5, <3>1
  <2> QED BY <2>4, <2>5
<1>4. \A e : /\ HasGot(q, p, e)' <=> HasGot(q, p, e)
             /\ HasSent(q, p, e)' <=> HasSent(q, p, e)
  <2>1. UNCHANGED Row(q) /\ PartyInv(q)
    BY DEF TransferInv
  <2> QED BY <2>1, PartyKept
<1>5. \A s \in Sockets : FlowPair(s, p, q) /\ FlowPair(s, q, p)
  BY <1>1 DEF TransferInv, FlowInv
<1>6. /\ link'[k][q][p] = Tail(link[k][q][p])
      /\ \A s \in Sockets : link'[s][p][q] = link[s][p][q] /\ (s # k => link'[s][q][p] = link[s][q][p])
  <2>1. DOMAIN link = Sockets /\ \A s \in Sockets : QueueShape(link[s])
    BY DEF TransferInv, Shapes
  <2> QED BY <1>1, <2>1 DEF QueueShape
<1>7. FlowPair(k, q, p)'
  <2>1. ASSUME NEW e \in Parts(k, q, p)
        PROVE  HasGot(p, q, e)' <=> HasGot(p, q, e) \/ e = f
    <3>1. (e[1] = c /\ e[2] = n) <=> e = f
      BY <1>3
    <3>2. e[1] \in Nat /\ e[2] \in Nat
      BY <1>3
    <3>3. HasGot(p, q, e)' <=> (e[1] < c \/ (e[1] = c /\ e[2] < n) \/ (e[1] = c /\ e[2] = n))
      BY <1>1, <1>3, <3>2
    <3> QED BY <1>3, <3>1, <3>3
  <2>2. \A e \in Parts(k, q, p) : /\ HasSent(q, p, e)' <=> HasSent(q, p, e)
                                  /\ HasGot(p, q, e)' <=> HasGot(p, q, e) \/ e = f
    BY <1>4, <2>1
  <2>3. FlowPair(k, q, p)
    BY <1>1, <1>5
  <2> HIDE DEF f
  <2> QED BY <1>1, <1>6, <2>2, <2>3, FlowGot
<1>8. ASSUME NEW s \in Sockets, s # k PROVE FlowPair(s, q, p)'
  <2>1. ASSUME NEW e \in Parts(s, q, p) PROVE HasGot(p, q, e)' <=> HasGot(p, q, e)
    BY <1>3, <1>8
  <2> QED BY <1>4, <1>5, <1>6, <1>8, <2>1, FlowKept
<1>9. ASSUME NEW s \in Sockets PROVE FlowPair(s, p, q)'
  <2>1. \A e \in Parts(s, p, q) : /\ HasSent(p, q, e)' <=> HasSent(p, q, e)
                                  /\ HasGot(q, p, e)' <=> HasGot(q, p, e)
    BY <1>4
  <2>2. FlowPair(s, p, q) /\ link'[s][p][q] = link[s][p][q]
    BY <1>5, <1>6
  <2> QED BY <2>1, <2>2, FlowKept
<1> QED BY <1>7, <1>8, <1>9

---------------------------------------------------------------------------
(* The parts of TransferInv.                                               *)
LEMMA TransferFacts ==
  ASSUME TransferInv
  PROVE  /\ PlanInv /\ QueueInv /\ Shapes
         /\ \A p \in Parties : OpenParty(p) /\ PlaceParty(p)
         /\ \A p, q \in Parties : SendPair(p, q) /\ ReceivePair(p, q) /\ HeardPair(p, q)
BY DEF TransferInv, QueueInv, PartyInv

LEMMA ProceedFacts ==
  ASSUME PlanInv, NEW p \in Parties, Proceed(p)
  PROVE  /\ todo'[p] = todo[p] \ {NextStep(p)}
         /\ \A r \in Parties : r # p => todo'[r] = todo[r]
BY DEF Proceed, PlanInv

(* The steps of an operation with Exchangers.                              *)
LEMMA PlanRounds ==
  ASSUME NEW o, Call(o), NEW p \in Parties, NEW q \in Parties, q # p
  PROVE  /\ (\E s \in Plan(o, p) : RoundTo(s, q)) <=> ~Threaded(o) /\ q \in R!Sends(o, p)
         /\ (\E s \in Plan(o, p) : RoundFrom(s, q)) <=> ~Threaded(o) /\ q \in R!Hears(o, p)
<1>1. CASE Threaded(o)
  BY <1>1, WaitsFacts DEF Plan, WaitStep, RoundTo, RoundFrom
<1>2. CASE ~Threaded(o)
  <2>1. Plan(o, p) = RoundsPlan(o, p)
    BY <1>2 DEF Plan
  <2>2. ASSUME NEW s \in RoundsPlan(o, p), NEW x \in s.xs
        PROVE  /\ x[1] = q => q \in R!Sends(o, p)
               /\ x[2] = q => q \in R!Hears(o, p)
    BY RoundsPeers
  <2> QED BY <1>2, <2>1, <2>2, RoundsPeers DEF RoundTo, RoundFrom
<1> QED BY <1>1, <1>2

(* The step of an operation with Exchangers that is next.                  *)
LEMMA StepFacts ==
  ASSUME PlanInv, NEW p \in Parties, NEW do \in {"open", "rounds"}, Doing(p, do)
  PROVE  /\ NextStep(p) \in todo[p] /\ NextStep(p).do = do
         /\ at[p] # 0 /\ Call(Op(p)) /\ ~Threaded(Op(p))
         /\ todo[p] \subseteq RoundsPlan(Op(p), p)
         /\ \A r \in todo[p] : r.nr \in Nat /\ NextStep(p).nr <= r.nr
<1>1. todo[p] # {} /\ NextStep(p).do = do
  BY DEF Doing
<1>2. /\ at[p] # 0 /\ NextStep(p) \in todo[p] /\ NextStep(p) \in Plan(Op(p), p)
      /\ \A r \in todo[p] : NextStep(p).nr <= r.nr
  BY <1>1, NextFacts
<1>3. Call(Op(p))
  BY <1>2, OpFacts
<1>4. ~Threaded(Op(p))
  BY <1>1, <1>2, <1>3, WaitsFacts DEF Plan, WaitStep
<1>5. todo[p] \subseteq RoundsPlan(Op(p), p)
  BY <1>2, <1>4 DEF Plan, PlanInv
<1> QED BY <1>1, <1>2, <1>3, <1>4, <1>5, RoundsFacts

(* When an Exchanger's rounds have come, it has been constructed.          *)
LEMMA NoneToOpen ==
  ASSUME TransferInv, NEW p \in Parties, Doing(p, "rounds"),
         NEW t \in todo[p], t.do = "open", NEW y \in t.xs
  PROVE  /\ y[1] # p /\ ~RoundTo(NextStep(p), y[1])
         /\ \E r \in todo[p] : r # NextStep(p) /\ r.do = "rounds" /\ t.nr < r.nr /\ t.xs \subseteq r.xs
<1> DEFINE s == NextStep(p)
<1>1. /\ s \in todo[p] /\ s.do = "rounds" /\ Call(Op(p))
      /\ todo[p] \subseteq RoundsPlan(Op(p), p)
      /\ \A r \in todo[p] : r.nr \in Nat /\ s.nr <= r.nr
  BY TransferFacts, StepFacts
<1>2. PICK r \in todo[p] : r.do = "rounds" /\ t.nr < r.nr /\ t.xs \subseteq r.xs
  BY TransferFacts DEF OpenParty
<1>3. r # s
  <2>1. s.nr <= t.nr /\ s.nr \in Nat /\ t.nr \in Nat /\ r.nr \in Nat
    BY <1>1
  <2> HIDE DEF s
  <2> QED BY <1>2, <2>1
<1>4. y[1] \in Parties /\ y[1] # p
  <2>1. y[1] # p
    BY <1>1, OpenFacts
  <2> QED BY <1>1, <2>1, RoundsPeers, PeerFacts
<1>5. RoundTo(r, y[1])
  BY <1>2 DEF RoundTo
<1>6. ~RoundTo(s, y[1])
  BY <1>1, <1>3, <1>4, <1>5, RoundsOnce
<1> QED BY <1>2, <1>3, <1>4, <1>6

(* Nothing has been sent at first.                                         *)
LEMMA TransferInit == Init => TransferInv
<1> SUFFICES ASSUME Init PROVE TransferInv
  OBVIOUS
<1>1. QueueInv
  BY QueueInit
<1>2. Shapes
  BY DEF Init, Shapes, QueueShape, Nothing, Sockets
<1>3. \A p \in Parties :
        /\ at[p] = 0 /\ todo[p] = {} /\ ~moved[p]
        /\ \A q \in Parties : /\ sent[p][q] = 0 /\ got[p][q] = <<>>
                              /\ heard[p][q] = <<>> /\ rout[p][q] = <<>>
  BY DEF Init, Nothing
<1>4. ASSUME NEW p \in Parties, NEW q \in Parties
      PROVE  ~Owing(p, q) /\ ~Expecting(p, q) /\ ~Missing(p, q)
  BY <1>1, <1>3, IdleFacts
<1>5. ASSUME NEW p \in Parties, NEW q \in Parties
      PROVE  SendPair(p, q) /\ ReceivePair(p, q) /\ HeardPair(p, q)
  <2>1. /\ at[p] = 0 /\ sent[p][q] = 0 /\ got[p][q] = <<>> /\ heard[p][q] = <<>>
        /\ rout[p][q] = <<>> /\ ~Owing(p, q) /\ ~Expecting(p, q)
    BY <1>3, <1>4
  <2> QED BY <2>1 DEF SendPair, ReceivePair, HeardPair
<1>6. ASSUME NEW p \in Parties PROVE PartyInv(p)
  BY <1>3, <1>5 DEF PartyInv, OpenParty, PlaceParty
<1>7. ASSUME NEW s \in Sockets, NEW p \in Parties, NEW q \in Parties, p # q
      PROVE  FlowPair(s, p, q)
  <2>1. ASSUME NEW e \in Parts(s, p, q)
        PROVE  ~HasGot(q, p, e) /\ ~HasSent(p, q, e)
    <3>1. e[1] \in Nat /\ e[1] # 0
      <4>1. PlanInv /\ e[1] \in DOMAIN prog
        BY <1>1, PartFacts DEF QueueInv
      <4> QED BY <4>1, ProgFacts
    <3>2. at[p] = 0 /\ at[q] = 0
      BY <1>3
    <3> QED BY <3>1, <3>2 DEF HasGot, HasSent, Past
  <2>2. OnTheWay(s, p, q) = {}
    BY <2>1 DEF OnTheWay
  <2>3. link[s][p][q] = <<>>
    BY DEF Init, Nothing, Sockets
  <2>4. Carries(<<>>, {}, prog, p)
    BY DEF Carries
  <2> QED BY <2>1, <2>2, <2>3, <2>4 DEF FlowPair
<1> QED BY <1>1, <1>2, <1>6, <1>7 DEF TransferInv, FlowInv

(* A new operation: nothing of its messages has been sent or received.     *)
LEMMA BeginTransfer ==
  ASSUME TransferInv, NEW p \in Parties, Begin(p)
  PROVE  TransferInv'
<1>1. PlanInv /\ QueueInv /\ QueueInv' /\ Shapes
  BY TransferFacts, BeginQueues
<1> PICK k : k = at[p] + 1
  OBVIOUS
<1>2. /\ k \in DOMAIN prog /\ k \in Nat /\ k # 0 /\ at[p] \in Nat /\ Call(prog[k])
      /\ at'[p] = k /\ todo'[p] = Plan(prog[k], p) /\ todo[p] = {}
      /\ \A q \in Parties : q # p => todo'[q] = todo[q] /\ at'[q] = at[q]
  BY <1>1, BeginPlan, AtFacts, ProgFacts DEF Begin
<1>3. /\ UNCHANGED mainVars /\ link' = link /\ sent' = sent /\ got' = got /\ rout' = rout
      /\ prog' = prog /\ tls' = tls
      /\ heard' = [heard EXCEPT ![p] = Nothing] /\ moved' = [moved EXCEPT ![p] = FALSE]
      /\ sreq' = IF Threaded(prog[k]) THEN [sreq EXCEPT ![p] = Push(@, R!Sends(prog[k], p), k)]
                                     ELSE sreq
      /\ rreq' = IF Threaded(prog[k]) THEN [rreq EXCEPT ![p] = Push(@, R!Hears(prog[k], p), k)]
                                     ELSE rreq
  BY DEF Begin, mainVars
<1>4. /\ QueueShape(sreq) /\ QueueShape(rreq) /\ QueueShape(heard) /\ DOMAIN moved = Parties
  BY <1>1 DEF QueueInv, Shapes
<1>5. Shapes'
  BY <1>1, <1>3 DEF Shapes, QueueShape, Nothing
<1>6. ASSUME NEW r \in Parties, r # p PROVE Row(r)' = Row(r)
  <2>1. heard'[r] = heard[r] /\ moved'[r] = moved[r] /\ sreq'[r] = sreq[r] /\ rreq'[r] = rreq[r]
    BY <1>3, <1>4, <1>6 DEF QueueShape
  <2> QED BY <1>2, <1>3, <1>6, <2>1 DEF Row
<1>7. ASSUME NEW q \in Parties
      PROVE  /\ ~Owing(p, q) /\ ~Expecting(p, q) /\ sent[p][q] = 0 /\ got[p][q] = <<>>
             /\ rout[p][q] = <<>> /\ sreq[p][q] = <<>> /\ rreq[p][q] = <<>>
  <2>1. /\ ~Owing(p, q) /\ ~Expecting(p, q)
        /\ rout[p][q] = <<>> /\ sreq[p][q] = <<>> /\ rreq[p][q] = <<>>
    BY <1>1, <1>2, IdleFacts
  <2> QED BY <2>1, TransferFacts DEF SendPair, ReceivePair
<1>8. Op(p)' = prog[k]
  BY <1>2, <1>3 DEF Op
<1>9. ASSUME NEW q \in Parties
      PROVE  /\ Owing(p, q)' <=> q \in R!Sends(prog[k], p)
             /\ Expecting(p, q)' <=> q \in R!Hears(prog[k], p)
             /\ Missing(p, q)' <=> q \in R!Hears(prog[k], p)
  <2>1. CASE q = p
    BY <1>2, <2>1, PeerFacts DEF Owing, Expecting, Missing
  <2>2. CASE q # p
    <3>1. /\ sreq'[p][q] # <<>> <=> Threaded(prog[k]) /\ q \in R!Sends(prog[k], p)
          /\ rreq'[p][q] # <<>> <=> Threaded(prog[k]) /\ q \in R!Hears(prog[k], p)
      <4>1. Append(<<>>, k) # <<>>
        OBVIOUS
      <4>2. sreq'[p][q] # <<>> <=> Threaded(prog[k]) /\ q \in R!Sends(prog[k], p)
        BY <1>3, <1>4, <1>7, <4>1 DEF Push, QueueShape
      <4>3. rreq'[p][q] # <<>> <=> Threaded(prog[k]) /\ q \in R!Hears(prog[k], p)
        BY <1>3, <1>4, <1>7, <4>1 DEF Push, QueueShape
      <4> QED BY <4>2, <4>3
    <3>2. Awaiting(todo'[p], p, q) <=> Threaded(prog[k]) /\ q \in R!Hears(prog[k], p)
      BY <1>2, PlanAsks
    <3>3. /\ (\E s \in todo'[p] : RoundTo(s, q)) <=> ~Threaded(prog[k]) /\ q \in R!Sends(prog[k], p)
          /\ (\E s \in todo'[p] : RoundFrom(s, q)) <=> ~Threaded(prog[k]) /\ q \in R!Hears(prog[k], p)
      BY <1>2, <2>2, PlanRounds
    <3>4. /\ Owing(p, q)' <=> (sreq'[p][q] # <<>> \/ \E s \in todo'[p] : RoundTo(s, q))
          /\ Expecting(p, q)' <=> (rreq'[p][q] # <<>> \/ \E s \in todo'[p] : RoundFrom(s, q))
          /\ Missing(p, q)' <=> (Awaiting(todo'[p], p, q) \/ \E s \in todo'[p] : RoundFrom(s, q))
      BY <2>2 DEF Owing, Expecting, Missing
    <3> QED BY <3>1, <3>2, <3>3, <3>4
  <2> QED BY <2>1, <2>2
<1>10. ASSUME NEW q \in Parties
       PROVE  SendPair(p, q)' /\ ReceivePair(p, q)' /\ HeardPair(p, q)'
  <2>1. sent'[p][q] = 0 /\ got'[p][q] = <<>> /\ heard'[p][q] = <<>> /\ rout'[p][q] = <<>>
    BY <1>3, <1>4, <1>7 DEF QueueShape, Nothing
  <2>2. Size(p)' = prog[k].size[p] /\ prog[k].size[p] \in Nat /\ prog[k].size[q] \in Nat
    BY <1>1, <1>2, <1>8, ProgFacts DEF Size
  <2>3. SendPair(p, q)'
    BY <2>1, <2>2 DEF SendPair
  <2>4. IsPart(<<>>, k, q)'
    BY <1>3, <2>2 DEF IsPart
  <2>5. ReceivePair(p, q)'
    BY <1>2, <1>3, <2>1, <2>2, <2>4 DEF ReceivePair
  <2>6. Hears(p)' = R!Hears(prog[k], p)
    BY <1>8 DEF Hears, R!Hears
  <2>7. HeardPair(p, q)'
    BY <1>9, <2>1, <2>6 DEF HeardPair
  <2> QED BY <2>3, <2>5, <2>7
<1>11. OpenParty(p)'
  <2> SUFFICES ASSUME NEW s \in todo'[p], s.do = "open"
               PROVE  /\ \A x \in s.xs : sent'[p][x[1]] = 0
                      /\ \E r \in todo'[p] : r.do = "rounds" /\ s.nr < r.nr /\ s.xs \subseteq r.xs
    BY DEF OpenParty
  <2>1. ~Threaded(prog[k]) /\ s \in RoundsPlan(prog[k], p)
    BY <1>2, WaitsFacts DEF Plan, WaitStep
  <2>2. todo'[p] = RoundsPlan(prog[k], p)
    BY <1>2, <2>1 DEF Plan
  <2>3. \A x \in s.xs : x[1] \in Parties
    BY <1>2, <2>1, RoundsPeers, PeerFacts
  <2> QED BY <1>3, <1>7, <2>1, <2>2, <2>3, OpenFacts
<1>12. PlaceParty(p)'
  <2>1. ~moved'[p]
    BY <1>3, <1>4
  <2>2. ASSUME InPlace(p)', NEW r \in todo'[p], r.do = "rounds", NEW x \in r.xs, x[1] # p
        PROVE  /\ Len(got'[p][x[2]]) <= sent'[p][x[1]]
               /\ \E s \in todo'[p] : s.do = "open"
    <3>1. prog[k].kind = "inplace" /\ ~Threaded(prog[k])
      BY <1>8, <2>2 DEF InPlace, Threaded
    <3>2. todo'[p] = RoundsPlan(prog[k], p)
      BY <1>2, <3>1 DEF Plan
    <3>3. x[1] \in Parties /\ x[2] \in Parties
      BY <1>2, <2>2, <3>2, RoundsPeers, PeerFacts
    <3>4. Len(got'[p][x[2]]) <= sent'[p][x[1]]
      BY <1>3, <1>7, <3>3
    <3>5. 1 \in 1 .. Stages(prog[k]) /\ x = Exchanger(prog[k], p, 1)
      BY <2>2, <3>1, <3>2, InPlaceFacts DEF Stages
    <3>6. OpenStep(Step(2 * 1 - 1, "open", {Exchanger(prog[k], p, 1)}), prog[k], p)
      BY <2>2, <3>5 DEF OpenStep
    <3>7. Step(2 * 1 - 1, "open", {Exchanger(prog[k], p, 1)}) \in todo'[p]
      BY <3>2, <3>6, RoundsMembers
    <3> QED BY <3>4, <3>7 DEF Step
  <2> QED BY <2>1, <2>2 DEF PlaceParty
<1>13. PartyInv(p)'
  BY <1>10, <1>11, <1>12 DEF PartyInv
<1>14. ASSUME NEW s \in Sockets, NEW q \in Parties, q # p
       PROVE  FlowPair(s, p, q)' /\ FlowPair(s, q, p)'
  <2>1. ASSUME NEW e \in Parts(s, p, q) PROVE HasSent(p, q, e)' <=> HasSent(p, q, e)
    <3>1. e[1] \in Nat /\ e[2] \in Nat /\ q \in R!Sends(prog[e[1]], p)
      BY <1>1, PartFacts
    <3>2. HasSent(p, q, e) <=> e[1] <= at[p]
      BY <1>2, <1>7, <3>1 DEF HasSent, Past
    <3>3. HasSent(p, q, e)' <=> e[1] < k \/ (e[1] = k /\ (Owing(p, q)' => e[2] < 0))
      BY <1>2, <1>3, <1>7 DEF HasSent, Past
    <3>4. e[1] = k => Owing(p, q)'
      BY <1>9, <3>1
    <3> QED BY <1>2, <3>1, <3>2, <3>3, <3>4
  <2>2. ASSUME NEW e \in Parts(s, q, p) PROVE HasGot(p, q, e)' <=> HasGot(p, q, e)
    <3>1. e[1] \in Nat /\ e[2] \in Nat /\ q \in R!Hears(prog[e[1]], p)
      BY <1>1, PartFacts DEF R!Hears, R!Sends
    <3>2. HasGot(p, q, e) <=> e[1] <= at[p]
      BY <1>2, <1>7, <3>1 DEF HasGot, Past
    <3>3. HasGot(p, q, e)' <=> e[1] < k \/ (e[1] = k /\ (Expecting(p, q)' => e[2] < Len(<<>>)))
      BY <1>2, <1>3, <1>7 DEF HasGot, Past
    <3>4. e[1] = k => Expecting(p, q)'
      BY <1>9, <3>1
    <3>5. Len(<<>>) = 0
      OBVIOUS
    <3> QED BY <1>2, <3>1, <3>2, <3>3, <3>4, <3>5
  <2> QED BY <1>3, <1>6, <1>14, <2>1, <2>2, QuietPair
<1> QED BY <1>1, <1>3, <1>5, <1>6, <1>13, <1>14, Combine

---------------------------------------------------------------------------
(* The steps that matter to a transfer are the same.                       *)
LEMMA StepsKept ==
  ASSUME NEW p, NEW q, \A s : s.do \in {"rounds", "received"} => (s \in todo'[p] <=> s \in todo[p])
  PROVE  /\ sreq'[p][q] = sreq[p][q] => (Owing(p, q)' <=> Owing(p, q))
         /\ rreq'[p][q] = rreq[p][q] => (Expecting(p, q)' <=> Expecting(p, q))
         /\ Missing(p, q)' <=> Missing(p, q)
<1>1. (\E s \in todo'[p] : RoundTo(s, q)) <=> (\E s \in todo[p] : RoundTo(s, q))
  BY DEF RoundTo
<1>2. (\E s \in todo'[p] : RoundFrom(s, q)) <=> (\E s \in todo[p] : RoundFrom(s, q))
  BY DEF RoundFrom
<1>3. Awaiting(todo'[p], p, q) <=> Awaiting(todo[p], p, q)
  BY DEF Awaiting, ReceivedStep
<1>4. sreq'[p][q] = sreq[p][q] => (Owing(p, q)' <=> Owing(p, q))
  BY <1>1 DEF Owing
<1>5. rreq'[p][q] = rreq[p][q] => (Expecting(p, q)' <=> Expecting(p, q))
  BY <1>2 DEF Expecting
<1>6. Missing(p, q)' <=> Missing(p, q)
  BY <1>2, <1>3 DEF Missing
<1> QED BY <1>4, <1>5, <1>6

(* p sends a part to q.                                                    *)
LEMMA SendCombine ==
  ASSUME TransferInv, UNCHANGED <<mainVars, got, heard, rreq, rout>>, QueueInv', Shapes',
         NEW p \in Parties, NEW q \in Parties, q # p,
         NEW c, c = at[p], NEW n, n = sent[p][q], NEW k, k = Socket(c, p, q),
         \A r \in Parties : r # p => Row(r)' = Row(r),
         at'[p] = c,
         \A u \in Parties : u # q => sent'[p][u] = sent[p][u] /\ sreq'[p][u] = sreq[p][u],
         \A s : s.do \in {"rounds", "received"} => (s \in todo'[p] <=> s \in todo[p]),
         Owing(p, q), n <= Size(p),
         link' = [link EXCEPT ![k][p][q] = Append(@, R!Unit(c, p, n, Size(p)))],
         \/ Owing(p, q)' /\ sent'[p][q] = n + 1
         \/ ~Owing(p, q)' /\ n = Size(p),
         SendPair(p, q)', OpenParty(p)', PlaceParty(p)'
  PROVE  TransferInv'
<1>1. UNCHANGED mainVars /\ got' = got /\ heard' = heard /\ rreq' = rreq /\ rout' = rout
  OBVIOUS
<1>2. ASSUME NEW u \in Parties
      PROVE  /\ ReceivePair(p, u)' /\ HeardPair(p, u)'
             /\ \A e : HasGot(p, u, e)' <=> HasGot(p, u, e)
  <2>1. (Expecting(p, u)' <=> Expecting(p, u)) /\ (Missing(p, u)' <=> Missing(p, u))
    BY <1>1, StepsKept
  <2>2. ReceivePair(p, u) /\ HeardPair(p, u)
    BY TransferFacts
  <2> QED BY <1>1, <2>1, <2>2, GotKept, HeardKept
<1>3. ASSUME NEW u \in Parties, u # q
      PROVE  SendPair(p, u)' /\ \A e : HasSent(p, u, e)' <=> HasSent(p, u, e)
  <2>1. Owing(p, u)' <=> Owing(p, u)
    BY <1>3, StepsKept
  <2>2. SendPair(p, u)
    BY TransferFacts
  <2> QED BY <1>1, <1>3, <2>1, <2>2, SendKept
<1>4. PartyInv(p)'
  BY <1>2, <1>3 DEF PartyInv
<1>5. DOMAIN link = Sockets /\ \A s \in Sockets : QueueShape(link[s])
  BY DEF TransferInv, Shapes
<1>6. k \in Sockets
  BY SocketFacts
<1>7. \A s \in Sockets : \A r, u \in Parties :
        r # p \/ u # q => link'[s][r][u] = link[s][r][u]
  BY <1>5, <1>6 DEF QueueShape
<1>8. \A s \in Sockets : FlowPair(s, p, q)' /\ FlowPair(s, q, p)'
  <2>1. Row(q)' = Row(q) /\ \A e : HasGot(p, q, e)' <=> HasGot(p, q, e)
    BY <1>2
  <2> QED BY <1>1, <2>1, SendsPart
<1>9. ASSUME NEW s \in Sockets, NEW u \in Parties, u # p
      PROVE  FlowPair(s, p, u)' /\ FlowPair(s, u, p)'
  <2>1. CASE u = q
    BY <1>8, <2>1
  <2>2. CASE u # q
    <3>1. /\ \A e \in Parts(s, p, u) : HasSent(p, u, e)' <=> HasSent(p, u, e)
          /\ \A e \in Parts(s, u, p) : HasGot(p, u, e)' <=> HasGot(p, u, e)
      BY <1>2, <1>3, <2>2
    <3>2. Row(u)' = Row(u) /\ link'[s][p][u] = link[s][p][u] /\ link'[s][u][p] = link[s][u][p]
      BY <1>7, <1>9, <2>2
    <3> QED BY <1>1, <1>9, <3>1, <3>2, QuietPair
  <2> QED BY <2>1, <2>2
<1> QED BY <1>1, <1>4, <1>7, <1>9, Combine

(* p receives a part from q.                                               *)
LEMMA GetCombine ==
  ASSUME TransferInv, UNCHANGED <<mainVars, sent, sreq, heard>>, QueueInv', Shapes',
         NEW p \in Parties, NEW q \in Parties, q # p,
         NEW c, c = at[p], NEW n, n = Len(got[p][q]), NEW k, k = Socket(c, q, p),
         \A r \in Parties : r # p => Row(r)' = Row(r),
         at'[p] = c, todo'[p] = todo[p],
         \A u \in Parties : u # q => /\ got'[p][u] = got[p][u] /\ rreq'[p][u] = rreq[p][u]
                                     /\ rout'[p][u] = rout[p][u],
         Expecting(p, q), n <= prog[c].size[q],
         link[k][q][p] # <<>>, link' = [link EXCEPT ![k][q][p] = Tail(@)],
         \/ Expecting(p, q)' /\ Len(got'[p][q]) = n + 1
         \/ ~Expecting(p, q)' /\ n = prog[c].size[q],
         ReceivePair(p, q)', HeardPair(p, q)', PlaceParty(p)'
  PROVE  TransferInv'
<1>1. UNCHANGED mainVars /\ sent' = sent /\ sreq' = sreq /\ heard' = heard
  OBVIOUS
<1>2. ASSUME NEW u \in Parties
      PROVE  SendPair(p, u)' /\ \A e : HasSent(p, u, e)' <=> HasSent(p, u, e)
  <2>1. Owing(p, u)' <=> Owing(p, u)
    BY <1>1, StepsKept
  <2>2. SendPair(p, u)
    BY TransferFacts
  <2> QED BY <1>1, <2>1, <2>2, SendKept
<1>3. ASSUME NEW u \in Parties, u # q
      PROVE  /\ ReceivePair(p, u)' /\ HeardPair(p, u)'
             /\ \A e : HasGot(p, u, e)' <=> HasGot(p, u, e)
  <2>1. (Expecting(p, u)' <=> Expecting(p, u)) /\ (Missing(p, u)' <=> Missing(p, u))
    BY <1>3, StepsKept
  <2>2. ReceivePair(p, u) /\ HeardPair(p, u)
    BY TransferFacts
  <2>3. got'[p][u] = got[p][u] /\ rout'[p][u] = rout[p][u] /\ heard'[p][u] = heard[p][u]
    BY <1>1, <1>3
  <2> QED BY <1>1, <2>1, <2>2, <2>3, GotKept, HeardKept
<1>4. PartyInv(p)'
  <2>1. OpenParty(p)'
    <3>1. OpenParty(p)
      BY TransferFacts
    <3> QED BY <1>1, <3>1 DEF OpenParty
  <2> QED BY <1>2, <1>3, <2>1 DEF PartyInv
<1>5. DOMAIN link = Sockets /\ \A s \in Sockets : QueueShape(link[s])
  BY DEF TransferInv, Shapes
<1>6. k \in Sockets
  BY SocketFacts
<1>7. \A s \in Sockets : \A r, u \in Parties :
        r # q \/ u # p => link'[s][r][u] = link[s][r][u]
  BY <1>5, <1>6 DEF QueueShape
<1>8. \A s \in Sockets : FlowPair(s, p, q)' /\ FlowPair(s, q, p)'
  <2>1. Row(q)' = Row(q) /\ \A e : HasSent(p, q, e)' <=> HasSent(p, q, e)
    BY <1>2
  <2> QED BY <1>1, <2>1, GetsPart
<1>9. ASSUME NEW s \in Sockets, NEW u \in Parties, u # p
      PROVE  FlowPair(s, p, u)' /\ FlowPair(s, u, p)'
  <2>1. CASE u = q
    BY <1>8, <2>1
  <2>2. CASE u # q
    <3>1. /\ \A e \in Parts(s, p, u) : HasSent(p, u, e)' <=> HasSent(p, u, e)
          /\ \A e \in Parts(s, u, p) : HasGot(p, u, e)' <=> HasGot(p, u, e)
      BY <1>2, <1>3, <2>2
    <3>2. Row(u)' = Row(u) /\ link'[s][p][u] = link[s][p][u] /\ link'[s][u][p] = link[s][u][p]
      BY <1>7, <1>9, <2>2
    <3> QED BY <1>1, <1>9, <3>1, <3>2, QuietPair
  <2> QED BY <2>1, <2>2
<1> QED BY <1>1, <1>4, <1>7, <1>9, Combine

(* Nothing is on its way.                                                  *)
LEMMA QuietCombine ==
  ASSUME TransferInv, UNCHANGED mainVars, link' = link, QueueInv', Shapes', NEW p \in Parties,
         \A r \in Parties : r # p => Row(r)' = Row(r),
         PartyInv(p)',
         \A s \in Sockets, u \in Parties : \A e \in Parts(s, p, u) :
           HasSent(p, u, e)' <=> HasSent(p, u, e),
         \A s \in Sockets, u \in Parties : \A e \in Parts(s, u, p) :
           HasGot(p, u, e)' <=> HasGot(p, u, e)
  PROVE  TransferInv'
<1>1. ASSUME NEW s \in Sockets, NEW u \in Parties, u # p
      PROVE  FlowPair(s, p, u)' /\ FlowPair(s, u, p)'
  BY <1>1, QuietPair
<1> QED BY <1>1, Combine

---------------------------------------------------------------------------
(* The length of a message.                                                *)
LEMMA OpenTransfer ==
  ASSUME TransferInv, NEW p \in Parties, Open(p)
  PROVE  TransferInv'
<1>1. /\ PlanInv /\ QueueInv /\ Shapes /\ Doing(p, "open") /\ Proceed(p)
      /\ UNCHANGED <<mainVars, at, got, heard, queueVars, xVars>>
  BY TransferFacts DEF Open
<1>2. QueueInv'
  BY <1>1, OtherQueues DEF Doing
<1> PICK s : s = NextStep(p)
  OBVIOUS
<1>3. /\ s \in todo[p] /\ s.do = "open" /\ at[p] # 0 /\ Call(Op(p))
      /\ todo[p] \subseteq RoundsPlan(Op(p), p)
  BY <1>1, StepFacts
<1>4. PICK x : s.xs = {x} /\ x[1] # p
  BY <1>3, OpenFacts
<1> PICK q : q = x[1]
  OBVIOUS
<1>5. q \in Parties /\ q # p
  BY <1>3, <1>4, RoundsPeers, PeerFacts
<1> PICK c, n, k : c = at[p] /\ n = sent[p][q] /\ k = Socket(c, p, q)
  OBVIOUS
<1>6. /\ n = 0
      /\ \E r \in todo[p] : r.do = "rounds" /\ s.nr < r.nr /\ s.xs \subseteq r.xs
  BY <1>3, <1>4, TransferFacts DEF OpenParty
<1>7. Owing(p, q)
  BY <1>4, <1>5, <1>6 DEF Owing, RoundTo
<1>8. /\ link' = [link EXCEPT ![k][p][q] = Append(@, R!Unit(c, p, n, Size(p)))]
      /\ sent' = [sent EXCEPT ![p][q] = 1]
  BY <1>4, <1>6 DEF Open, Put
<1>9. /\ todo'[p] = todo[p] \ {s}
      /\ \A r \in Parties : r # p => todo'[r] = todo[r]
  BY <1>1, ProceedFacts
<1>10. /\ QueueShape(sent) /\ DOMAIN link = Sockets /\ \A t \in Sockets : QueueShape(link[t])
  BY <1>1 DEF Shapes
<1>11. Shapes'
  <2>1. k \in Sockets
    BY SocketFacts
  <2>2. QueueShape(sent)'
    BY <1>8, <1>10 DEF QueueShape
  <2>3. DOMAIN link' = Sockets /\ \A t \in Sockets : QueueShape(link'[t])
    BY <1>8, <1>10, <2>1 DEF QueueShape
  <2> QED BY <1>1, <2>2, <2>3 DEF Shapes, xVars, QueueShape
<1>12. /\ sent'[p][q] = 1
       /\ \A u \in Parties : u # q => sent'[p][u] = sent[p][u]
       /\ \A r \in Parties : r # p => sent'[r] = sent[r]
  BY <1>5, <1>8, <1>10 DEF QueueShape
<1>13. ASSUME NEW r \in Parties, r # p PROVE Row(r)' = Row(r)
  BY <1>1, <1>9, <1>12, <1>13 DEF Row, queueVars, xVars
<1>14. at'[p] = c /\ UNCHANGED <<mainVars, got, heard, rreq, rout>> /\ sreq' = sreq /\ moved' = moved
  BY <1>1 DEF queueVars, xVars
<1>15. \A t : t.do \in {"rounds", "received"} => (t \in todo'[p] <=> t \in todo[p])
  BY <1>3, <1>9
<1>16. Owing(p, q)' <=> Owing(p, q)
  BY <1>14, <1>15, StepsKept
<1>17. Size(p) \in Nat
  BY <1>1, <1>3, AtFacts
<1>18. Op(p)' = Op(p) /\ Size(p)' = Size(p) /\ (Threaded(Op(p))' <=> Threaded(Op(p)))
  BY <1>14 DEF Op, Size, Threaded, mainVars
<1>19. SendPair(p, q)'
  <2>1. ~Threaded(Op(p))
    BY <1>1, StepFacts
  <2> QED BY <1>7, <1>12, <1>16, <1>17, <1>18, <2>1 DEF SendPair
<1>20. OpenParty(p)'
  <2> SUFFICES ASSUME NEW t \in todo'[p], t.do = "open"
               PROVE  /\ \A y \in t.xs : sent'[p][y[1]] = 0
                      /\ \E r \in todo'[p] : r.do = "rounds" /\ t.nr < r.nr /\ t.xs \subseteq r.xs
    BY DEF OpenParty
  <2>1. /\ t \in todo[p] /\ t # s
        /\ \A y \in t.xs : sent[p][y[1]] = 0
        /\ \E r \in todo[p] : r.do = "rounds" /\ t.nr < r.nr /\ t.xs \subseteq r.xs
    BY <1>9, TransferFacts DEF OpenParty
  <2>2. ASSUME NEW y \in t.xs PROVE sent'[p][y[1]] = 0
    <3>1. y[1] # q
      BY <1>3, <1>4, <2>1, OpenOnce
    <3>2. y[1] \in Parties
      BY <1>3, <2>1, RoundsPeers, PeerFacts
    <3> QED BY <1>12, <2>1, <3>1, <3>2
  <2> QED BY <1>3, <1>9, <2>1, <2>2
<1>21. PlaceParty(p)'
  <2>1. PlaceParty(p) /\ ~moved'[p]
    BY <1>14, TransferFacts DEF PlaceParty
  <2>2. ASSUME InPlace(p)', NEW r \in todo'[p], r.do = "rounds", NEW y \in r.xs, y[1] # p
        PROVE  Len(got'[p][y[2]]) <= sent'[p][y[1]] /\ sent'[p][y[1]] # 0
    <3>1. InPlace(p) /\ Op(p).kind = "inplace"
      BY <1>18, <2>2 DEF InPlace
    <3>2. r \in todo[p]
      BY <1>9, <2>2
    <3>3. PICK z \in todo[p] : z.do = "rounds" /\ s.xs \subseteq z.xs
      BY <1>6
    <3>4. y = x
      BY <1>3, <1>4, <2>2, <3>1, <3>2, <3>3, InPlaceFacts
    <3>5. ~SentAll(p, y) /\ sent[p][y[1]] = 0
      <4>1. y[1] = q /\ q # p /\ sent[p][q] = 0
        BY <1>5, <1>6, <3>4
      <4>2. 0 # 1 + Size(p)
        BY <1>17
      <4> QED BY <4>1, <4>2 DEF SentAll
    <3>6. Len(got[p][y[2]]) <= 0
      BY <1>3, <2>1, <2>2, <3>1, <3>2, <3>5 DEF PlaceParty
    <3>7. y[2] \in Parties
      BY <1>3, <2>2, <3>2, RoundsPeers, PeerFacts
    <3>8. Len(got[p][y[2]]) \in Nat
      <4>1. ReceivePair(p, y[2])
        BY <3>7, TransferFacts
      <4> QED BY <4>1 DEF ReceivePair, IsPart
    <3>9. sent'[p][y[1]] = 1 /\ got' = got
      BY <1>12, <1>14, <3>4
    <3> QED BY <3>6, <3>8, <3>9
  <2> QED BY <2>1, <2>2 DEF PlaceParty
<1>22. /\ n <= Size(p)
       /\ \/ Owing(p, q)' /\ sent'[p][q] = n + 1
          \/ ~Owing(p, q)' /\ n = Size(p)
  BY <1>6, <1>7, <1>12, <1>16, <1>17
<1>23. UNCHANGED <<mainVars, got, heard, rreq, rout>> /\ at'[p] = c
       /\ \A u \in Parties : u # q => sent'[p][u] = sent[p][u] /\ sreq'[p][u] = sreq[p][u]
  BY <1>12, <1>14
<1>24. link' = [link EXCEPT ![k][p][q] = Append(@, R!Unit(c, p, n, Size(p)))]
  BY <1>8
<1> QED BY <1>2, <1>5, <1>7, <1>11, <1>13, <1>15, <1>19, <1>20, <1>21, <1>22, <1>23, <1>24,
           SendCombine

(* The rest of a message, in a round.                                      *)
LEMMA SendTransfer ==
  ASSUME TransferInv, NEW p \in Parties, Doing(p, "rounds"), NEW x \in NextStep(p).xs, Send(p, x)
  PROVE  TransferInv'
<1>1. /\ PlanInv /\ QueueInv /\ Shapes /\ ~SentAll(p, x)
      /\ UNCHANGED <<mainVars, at, todo, got, heard, queueVars, moved>>
  BY TransferFacts DEF Send
<1>2. QueueInv'
  BY <1>1, OtherQueues
<1> PICK s : s = NextStep(p)
  OBVIOUS
<1>3. /\ s \in todo[p] /\ s.do = "rounds" /\ at[p] # 0 /\ Call(Op(p)) /\ ~Threaded(Op(p))
      /\ todo[p] \subseteq RoundsPlan(Op(p), p)
  BY <1>1, StepFacts
<1> PICK q : q = x[1]
  OBVIOUS
<1>4. q \in Parties /\ q # p /\ sent[p][q] # 1 + Size(p)
  BY <1>1, <1>3, RoundsPeers, PeerFacts DEF SentAll
<1> PICK c, n, k : c = at[p] /\ n = sent[p][q] /\ k = Socket(c, p, q)
  OBVIOUS
<1>5. Owing(p, q)
  BY <1>3, <1>4 DEF Owing, RoundTo
<1>6. n \in Nat /\ Size(p) \in Nat /\ n <= Size(p)
  <2>1. Size(p) \in Nat /\ SendPair(p, q)
    BY <1>1, <1>3, <1>4, AtFacts, TransferFacts
  <2>2. n \in Nat /\ n <= Size(p) + 1 /\ n # 1 + Size(p)
    BY <1>3, <1>4, <1>5, <2>1 DEF SendPair
  <2> QED BY <2>1, <2>2
<1>7. Content(p, x[2], n) = {R!Unit(c, p, n, Size(p))}
  <2>1. PlaceParty(p)
    BY TransferFacts
  <2>2. ASSUME InPlace(p) PROVE ~(Len(got[p][x[2]]) > n)
    <3>1. Len(got[p][x[2]]) <= n
      BY <1>1, <1>3, <1>4, <2>1, <2>2 DEF PlaceParty
    <3>2. x[2] \in Parties
      BY <1>3, RoundsPeers, PeerFacts
    <3>3. Len(got[p][x[2]]) \in Nat
      <4>1. ReceivePair(p, x[2])
        BY <3>2, TransferFacts
      <4> QED BY <4>1 DEF ReceivePair, IsPart
    <3> QED BY <1>6, <3>1, <3>3
  <2> QED BY <2>1, <2>2 DEF Content, PlaceParty
<1>8. /\ link' = [link EXCEPT ![k][p][q] = Append(@, R!Unit(c, p, n, Size(p)))]
      /\ sent' = [sent EXCEPT ![p][q] = n + 1]
  BY <1>7 DEF Send, Put
<1>10. /\ QueueShape(sent) /\ DOMAIN link = Sockets /\ \A t \in Sockets : QueueShape(link[t])
  BY <1>1 DEF Shapes
<1>11. Shapes'
  <2>1. k \in Sockets
    BY SocketFacts
  <2>2. QueueShape(sent)'
    BY <1>8, <1>10 DEF QueueShape
  <2>3. DOMAIN link' = Sockets /\ \A t \in Sockets : QueueShape(link'[t])
    BY <1>8, <1>10, <2>1 DEF QueueShape
  <2> QED BY <1>1, <2>2, <2>3 DEF Shapes, QueueShape
<1>12. /\ sent'[p][q] = n + 1
       /\ \A u \in Parties : u # q => sent'[p][u] = sent[p][u]
       /\ \A r \in Parties : r # p => sent'[r] = sent[r]
  BY <1>4, <1>8, <1>10 DEF QueueShape
<1>13. ASSUME NEW r \in Parties, r # p PROVE Row(r)' = Row(r)
  BY <1>1, <1>12, <1>13 DEF Row, queueVars
<1>14. /\ at'[p] = c /\ UNCHANGED <<mainVars, got, heard, rreq, rout>> /\ sreq' = sreq
       /\ moved' = moved /\ todo' = todo
  BY <1>1 DEF queueVars
<1>15. Owing(p, q)' <=> Owing(p, q)
  BY <1>14, StepsKept
<1>16. Op(p)' = Op(p) /\ Size(p)' = Size(p) /\ (Threaded(Op(p))' <=> Threaded(Op(p)))
  BY <1>14 DEF Op, Size, Threaded, mainVars
<1>17. SendPair(p, q)'
  BY <1>3, <1>5, <1>6, <1>12, <1>15, <1>16 DEF SendPair
<1>18. OpenParty(p)'
  <2> SUFFICES ASSUME NEW t \in todo[p], t.do = "open"
               PROVE  /\ \A y \in t.xs : sent'[p][y[1]] = 0
                      /\ \E r \in todo[p] : r.do = "rounds" /\ t.nr < r.nr /\ t.xs \subseteq r.xs
    BY <1>14 DEF OpenParty
  <2>1. /\ \A y \in t.xs : sent[p][y[1]] = 0
        /\ \E r \in todo[p] : r.do = "rounds" /\ t.nr < r.nr /\ t.xs \subseteq r.xs
    BY TransferFacts DEF OpenParty
  <2>2. ASSUME NEW y \in t.xs PROVE sent'[p][y[1]] = 0
    <3>1. y[1] # q
      <4>1. RoundTo(s, q)
        BY <1>3 DEF RoundTo
      <4> QED BY <4>1, NoneToOpen
    <3>2. y[1] \in Parties
      BY <1>3, RoundsPeers, PeerFacts
    <3> QED BY <1>12, <2>1, <3>1, <3>2
  <2> QED BY <2>1, <2>2
<1>19. PlaceParty(p)'
  <2>1. PlaceParty(p) /\ ~moved'[p]
    BY <1>14, TransferFacts DEF PlaceParty
  <2>2. ASSUME InPlace(p)', NEW r \in todo[p], r.do = "rounds", NEW y \in r.xs, y[1] # p
        PROVE  Len(got[p][y[2]]) <= sent'[p][y[1]] /\ sent'[p][y[1]] # 0
    <3>1. InPlace(p) /\ Op(p).kind = "inplace"
      BY <1>16, <2>2 DEF InPlace
    <3>2. y = x
      BY <1>3, <2>2, <3>1, InPlaceFacts
    <3>3. Len(got[p][y[2]]) <= n
      BY <1>1, <1>3, <2>1, <2>2, <3>1, <3>2 DEF PlaceParty
    <3>4. y[2] \in Parties
      BY <1>3, <2>2, RoundsPeers, PeerFacts
    <3>5. Len(got[p][y[2]]) \in Nat
      <4>1. ReceivePair(p, y[2])
        BY <3>4, TransferFacts
      <4> QED BY <4>1 DEF ReceivePair, IsPart
    <3>6. sent'[p][y[1]] = n + 1
      BY <1>12, <3>2
    <3> QED BY <1>6, <3>3, <3>5, <3>6
  <2> QED BY <1>14, <2>1, <2>2 DEF PlaceParty
<1>20. /\ UNCHANGED <<mainVars, got, heard, rreq, rout>> /\ at'[p] = c
       /\ \A u \in Parties : u # q => sent'[p][u] = sent[p][u] /\ sreq'[p][u] = sreq[p][u]
       /\ \A t : t.do \in {"rounds", "received"} => (t \in todo'[p] <=> t \in todo[p])
  BY <1>12, <1>14
<1>21. /\ n <= Size(p)
       /\ \/ Owing(p, q)' /\ sent'[p][q] = n + 1
          \/ ~Owing(p, q)' /\ n = Size(p)
  BY <1>5, <1>6, <1>12, <1>15
<1>22. link' = [link EXCEPT ![k][p][q] = Append(@, R!Unit(c, p, n, Size(p)))]
  BY <1>8
<1> QED BY <1>2, <1>4, <1>5, <1>11, <1>13, <1>17, <1>18, <1>19, <1>20, <1>21, <1>22,
           SendCombine

(* A sender thread's turn: the last part ends the request.                 *)
LEMMA SenderTransfer ==
  ASSUME TransferInv, NEW p \in Parties, NEW q \in Parties, SenderRun(p, q)
  PROVE  TransferInv'
<1>1. /\ PlanInv /\ QueueInv /\ Shapes /\ sreq[p][q] # <<>>
      /\ UNCHANGED <<mainVars, at, todo, got, heard, rreq, rout, xVars>>
  BY TransferFacts DEF SenderRun
<1>2. QueueInv'
  BY <1>1, SenderQueues
<1>3. /\ Asking(todo[p], p, q) /\ sreq[p][q] = <<at[p]>>
  BY <1>1 DEF QueueInv, Owed
<1>4. at[p] # 0 /\ Call(Op(p)) /\ Asking(Plan(Op(p), p), p, q)
  <2>1. at[p] # 0 /\ todo[p] \subseteq Plan(Op(p), p)
    BY <1>1, <1>3 DEF PlanInv, Asking
  <2> QED BY <1>1, <1>3, <2>1, OpFacts DEF Asking
<1>5. Threaded(Op(p)) /\ q # p
  BY <1>4, PlanAsks, PeerFacts
<1>6. Owing(p, q)
  BY <1>1, <1>5 DEF Owing
<1> PICK c, n, k : c = at[p] /\ n = sent[p][q] /\ k = Socket(c, p, q)
  OBVIOUS
<1>7. n \in Nat /\ Size(p) \in Nat /\ n <= Size(p) /\ Size(p) = prog[c].size[p]
  <2>1. Size(p) \in Nat /\ SendPair(p, q) /\ Size(p) = prog[c].size[p]
    BY <1>1, <1>4, AtFacts, TransferFacts
  <2> QED BY <1>5, <1>6, <2>1 DEF SendPair
<1>8. /\ link' = [link EXCEPT ![k][p][q] = Append(@, R!Unit(c, p, n, Size(p)))]
      /\ sent' = [sent EXCEPT ![p][q] = IF n = Size(p) THEN 0 ELSE n + 1]
      /\ sreq' = IF n = Size(p) THEN [sreq EXCEPT ![p][q] = Tail(@)] ELSE sreq
  <2>1. Head(sreq[p][q]) = c
    BY <1>3
  <2> QED BY <1>7, <2>1 DEF SenderRun, Put
<1>9. /\ QueueShape(sent) /\ DOMAIN link = Sockets /\ \A t \in Sockets : QueueShape(link[t])
      /\ QueueShape(sreq)
  BY <1>1 DEF Shapes, QueueInv
<1>10. Shapes'
  <2>1. k \in Sockets
    BY SocketFacts
  <2>2. QueueShape(sent)'
    BY <1>8, <1>9 DEF QueueShape
  <2>3. DOMAIN link' = Sockets /\ \A t \in Sockets : QueueShape(link'[t])
    BY <1>8, <1>9, <2>1 DEF QueueShape
  <2> QED BY <1>1, <2>2, <2>3 DEF Shapes, xVars, QueueShape
<1>11. /\ sent'[p][q] = IF n = Size(p) THEN 0 ELSE n + 1
       /\ sreq'[p][q] = IF n = Size(p) THEN <<>> ELSE sreq[p][q]
  <2>1. Tail(<<c>>) = <<>>
    OBVIOUS
  <2> QED BY <1>3, <1>8, <1>9, <2>1 DEF QueueShape
<1>12. /\ \A u \in Parties : u # q => sent'[p][u] = sent[p][u] /\ sreq'[p][u] = sreq[p][u]
       /\ \A r \in Parties : r # p => sent'[r] = sent[r] /\ sreq'[r] = sreq[r]
  BY <1>8, <1>9 DEF QueueShape
<1>13. ASSUME NEW r \in Parties, r # p PROVE Row(r)' = Row(r)
  BY <1>1, <1>12, <1>13 DEF Row, xVars
<1>14. /\ at'[p] = c /\ UNCHANGED <<mainVars, got, heard, rreq, rout>>
       /\ moved' = moved /\ todo' = todo
  BY <1>1 DEF xVars
<1>15. Op(p)' = Op(p) /\ Size(p)' = Size(p) /\ (Threaded(Op(p))' <=> Threaded(Op(p)))
  BY <1>14 DEF Op, Size, Threaded, mainVars
<1>16. \A t \in todo[p] : ~RoundTo(t, q) /\ t.do \notin {"open", "rounds"}
  <2>1. todo[p] \subseteq WaitsPlan(Op(p), p)
    BY <1>1, <1>4, <1>5 DEF PlanInv, Plan
  <2>2. \A t \in todo[p] : t.do \notin {"open", "rounds"}
    BY <1>4, <2>1, WaitsFacts DEF WaitStep
  <2> QED BY <2>2 DEF RoundTo
<1>17. Owing(p, q)' <=> n # Size(p)
  BY <1>1, <1>5, <1>11, <1>14, <1>16 DEF Owing
<1>18. SendPair(p, q)'
  BY <1>5, <1>7, <1>11, <1>15, <1>17 DEF SendPair
<1>19. OpenParty(p)'
  BY <1>14, <1>16 DEF OpenParty
<1>20. PlaceParty(p)'
  <2>1. ~moved'[p]
    BY <1>14, TransferFacts DEF PlaceParty
  <2> QED BY <1>14, <1>16, <2>1 DEF PlaceParty
<1>21. /\ UNCHANGED <<mainVars, got, heard, rreq, rout>> /\ at'[p] = c
       /\ \A t : t.do \in {"rounds", "received"} => (t \in todo'[p] <=> t \in todo[p])
       /\ \/ Owing(p, q)' /\ sent'[p][q] = n + 1
          \/ ~Owing(p, q)' /\ n = Size(p)
  BY <1>11, <1>14, <1>17
<1> QED BY <1>2, <1>5, <1>6, <1>7, <1>8, <1>10, <1>12, <1>13, <1>18, <1>19, <1>20, <1>21,
           SendCombine

---------------------------------------------------------------------------
(* Buffers exchanged in place have room for the other side's message.      *)
Roomy ==
  \A pr \in Programs : \A k \in DOMAIN pr : pr[k].kind = "inplace" =>
    \A c \in pr[k].chan :
      Max(pr[k].size[c[1]], pr[k].size[c[2]]) < pr[k].size[c[2]] + Spare

(* A part of a message is received in a round.                             *)
LEMMA ReceiveTransfer ==
  ASSUME Roomy, TransferInv, NEW p \in Parties, Doing(p, "rounds"), NEW x \in NextStep(p).xs,
         Receive(p, x)
  PROVE  TransferInv'
<1>1. /\ PlanInv /\ QueueInv /\ Shapes /\ ~ReceivedAll(p, x) /\ Fits(p, x)
      /\ UNCHANGED <<mainVars, at, todo, sent, heard, queueVars>>
  BY TransferFacts DEF Receive
<1>2. QueueInv'
  BY <1>1, OtherQueues
<1> PICK s : s = NextStep(p)
  OBVIOUS
<1>3. /\ s \in todo[p] /\ s.do = "rounds" /\ at[p] # 0 /\ Call(Op(p)) /\ ~Threaded(Op(p))
      /\ todo[p] \subseteq RoundsPlan(Op(p), p)
      /\ \A r \in todo[p] : r.nr \in Nat /\ s.nr <= r.nr
  BY <1>1, StepFacts
<1> PICK q : q = x[2]
  OBVIOUS
<1>4. q \in Parties /\ q # p /\ ~Complete(got[p][q])
  BY <1>1, <1>3, RoundsPeers, PeerFacts DEF ReceivedAll
<1> PICK c, n, k, g : c = at[p] /\ n = Len(got[p][q]) /\ k = Socket(c, q, p) /\ g = got[p][q]
  OBVIOUS
<1>5. Expecting(p, q)
  BY <1>3, <1>4 DEF Expecting, RoundFrom
<1>6. /\ c \in DOMAIN prog /\ Op(p) = prog[c] /\ prog[c].size[q] \in Nat /\ IsPart(g, c, q)
      /\ Size(p) = prog[c].size[p]
  <2>1. ReceivePair(p, q)
    BY <1>4, TransferFacts
  <2> QED BY <1>1, <1>3, <1>4, <1>5, <2>1, AtFacts DEF ReceivePair
<1> PICK u : u = UnitAt(prog, q, <<c, n>>)
  OBVIOUS
<1>7. n \in Nat /\ n <= prog[c].size[q] /\ IsPart(Append(g, u), c, q) /\ Len(Append(g, u)) = n + 1
  BY <1>1, <1>4, <1>6, PartAppend, WholeFacts
<1>8. link[k][q][p] # <<>> /\ Head(link[k][q][p]) = u /\ k \in Sockets
  <2>1. link[k][q][p] # <<>>
    BY DEF Receive, Arrived
  <2> QED BY <1>4, <1>5, <1>7, <2>1, NextPart
<1>9. /\ link' = [link EXCEPT ![k][q][p] = Tail(@)]
      /\ got' = [got EXCEPT ![p][q] = Append(g, u)]
      /\ moved' = [moved EXCEPT ![p] = @ \/ (got[p][q] = <<>> /\ Moves(p, u))]
  BY <1>8 DEF Receive, Arrived, Take
<1>10. /\ QueueShape(got) /\ DOMAIN link = Sockets /\ \A t \in Sockets : QueueShape(link[t])
       /\ DOMAIN moved = Parties
  BY <1>1 DEF Shapes
<1>11. Shapes'
  <2>1. QueueShape(got)'
    BY <1>9, <1>10 DEF QueueShape
  <2>2. DOMAIN link' = Sockets /\ \A t \in Sockets : QueueShape(link'[t])
    BY <1>8, <1>9, <1>10 DEF QueueShape
  <2> QED BY <1>1, <1>9, <1>10, <2>1, <2>2 DEF Shapes, QueueShape
<1>12. /\ got'[p][q] = Append(g, u)
       /\ \A v \in Parties : v # q => got'[p][v] = got[p][v]
       /\ \A r \in Parties : r # p => got'[r] = got[r] /\ moved'[r] = moved[r]
  BY <1>4, <1>9, <1>10 DEF QueueShape
<1>13. ASSUME NEW r \in Parties, r # p PROVE Row(r)' = Row(r)
  BY <1>1, <1>12, <1>13 DEF Row, queueVars
<1>14. /\ at'[p] = c /\ UNCHANGED <<mainVars, sent, sreq, heard>> /\ rreq' = rreq /\ rout' = rout
       /\ todo' = todo
  BY <1>1 DEF queueVars
<1>15. (Expecting(p, q)' <=> Expecting(p, q)) /\ (Missing(p, q)' <=> Missing(p, q))
  BY <1>14, StepsKept
<1>16. Op(p)' = Op(p) /\ Size(p)' = Size(p) /\ (Threaded(Op(p))' <=> Threaded(Op(p)))
  BY <1>14 DEF Op, Size, Threaded, mainVars
<1>17. ReceivePair(p, q)'
  <2>1. (IsPart(got[p][q], at[p], q))'
    BY <1>7, <1>12, <1>14 DEF IsPart, mainVars
  <2> QED BY <1>3, <1>5, <1>15, <1>16, <2>1 DEF ReceivePair
<1>18. HeardPair(p, q)'
  <2>1. HeardPair(p, q)
    BY <1>4, TransferFacts
  <2> QED BY <1>14, <1>15, <2>1, HeardKept
<1>19. ~moved'[p]
  <2>1. ~moved[p]
    BY TransferFacts DEF PlaceParty
  <2>2. ASSUME InPlace(p) PROVE ~Moves(p, u)
    <3>1. u.of = prog[c].size[q]
      BY DEF UnitAt, R!Unit
    <3>2. <<q, p>> \in prog[c].chan
      <4>1. q \in Hears(p)
        BY <1>1, <1>4, <1>5, ExpectingFacts
      <4> QED BY <1>6, <4>1 DEF Hears, R!Hears
    <3>3. prog \in Programs /\ prog[c].kind = "inplace"
      BY <1>1, <1>6, <2>2 DEF PlanInv, InPlace
    <3>4. Max(prog[c].size[<<q, p>>[1]], prog[c].size[<<q, p>>[2]]) < prog[c].size[<<q, p>>[2]] + Spare
      BY <1>6, <3>2, <3>3 DEF Roomy
    <3>5. Max(u.of, Size(p)) < Size(p) + Spare
      BY <1>6, <3>1, <3>4
    <3>6. Max(u.of, Size(p)) \in Nat /\ Size(p) + Spare \in Nat
      <4>1. Size(p) \in Nat /\ u.of \in Nat
        BY <1>1, <1>3, <1>6, <3>1, AtFacts
      <4> QED BY <4>1, SizeAssumption DEF Max
    <3> QED BY <3>5, <3>6 DEF Moves
  <2>3. ~Moves(p, u)
    BY <2>2 DEF Moves
  <2>4. moved'[p] = (moved[p] \/ (got[p][q] = <<>> /\ Moves(p, u)))
    BY <1>9, <1>10
  <2> QED BY <2>1, <2>3, <2>4
<1>20. PlaceParty(p)'
  <2>1. ASSUME InPlace(p)', NEW r \in todo[p], r.do = "rounds", NEW y \in r.xs, y[1] # p
        PROVE  /\ Len(got'[p][y[2]]) <= sent[p][y[1]] \/ SentAll(p, y)
               /\ sent[p][y[1]] # 0
    <3>1. InPlace(p) /\ Op(p).kind = "inplace"
      BY <1>16, <2>1 DEF InPlace
    <3>2. y = x
      BY <1>3, <2>1, <3>1, InPlaceFacts
    <3>3. sent[p][y[1]] # 0
      <4>1. SUFFICES ASSUME NEW t \in todo[p], t.do = "open" PROVE FALSE
        BY <2>1, <3>1, <1>3, TransferFacts DEF PlaceParty
      <4>2. t.nr = 1 /\ s.nr = 2 /\ s.nr <= t.nr
        BY <1>3, <3>1, <4>1, InPlaceFacts
      <4> QED BY <4>2
    <3>4. sent[p][y[1]] \in Nat
      <4>1. y[1] \in Parties
        BY <1>3, <2>1, RoundsPeers, PeerFacts
      <4> QED BY <4>1, TransferFacts DEF SendPair
    <3>5. n + 1 <= sent[p][y[1]] \/ SentAll(p, y)
      <4>1. got[p][q] = <<>> \/ SentAll(p, y) \/ sent[p][y[1]] > n
        BY <1>1, <3>1, <3>2 DEF Fits
      <4>2. got[p][q] = <<>> => n = 0
        OBVIOUS
      <4> QED BY <1>7, <3>3, <3>4, <4>1, <4>2
    <3> QED BY <1>7, <1>12, <3>2, <3>3, <3>5
  <2>2. \A y : SentAll(p, y) => SentAll(p, y)'
    BY <1>14, <1>16 DEF SentAll
  <2> QED BY <1>14, <1>19, <2>1, <2>2 DEF PlaceParty
<1>21. /\ UNCHANGED <<mainVars, sent, sreq, heard>> /\ at'[p] = c /\ todo'[p] = todo[p]
       /\ \A v \in Parties : v # q => /\ got'[p][v] = got[p][v] /\ rreq'[p][v] = rreq[p][v]
                                      /\ rout'[p][v] = rout[p][v]
  BY <1>12, <1>14
<1>22. Expecting(p, q)' /\ Len(got'[p][q]) = n + 1
  <2>1. Expecting(p, q)'
    BY <1>5, <1>15
  <2>2. Len(got'[p][q]) = n + 1
    BY <1>7, <1>12
  <2> QED BY <2>1, <2>2
<1>23. n <= prog[c].size[q] /\ link[k][q][p] # <<>> /\ q \in Parties /\ q # p
  BY <1>4, <1>7, <1>8
<1>24. link' = [link EXCEPT ![k][q][p] = Tail(@)]
  BY <1>9
<1> QED BY <1>2, <1>5, <1>11, <1>13, <1>17, <1>18, <1>20, <1>21, <1>22, <1>23, <1>24, GetCombine

LEMMA AnswerUnits ==
  ASSUME NEW c, NEW h
  PROVE  /\ \A a : <<[buffer |-> c, units |-> h]>> = <<a>> => a.units = h
         /\ \A a : <<>> # <<a>>
OBVIOUS

(* A receiver thread's turn: the last part ends the request.               *)
LEMMA ReceiverTransfer ==
  ASSUME TransferInv, NEW p \in Parties, NEW q \in Parties, ReceiverRun(p, q)
  PROVE  TransferInv'
<1>1. /\ PlanInv /\ QueueInv /\ Shapes /\ rreq[p][q] # <<>>
      /\ UNCHANGED <<mainVars, at, todo, sent, heard, sreq, sout, xVars>>
  BY TransferFacts DEF ReceiverRun
<1>2. QueueInv'
  BY <1>1, ReceiverQueues
<1>3. Awaiting(todo[p], p, q) /\ rreq[p][q] = <<at[p]>> /\ rout[p][q] = <<>>
  BY <1>1 DEF QueueInv, OwedAnswer
<1>4. at[p] # 0 /\ Call(Op(p)) /\ Awaiting(Plan(Op(p), p), p, q)
  <2>1. at[p] # 0 /\ todo[p] \subseteq Plan(Op(p), p)
    BY <1>1, <1>3 DEF PlanInv, Awaiting
  <2> QED BY <1>1, <1>3, <2>1, OpFacts DEF Awaiting
<1>5. Threaded(Op(p)) /\ q # p
  BY <1>4, PlanAsks, PeerFacts
<1>6. Expecting(p, q)
  BY <1>1, <1>5 DEF Expecting
<1> PICK c, n, k, g : c = at[p] /\ n = Len(got[p][q]) /\ k = Socket(c, q, p) /\ g = got[p][q]
  OBVIOUS
<1>7. /\ c \in DOMAIN prog /\ Op(p) = prog[c] /\ prog[c].size[q] \in Nat /\ IsPart(g, c, q)
      /\ n <= prog[c].size[q]
  <2>1. ReceivePair(p, q)
    BY TransferFacts
  <2> QED BY <1>1, <1>4, <1>5, <1>6, <2>1, AtFacts DEF ReceivePair
<1> PICK u : u = UnitAt(prog, q, <<c, n>>)
  OBVIOUS
<1> PICK h : h = Append(g, u)
  OBVIOUS
<1>8. n \in Nat /\ IsPart(h, c, q) /\ Len(h) = n + 1
  <2>1. Len(g) \in Nat /\ (Complete(g) <=> Len(g) = prog[c].size[q] + 1)
    BY <1>1, <1>7, WholeFacts
  <2>2. ~Complete(g)
    BY <1>7, <2>1
  <2> QED BY <1>1, <1>7, <2>1, <2>2, PartAppend
<1>9. (Complete(h) <=> n = prog[c].size[q]) /\ (Complete(h) => h = R!Message(c, q))
  <2>1. (Complete(h) <=> Len(h) = prog[c].size[q] + 1) /\ (Complete(h) => h = R!Message(c, q))
    BY <1>1, <1>7, <1>8, WholeFacts
  <2> QED BY <1>7, <1>8, <2>1
<1>10. link[k][q][p] # <<>> /\ Head(link[k][q][p]) = u /\ k \in Sockets
  <2>1. Head(rreq[p][q]) = c
    BY <1>3
  <2>2. link[k][q][p] # <<>>
    BY <2>1 DEF ReceiverRun, Arrived
  <2> QED BY <1>6, <1>7, <2>2, NextPart
<1>11. /\ link' = [link EXCEPT ![k][q][p] = Tail(@)]
       /\ got' = [got EXCEPT ![p][q] = IF Complete(h) THEN <<>> ELSE h]
       /\ rreq' = IF Complete(h) THEN [rreq EXCEPT ![p][q] = Tail(@)] ELSE rreq
       /\ rout' = IF Complete(h)
                  THEN [rout EXCEPT ![p][q] = Append(@, [buffer |-> c, units |-> h])]
                  ELSE rout
  <2>1. Head(rreq[p][q]) = c
    BY <1>3
  <2> QED BY <1>10, <2>1 DEF ReceiverRun, Arrived, Take
<1>12. /\ QueueShape(got) /\ DOMAIN link = Sockets /\ \A t \in Sockets : QueueShape(link[t])
       /\ QueueShape(rreq) /\ QueueShape(rout)
  BY <1>1 DEF Shapes, QueueInv
<1>13. Shapes'
  <2>1. QueueShape(got)'
    BY <1>11, <1>12 DEF QueueShape
  <2>2. DOMAIN link' = Sockets /\ \A t \in Sockets : QueueShape(link'[t])
    BY <1>10, <1>11, <1>12 DEF QueueShape
  <2> QED BY <1>1, <2>1, <2>2 DEF Shapes, xVars, QueueShape
<1>14. /\ got'[p][q] = IF Complete(h) THEN <<>> ELSE h
       /\ rreq'[p][q] = IF Complete(h) THEN <<>> ELSE rreq[p][q]
       /\ rout'[p][q] = IF Complete(h) THEN <<[buffer |-> c, units |-> h]>> ELSE <<>>
  <2>1. Tail(<<c>>) = <<>> /\ Append(<<>>, [buffer |-> c, units |-> h]) = <<[buffer |-> c, units |-> h]>>
    OBVIOUS
  <2>2. got'[p][q] = IF Complete(h) THEN <<>> ELSE h
    BY <1>11, <1>12 DEF QueueShape
  <2>3. rreq'[p][q] = IF Complete(h) THEN <<>> ELSE rreq[p][q]
    BY <1>3, <1>11, <1>12, <2>1 DEF QueueShape
  <2>4. rout'[p][q] = IF Complete(h) THEN <<[buffer |-> c, units |-> h]>> ELSE <<>>
    BY <1>3, <1>11, <1>12, <2>1 DEF QueueShape
  <2> QED BY <2>2, <2>3, <2>4
<1>15. /\ \A v \in Parties : v # q => /\ got'[p][v] = got[p][v] /\ rreq'[p][v] = rreq[p][v]
                                      /\ rout'[p][v] = rout[p][v]
       /\ \A r \in Parties : r # p => got'[r] = got[r] /\ rreq'[r] = rreq[r] /\ rout'[r] = rout[r]
  BY <1>11, <1>12 DEF QueueShape
<1>16. ASSUME NEW r \in Parties, r # p PROVE Row(r)' = Row(r)
  BY <1>1, <1>15, <1>16 DEF Row, xVars
<1>17. at'[p] = c /\ UNCHANGED <<mainVars, sent, sreq, heard>> /\ moved' = moved /\ todo' = todo
  BY <1>1 DEF xVars
<1>18. Op(p)' = Op(p) /\ (Threaded(Op(p))' <=> Threaded(Op(p)))
  BY <1>17 DEF Op, Threaded, mainVars
<1>19. \A t \in todo[p] : ~RoundFrom(t, q) /\ t.do \notin {"open", "rounds"}
  <2>1. todo[p] \subseteq WaitsPlan(Op(p), p)
    BY <1>1, <1>4, <1>5 DEF PlanInv, Plan
  <2>2. \A t \in todo[p] : t.do \notin {"open", "rounds"}
    BY <1>4, <2>1, WaitsFacts DEF WaitStep
  <2> QED BY <2>2 DEF RoundFrom
<1>20. (Expecting(p, q)' <=> ~Complete(h)) /\ (Missing(p, q)' <=> Missing(p, q))
  <2>1. Missing(p, q)' <=> Missing(p, q)
    BY <1>17, StepsKept
  <2> QED BY <1>1, <1>5, <1>14, <1>17, <1>19, <2>1 DEF Expecting
<1>21. ReceivePair(p, q)'
  <2>1. CASE Complete(h)
    BY <1>14, <1>20, <2>1 DEF ReceivePair
  <2>2. CASE ~Complete(h)
    <3>1. (IsPart(got[p][q], at[p], q))'
      BY <1>8, <1>14, <1>17, <2>2 DEF IsPart, mainVars
    <3>2. Len(got'[p][q]) <= prog'[at'[p]].size[q]
      BY <1>7, <1>8, <1>9, <1>14, <1>17, <2>2 DEF mainVars
    <3> QED BY <1>20, <2>2, <3>1, <3>2 DEF ReceivePair
  <2> QED BY <2>1, <2>2
<1>22. HeardPair(p, q)'
  <2>1. HeardPair(p, q) /\ heard' = heard /\ Hears(p)' = Hears(p) /\ at'[p] = at[p]
        /\ R!Message(at[p], q)' = R!Message(at[p], q)
    BY <1>17, <1>18, TransferFacts DEF Hears, R!Hears, R!Message, mainVars
  <2>2. \A a : rout'[p][q] = <<a>> => a.units = R!Message(at[p], q)
    <3>1. CASE Complete(h)
      <4>1. h = R!Message(at[p], q)
        BY <1>9, <3>1
      <4>2. rout'[p][q] = <<[buffer |-> c, units |-> h]>>
        BY <1>14, <3>1
      <4> QED BY <4>1, <4>2, AnswerUnits
    <3>2. CASE ~Complete(h)
      <4>1. rout'[p][q] = <<>>
        BY <1>14, <3>2
      <4> QED BY <4>1, AnswerUnits
    <3> QED BY <3>1, <3>2
  <2> QED BY <1>20, <2>1, <2>2 DEF HeardPair
<1>23. PlaceParty(p)'
  <2>1. ~moved'[p]
    BY <1>17, TransferFacts DEF PlaceParty
  <2> QED BY <1>17, <1>19, <2>1 DEF PlaceParty
<1>24. UNCHANGED <<mainVars, sent, sreq, heard>> /\ at'[p] = c /\ todo'[p] = todo[p]
  BY <1>17
<1>25. \/ Expecting(p, q)' /\ Len(got'[p][q]) = n + 1
       \/ ~Expecting(p, q)' /\ n = prog[c].size[q]
  <2>1. CASE Complete(h)
    BY <1>9, <1>20, <2>1
  <2>2. CASE ~Complete(h)
    <3>1. got'[p][q] = h
      BY <1>14, <2>2
    <3> QED BY <1>8, <1>20, <2>2, <3>1
  <2> QED BY <2>1, <2>2
<1>26. n <= prog[c].size[q] /\ link[k][q][p] # <<>> /\ q # p
  BY <1>5, <1>7, <1>10
<1>27. link' = [link EXCEPT ![k][q][p] = Tail(@)]
  BY <1>11
<1>28. \A v \in Parties : v # q => /\ got'[p][v] = got[p][v] /\ rreq'[p][v] = rreq[p][v]
                                   /\ rout'[p][v] = rout[p][v]
  BY <1>15
<1> QED BY <1>2, <1>6, <1>13, <1>16, <1>21, <1>22, <1>23, <1>24, <1>25, <1>26, <1>27, <1>28,
           GetCombine

---------------------------------------------------------------------------
(* What Exchangers have transferred when they are done.                    *)
LEMMA RoundsDone ==
  ASSUME TransferInv, NEW p \in Parties, EndRounds(p)
  PROVE  \A q \in Parties \ {p} :
           /\ RoundTo(NextStep(p), q) =>
                Owing(p, q) /\ sent[p][q] = 1 + Size(p) /\ Size(p) \in Nat
           /\ RoundFrom(NextStep(p), q) =>
                /\ Expecting(p, q) /\ Len(got[p][q]) = prog[at[p]].size[q] + 1
                /\ prog[at[p]].size[q] \in Nat
                /\ got[p][q] = R!Message(at[p], q) /\ q \in Hears(p)
<1>1. /\ PlanInv /\ QueueInv /\ Doing(p, "rounds")
      /\ \A x \in NextStep(p).xs : SentAll(p, x) /\ ReceivedAll(p, x)
  BY TransferFacts DEF EndRounds
<1>2. /\ NextStep(p) \in todo[p] /\ at[p] # 0 /\ ~Threaded(Op(p))
  BY <1>1, StepFacts
<1>3. ASSUME NEW q \in Parties, q # p, RoundTo(NextStep(p), q)
      PROVE  Owing(p, q) /\ sent[p][q] = 1 + Size(p) /\ Size(p) \in Nat
  <2>1. Owing(p, q)
    BY <1>2, <1>3 DEF Owing
  <2>2. sent[p][q] = 1 + Size(p)
    BY <1>1, <1>3 DEF RoundTo, SentAll
  <2> QED BY <1>1, <1>2, <2>1, <2>2, AtFacts
<1>4. ASSUME NEW q \in Parties, q # p, RoundFrom(NextStep(p), q)
      PROVE  /\ Expecting(p, q) /\ Len(got[p][q]) = prog[at[p]].size[q] + 1
             /\ prog[at[p]].size[q] \in Nat
             /\ got[p][q] = R!Message(at[p], q) /\ q \in Hears(p)
  <2>1. Expecting(p, q)
    BY <1>2, <1>4 DEF Expecting
  <2>2. Complete(got[p][q])
    BY <1>1, <1>4 DEF RoundFrom, ReceivedAll
  <2>3. at[p] \in DOMAIN prog /\ prog[at[p]].size[q] \in Nat /\ IsPart(got[p][q], at[p], q)
    <3>1. ReceivePair(p, q)
      BY TransferFacts
    <3> QED BY <1>1, <1>2, <2>1, <3>1, AtFacts DEF ReceivePair
  <2>4. Len(got[p][q]) = prog[at[p]].size[q] + 1 /\ got[p][q] = R!Message(at[p], q)
    BY <1>1, <2>2, <2>3, WholeFacts
  <2>5. q \in Hears(p)
    BY <1>1, <2>1, ExpectingFacts
  <2> QED BY <2>1, <2>3, <2>4, <2>5
<1> QED BY <1>3, <1>4

(* All its Exchangers are done: p has sent and received their messages.    *)
LEMMA EndTransfer ==
  ASSUME TransferInv, NEW p \in Parties, EndRounds(p)
  PROVE  TransferInv'
<1>1. /\ PlanInv /\ QueueInv /\ Shapes /\ Doing(p, "rounds") /\ Proceed(p)
      /\ UNCHANGED <<mainVars, at, link, queueVars, xVars>>
  BY TransferFacts DEF EndRounds
<1>2. QueueInv'
  BY <1>1, OtherQueues DEF Doing
<1> PICK s : s = NextStep(p)
  OBVIOUS
<1>3. /\ s \in todo[p] /\ s.do = "rounds" /\ at[p] # 0 /\ Call(Op(p)) /\ ~Threaded(Op(p))
      /\ todo[p] \subseteq RoundsPlan(Op(p), p)
      /\ \A r \in todo[p] : r.nr \in Nat /\ s.nr <= r.nr
  BY <1>1, StepFacts
<1>4. /\ todo'[p] = todo[p] \ {s}
      /\ \A r \in Parties : r # p => todo'[r] = todo[r]
  BY <1>1, ProceedFacts
<1>5. /\ sent' = [sent EXCEPT ![p] = [q \in Parties |-> IF RoundTo(s, q) THEN 0 ELSE @[q]]]
      /\ got' = [got EXCEPT ![p] = [q \in Parties |-> IF RoundFrom(s, q) THEN <<>> ELSE @[q]]]
      /\ heard' = [heard EXCEPT ![p] =
                     [q \in Parties |-> IF RoundFrom(s, q) THEN got[p][q] ELSE @[q]]]
  <2>1. /\ \A q : q \in {x[1] : x \in NextStep(p).xs} <=> RoundTo(s, q)
        /\ \A q : q \in {x[2] : x \in NextStep(p).xs} <=> RoundFrom(s, q)
    BY <1>3 DEF RoundTo, RoundFrom
  <2> QED BY <2>1 DEF EndRounds
<1>6. QueueShape(sent) /\ QueueShape(got) /\ QueueShape(heard)
  BY <1>1 DEF Shapes
<1>7. /\ \A q \in Parties : /\ sent'[p][q] = IF RoundTo(s, q) THEN 0 ELSE sent[p][q]
                            /\ got'[p][q] = IF RoundFrom(s, q) THEN <<>> ELSE got[p][q]
                            /\ heard'[p][q] = IF RoundFrom(s, q) THEN got[p][q] ELSE heard[p][q]
      /\ \A r \in Parties : r # p => sent'[r] = sent[r] /\ got'[r] = got[r] /\ heard'[r] = heard[r]
  BY <1>5, <1>6 DEF QueueShape
<1>8. Shapes'
  <2>1. QueueShape(sent)' /\ QueueShape(got)' /\ QueueShape(heard)'
    BY <1>5, <1>6 DEF QueueShape
  <2> QED BY <1>1, <2>1 DEF Shapes, xVars, QueueShape
<1>9. ASSUME NEW r \in Parties, r # p PROVE Row(r)' = Row(r)
  BY <1>1, <1>4, <1>7, <1>9 DEF Row, queueVars, xVars
<1>10. /\ at' = at /\ UNCHANGED mainVars /\ sreq' = sreq /\ rreq' = rreq /\ rout' = rout
       /\ moved' = moved /\ link' = link
  BY <1>1 DEF queueVars, xVars
<1>11. Op(p)' = Op(p) /\ Size(p)' = Size(p) /\ (Threaded(Op(p))' <=> Threaded(Op(p)))
  BY <1>10 DEF Op, Size, Threaded, mainVars
<1>12. ASSUME NEW q \in Parties, q # p
       PROVE  /\ Owing(p, q)' <=> Owing(p, q) /\ ~RoundTo(s, q)
              /\ Expecting(p, q)' <=> Expecting(p, q) /\ ~RoundFrom(s, q)
              /\ Missing(p, q)' <=> Missing(p, q) /\ ~RoundFrom(s, q)
  <2>1. (\E t \in todo'[p] : RoundTo(t, q)) <=> (\E t \in todo[p] : RoundTo(t, q)) /\ ~RoundTo(s, q)
    BY <1>3, <1>4, <1>12, RoundsOnce
  <2>2. (\E t \in todo'[p] : RoundFrom(t, q)) <=> (\E t \in todo[p] : RoundFrom(t, q)) /\ ~RoundFrom(s, q)
    BY <1>3, <1>4, <1>12, RoundsOnce
  <2>3. ~Awaiting(todo[p], p, q) /\ ~Awaiting(todo'[p], p, q)
    BY <1>3, <1>4, RoundsFacts DEF Awaiting, ReceivedStep
  <2>4. RoundTo(s, q) => sreq[p][q] = <<>>
    BY <1>1, <1>3, <1>12, RoundsDone, OwingFacts
  <2>5. RoundFrom(s, q) => rreq[p][q] = <<>>
    BY <1>1, <1>3, <1>12, RoundsDone, ExpectingFacts
  <2>6. Owing(p, q)' <=> Owing(p, q) /\ ~RoundTo(s, q)
    BY <1>10, <2>1, <2>4 DEF Owing
  <2>7. Expecting(p, q)' <=> Expecting(p, q) /\ ~RoundFrom(s, q)
    BY <1>10, <2>2, <2>5 DEF Expecting
  <2>8. Missing(p, q)' <=> Missing(p, q) /\ ~RoundFrom(s, q)
    BY <2>2, <2>3 DEF Missing
  <2> QED BY <2>6, <2>7, <2>8
<1>13. ASSUME NEW q \in Parties
       PROVE  SendPair(p, q)' /\ \A t : \A e \in Parts(t, p, q) : HasSent(p, q, e)' <=> HasSent(p, q, e)
  <2>1. SendPair(p, q)
    BY TransferFacts
  <2>2. CASE RoundTo(s, q) /\ q # p
    <3>1. Owing(p, q) /\ sent[p][q] = 1 + Size(p) /\ Size(p) \in Nat
      BY <1>1, <2>2, RoundsDone
    <3>2. ~Owing(p, q)' /\ sent'[p][q] = 0
      BY <1>7, <1>12, <2>2
    <3>3. SendPair(p, q)'
      BY <3>2 DEF SendPair
    <3>4. ASSUME NEW t, NEW e \in Parts(t, p, q) PROVE HasSent(p, q, e)' <=> HasSent(p, q, e)
      <4>1. e[2] \in Nat /\ (e[1] = at[p] => e[2] <= Size(p))
        BY <1>1, <1>3, PartFacts, AtFacts
      <4>2. HasSent(p, q, e) <=> e[1] < at[p] \/ (e[1] = at[p] /\ e[2] < 1 + Size(p))
        BY <3>1 DEF HasSent, Past
      <4>3. HasSent(p, q, e)' <=> e[1] < at[p] \/ e[1] = at[p]
        BY <1>10, <3>2 DEF HasSent, Past
      <4>4. e[1] = at[p] => e[2] < 1 + Size(p)
        BY <3>1, <4>1
      <4> QED BY <4>2, <4>3, <4>4
    <3> QED BY <3>3, <3>4
  <2>3. CASE q = p
    <3>1. ~Owing(p, q) /\ ~Owing(p, q)'
      BY <2>3 DEF Owing
    <3>2. sent[p][q] = 0 /\ sent'[p][q] = 0
      BY <1>7, <2>1, <3>1 DEF SendPair
    <3> QED BY <1>10, <2>1, <3>1, <3>2, SendKept
  <2>4. CASE ~RoundTo(s, q) /\ q # p
    <3>1. (Owing(p, q)' <=> Owing(p, q)) /\ sent'[p][q] = sent[p][q]
      BY <1>7, <1>12, <2>4
    <3> QED BY <1>10, <2>1, <3>1, SendKept
  <2> QED BY <2>2, <2>3, <2>4
<1>14. ASSUME NEW q \in Parties
       PROVE  /\ ReceivePair(p, q)' /\ HeardPair(p, q)'
              /\ \A t : \A e \in Parts(t, q, p) : HasGot(p, q, e)' <=> HasGot(p, q, e)
  <2>1. ReceivePair(p, q) /\ HeardPair(p, q)
    BY TransferFacts
  <2>2. CASE RoundFrom(s, q) /\ q # p
    <3>1. /\ Expecting(p, q) /\ Len(got[p][q]) = prog[at[p]].size[q] + 1
          /\ prog[at[p]].size[q] \in Nat
          /\ got[p][q] = R!Message(at[p], q) /\ q \in Hears(p)
      BY <1>1, <2>2, RoundsDone
    <3>2. ~Expecting(p, q)' /\ ~Missing(p, q)'
      BY <1>12, <2>2
    <3>3. got'[p][q] = <<>> /\ heard'[p][q] = R!Message(at[p], q)
      BY <1>7, <2>2, <3>1
    <3>4. ReceivePair(p, q)'
      BY <3>2, <3>3 DEF ReceivePair
    <3>5. Hears(p)' = Hears(p) /\ R!Message(at[p], q)' = R!Message(at[p], q) /\ rout' = rout /\ at' = at
      BY <1>10, <1>11 DEF Hears, R!Hears, R!Message, mainVars
    <3>6. HeardPair(p, q)'
      BY <1>3, <2>1, <3>1, <3>2, <3>3, <3>5 DEF HeardPair
    <3>7. ASSUME NEW t, NEW e \in Parts(t, q, p) PROVE HasGot(p, q, e)' <=> HasGot(p, q, e)
      <4>1. e[2] \in Nat /\ (e[1] = at[p] => e[2] <= prog[at[p]].size[q])
        BY <1>1, PartFacts
      <4>2. HasGot(p, q, e) <=>
              e[1] < at[p] \/ (e[1] = at[p] /\ e[2] < prog[at[p]].size[q] + 1)
        BY <3>1 DEF HasGot, Past
      <4>3. HasGot(p, q, e)' <=> e[1] < at[p] \/ e[1] = at[p]
        BY <1>10, <3>2 DEF HasGot, Past
      <4>4. e[1] = at[p] => e[2] < prog[at[p]].size[q] + 1
        BY <3>1, <4>1
      <4> QED BY <4>2, <4>3, <4>4
    <3> QED BY <3>4, <3>6, <3>7
  <2>3. CASE q = p
    <3>1. ~Expecting(p, q) /\ ~Expecting(p, q)' /\ ~Missing(p, q) /\ ~Missing(p, q)'
      BY <2>3 DEF Expecting, Missing
    <3>2. got[p][q] = <<>>
      BY <2>1, <3>1 DEF ReceivePair
    <3>3. heard[p][q] = <<>>
      <4>1. q \notin Hears(p)
        BY <1>3, <2>3, PeerFacts DEF Hears
      <4> QED BY <2>1, <3>1, <4>1 DEF HeardPair
    <3>4. got'[p][q] = got[p][q] /\ heard'[p][q] = heard[p][q] /\ rout'[p][q] = rout[p][q]
      BY <1>7, <1>10, <3>2, <3>3
    <3> QED BY <1>10, <2>1, <3>1, <3>4, GotKept, HeardKept
  <2>4. CASE ~RoundFrom(s, q) /\ q # p
    <3>1. /\ Expecting(p, q)' <=> Expecting(p, q)
          /\ Missing(p, q)' <=> Missing(p, q)
          /\ got'[p][q] = got[p][q] /\ heard'[p][q] = heard[p][q] /\ rout'[p][q] = rout[p][q]
      BY <1>7, <1>10, <1>12, <2>4
    <3> QED BY <1>10, <2>1, <3>1, GotKept, HeardKept
  <2> QED BY <2>2, <2>3, <2>4
<1>15. OpenParty(p)'
  <2> SUFFICES ASSUME NEW t \in todo'[p], t.do = "open"
               PROVE  /\ \A y \in t.xs : sent'[p][y[1]] = 0
                      /\ \E r \in todo'[p] : r.do = "rounds" /\ t.nr < r.nr /\ t.xs \subseteq r.xs
    BY DEF OpenParty
  <2>1. t \in todo[p]
    BY <1>4
  <2>2. \E r \in todo[p] : r # s /\ r.do = "rounds" /\ t.nr < r.nr /\ t.xs \subseteq r.xs
    <3>1. t \in RoundsPlan(Op(p), p)
      BY <1>3, <2>1
    <3>2. PICK y : t.xs = {y} /\ y[1] # p
      BY <1>3, <3>1, OpenFacts
    <3>3. y \in t.xs
      BY <3>2
    <3> QED BY <1>1, <2>1, <3>3, NoneToOpen
  <2>3. ASSUME NEW y \in t.xs PROVE sent'[p][y[1]] = 0
    <3>1. sent[p][y[1]] = 0
      BY <2>1, TransferFacts DEF OpenParty
    <3>2. y[1] \in Parties
      BY <1>3, <2>1, RoundsPeers, PeerFacts
    <3> QED BY <1>7, <3>1, <3>2
  <2> QED BY <1>4, <2>2, <2>3
<1>16. PlaceParty(p)'
  <2>1. ~moved'[p]
    BY <1>10, TransferFacts DEF PlaceParty
  <2>2. ASSUME InPlace(p)', NEW r \in todo'[p], r.do = "rounds", NEW y \in r.xs, y[1] # p
        PROVE  FALSE
    <3>1. Op(p).kind = "inplace"
      BY <1>11, <2>2 DEF InPlace
    <3>2. r \in todo[p] /\ r # s
      BY <1>4, <2>2
    <3>3. y \in s.xs
      BY <1>3, <2>2, <3>1, <3>2, InPlaceFacts
    <3>4. y[1] \in Parties \ {p}
      BY <1>3, <2>2, <3>2, RoundsPeers, PeerFacts
    <3> QED BY <1>3, <2>2, <3>2, <3>3, <3>4, RoundsOnce DEF RoundTo
  <2> QED BY <2>1, <2>2 DEF PlaceParty
<1>17. PartyInv(p)'
  BY <1>13, <1>14, <1>15, <1>16 DEF PartyInv
<1> QED BY <1>2, <1>8, <1>9, <1>10, <1>13, <1>14, <1>17, QuietCombine

---------------------------------------------------------------------------
(* Waiting for a sender thread moves nothing.                              *)
LEMMA WaitSentTransfer ==
  ASSUME TransferInv, NEW p \in Parties, WaitSent(p)
  PROVE  TransferInv'
<1>1. /\ PlanInv /\ QueueInv /\ Shapes /\ Doing(p, "sent")
      /\ UNCHANGED <<mainVars, at, link, sent, got, heard, sreq, rreq, rout, xVars>>
  BY TransferFacts DEF WaitSent
<1>2. QueueInv' /\ Proceed(p)
  BY <1>1, SentQueues
<1> PICK s : s = NextStep(p)
  OBVIOUS
<1>3. /\ s \in todo[p] /\ s.do = "sent" /\ at[p] # 0 /\ Call(Op(p)) /\ Threaded(Op(p))
      /\ todo[p] \subseteq WaitsPlan(Op(p), p)
  BY <1>1, WaitPlan DEF Doing
<1>4. /\ todo'[p] = todo[p] \ {s}
      /\ \A r \in Parties : r # p => todo'[r] = todo[r]
  BY <1>1, <1>2, ProceedFacts
<1>5. \A t : t.do \in {"rounds", "received"} => (t \in todo'[p] <=> t \in todo[p])
  BY <1>3, <1>4
<1>6. ASSUME NEW r \in Parties, r # p PROVE Row(r)' = Row(r)
  BY <1>1, <1>4, <1>6 DEF Row, xVars
<1>7. /\ UNCHANGED mainVars /\ at' = at /\ link' = link /\ sent' = sent /\ got' = got /\ heard' = heard
      /\ sreq' = sreq /\ rreq' = rreq /\ rout' = rout /\ moved' = moved
  BY <1>1 DEF xVars
<1>8. Shapes'
  BY <1>1, <1>7 DEF Shapes, QueueShape
<1>9. ASSUME NEW q \in Parties
      PROVE  /\ SendPair(p, q)' /\ ReceivePair(p, q)' /\ HeardPair(p, q)'
             /\ \A e : HasSent(p, q, e)' <=> HasSent(p, q, e)
             /\ \A e : HasGot(p, q, e)' <=> HasGot(p, q, e)
  <2>1. /\ Owing(p, q)' <=> Owing(p, q)
        /\ Expecting(p, q)' <=> Expecting(p, q)
        /\ Missing(p, q)' <=> Missing(p, q)
    BY <1>5, <1>7, StepsKept
  <2>2. SendPair(p, q) /\ ReceivePair(p, q) /\ HeardPair(p, q)
    BY TransferFacts
  <2> QED BY <1>7, <2>1, <2>2, SendKept, GotKept, HeardKept
<1>10. PartyInv(p)'
  <2>1. \A t \in todo'[p] : t.do \notin {"open", "rounds"}
    <3>1. \A t \in WaitsPlan(Op(p), p) : t.do \notin {"open", "rounds"}
      BY <1>3, WaitsFacts DEF WaitStep
    <3> QED BY <1>3, <1>4, <3>1
  <2>2. OpenParty(p)'
    BY <2>1 DEF OpenParty
  <2>3. ~moved'[p]
    BY <1>7, TransferFacts DEF PlaceParty
  <2>4. PlaceParty(p)'
    BY <2>1, <2>3 DEF PlaceParty
  <2> QED BY <1>9, <2>2, <2>4 DEF PartyInv
<1> QED BY <1>2, <1>6, <1>7, <1>8, <1>9, <1>10, QuietCombine

(* The message that a receiver thread hands over.                          *)
LEMMA HandsOver ==
  ASSUME TransferInv, NEW p \in Parties, WaitReceived(p)
  PROVE  \E q \in Hears(p) :
           /\ q \in Parties /\ q # p
           /\ NextStep(p) \in todo[p] /\ ReceivedStep(NextStep(p), p, q)
           /\ rout' = [rout EXCEPT ![p][q] = <<>>]
           /\ heard' = [heard EXCEPT ![p][q] = R!Message(at[p], q)]
           /\ heard[p][q] = <<>>
           /\ rreq[p][q] = <<>>
           /\ at[p] # 0
<1>1. PlanInv /\ QueueInv /\ Shapes /\ Doing(p, "received")
  BY TransferFacts DEF WaitReceived
<1> PICK s : s = NextStep(p)
  OBVIOUS
<1>2. /\ s \in todo[p] /\ s \in WaitsPlan(Op(p), p) /\ s.do = "received" /\ at[p] # 0
      /\ Call(Op(p))
  BY <1>1, WaitPlan DEF Doing
<1>3. PICK q \in R!Hears(Op(p), p) : s.xs = {<<p, q>>}
  BY <1>2, WaitsFacts DEF WaitStep
<1>4. q \in Parties /\ q # p
  BY <1>2, <1>3, PeerFacts
<1>5. ReceivedStep(s, p, q) /\ Awaiting(todo[p], p, q)
  BY <1>2, <1>3 DEF Awaiting, ReceivedStep
<1>6. /\ rout[p][q] # <<>> /\ rout' = [rout EXCEPT ![p][q] = Tail(@)]
      /\ heard' = [heard EXCEPT ![p][q] = Head(rout[p][q]).units]
  <2>1. PICK x \in s.xs : /\ rout[p][x[2]] # <<>>
                         /\ rout' = [rout EXCEPT ![p][x[2]] = Tail(@)]
                         /\ heard' = [heard EXCEPT ![p][x[2]] = Head(rout[p][x[2]]).units]
    BY DEF WaitReceived
  <2>2. x[2] = q
    BY <1>3, <2>1
  <2> QED BY <2>1, <2>2
<1>7. PICK a : rout[p][q] = <<a>> /\ rreq[p][q] = <<>>
  BY <1>1, <1>4, <1>5, <1>6 DEF QueueInv, OwedAnswer
<1>8. Head(<<a>>) = a /\ Tail(<<a>>) = <<>>
  OBVIOUS
<1>9. a.units = R!Message(at[p], q) /\ heard[p][q] = <<>>
  <2>1. HeardPair(p, q) /\ Missing(p, q)
    BY <1>4, <1>5, TransferFacts DEF Missing
  <2> QED BY <1>7, <2>1 DEF HeardPair
<1>10. heard' = [heard EXCEPT ![p][q] = R!Message(at[p], q)]
  BY <1>6, <1>7, <1>8, <1>9
<1>11. rout' = [rout EXCEPT ![p][q] = <<>>]
  BY <1>6, <1>7, <1>8
<1> QED BY <1>2, <1>3, <1>4, <1>5, <1>7, <1>9, <1>10, <1>11 DEF Hears

(* Waiting for a receiver thread.                                          *)
LEMMA WaitReceivedTransfer ==
  ASSUME TransferInv, NEW p \in Parties, WaitReceived(p)
  PROVE  TransferInv'
<1>1. /\ PlanInv /\ QueueInv /\ Shapes /\ Doing(p, "received")
      /\ UNCHANGED <<mainVars, at, link, sent, got, sreq, sout, rreq, xVars>>
  BY TransferFacts DEF WaitReceived
<1>2. QueueInv' /\ Proceed(p)
  BY <1>1, ReceivedQueues
<1> PICK s : s = NextStep(p)
  OBVIOUS
<1>3. /\ s \in todo[p] /\ at[p] # 0 /\ Call(Op(p)) /\ Threaded(Op(p))
      /\ s \in WaitsPlan(Op(p), p) /\ todo[p] \subseteq WaitsPlan(Op(p), p)
  BY <1>1, WaitPlan
<1>4. /\ todo'[p] = todo[p] \ {s}
      /\ \A r \in Parties : r # p => todo'[r] = todo[r]
  BY <1>1, <1>2, ProceedFacts
<1>5. PICK q \in Hears(p) :
        /\ q \in Parties /\ q # p
        /\ ReceivedStep(s, p, q)
        /\ rout' = [rout EXCEPT ![p][q] = <<>>]
        /\ heard' = [heard EXCEPT ![p][q] = R!Message(at[p], q)]
        /\ rreq[p][q] = <<>>
  BY HandsOver
<1>6. QueueShape(rout) /\ QueueShape(heard)
  BY <1>1 DEF Shapes, QueueInv
<1>7. /\ heard'[p][q] = R!Message(at[p], q) /\ rout'[p][q] = <<>>
      /\ \A u \in Parties : u # q => heard'[p][u] = heard[p][u] /\ rout'[p][u] = rout[p][u]
      /\ \A r \in Parties : r # p => heard'[r] = heard[r] /\ rout'[r] = rout[r]
  BY <1>5, <1>6 DEF QueueShape
<1>8. /\ UNCHANGED mainVars /\ at' = at /\ link' = link /\ sent' = sent /\ got' = got
      /\ sreq' = sreq /\ rreq' = rreq /\ moved' = moved
  BY <1>1 DEF xVars
<1>9. Shapes'
  <2>1. QueueShape(heard)'
    BY <1>5, <1>6 DEF QueueShape
  <2> QED BY <1>1, <1>8, <2>1 DEF Shapes, QueueShape
<1>10. ASSUME NEW r \in Parties, r # p PROVE Row(r)' = Row(r)
  BY <1>4, <1>7, <1>8, <1>10 DEF Row
<1>11. \A t \in todo[p] : t.do \in {"sent", "received"}
  BY <1>3, WaitsFacts DEF WaitStep
<1>12. ASSUME NEW u \in Parties
       PROVE  /\ Owing(p, u)' <=> Owing(p, u)
              /\ Expecting(p, u)' <=> Expecting(p, u)
              /\ u # q => (Missing(p, u)' <=> Missing(p, u))
              /\ ~Missing(p, q)'
  <2>1. \A t \in todo[p] : ~RoundTo(t, u) /\ ~RoundFrom(t, u) /\ ~RoundFrom(t, q)
    BY <1>11 DEF RoundTo, RoundFrom
  <2>2. \A t \in todo'[p] : ~RoundTo(t, u) /\ ~RoundFrom(t, u) /\ ~RoundFrom(t, q)
    BY <1>4, <2>1
  <2>3. (Owing(p, u)' <=> Owing(p, u)) /\ (Expecting(p, u)' <=> Expecting(p, u))
    BY <1>8, <2>1, <2>2 DEF Owing, Expecting
  <2>4. ASSUME u # q PROVE Awaiting(todo'[p], p, u) <=> Awaiting(todo[p], p, u)
    <3>1. ~ReceivedStep(s, p, u)
      <4>1. PICK v : s.xs = {<<p, v>>}
        BY <1>3, <1>5, WaitsFacts DEF WaitStep, ReceivedStep
      <4>2. v = q
        BY <1>5, <4>1 DEF ReceivedStep
      <4> QED BY <2>4, <4>1, <4>2 DEF ReceivedStep
    <3> QED BY <1>4, <3>1 DEF Awaiting
  <2>5. ~Awaiting(todo'[p], p, q)
    BY <1>3, <1>4, <1>5, WaitsFacts DEF Awaiting
  <2> QED BY <2>1, <2>2, <2>3, <2>4, <2>5 DEF Missing
<1>13. ASSUME NEW u \in Parties
       PROVE  /\ SendPair(p, u)' /\ ReceivePair(p, u)'
              /\ \A e : HasSent(p, u, e)' <=> HasSent(p, u, e)
              /\ \A e : HasGot(p, u, e)' <=> HasGot(p, u, e)
  <2>1. SendPair(p, u) /\ ReceivePair(p, u)
    BY TransferFacts
  <2> QED BY <1>8, <1>12, <2>1, SendKept, GotKept
<1>14. ASSUME NEW u \in Parties PROVE HeardPair(p, u)'
  <2>1. CASE u = q
    <3>1. Hears(p)' = Hears(p) /\ R!Message(at[p], q)' = R!Message(at[p], q)
      BY <1>8 DEF Hears, Op, R!Hears, R!Message, mainVars
    <3>2. ~Missing(p, u)' /\ at'[p] # 0 /\ heard'[p][u] = R!Message(at[p], q) /\ rout'[p][u] = <<>>
      BY <1>3, <1>7, <1>8, <1>12, <2>1
    <3>3. \A a : <<>> # <<a>>
      OBVIOUS
    <3> QED BY <1>5, <2>1, <3>1, <3>2, <3>3 DEF HeardPair
  <2>2. CASE u # q
    <3>1. HeardPair(p, u)
      BY TransferFacts
    <3> QED BY <1>7, <1>8, <1>12, <2>2, <3>1, HeardKept
  <2> QED BY <2>1, <2>2
<1>15. OpenParty(p)' /\ PlaceParty(p)'
  <2>1. \A t \in todo'[p] : t.do \notin {"open", "rounds"}
    BY <1>4, <1>11
  <2>2. OpenParty(p)'
    BY <2>1 DEF OpenParty
  <2>3. ~moved'[p]
    BY <1>8, TransferFacts DEF PlaceParty
  <2>4. PlaceParty(p)'
    BY <2>1, <2>3 DEF PlaceParty
  <2> QED BY <2>2, <2>4
<1>16. PartyInv(p)'
  BY <1>13, <1>14, <1>15 DEF PartyInv
<1> QED BY <1>2, <1>8, <1>9, <1>10, <1>13, <1>16, QuietCombine

(* TransferInv is inductive if buffers exchanged in place have room.       *)
LEMMA TransferNext ==
  ASSUME Roomy, TransferInv, [Next]_vars
  PROVE  TransferInv'
<1>1. ASSUME NEW p \in Parties, Round(p) PROVE TransferInv'
  <2>1. PICK x \in NextStep(p).xs : Send(p, x) \/ Receive(p, x)
    BY <1>1 DEF Round
  <2> QED BY <1>1, <2>1, SendTransfer, ReceiveTransfer DEF Round
<1>2. CASE Done \/ UNCHANGED vars
  <2>1. /\ UNCHANGED <<mainVars, at, todo, link, sent, got, heard, sreq, rreq, rout, moved>>
        /\ UNCHANGED vars
    BY <1>2 DEF Done, vars, mainVars, queueVars, xVars
  <2>2. QueueInv'
    BY <2>1, QueueNext, TransferFacts
  <2>3. Shapes'
    BY <2>1, TransferFacts DEF Shapes, QueueShape
  <2>4. ASSUME NEW p \in Parties
        PROVE  /\ PartyInv(p)'
               /\ \A q : \A e : (HasSent(p, q, e)' <=> HasSent(p, q, e)) /\ (HasGot(p, q, e)' <=> HasGot(p, q, e))
    <3>1. UNCHANGED Row(p) /\ PartyInv(p) /\ UNCHANGED mainVars
      BY <2>1 DEF TransferInv, Row
    <3> QED BY <3>1, PartyKept
  <2>5. ASSUME NEW s \in Sockets, NEW p \in Parties, NEW q \in Parties, p # q
        PROVE  FlowPair(s, p, q)'
    <3>1. FlowPair(s, p, q) /\ link'[s][p][q] = link[s][p][q] /\ UNCHANGED mainVars
      BY <2>1, <2>5 DEF TransferInv, FlowInv
    <3> QED BY <2>4, <3>1, FlowKept
  <2> QED BY <2>2, <2>3, <2>4, <2>5 DEF TransferInv, FlowInv
<1> QED BY <1>1, <1>2, BeginTransfer, OpenTransfer, EndTransfer, WaitSentTransfer,
           WaitReceivedTransfer, SenderTransfer, ReceiverTransfer DEF Next, Main

---------------------------------------------------------------------------
(* A message from q has come, thus q has begun the operation.              *)
LEMMA BegunBefore ==
  ASSUME TransferInv, NEW p \in Parties, at[p] # 0, NEW q \in Hears(p), q \in Parties, q # p,
         Expecting(p, q) => Len(got[p][q]) # 0
  PROVE  at[q] >= at[p]
<1> DEFINE e == <<at[p], 0>>
           s == Socket(at[p], q, p)
<1>1. PlanInv /\ at[p] \in Nat /\ at[q] \in Nat /\ prog[at[p]].size[q] \in Nat
  BY TransferFacts, AtFacts
<1>2. e \in Parts(s, q, p) /\ s \in Sockets /\ e[1] = at[p] /\ e[2] = 0
  BY <1>1, PlacePart, SocketFacts
<1>3. HasGot(p, q, e)
  <2>1. Expecting(p, q) => 0 < Len(got[p][q])
    <3>1. Expecting(p, q) => Len(got[p][q]) \in Nat
      BY TransferFacts DEF ReceivePair, IsPart
    <3> QED BY <3>1
  <2> QED BY <1>2, <2>1 DEF HasGot, Past
<1>4. HasSent(q, p, e)
  <2>1. FlowPair(s, q, p)
    BY <1>2 DEF TransferInv, FlowInv
  <2> QED BY <1>2, <1>3, <2>1 DEF FlowPair
<1> QED BY <1>1, <1>2, <1>4 DEF HasSent, Past

(* Begin is Enter.                                                         *)
LEMMA BeginEnters ==
  ASSUME TransferInv, NEW p \in Parties, Begin(p)
  PROVE  R!Enter(p)
<1>1. at[p] \in Nat /\ QueueInv /\ todo[p] = {}
  BY TransferFacts, AtFacts DEF Begin
<1>2. R!HeardAll(p)
  <2> SUFFICES ASSUME at[p] > 0, NEW q \in R!Hears(prog[at[p]], p)
               PROVE  heard[p][q] = R!Message(at[p], q)
    BY DEF R!HeardAll
  <2>1. q \in Parties /\ q \in Hears(p) /\ at[p] # 0
    BY <1>1 DEF R!Hears, Hears, Op
  <2>2. ~Missing(p, q) /\ HeardPair(p, q)
    BY <1>1, <2>1, IdleFacts, TransferFacts
  <2> QED BY <2>1, <2>2 DEF HeardPair
<1>3. /\ at[p] < Len(prog) /\ prog' = prog
      /\ at' = [at EXCEPT ![p] = @ + 1]
      /\ heard' = [heard EXCEPT ![p] = [q \in Parties |-> <<>>]]
  BY DEF Begin, mainVars, Nothing
<1> QED BY <1>2, <1>3 DEF R!Enter

(* The receiver thread's message is heard when it is waited for.           *)
LEMMA WaitHears ==
  ASSUME TransferInv, NEW p \in Parties, WaitReceived(p)
  PROVE  \E S \in SUBSET Parties : R!Hear(p, S)
<1>1. /\ PlanInv /\ Shapes /\ Doing(p, "received") /\ prog' = prog /\ at' = at
  BY TransferFacts DEF WaitReceived, mainVars
<1>2. PICK q \in Hears(p) :
        /\ q \in Parties /\ q # p
        /\ heard' = [heard EXCEPT ![p][q] = R!Message(at[p], q)]
        /\ heard[p][q] = <<>> /\ rreq[p][q] = <<>> /\ at[p] # 0
  BY HandsOver
<1>3. at[q] >= at[p]
  <2>1. \A t \in todo[p] : t.do # "rounds"
    <3>1. todo[p] \subseteq WaitsPlan(Op(p), p) /\ Call(Op(p))
      BY <1>1, WaitPlan
    <3> QED BY <3>1, WaitsFacts DEF WaitStep
  <2>2. ~Expecting(p, q)
    BY <1>2, <2>1 DEF Expecting, RoundFrom
  <2> QED BY <1>2, <2>2, BegunBefore
<1>4. heard' = [heard EXCEPT ![p] =
                  [r \in Parties |-> IF r \in {q} THEN R!Message(at[p], r) ELSE @[r]]]
  <2>1. QueueShape(heard)
    BY <1>1 DEF Shapes
  <2> QED BY <1>2, <2>1 DEF QueueShape
<1>5. at[p] > 0 /\ q \in R!Hears(prog[at[p]], p)
  <2>1. at[p] \in Nat
    BY <1>1, AtFacts
  <2> QED BY <1>2, <2>1 DEF Hears, Op
<1>6. R!Hear(p, {q})
  BY <1>1, <1>2, <1>3, <1>4, <1>5 DEF R!Hear
<1> QED BY <1>2, <1>6

(* All messages of the Exchangers that are done are heard at once.         *)
LEMMA EndHears ==
  ASSUME TransferInv, NEW p \in Parties, EndRounds(p)
  PROVE  \E S \in SUBSET Parties : R!Hear(p, S)
<1> PICK s : s = NextStep(p)
  OBVIOUS
<1> PICK S : S = {q \in Parties : q # p /\ RoundFrom(s, q)}
  OBVIOUS
<1>1. /\ PlanInv /\ Shapes /\ Doing(p, "rounds") /\ prog' = prog /\ at' = at
  BY TransferFacts DEF EndRounds, mainVars
<1>2. /\ s \in todo[p] /\ s.do = "rounds" /\ at[p] # 0 /\ Call(Op(p)) /\ ~Threaded(Op(p))
  BY <1>1, StepFacts
<1>3. at[p] > 0
  BY <1>1, <1>2, AtFacts
<1>4. ASSUME NEW q \in S
      PROVE  /\ q \in R!Hears(prog[at[p]], p) /\ heard[p][q] = <<>> /\ at[q] >= at[p]
             /\ got[p][q] = R!Message(at[p], q)
  <2>1. q \in Parties /\ q # p /\ RoundFrom(s, q)
    OBVIOUS
  <2>2. /\ Len(got[p][q]) = prog[at[p]].size[q] + 1
        /\ prog[at[p]].size[q] \in Nat
        /\ got[p][q] = R!Message(at[p], q) /\ q \in Hears(p)
    BY <2>1, RoundsDone
  <2>3. heard[p][q] = <<>>
    <3>1. Missing(p, q)
      BY <1>2, <2>1 DEF Missing
    <3> QED BY <2>1, <3>1, TransferFacts DEF HeardPair
  <2>4. Len(got[p][q]) # 0
    BY <2>2
  <2>5. at[q] >= at[p]
    BY <1>2, <2>1, <2>2, <2>4, BegunBefore
  <2> QED BY <2>2, <2>3, <2>5 DEF Hears, Op
<1>5. heard' = [heard EXCEPT ![p] =
                  [q \in Parties |-> IF RoundFrom(s, q) THEN got[p][q] ELSE @[q]]]
  <2>1. \A q : q \in {x[2] : x \in NextStep(p).xs} <=> RoundFrom(s, q)
    BY <1>2 DEF RoundFrom
  <2> QED BY <2>1 DEF EndRounds
<1>6. got[p][p] = heard[p][p]
  <2>1. ~Expecting(p, p) /\ ~Missing(p, p) /\ ReceivePair(p, p) /\ HeardPair(p, p)
    BY TransferFacts DEF Expecting, Missing
  <2>2. p \notin Hears(p)
    BY <1>2, PeerFacts DEF Hears
  <2> QED BY <1>2, <2>1, <2>2 DEF ReceivePair, HeardPair
<1>7. ASSUME NEW q \in Parties
      PROVE  (IF RoundFrom(s, q) THEN got[p][q] ELSE heard[p][q]) =
             (IF q \in S THEN R!Message(at[p], q) ELSE heard[p][q])
  <2>1. CASE q \in S
    <3>1. RoundFrom(s, q)
      BY <2>1
    <3> QED BY <1>4, <2>1, <3>1
  <2>2. CASE q \notin S
    BY <1>6, <2>2
  <2> QED BY <2>1, <2>2
<1>8. heard' = [heard EXCEPT ![p] =
                  [q \in Parties |-> IF q \in S THEN R!Message(at[p], q) ELSE @[q]]]
  <2>1. QueueShape(heard)
    BY <1>1 DEF Shapes
  <2>2. [q \in Parties |-> IF RoundFrom(s, q) THEN got[p][q] ELSE heard[p][q]] =
        [q \in Parties |-> IF q \in S THEN R!Message(at[p], q) ELSE heard[p][q]]
    BY <1>7
  <2> QED BY <1>5, <2>1, <2>2 DEF QueueShape
<1>9. R!Hear(p, S)
  BY <1>1, <1>3, <1>4, <1>8 DEF R!Hear
<1> QED BY <1>9

(* Every step is one of the abstract rounds or leaves them alone.          *)
LEMMA RoundsNext ==
  ASSUME TransferInv, [Next]_vars
  PROVE  [R!Next]_(R!vars)
<1>1. ASSUME NEW p \in Parties, Open(p) \/ Round(p) \/ WaitSent(p)
      PROVE  UNCHANGED R!vars
  BY <1>1 DEF Open, Round, Send, Receive, WaitSent, mainVars, R!vars
<1>2. ASSUME NEW p \in Parties, NEW q \in Parties, SenderRun(p, q) \/ ReceiverRun(p, q)
      PROVE  UNCHANGED R!vars
  BY <1>2 DEF SenderRun, ReceiverRun, mainVars, R!vars
<1>3. ASSUME Done \/ UNCHANGED vars PROVE UNCHANGED R!vars
  BY <1>3 DEF Done, vars, R!vars
<1>4. ASSUME NEW p \in Parties, Begin(p) \/ EndRounds(p) \/ WaitReceived(p)
      PROVE  R!Next
  BY <1>4, BeginEnters, EndHears, WaitHears DEF R!Next
<1> QED BY <1>1, <1>2, <1>3, <1>4 DEF Next, Main

(* If buffers exchanged in place have room, the players provide the        *)
(* abstract rounds, message by message: every party hears what the others  *)
(* contributed to this very operation, once they have begun it, and begins *)
(* no other before it has heard them all.                                  *)
THEOREM RoundsSteps == Roomy => (Spec => R!Spec)
<1>1. Init => R!Init
  BY DEF Init, Nothing, R!Init
<1>2. ASSUME Roomy
      PROVE  Spec => R!Spec
  <2>1. TransferInv /\ [Next]_vars => TransferInv' /\ [R!Next]_(R!vars)
    BY <1>2, TransferNext, RoundsNext
  <2> QED BY <1>1, <2>1, TransferInit, PTL DEF Spec, R!Spec
<1> QED BY <1>2

(* They deliver the contents of the sender's buffer when it called the     *)
(* operation, also if the buffer is received into while it is sent.        *)
THEOREM RoomEnough == Roomy => (Spec => []Delivered)
<1>1. TransferInv => Delivered
  <2> SUFFICES ASSUME TransferInv, NEW p \in Parties, NEW q \in Parties, heard[p][q] # <<>>
               PROVE  heard[p][q] = R!Message(at[p], q)
    BY DEF Delivered
  <2>1. HeardPair(p, q)
    BY TransferFacts
  <2> QED BY <2>1 DEF HeardPair
<1>2. ASSUME Roomy
      PROVE  Spec => []Delivered
  <2>1. TransferInv /\ [Next]_vars => TransferInv'
    BY <1>2, TransferNext
  <2> QED BY <1>1, <2>1, TransferInit, PTL DEF Spec
<1> QED BY <1>2
=============================================================================
