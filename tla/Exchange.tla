----------------------------- MODULE Exchange -----------------------------
(***************************************************************************)
(* The collective operations of a player: broadcast, sending on any set of *)
(* channels, and passing around or exchanging with one party, possibly in  *)
(* place.  N parties run the same program of such operations with one      *)
(* stream per pair and direction, whose buffers hold less than a message.  *)
(*                                                                         *)
(* The plain player (MultiPlayer<int>) uses an Exchanger per message: it   *)
(* sends the length when it is constructed, and then sends and receives    *)
(* without blocking what it can, round by round.  The player with TLS      *)
(* (CryptoPlayer) has a Sender and a Receiver thread per peer, asks them   *)
(* for all transfers of an operation and waits for each; only an exchange  *)
(* in place goes through an Exchanger, whose sends and receives then block *)
(* (ssl_sockets.h).                                                        *)
(*                                                                         *)
(* A message is its length and size units of data (a unit is what one send *)
(* transfers, a TLS record for the player with TLS).  Unsuccessful calls   *)
(* of the non-blocking functions are stuttering steps.                     *)
(***************************************************************************)
EXTENDS Integers, Sequences, FiniteSets

CONSTANTS
  N,          \* number of parties
  Programs,   \* sequences of operations
  PlainCap,   \* units a stream of the plain player buffers
  TlsCap,     \* units a stream of the player with TLS buffers
  Spare       \* allocation of a buffer exchanged in place beyond its length

ASSUME SizeAssumption ==
  /\ N \in Nat \ {0}
  /\ PlainCap \in Nat \ {0}
  /\ TlsCap \in Nat \ {0}
  /\ Spare \in Nat

Parties == 0 .. N - 1

(* Everybody calls the same operations.  chan says who sends to whom and   *)
(* size how much; passing around has one peer in each direction.           *)
Kinds == {"broadcast", "channels", "pass", "inplace"}
Channels == {e \in Parties \X Parties : e[1] # e[2]}
Operations == [kind : Kinds, chan : SUBSET Channels, size : [Parties -> Nat]]
OnePeer(o) ==
  \A c, d \in o.chan : (c[1] = d[1]) <=> (c[2] = d[2])

ASSUME ProgramAssumption ==
  /\ Programs \subseteq Seq(Operations)
  /\ \A pr \in Programs : \A k \in DOMAIN pr :
       /\ pr[k].kind = "broadcast" => pr[k].chan = Channels
       /\ pr[k].kind \in {"pass", "inplace"} => OnePeer(pr[k])

VARIABLES
  prog,       \* the program all parties run
  tls,        \* whether the parties use CryptoPlayer
  at,         \* at[p]: operations p has begun
  todo,       \* todo[p]: the steps left of p's operation
  link,       \* link[s][p][q]: units in transit from p to q on socket s
  sent,       \* sent[p][q]: units sent of the message p is sending to q
  got,        \* got[p][q]: units received of the message p is receiving from q
  heard,      \* heard[p][q]: message from q in p's operation, once received
  sreq, sout, \* queues of requests to and answers from Sender q of p
  rreq, rout, \* the same of Receiver q of p; answers carry the message
  turn,       \* turn[p]: next half of a blocking Exchanger round
  moved       \* moved[p]: the buffer has moved away from Exchanger::data

mainVars == <<prog, tls>>
queueVars == <<sreq, sout, rreq, rout>>
xVars == <<turn, moved>>
vars == <<prog, tls, at, todo, link, sent, got, heard, queueVars, xVars>>

R == INSTANCE Rounds

Max(a, b) == IF a > b THEN a ELSE b
Nothing == [q \in Parties |-> <<>>]

(* The operation p is in.                                                  *)
Op(p) == prog[at[p]]
Size(p) == Op(p).size[p]
InPlace(p) == Op(p).kind = "inplace"
Sends(p) == R!Sends(Op(p), p)
Hears(p) == R!Hears(Op(p), p)

(* CryptoPlayer leaves the transfers to its threads.                       *)
Threaded(o) == tls /\ o.kind # "inplace"

GetPlayer(p, offset) == (p + offset) % N

(* An Exchanger, by the peers it sends to and receives from; p stands for  *)
(* none.  A call that only sends or only receives is of the same form.     *)
Pick(S, p) == IF S = {} THEN p ELSE CHOOSE q \in S : TRUE
Exchanger(o, p, offset) ==
  LET to == GetPlayer(p, offset)
      from == GetPlayer(p, N - offset)
  IN  IF o.kind \in {"pass", "inplace"}
      THEN <<Pick(R!Sends(o, p), p), Pick(R!Hears(o, p), p)>>
      ELSE <<IF to \in R!Sends(o, p) THEN to ELSE p,
             IF from \in R!Hears(o, p) THEN from ELSE p>>

(* A step of an operation's plan; the steps are taken by their numbers.    *)
Step(nr, do, xs) == [nr |-> nr, do |-> do, xs |-> xs]
Stages(o) == IF o.kind \in {"pass", "inplace"} THEN 1 ELSE N - 1

(* Broadcast_Receive_no_stats constructs all Exchangers, then calls round  *)
(* on each in turn; send_receive_all_no_stats finishes one peer before it  *)
(* goes on to the next.                                                    *)
RoundsPlan(o, p) ==
  LET X(j) == {Exchanger(o, p, j)}
      stages == 1 .. Stages(o)
      Opens == {Step(2 * j - 1, "open", X(j)) : j \in stages}
      Rounds == {Step(2 * j, "rounds", X(j)) : j \in stages}
      AllRounds == {Step(2 * N, "rounds", UNION {X(j) : j \in stages})}
      Used(s) == IF s.do = "open"
                 THEN \A x \in s.xs : x[1] # p
                 ELSE s.xs # {<<p, p>>}
  IN  {s \in Opens \cup (IF o.kind = "broadcast" THEN AllRounds ELSE Rounds) : Used(s)}

(* The order in which CryptoPlayer waits for what it has requested.        *)
Waits(o, p) ==
  LET One == Exchanger(o, p, 1)
      Peer(j) == GetPlayer(p, j)
  IN  IF o.kind = "pass"
      THEN {Step(1, "sent", {<<One[1], p>>}), Step(2, "received", {<<p, One[2]>>})}
      ELSE {Step(2 * j - 1, "sent", {<<Peer(j), p>>}) : j \in 1 .. N - 1} \cup
           {Step(2 * j, "received", {<<p, Peer(j)>>}) : j \in 1 .. N - 1}

(* Mutant: passing around returns with the message, still sending.         *)
WaitsPlanReceiveOnly(o, p) ==
  {s \in Waits(o, p) : \A x \in s.xs : IF s.do = "sent"
                                       THEN x[1] \in R!Sends(o, p) /\ o.kind # "pass"
                                       ELSE x[2] \in R!Hears(o, p)}

WaitsPlan(o, p) ==
  {s \in Waits(o, p) : \A x \in s.xs : IF s.do = "sent" THEN x[1] \in R!Sends(o, p)
                                       ELSE x[2] \in R!Hears(o, p)}

Plan(o, p) == IF Threaded(o) THEN WaitsPlan(o, p) ELSE RoundsPlan(o, p)

Init ==
  /\ prog \in Programs
  /\ tls \in BOOLEAN
  /\ at = [p \in Parties |-> 0]
  /\ todo = [p \in Parties |-> {}]
  /\ link = [s \in 0 .. 1 |-> [p \in Parties |-> Nothing]]
  /\ sent = [p \in Parties |-> [q \in Parties |-> 0]]
  /\ got = [p \in Parties |-> Nothing]
  /\ heard = [p \in Parties |-> Nothing]
  /\ sreq = [p \in Parties |-> Nothing]
  /\ sout = [p \in Parties |-> Nothing]
  /\ rreq = [p \in Parties |-> Nothing]
  /\ rout = [p \in Parties |-> Nothing]
  /\ turn = [p \in Parties |-> "send"]
  /\ moved = [p \in Parties |-> FALSE]

(***************************************************************************)
(* Streams.  Sender threads use sockets[q] towards lower parties and       *)
(* other_sockets[q] towards higher ones; everything else sockets[q].       *)
(***************************************************************************)
Socket(k, p, q) == IF Threaded(prog[k]) /\ p < q THEN 1 ELSE 0
Cap == IF tls THEN TlsCap ELSE PlainCap

Put(k, p, q, u) ==
  LET s == Socket(k, p, q) IN
  /\ Len(link[s][p][q]) < Cap
  /\ link' = [link EXCEPT ![s][p][q] = Append(@, u)]

Arrived(k, q, p) == link[Socket(k, q, p)][q][p]
Take(k, q, p) == link' = [link EXCEPT ![Socket(k, q, p)][q][p] = Tail(@)]

(* All of a message has been received: its length says so.                 *)
Complete(units) == units # <<>> /\ Len(units) = 1 + Head(units).of

(***************************************************************************)
(* The operations' callers.                                                *)
(***************************************************************************)
Push(queues, S, k) ==
  [q \in Parties |-> IF q \in S THEN Append(queues[q], k) ELSE queues[q]]

(* A call of the next operation; CryptoPlayer makes all requests first.    *)
Begin(p) ==
  LET k == at[p] + 1
      asks == Threaded(prog[k])
  IN
  /\ todo[p] = {}
  /\ at[p] < Len(prog)
  /\ at' = [at EXCEPT ![p] = k]
  /\ todo' = [todo EXCEPT ![p] = Plan(prog[k], p)]
  /\ heard' = [heard EXCEPT ![p] = Nothing]
  /\ sreq' = IF asks THEN [sreq EXCEPT ![p] = Push(@, R!Sends(prog[k], p), k)] ELSE sreq
  /\ rreq' = IF asks THEN [rreq EXCEPT ![p] = Push(@, R!Hears(prog[k], p), k)] ELSE rreq
  /\ turn' = [turn EXCEPT ![p] = "send"]
  /\ moved' = [moved EXCEPT ![p] = FALSE]
  /\ UNCHANGED <<mainVars, link, sent, got, sout, rout>>

NextStep(p) == CHOOSE s \in todo[p] : \A r \in todo[p] : s.nr <= r.nr
Doing(p, do) == todo[p] # {} /\ NextStep(p).do = do
Proceed(p) == todo' = [todo EXCEPT ![p] = @ \ {NextStep(p)}]

(* Exchanger::Exchanger: the length is sent at once, blocking.             *)
Open(p) ==
  /\ Doing(p, "open")
  /\ \E x \in NextStep(p).xs :
       /\ Put(at[p], p, x[1], R!Unit(at[p], p, 0, Size(p)))
       /\ sent' = [sent EXCEPT ![p][x[1]] = 1]
  /\ Proceed(p)
  /\ UNCHANGED <<mainVars, at, got, heard, queueVars, xVars>>

(* Unit i of the buffer that is being sent.  In place, what has been       *)
(* received is in the same buffer; when the buffer has been enlarged, data *)
(* points to the memory that was freed, with any content.                  *)
Junk(p) == R!Unit(0, p, 0, 0)
Content(p, from, i) ==
  IF moved[p] THEN {R!Unit(at[p], p, i, Size(p)), Junk(p)}
  ELSE IF InPlace(p) /\ Len(got[p][from]) > i THEN {got[p][from][i + 1]}
  ELSE {R!Unit(at[p], p, i, Size(p))}

SentAll(p, x) == x[1] = p \/ sent[p][x[1]] = 1 + Size(p)
ReceivedAll(p, x) == x[2] = p \/ Complete(got[p][x[2]])

(* A round sends, then receives; without blocking, either may do nothing,  *)
(* so that the order does not matter.                                      *)
MaySend(p, x) == ~tls \/ turn[p] = "send" \/ ReceivedAll(p, x)

(* Mutant: the whole message is sent before anything is received.          *)
MayReceiveAfterSending(p, x) == SentAll(p, x)

MayReceive(p, x) == ~tls \/ turn[p] = "receive" \/ SentAll(p, x)

SetTurn(p, half) == turn' = IF tls THEN [turn EXCEPT ![p] = half] ELSE turn

Send(p, x) ==
  /\ MaySend(p, x)
  /\ ~SentAll(p, x)
  /\ \E u \in Content(p, x[2], sent[p][x[1]]) : Put(at[p], p, x[1], u)
  /\ sent' = [sent EXCEPT ![p][x[1]] = @ + 1]
  /\ SetTurn(p, "receive")
  /\ UNCHANGED <<mainVars, at, todo, got, heard, queueVars, moved>>

(* Mutant: receives all there is.                                          *)
FitsAlways(p, x) == TRUE

(* In place, no more is received than has been sent unless all has been:   *)
(* to_receive.  The length comes first and needs no place.                 *)
Fits(p, x) ==
  \/ ~InPlace(p)
  \/ got[p][x[2]] = <<>>
  \/ SentAll(p, x)
  \/ sent[p][x[1]] > Len(got[p][x[2]])

(* octetStream::resize on the arrival of the length: up to the allocation  *)
(* the buffer stays where it is.                                           *)
Moves(p, u) == InPlace(p) /\ Max(u.of, Size(p)) >= Size(p) + Spare

Receive(p, x) ==
  LET units == Arrived(at[p], x[2], p) IN
  /\ MayReceive(p, x)
  /\ ~ReceivedAll(p, x)
  /\ Fits(p, x)
  /\ units # <<>>
  /\ Take(at[p], x[2], p)
  /\ got' = [got EXCEPT ![p][x[2]] = Append(@, Head(units))]
  /\ moved' = [moved EXCEPT ![p] = @ \/ (got[p][x[2]] = <<>> /\ Moves(p, Head(units)))]
  /\ SetTurn(p, "send")
  /\ UNCHANGED <<mainVars, at, todo, sent, heard, queueVars>>

(* A call of round for some Exchanger that has something left to do.       *)
Round(p) ==
  /\ Doing(p, "rounds")
  /\ \E x \in NextStep(p).xs : Send(p, x) \/ Receive(p, x)

(* All Exchangers are done and are destroyed.                              *)
EndRounds(p) ==
  /\ Doing(p, "rounds")
  /\ \A x \in NextStep(p).xs : SentAll(p, x) /\ ReceivedAll(p, x)
  /\ LET to == {x[1] : x \in NextStep(p).xs}
         from == {x[2] : x \in NextStep(p).xs}
     IN  /\ sent' = [sent EXCEPT ![p] = [q \in Parties |-> IF q \in to THEN 0 ELSE @[q]]]
         /\ got' = [got EXCEPT ![p] = [q \in Parties |-> IF q \in from THEN <<>> ELSE @[q]]]
         /\ heard' = [heard EXCEPT ![p] =
                        [q \in Parties |-> IF q \in from THEN got[p][q] ELSE @[q]]]
  /\ Proceed(p)
  /\ UNCHANGED <<mainVars, at, link, queueVars, xVars>>

(* Sender::wait and Receiver::wait throw unless the thread's answer is the *)
(* buffer they wait for.                                                   *)
Throw == Step(0, "throw", {})
ProceedIf(p, ok) ==
  todo' = [todo EXCEPT ![p] = IF ok THEN @ \ {NextStep(p)} ELSE {Throw}]

WaitSent(p) ==
  /\ Doing(p, "sent")
  /\ \E x \in NextStep(p).xs :
       /\ sout[p][x[1]] # <<>>
       /\ sout' = [sout EXCEPT ![p][x[1]] = Tail(@)]
       /\ ProceedIf(p, Head(sout[p][x[1]]) = at[p])
  /\ UNCHANGED <<mainVars, at, link, sent, got, heard, sreq, rreq, rout, xVars>>

WaitReceived(p) ==
  /\ Doing(p, "received")
  /\ \E x \in NextStep(p).xs :
       /\ rout[p][x[2]] # <<>>
       /\ rout' = [rout EXCEPT ![p][x[2]] = Tail(@)]
       /\ ProceedIf(p, Head(rout[p][x[2]]).buffer = at[p])
       /\ heard' = [heard EXCEPT ![p][x[2]] = Head(rout[p][x[2]]).units]
  /\ UNCHANGED <<mainVars, at, link, sent, got, sreq, sout, rreq, xVars>>

Main(p) ==
  Begin(p) \/ Open(p) \/ Round(p) \/ EndRounds(p) \/ WaitSent(p) \/ WaitReceived(p)

(***************************************************************************)
(* The threads.                                                            *)
(***************************************************************************)
(* Sender::run: the request's length and data in turn, then the answer.    *)
SenderRun(p, q) ==
  /\ sreq[p][q] # <<>>
  /\ LET k == Head(sreq[p][q])
         n == prog[k].size[p]
         last == sent[p][q] = n
     IN  /\ Put(k, p, q, R!Unit(k, p, sent[p][q], n))
         /\ sent' = [sent EXCEPT ![p][q] = IF last THEN 0 ELSE @ + 1]
         /\ sreq' = IF last THEN [sreq EXCEPT ![p][q] = Tail(@)] ELSE sreq
         /\ sout' = IF last THEN [sout EXCEPT ![p][q] = Append(@, k)] ELSE sout
  /\ UNCHANGED <<mainVars, at, todo, got, heard, rreq, rout, xVars>>

ReceiverRun(p, q) ==
  /\ rreq[p][q] # <<>>
  /\ LET k == Head(rreq[p][q])
         units == Append(got[p][q], Head(Arrived(k, q, p)))
         last == Complete(units)
     IN  /\ Arrived(k, q, p) # <<>>
         /\ Take(k, q, p)
         /\ got' = [got EXCEPT ![p][q] = IF last THEN <<>> ELSE units]
         /\ rreq' = IF last THEN [rreq EXCEPT ![p][q] = Tail(@)] ELSE rreq
         /\ rout' = IF last
                    THEN [rout EXCEPT ![p][q] = Append(@, [buffer |-> k, units |-> units])]
                    ELSE rout
  /\ UNCHANGED <<mainVars, at, todo, sent, heard, sreq, sout, xVars>>

Finished == \A p \in Parties : todo[p] = {} /\ at[p] = Len(prog)
Done == Finished /\ UNCHANGED vars

Next ==
  \/ \E p \in Parties : Main(p)
  \/ \E p \in Parties, q \in Parties : SenderRun(p, q) \/ ReceiverRun(p, q)
  \/ Done

Fairness ==
  /\ \A p \in Parties : WF_vars(Main(p))
  /\ \A p \in Parties, q \in Parties :
       WF_vars(SenderRun(p, q)) /\ WF_vars(ReceiverRun(p, q))

Spec == Init /\ [][Next]_vars /\ Fairness

-----------------------------------------------------------------------------
(* A wait gets the buffer it was called with, in every operation: requests *)
(* to one peer and waits for it pair up, or it throws not_implemented      *)
(* (Sender.cpp:76, Receiver.cpp).                                          *)
WaitGetsRequest == \A p \in Parties : ~Doing(p, "throw")

(* What a party receives in an operation is what the sender's buffer held  *)
(* when the sender called the same operation.                              *)
Delivered ==
  \A p, q \in Parties : heard[p][q] # <<>> => heard[p][q] = R!Message(at[p], q)

(* Nobody waits forever, for any sizes of messages and buffers: every      *)
(* party gets through the program (the loops of Player.cpp "deliberately   *)
(* weird to avoid problems with OS max buffer size").                      *)
EveryoneFinishes == <>Finished

(* The players provide the abstract rounds.                                *)
ImplementsRounds == R!FairSpec
===========================================================================
