------------------------ MODULE AlphaInput_proofs -------------------------
(* Proofs for any number of clients, any mode and any data: no server gets *)
(* through the consistency check before every client has handed over its   *)
(* commitment, none does so alone, whatever dies, and as long as no client *)
(* dies no server is terminated.  And the arithmetic is right: the shares  *)
(* of the servers add up to the inputs, their MAC shares to the inputs     *)
(* times the key, also when the vector OLE makes them, and the check of    *)
(* the masked sums passes for every client.                                *)
EXTENDS AlphaInput, SequenceTheorems, FiniteSetTheorems, WellFoundedInduction, TLAPS

ControlState == {"spawn", "join", "sendv", "recvv", "sendz", "recvz", "done", "aborted"}
Past == {"sendv", "recvv", "sendz", "recvz", "done"}   \* all threads joined
AllFinished(s) == \A c \in Clients : tpc[s][c] = "finished"

(* The control state has its type; message contents do not matter here.    *)
ControlType ==
  /\ cpc \in [Clients -> {"commit", "sent", "crashed"}]
  /\ spc \in [Servers -> ControlState]
  /\ si \in [Servers -> Clients]
  /\ tpc \in [Servers -> [Clients -> {"none", "run", "finished"}]]
  /\ DOMAIN chan = Links
  /\ chan = [l \in Links |-> chan[l]]

(* Server 1 has or will get a client's message only if it was sent.        *)
Delivery ==
  \A c \in Clients :
    (chan[<<Party(c), 1>>] # <<>> \/ tpc[1][c] = "finished") => cpc[c] = "sent"

(* The main thread starts threads and joins them in the order of the index. *)
Joined ==
  \A s \in Servers :
    /\ spc[s] = "spawn" => \A c \in Clients : c >= si[s] => tpc[s][c] = "none"
    /\ spc[s] = "join" => \A c \in Clients : c < si[s] => tpc[s][c] = "finished"
    /\ spc[s] \in Past => AllFinished(s)

(* Server 0 hears from server 1 only after server 1 joined its threads.    *)
Exchanged ==
  (chan[<<1, 0>>] # <<>> \/ spc[0] \in {"sendz", "recvz", "done"}) => AllFinished(1)

DeliveryInv == ControlType /\ Delivery /\ Joined /\ Exchanged

---------------------------------------------------------------------------
LEMMA LinkFacts ==
  /\ \A c \in Clients : c \in Int /\ 0 <= c /\ c < TotCli /\ Party(c) \notin Servers
  /\ \A c \in Clients, s \in Servers : <<Party(c), s>> \in Links
  /\ \A c, e \in Clients : Party(c) = Party(e) => c = e
  /\ <<1, 0>> \in Links /\ <<0, 1>> \in Links
  /\ \A s \in Servers : Other(s) \in Servers /\ Other(s) # s /\ <<Other(s), s>> \in Links
  /\ Servers = {0, 1} /\ 0 \in Clients /\ TotCli \in Nat
  /\ \A c \in Clients : c + 1 < TotCli => c + 1 \in Clients
  BY SizeAssumption DEF Clients, Servers, Party, Links, Other, NUM_SRV

(* Initially no message is in flight and no thread exists.                 *)
LEMMA DeliveryInit == Init => DeliveryInv
  <1> SUFFICES ASSUME Init PROVE DeliveryInv
    OBVIOUS
  <1>1. ControlType
    BY LinkFacts, Z3 DEF Init, ControlType, ControlState
  <1>2. Delivery
    BY LinkFacts DEF Init, Delivery
  <1>3. Joined
    BY LinkFacts DEF Init, Joined, Past
  <1>4. Exchanged
    BY LinkFacts DEF Init, Exchanged
  <1> QED
    BY <1>1, <1>2, <1>3, <1>4 DEF DeliveryInv

(* A send changes one link only.                                           *)
LEMMA PutEffect ==
  ASSUME ControlType, NEW p, NEW q, <<p, q>> \in Links, NEW msg, Put(p, q, msg)
  PROVE  /\ DOMAIN chan' = Links /\ chan' = [l \in Links |-> chan'[l]]
         /\ \A l \in Links : l # <<p, q>> => chan'[l] = chan[l]
  BY DEF ControlType, Put

(* A receive leaves no link non-empty that was empty.                      *)
LEMMA TakeEffect ==
  ASSUME ControlType, NEW p, NEW q, <<p, q>> \in Links, CanReceive(p, q), Take(p, q)
  PROVE  /\ DOMAIN chan' = Links /\ chan' = [l \in Links |-> chan'[l]]
         /\ \A l \in Links : chan'[l] # <<>> => chan[l] # <<>>
         /\ chan[<<p, q>>] # <<>>
  BY DEF ControlType, Take, CanReceive

(* Only the sends of client c disturb Delivery, and they come with "sent". *)
LEMMA ClientStep ==
  ASSUME DeliveryInv, NEW c \in Clients, Client(c) \/ ClientCrash(c)
  PROVE  DeliveryInv'
  <1> USE LinkFacts DEF DeliveryInv
  <1>1. CASE HonestCommit(c) \/ DishonestCommit(c)
    <2>1. PICK msg : Put(Party(c), 1, msg)
      BY <1>1 DEF HonestCommit, DishonestCommit
    <2>2. /\ cpc' = [cpc EXCEPT ![c] = "sent"]
          /\ UNCHANGED <<spc, si, tpc>>
      BY <1>1 DEF HonestCommit, DishonestCommit, mainVars, threadVars
    <2>3. /\ DOMAIN chan' = Links /\ chan' = [l \in Links |-> chan'[l]]
          /\ \A l \in Links : l # <<Party(c), 1>> => chan'[l] = chan[l]
      BY <2>1, PutEffect DEF Servers
    <2>a. ControlType'
      BY <2>2, <2>3 DEF ControlType, ControlState
    <2>b. Delivery'
      BY <2>2, <2>3 DEF ControlType, Delivery
    <2>c. Joined'
      BY <2>2, <2>3 DEF ControlType, Joined, Past, AllFinished
    <2>d. Exchanged'
      BY <2>2, <2>3 DEF ControlType, Joined, Exchanged, Past, AllFinished
    <2> QED
      BY <2>a, <2>b, <2>c, <2>d
  <1>2. CASE VoleSend(c)
    <2>1. PICK msg : Put(Party(c), 0, msg)
      BY <1>2 DEF VoleSend
    <2>2. UNCHANGED <<cpc, spc, si, tpc>>
      BY <1>2 DEF VoleSend, mainVars, threadVars
    <2>3. /\ DOMAIN chan' = Links /\ chan' = [l \in Links |-> chan'[l]]
          /\ \A l \in Links : l # <<Party(c), 0>> => chan'[l] = chan[l]
      BY <2>1, PutEffect DEF Servers
    <2>a. ControlType'
      BY <2>2, <2>3 DEF ControlType, ControlState
    <2>b. Delivery'
      BY <2>2, <2>3 DEF ControlType, Delivery
    <2>c. Joined'
      BY <2>2, <2>3 DEF ControlType, Joined, Past, AllFinished
    <2>d. Exchanged'
      BY <2>2, <2>3 DEF ControlType, Joined, Exchanged, Past, AllFinished
    <2> QED
      BY <2>a, <2>b, <2>c, <2>d
  <1>3. CASE ClientCrash(c)
    <2>1. /\ cpc[c] = "commit" /\ cpc' = [cpc EXCEPT ![c] = "crashed"]
          /\ UNCHANGED <<chan, spc, si, tpc>>
      BY <1>3 DEF ClientCrash, mainVars, threadVars
    <2>a. ControlType'
      BY <2>1 DEF ControlType, ControlState
    <2>b. Delivery'
      BY <2>1 DEF ControlType, Delivery
    <2>c. Joined'
      BY <2>1 DEF Joined, AllFinished
    <2>d. Exchanged'
      BY <2>1 DEF Exchanged, AllFinished
    <2> QED
      BY <2>a, <2>b, <2>c, <2>d
  <1> QED
    BY <1>1, <1>2, <1>3 DEF Client

(* A thread finishes only from "run"; server 1's threads only on a message. *)
LEMMA ThreadStep ==
  ASSUME DeliveryInv, NEW s \in Servers, NEW c \in Clients, Thread(s, c)
  PROVE  DeliveryInv'
  <1> USE LinkFacts DEF DeliveryInv
  <1>1. CASE s = 0 /\ (HonestThread0(c) \/ DishonestThread0(c))
    <2>1. /\ tpc[0][c] = "run"
          /\ tpc' = [tpc EXCEPT ![0][c] = "finished"]
          /\ UNCHANGED <<cpc, chan, spc, si>>
      BY <1>1 DEF HonestThread0, DishonestThread0, Accumulate, clientVars, mainVars
    <2>a. ControlType'
      BY <2>1 DEF ControlType, ControlState
    <2>b. Delivery'
      BY <2>1 DEF ControlType, Delivery
    <2>c. Joined'
      BY <2>1 DEF ControlType, Joined, Past, AllFinished
    <2>d. Exchanged'
      BY <2>1 DEF ControlType, Joined, Exchanged, Past, AllFinished
    <2> QED
      BY <2>a, <2>b, <2>c, <2>d
  <1>2. CASE s = 0 /\ VoleReceive(c)
    <2>1. UNCHANGED <<cpc, tpc, spc, si>>
      BY <1>2 DEF VoleReceive, clientVars, mainVars
    <2>2. /\ DOMAIN chan' = Links /\ chan' = [l \in Links |-> chan'[l]]
          /\ \A l \in Links : chan'[l] # <<>> => chan[l] # <<>>
      BY <1>2, TakeEffect DEF VoleReceive
    <2>a. ControlType'
      BY <2>1, <2>2 DEF ControlType, ControlState
    <2>b. Delivery'
      BY <2>1, <2>2 DEF ControlType, Delivery
    <2>c. Joined'
      BY <2>1, <2>2 DEF ControlType, Joined, Past, AllFinished
    <2>d. Exchanged'
      BY <2>1, <2>2 DEF ControlType, Joined, Exchanged, Past, AllFinished
    <2> QED
      BY <2>a, <2>b, <2>c, <2>d
  <1>3. CASE s = 1 /\ (HonestThread1(c) \/ DishonestThread1(c))
    <2>1. /\ tpc[1][c] = "run"
          /\ tpc' = [tpc EXCEPT ![1][c] = "finished"]
          /\ UNCHANGED <<cpc, spc, si>>
      BY <1>3 DEF HonestThread1, DishonestThread1, Accumulate, clientVars, mainVars
    <2>2. /\ DOMAIN chan' = Links /\ chan' = [l \in Links |-> chan'[l]]
          /\ \A l \in Links : chan'[l] # <<>> => chan[l] # <<>>
          /\ chan[<<Party(c), 1>>] # <<>>
      BY <1>3, TakeEffect DEF HonestThread1, DishonestThread1
    <2>a. ControlType'
      BY <2>1, <2>2 DEF ControlType, ControlState
    <2>b. Delivery'
      BY <2>1, <2>2 DEF ControlType, Delivery
    <2>c. Joined'
      BY <2>1, <2>2 DEF ControlType, Joined, Past, AllFinished
    <2>d. Exchanged'
      BY <2>1, <2>2 DEF ControlType, Joined, Exchanged, Past, AllFinished
    <2> QED
      BY <2>a, <2>b, <2>c, <2>d
  <1>4. CASE ThreadClosed(s, c)
    <2>1. /\ spc' = [spc EXCEPT ![s] = "aborted"]
          /\ UNCHANGED <<cpc, chan, si, tpc>>
      BY <1>4 DEF ThreadClosed, clientVars, threadVars
    <2>a. ControlType'
      BY <2>1 DEF ControlType, ControlState
    <2>b. Delivery'
      BY <2>1 DEF ControlType, Delivery
    <2>c. Joined'
      BY <2>1 DEF ControlType, Joined, Past, AllFinished
    <2>d. Exchanged'
      BY <2>1 DEF ControlType, Joined, Exchanged, Past, AllFinished
    <2> QED
      BY <2>a, <2>b, <2>c, <2>d
  <1> QED
    BY <1>1, <1>2, <1>3, <1>4 DEF Thread

(* The main thread moves on only over joined threads, and tells the other  *)
(* server only then.                                                       *)
LEMMA MainStep ==
  ASSUME DeliveryInv, NEW s \in Servers, Main(s)
  PROVE  DeliveryInv'
  <1> USE LinkFacts DEF DeliveryInv
  <1>1. CASE Spawn(s)
    <2>1. spc[s] = "spawn" /\ si[s] \in Clients /\ tpc[s][si[s]] = "none"
      BY <1>1 DEF Spawn, ControlType, Joined
    <2>2. /\ spc[s] = "spawn"
          /\ \E t \in {"none", "run"} : tpc' = [tpc EXCEPT ![s][si[s]] = t]
          /\ IF si[s] + 1 < TotCli
             THEN si' = [si EXCEPT ![s] = @ + 1] /\ spc' = spc
             ELSE si' = [si EXCEPT ![s] = 0] /\ spc' = [spc EXCEPT ![s] = "join"]
          /\ UNCHANGED <<cpc, chan>>
      BY <1>1, <2>1 DEF Spawn, clientVars
    <2>3. si[s] + 1 < TotCli => si[s] + 1 \in Clients
      BY DEF ControlType
    <2>a. ControlType'
      BY <2>1, <2>2, <2>3 DEF ControlType, ControlState
    <2>b. Delivery'
      BY <2>1, <2>2, <2>3 DEF ControlType, Delivery
    <2>c. Joined'
      BY <2>1, <2>2, <2>3 DEF ControlType, Joined, Past, AllFinished
    <2>d. Exchanged'
      BY <2>1, <2>2, <2>3 DEF ControlType, Joined, Exchanged, Past, AllFinished
    <2> QED
      BY <2>a, <2>b, <2>c, <2>d
  <1>2. CASE Join(s)
    <2>1. /\ spc[s] = "join" /\ tpc[s][si[s]] = "finished"
          /\ IF si[s] + 1 < TotCli
             THEN si' = [si EXCEPT ![s] = @ + 1] /\ spc' = spc
             ELSE si' = si /\ spc' = [spc EXCEPT ![s] = "sendv"]
          /\ UNCHANGED <<cpc, chan, tpc>>
      BY <1>2 DEF Join, clientVars, threadVars
    <2>2. si[s] + 1 < TotCli => si[s] + 1 \in Clients
      BY DEF ControlType
    <2>a. ControlType'
      BY <2>1, <2>2 DEF ControlType, ControlState
    <2>b. Delivery'
      BY <2>1, <2>2 DEF ControlType, Delivery
    <2>c. Joined'
      BY <2>1, <2>2, SMTT(30) DEF ControlType, Joined, Past, AllFinished
    <2>d. Exchanged'
      BY <2>1, <2>2 DEF ControlType, Joined, Exchanged, Past, AllFinished
    <2> QED
      BY <2>a, <2>b, <2>c, <2>d
  <1>3. CASE JoinNone(s) \/ CheckBroken(s)
    <2>1. /\ spc' = [spc EXCEPT ![s] = "aborted"]
          /\ UNCHANGED <<cpc, chan, si, tpc>>
      BY <1>3 DEF JoinNone, CheckBroken, clientVars, threadVars
    <2>a. ControlType'
      BY <2>1 DEF ControlType, ControlState
    <2>b. Delivery'
      BY <2>1 DEF ControlType, Delivery
    <2>c. Joined'
      BY <2>1 DEF ControlType, Joined, Past, AllFinished
    <2>d. Exchanged'
      BY <2>1 DEF ControlType, Joined, Exchanged, Past, AllFinished
    <2> QED
      BY <2>a, <2>b, <2>c, <2>d
  <1>4. CASE SendV(s) \/ SendZ(s)
    <2>1. PICK msg : Put(s, Other(s), msg)
      BY <1>4 DEF SendV, SendZ
    <2>2. /\ DOMAIN chan' = Links /\ chan' = [l \in Links |-> chan'[l]]
          /\ \A l \in Links : l # <<s, Other(s)>> => chan'[l] = chan[l]
      BY <2>1, PutEffect DEF Servers, Other, NUM_SRV
    <2>3. /\ \/ spc[s] = "sendv" /\ spc' = [spc EXCEPT ![s] = "recvv"]
             \/ spc[s] = "sendz" /\ spc' = [spc EXCEPT ![s] = "recvz"]
          /\ UNCHANGED <<cpc, si, tpc>>
      BY <1>4 DEF SendV, SendZ, clientVars, threadVars
    <2>a. ControlType'
      BY <2>2, <2>3 DEF ControlType, ControlState
    <2>4. \A c \in Clients : chan'[<<Party(c), 1>>] = chan[<<Party(c), 1>>]
      BY <2>2
    <2>b. Delivery'
      BY <2>3, <2>4 DEF Delivery
    <2>c. Joined'
      BY <2>2, <2>3 DEF ControlType, Joined, Past, AllFinished
    <2>d. Exchanged'
      BY <2>2, <2>3 DEF ControlType, Joined, Exchanged, Past, AllFinished
    <2> QED
      BY <2>a, <2>b, <2>c, <2>d
  <1>5. CASE ReceiveV(s) \/ ReceiveZ(s)
    <2>1. /\ DOMAIN chan' = Links /\ chan' = [l \in Links |-> chan'[l]]
          /\ \A l \in Links : chan'[l] # <<>> => chan[l] # <<>>
          /\ chan[<<Other(s), s>>] # <<>>
      BY <1>5, TakeEffect DEF ReceiveV, ReceiveZ
    <2>2. /\ \/ spc[s] = "recvv" /\ spc' = [spc EXCEPT ![s] = "sendz"]
             \/ spc[s] = "recvz" /\ spc' = [spc EXCEPT ![s] = "done"]
          /\ UNCHANGED <<cpc, si, tpc>>
      BY <1>5 DEF ReceiveV, ReceiveZ, clientVars, threadVars
    <2>3. s = 0 => Other(s) = 1
      BY DEF Other, NUM_SRV
    <2>a. ControlType'
      BY <2>1, <2>2, <2>3 DEF ControlType, ControlState
    <2>b. Delivery'
      BY <2>1, <2>2, <2>3 DEF ControlType, Delivery
    <2>c. Joined'
      BY <2>1, <2>2, <2>3 DEF ControlType, Joined, Past, AllFinished
    <2>d. Exchanged'
      BY <2>1, <2>2, <2>3 DEF ControlType, Joined, Exchanged, Past, AllFinished
    <2> QED
      BY <2>a, <2>b, <2>c, <2>d
  <1> QED
    BY <1>1, <1>2, <1>3, <1>4, <1>5 DEF Main

LEMMA DeliveryNext == DeliveryInv /\ [Next]_vars => DeliveryInv'
  <1> SUFFICES ASSUME DeliveryInv, [Next]_vars PROVE DeliveryInv'
    OBVIOUS
  <1>1. CASE UNCHANGED vars
    BY <1>1 DEF vars, DeliveryInv, ControlType, Delivery, Joined, Exchanged, AllFinished
  <1>2. CASE Next
    BY <1>2, ClientStep, ThreadStep, MainStep DEF Next
  <1> QED
    BY <1>1, <1>2

LEMMA DeliveryImplies == DeliveryInv => DoneMeansDelivered
  BY LinkFacts DEF DeliveryInv, Delivery, Joined, Exchanged, Past, AllFinished,
                   DoneMeansDelivered, Servers

(* A server that completes the consistency check does so only when every   *)
(* client has sent its whole commitment (alpha-server.cpp main).           *)
THEOREM DoneDelivered == Spec => []DoneMeansDelivered
  <1>1. Spec => []DeliveryInv
    BY DeliveryInit, DeliveryNext, PTL DEF Spec
  <1> QED
    BY <1>1, DeliveryImplies, PTL

---------------------------------------------------------------------------
(***************************************************************************)
(* The exchange between the servers.  What a server has sent is in flight  *)
(* or was received, unless the other one is dead; this is what NeverAlone  *)
(* and NoAbortWithoutCrash rest on.                                        *)
(***************************************************************************)
IsStream(q) == \E S : q \in Seq(S)
Streams == \A l \in Links : IsStream(chan[l])

(* Vectors a server has put on its stream and taken from the other's.      *)
Told(pc) ==
  IF pc \in {"recvz", "done"} THEN 2 ELSE IF pc \in {"recvv", "sendz"} THEN 1 ELSE 0
Heard(pc) ==
  IF pc = "done" THEN 2 ELSE IF pc \in {"sendz", "recvz"} THEN 1 ELSE 0
Pending(s) == Len(chan[<<s, Other(s)>>])

(* A dead server has sent at most v, which its state no longer tells.      *)
Balanced(s) ==
  spc[Other(s)] # "aborted" =>
    IF spc[s] = "aborted" THEN Pending(s) + Heard(spc[Other(s)]) <= 1
                          ELSE Pending(s) + Heard(spc[Other(s)]) = Told(spc[s])
BalanceInv == DeliveryInv /\ Streams /\ \A s \in Servers : Balanced(s)

(* The length of a stream of messages of any kind.                         *)
LEMMA StreamLength ==
  ASSUME NEW q, IsStream(q)
  PROVE  Len(q) \in Nat /\ (Len(q) = 0 <=> q = <<>>)
  <1>1. PICK S : q \in Seq(S)
    BY DEF IsStream
  <1> QED
    BY <1>1, EmptySeq, LenProperties

LEMMA StreamAppend ==
  ASSUME NEW q, IsStream(q), NEW msg
  PROVE  IsStream(Append(q, msg)) /\ Len(Append(q, msg)) = Len(q) + 1
  <1>1. PICK S : q \in Seq(S)
    BY DEF IsStream
  <1>2. q \in Seq(S \cup {msg}) /\ msg \in S \cup {msg}
    BY <1>1
  <1> QED
    BY <1>2, AppendProperties DEF IsStream

LEMMA StreamTail ==
  ASSUME NEW q, IsStream(q), q # <<>>
  PROVE  IsStream(Tail(q)) /\ Len(Tail(q)) = Len(q) - 1 /\ Len(q) >= 1
  <1>1. PICK S : q \in Seq(S)
    BY DEF IsStream
  <1>2. Tail(q) \in Seq(S) /\ Len(Tail(q)) = Len(q) - 1
    BY <1>1, HeadTailProperties
  <1>3. Len(q) >= 1
    BY StreamLength
  <1> QED
    BY <1>2, <1>3 DEF IsStream

(* A send to a process that is gone is lost; any other one is one longer.  *)
LEMMA PutLength ==
  ASSUME ControlType, Streams, NEW p, NEW q, <<p, q>> \in Links, NEW msg, Put(p, q, msg)
  PROVE  /\ Streams'
         /\ \A l \in Links : l # <<p, q>> => chan'[l] = chan[l]
         /\ Gone(q) => chan' = chan
         /\ ~Gone(q) => Len(chan'[<<p, q>>]) = Len(chan[<<p, q>>]) + 1
  <1>1. \A l \in Links : l # <<p, q>> => chan'[l] = chan[l]
    BY PutEffect
  <1>2. CASE Gone(q)
    BY <1>1, <1>2 DEF Put, Streams
  <1>3. CASE ~Gone(q)
    <2>1. chan'[<<p, q>>] = Append(chan[<<p, q>>], msg)
      BY <1>3 DEF Put, ControlType
    <2>2. IsStream(chan'[<<p, q>>]) /\ Len(chan'[<<p, q>>]) = Len(chan[<<p, q>>]) + 1
      BY <2>1, StreamAppend DEF Streams
    <2> QED
      BY <1>1, <1>3, <2>2 DEF Streams
  <1> QED
    BY <1>2, <1>3

LEMMA TakeLength ==
  ASSUME ControlType, Streams, NEW p, NEW q, <<p, q>> \in Links, CanReceive(p, q), Take(p, q)
  PROVE  /\ Streams'
         /\ \A l \in Links : l # <<p, q>> => chan'[l] = chan[l]
         /\ Len(chan'[<<p, q>>]) = Len(chan[<<p, q>>]) - 1
         /\ Len(chan[<<p, q>>]) >= 1
  <1>1. \A l \in Links : l # <<p, q>> => chan'[l] = chan[l]
    BY DEF Take, ControlType
  <1>2. chan'[<<p, q>>] = Tail(chan[<<p, q>>]) /\ chan[<<p, q>>] # <<>>
    BY DEF Take, ControlType, CanReceive
  <1>3. IsStream(Tail(chan[<<p, q>>])) /\ Len(Tail(chan[<<p, q>>])) = Len(chan[<<p, q>>]) - 1
        /\ Len(chan[<<p, q>>]) >= 1
    BY <1>2, StreamTail DEF Streams
  <1> QED
    BY <1>1, <1>2, <1>3 DEF Streams

LEMMA OtherFacts ==
  /\ \A s \in Servers : /\ Other(s) \in Servers /\ Other(s) # s /\ Other(Other(s)) = s
                        /\ <<s, Other(s)>> \in Links /\ <<Other(s), s>> \in Links
                        /\ \A t \in Servers : t = s \/ t = Other(s)
                        /\ \A c \in Clients, t \in Servers : <<Party(c), t>> # <<s, Other(s)>>
  /\ \A s \in Servers : Gone(s) <=> spc[s] \in {"done", "aborted"}
  BY LinkFacts DEF Servers, Other, NUM_SRV, Links, Gone

LEMMA TalkFacts ==
  /\ \A pc : Told(pc) \in 0 .. 2 /\ Heard(pc) \in 0 .. 2
  /\ \A pc \in {"spawn", "join", "sendv"} : Told(pc) = 0 /\ Heard(pc) = 0
  /\ Told("recvv") = 1 /\ Heard("recvv") = 0
  /\ Told("sendz") = 1 /\ Heard("sendz") = 1
  /\ Told("recvz") = 2 /\ Heard("recvz") = 1
  /\ Told("done") = 2 /\ Heard("done") = 2
  /\ \A pc : Told(pc) = 2 => pc \in {"recvz", "done"}
  BY DEF Told, Heard

LEMMA BalanceInit == Init => BalanceInv
  <1> SUFFICES ASSUME Init PROVE BalanceInv
    OBVIOUS
  <1>1. Streams
    <2>1. IsStream(<<>>)
      <3>1. <<>> \in Seq({})
        BY EmptySeq
      <3> QED
        BY <3>1 DEF IsStream
    <2> QED
      BY <2>1 DEF Init, Streams
  <1>2. ASSUME NEW s \in Servers PROVE Balanced(s)
    <2>1. spc[s] = "spawn" /\ spc[Other(s)] = "spawn" /\ chan[<<s, Other(s)>>] = <<>>
      BY OtherFacts DEF Init
    <2>2. Len(chan[<<s, Other(s)>>]) = 0
      BY <2>1, <1>1, OtherFacts, StreamLength DEF Streams
    <2> QED
      BY <2>1, <2>2, TalkFacts DEF Balanced, Pending
  <1> QED
    BY <1>1, <1>2, DeliveryInit DEF BalanceInv

(* Nothing but a step of a main thread moves what the servers exchange.    *)
LEMMA BalanceFrame ==
  ASSUME BalanceInv, UNCHANGED spc,
         \A s \in Servers : chan'[<<s, Other(s)>>] = chan[<<s, Other(s)>>]
  PROVE  \A s \in Servers : Balanced(s)'
  BY OtherFacts DEF BalanceInv, Balanced, Pending

LEMMA BalanceClient ==
  ASSUME BalanceInv, NEW c \in Clients, Client(c) \/ ClientCrash(c)
  PROVE  Streams' /\ \A s \in Servers : Balanced(s)'
  <1>1. UNCHANGED spc
    BY DEF Client, HonestCommit, VoleSend, DishonestCommit, ClientCrash, mainVars
  <1>2. CASE Client(c)
    <2>1. PICK t \in Servers : \E msg : Put(Party(c), t, msg)
      BY <1>2 DEF Client, HonestCommit, VoleSend, DishonestCommit, Servers
    <2>2. <<Party(c), t>> \in Links
      BY LinkFacts
    <2>3. Streams' /\ \A l \in Links : l # <<Party(c), t>> => chan'[l] = chan[l]
      BY <2>1, <2>2, PutLength DEF BalanceInv, DeliveryInv
    <2>4. \A s \in Servers : chan'[<<s, Other(s)>>] = chan[<<s, Other(s)>>]
      BY <2>3, OtherFacts
    <2> QED
      BY <1>1, <2>3, <2>4, BalanceFrame
  <1>3. CASE ClientCrash(c)
    <2>1. UNCHANGED chan
      BY <1>3 DEF ClientCrash
    <2> QED
      BY <1>1, <2>1, BalanceFrame DEF BalanceInv, Streams
  <1> QED
    BY <1>2, <1>3

(* A thread that still runs keeps its server's main thread from sending.   *)
LEMMA BalanceThread ==
  ASSUME BalanceInv, NEW s \in Servers, NEW c \in Clients, Thread(s, c)
  PROVE  Streams' /\ \A t \in Servers : Balanced(t)'
  <1> USE DEF BalanceInv, DeliveryInv
  <1>1. CASE s = 0 /\ (HonestThread0(c) \/ DishonestThread0(c))
    <2>1. UNCHANGED <<spc, chan>>
      BY <1>1 DEF HonestThread0, DishonestThread0, Accumulate, mainVars
    <2> QED
      BY <2>1, BalanceFrame DEF Streams
  <1>2. CASE \/ s = 0 /\ VoleReceive(c)
             \/ s = 1 /\ (HonestThread1(c) \/ DishonestThread1(c))
    <2>1. UNCHANGED spc
      BY <1>2 DEF VoleReceive, HonestThread1, DishonestThread1, Accumulate, mainVars
    <2>2. CanReceive(Party(c), s) /\ Take(Party(c), s) /\ <<Party(c), s>> \in Links
      BY <1>2, LinkFacts DEF VoleReceive, HonestThread1, DishonestThread1
    <2>3. Streams' /\ \A l \in Links : l # <<Party(c), s>> => chan'[l] = chan[l]
      BY <2>2, TakeLength
    <2>4. \A t \in Servers : chan'[<<t, Other(t)>>] = chan[<<t, Other(t)>>]
      BY <2>3, OtherFacts
    <2> QED
      BY <2>1, <2>3, <2>4, BalanceFrame
  <1>3. CASE ThreadClosed(s, c)
    <2>1. /\ spc' = [spc EXCEPT ![s] = "aborted"] /\ UNCHANGED chan
          /\ tpc[s][c] = "run" /\ Running(s)
      BY <1>3 DEF ThreadClosed
    <2>2. spc[s] \in {"spawn", "join"} /\ spc'[s] = "aborted"
      BY <2>1 DEF Joined, AllFinished, Past, Running, ControlType, ControlState
    <2>3. spc'[Other(s)] = spc[Other(s)] /\ Streams'
      BY <2>1, OtherFacts DEF ControlType, Streams
    <2>6. Len(chan[<<s, Other(s)>>]) \in Nat
      BY OtherFacts, StreamLength DEF Streams
    <2>4. Balanced(s)'
      BY <2>1, <2>2, <2>3, <2>6, OtherFacts, TalkFacts DEF Balanced, Pending
    <2>5. Balanced(Other(s))'
      BY <2>1, <2>2, <2>3, OtherFacts DEF Balanced
    <2> QED
      BY <2>3, <2>4, <2>5, OtherFacts
  <1> QED
    BY <1>1, <1>2, <1>3 DEF Thread

(* The main threads: each send adds one to Told, each receive to Heard.    *)
LEMMA BalanceMain ==
  ASSUME BalanceInv, NEW s \in Servers, Main(s)
  PROVE  Streams' /\ \A t \in Servers : Balanced(t)'
  <1> USE DEF BalanceInv, DeliveryInv
  <1>o. PICK o \in Servers : o = Other(s)
    BY OtherFacts
  <1>0. /\ o = Other(s) /\ o \in Servers /\ o # s /\ Other(o) = s
        /\ <<s, o>> \in Links /\ <<o, s>> \in Links /\ <<s, o>> # <<o, s>>
        /\ \A t \in Servers : t = s \/ t = o
    BY <1>o, OtherFacts
  <1>a. Len(chan[<<s, o>>]) \in Nat /\ Len(chan[<<o, s>>]) \in Nat
    BY <1>0, StreamLength DEF Streams
  <1>b. /\ Balanced(s) <=> (spc[o] # "aborted" =>
             IF spc[s] = "aborted" THEN Len(chan[<<s, o>>]) + Heard(spc[o]) <= 1
                                   ELSE Len(chan[<<s, o>>]) + Heard(spc[o]) = Told(spc[s]))
        /\ Balanced(o) <=> (spc[s] # "aborted" =>
             IF spc[o] = "aborted" THEN Len(chan[<<o, s>>]) + Heard(spc[s]) <= 1
                                   ELSE Len(chan[<<o, s>>]) + Heard(spc[s]) = Told(spc[o]))
    BY <1>0 DEF Balanced, Pending
  <1>c. /\ Balanced(s)' <=> (spc'[o] # "aborted" =>
             IF spc'[s] = "aborted" THEN Len(chan'[<<s, o>>]) + Heard(spc'[o]) <= 1
                                    ELSE Len(chan'[<<s, o>>]) + Heard(spc'[o]) = Told(spc'[s]))
        /\ Balanced(o)' <=> (spc'[s] # "aborted" =>
             IF spc'[o] = "aborted" THEN Len(chan'[<<o, s>>]) + Heard(spc'[s]) <= 1
                                    ELSE Len(chan'[<<o, s>>]) + Heard(spc'[s]) = Told(spc'[o]))
    BY <1>0 DEF Balanced, Pending
  <1>d. spc[s] \in ControlState /\ spc[o] \in ControlState /\ Balanced(s) /\ Balanced(o)
    BY <1>0 DEF ControlType
  <1>e. SUFFICES Streams' /\ Balanced(s)' /\ Balanced(o)'
    BY <1>0
  <1>1. CASE Spawn(s) \/ Join(s)
    <2>1. /\ spc[s] \in {"spawn", "join"} /\ spc'[s] \in {"spawn", "join", "sendv"}
          /\ spc'[o] = spc[o] /\ UNCHANGED chan
      BY <1>0, <1>1 DEF Spawn, Join, ControlType
    <2>2. Streams'
      BY <2>1 DEF Streams
    <2> QED
      BY <1>b, <1>c, <1>d, <2>1, <2>2, TalkFacts
  <1>2. CASE JoinNone(s)
    <2>1. /\ spc[s] = "join" /\ spc'[s] = "aborted"
          /\ spc'[o] = spc[o] /\ UNCHANGED chan
      BY <1>0, <1>2 DEF JoinNone, ControlType
    <2>2. Streams'
      BY <2>1 DEF Streams
    <2> QED
      BY <1>b, <1>c, <1>d, <2>1, <2>2, TalkFacts
  <1>3. CASE SendV(s) \/ SendZ(s)
    <2>1. PICK msg : Put(s, o, msg)
      BY <1>0, <1>3 DEF SendV, SendZ
    <2>2. /\ spc'[o] = spc[o]
          /\ \/ spc[s] = "sendv" /\ spc'[s] = "recvv"
             \/ spc[s] = "sendz" /\ spc'[s] = "recvz"
      BY <1>0, <1>3 DEF SendV, SendZ, ControlType
    <2>3. /\ Streams' /\ chan'[<<o, s>>] = chan[<<o, s>>]
          /\ Gone(o) => chan' = chan
          /\ ~Gone(o) => Len(chan'[<<s, o>>]) = Len(chan[<<s, o>>]) + 1
      BY <1>0, <2>1, PutLength
    <2>4. Gone(o) <=> spc[o] \in {"done", "aborted"}
      BY <1>0, OtherFacts
    <2>5. Balanced(s)'
      BY <1>a, <1>b, <1>c, <1>d, <2>2, <2>3, <2>4, TalkFacts
    <2>6. Balanced(o)'
      BY <1>a, <1>b, <1>c, <1>d, <2>2, <2>3, TalkFacts
    <2> QED
      BY <2>3, <2>5, <2>6
  <1>4. CASE ReceiveV(s) \/ ReceiveZ(s)
    <2>1. CanReceive(o, s) /\ Take(o, s)
      BY <1>0, <1>4 DEF ReceiveV, ReceiveZ
    <2>2. /\ spc'[o] = spc[o]
          /\ \/ spc[s] = "recvv" /\ spc'[s] = "sendz"
             \/ spc[s] = "recvz" /\ spc'[s] = "done"
      BY <1>0, <1>4 DEF ReceiveV, ReceiveZ, ControlType
    <2>3. /\ Streams' /\ chan'[<<s, o>>] = chan[<<s, o>>]
          /\ Len(chan'[<<o, s>>]) = Len(chan[<<o, s>>]) - 1
      BY <1>0, <2>1, TakeLength
    <2>5. Balanced(s)'
      BY <1>a, <1>b, <1>c, <1>d, <2>2, <2>3, TalkFacts
    <2>6. Balanced(o)'
      BY <1>a, <1>b, <1>c, <1>d, <2>2, <2>3, TalkFacts
    <2> QED
      BY <2>3, <2>5, <2>6
  <1>5. CASE CheckBroken(s)
    <2>1. /\ spc[s] \in {"sendv", "recvv", "sendz", "recvz"} /\ spc'[s] = "aborted"
          /\ spc'[o] = spc[o] /\ UNCHANGED chan
      BY <1>0, <1>5 DEF CheckBroken, ControlType
    <2>2. Streams'
      BY <2>1 DEF Streams
    <2>3. spc[s] = "recvz" => spc[o] \in {"done", "aborted"} /\ Len(chan[<<o, s>>]) = 0
      BY <1>0, <1>5, OtherFacts, StreamLength DEF CheckBroken, Closed, Streams
    <2>5. Balanced(s)'
      BY <1>a, <1>b, <1>c, <1>d, <2>1, <2>3, TalkFacts
    <2> QED
      BY <1>c, <2>1, <2>2, <2>5
  <1> QED
    BY <1>1, <1>2, <1>3, <1>4, <1>5 DEF Main

LEMMA BalanceNext == BalanceInv /\ [Next]_vars => BalanceInv'
  <1> SUFFICES ASSUME BalanceInv, [Next]_vars PROVE BalanceInv'
    OBVIOUS
  <1>1. DeliveryInv'
    BY DeliveryNext DEF BalanceInv
  <1>2. CASE UNCHANGED vars
    <2>1. Streams' /\ UNCHANGED <<spc, chan>>
      BY <1>2 DEF vars, BalanceInv, Streams
    <2> QED
      BY <1>1, <2>1, BalanceFrame DEF BalanceInv
  <1>3. CASE Next
    BY <1>1, <1>3, BalanceClient, BalanceThread, BalanceMain DEF Next, BalanceInv
  <1> QED
    BY <1>2, <1>3

(* A finished server has taken two vectors, so the other has sent both.    *)
LEMMA BalanceImplies == BalanceInv => NeverAlone
  <1> SUFFICES ASSUME BalanceInv, NEW s \in Servers, spc[s] = "done"
               PROVE  spc[Other(s)] \in {"recvz", "done"}
    BY DEF NeverAlone
  <1>1. Other(s) \in Servers /\ Other(Other(s)) = s /\ <<Other(s), s>> \in Links
    BY OtherFacts
  <1>2. Len(chan[<<Other(s), s>>]) \in Nat
    BY <1>1, StreamLength DEF BalanceInv, Streams
  <1>3. Balanced(Other(s)) /\ Pending(Other(s)) = Len(chan[<<Other(s), s>>])
    BY <1>1 DEF BalanceInv, Pending
  <1> QED
    BY <1>1, <1>2, <1>3, TalkFacts DEF Balanced

(* One server never accepts alone: whatever dies, a server that finishes   *)
(* the consistency check has both vectors of the other one, which has      *)
(* reached the last receive of consistency_check_all.                      *)
THEOREM AcceptTogether == Spec => []NeverAlone
  <1>1. Spec => []BalanceInv
    BY BalanceInit, BalanceNext, PTL DEF Spec
  <1> QED
    BY <1>1, BalanceImplies, PTL

---------------------------------------------------------------------------
(***************************************************************************)
(* Without a crash nothing is missing: what a client has sent and a thread *)
(* has not taken is on the stream, so that no thread and no main thread    *)
(* meets a stream that is closed too early.                                *)
(***************************************************************************)
Calm == mode # 2 /\ \A c \in Clients : cpc[c] # "crashed"

RoundType ==
  /\ mode \in 0 .. 2
  /\ ci \in [Clients -> 0 .. SBits]
  /\ ti \in [Clients -> 0 .. SBits]

NoneAborted == \A s \in Servers : spc[s] # "aborted"

(* Every thread the main thread will join has been started.                *)
Spawned ==
  \A s \in Servers, c \in Clients :
    spc[s] = "join" \/ (spc[s] = "spawn" /\ c < si[s]) => tpc[s][c] # "none"

(* A commitment sent and not yet received is on its stream.                *)
InFlight(c) == cpc[c] = "sent" /\ tpc[1][c] # "finished" => chan[<<Party(c), 1>>] # <<>>

(* The rounds of the vector OLE the client is ahead are on the stream.     *)
Ahead(c) ==
  mode = 1 =>
    /\ Len(chan[<<Party(c), 0>>]) + ti[c] = ci[c]
    /\ cpc[c] = "sent" => ci[c] = SBits
    /\ tpc[0][c] = "finished" => ti[c] = SBits

CalmInv ==
  /\ BalanceInv /\ RoundType
  /\ Calm => NoneAborted /\ Spawned /\ \A c \in Clients : InFlight(c) /\ Ahead(c)

LEMMA CalmInit == Init => CalmInv
  <1> SUFFICES ASSUME Init PROVE CalmInv
    OBVIOUS
  <1>1. BalanceInv
    BY BalanceInit
  <1>2. RoundType
    BY SizeAssumption, ModeAssumption DEF Init, RoundType
  <1>3. NoneAborted /\ Spawned
    BY LinkFacts DEF Init, NoneAborted, Spawned
  <1>4. ASSUME NEW c \in Clients PROVE InFlight(c) /\ Ahead(c)
    <2>1. /\ chan[<<Party(c), 0>>] = <<>> /\ cpc[c] = "commit" /\ ti[c] = 0 /\ ci[c] = 0
          /\ tpc[0][c] = "none"
      BY LinkFacts DEF Init
    <2>2. Len(chan[<<Party(c), 0>>]) = 0
      BY <2>1, <1>1, LinkFacts, StreamLength DEF BalanceInv, Streams
    <2> QED
      BY <2>1, <2>2 DEF InFlight, Ahead
  <1> QED
    BY <1>1, <1>2, <1>3, <1>4 DEF CalmInv

(* A crash is for good and the mode is fixed.                              *)
LEMMA CalmBefore ==
  ASSUME ControlType, Next, Calm'
  PROVE  Calm /\ mode' = mode
  <1>1. mode' = mode
    <2>1. ASSUME NEW c \in Clients, Client(c) \/ ClientCrash(c) PROVE mode' = mode
      BY <2>1 DEF Client, HonestCommit, VoleSend, DishonestCommit, ClientCrash
    <2>2. ASSUME NEW s \in Servers, NEW c \in Clients, Thread(s, c) PROVE mode' = mode
      BY <2>2 DEF Thread, HonestThread0, HonestThread1, VoleReceive, DishonestThread0,
                  DishonestThread1, ThreadClosed, Accumulate, clientVars
    <2>3. ASSUME NEW s \in Servers, Main(s) PROVE mode' = mode
      BY <2>3 DEF Main, Spawn, Join, JoinNone, SendV, ReceiveV, SendZ, ReceiveZ,
                  CheckBroken, clientVars
    <2> QED
      BY <2>1, <2>2, <2>3 DEF Next
  <1>2. ASSUME NEW e \in Clients, cpc[e] = "crashed" PROVE cpc'[e] = "crashed"
    <2>1. ASSUME NEW c \in Clients, Client(c) \/ ClientCrash(c) PROVE cpc'[e] = cpc[e]
      BY <1>2, <2>1 DEF ControlType, Client, HonestCommit, VoleSend, DishonestCommit, ClientCrash
    <2>2. ASSUME NEW s \in Servers, NEW c \in Clients, Thread(s, c) PROVE cpc' = cpc
      BY <2>2 DEF Thread, HonestThread0, HonestThread1, VoleReceive, DishonestThread0,
                  DishonestThread1, ThreadClosed, Accumulate, clientVars
    <2>3. ASSUME NEW s \in Servers, Main(s) PROVE cpc' = cpc
      BY <2>3 DEF Main, Spawn, Join, JoinNone, SendV, ReceiveV, SendZ, ReceiveZ,
                  CheckBroken, clientVars
    <2> QED
      BY <1>2, <2>1, <2>2, <2>3 DEF Next
  <1> QED
    BY <1>1, <1>2 DEF Calm

LEMMA CalmClient ==
  ASSUME CalmInv, Calm, NEW c \in Clients, Client(c)
  PROVE  RoundType' /\ NoneAborted' /\ Spawned' /\ \A e \in Clients : InFlight(e)' /\ Ahead(e)'
  <1> USE DEF CalmInv, BalanceInv, DeliveryInv
  <1>1. UNCHANGED <<mode, spc, si, tpc, ti>>
    BY DEF Client, HonestCommit, VoleSend, DishonestCommit, mainVars, threadVars
  <1>2. NoneAborted' /\ Spawned'
    BY <1>1 DEF NoneAborted, Spawned
  <1>3. CASE HonestCommit(c) \/ DishonestCommit(c)
    <2>1. PICK msg : Put(Party(c), 1, msg)
      BY <1>3 DEF HonestCommit, DishonestCommit
    <2>2. /\ cpc[c] = "commit" /\ cpc' = [cpc EXCEPT ![c] = "sent"] /\ UNCHANGED ci
          /\ mode = 1 => ci[c] = SBits
      BY <1>3 DEF HonestCommit, DishonestCommit, ClientMode
    <2>3. <<Party(c), 1>> \in Links /\ \A e \in Clients : <<Party(e), 1>> \in Links
          /\ <<Party(e), 0>> \in Links /\ <<Party(e), 0>> # <<Party(c), 1>>
          /\ (e # c => <<Party(e), 1>> # <<Party(c), 1>>)
      BY LinkFacts
    <2>4. ~Gone(1)
      <3>1. tpc[1][c] # "finished"
        BY <2>2 DEF Delivery
      <3>2. spc[1] # "done" /\ spc[1] # "aborted"
        BY <3>1 DEF NoneAborted, Joined, AllFinished, Past, Servers
      <3> QED
        BY <3>2, OtherFacts DEF Servers
    <2>5. /\ \A l \in Links : l # <<Party(c), 1>> => chan'[l] = chan[l]
          /\ Len(chan'[<<Party(c), 1>>]) = Len(chan[<<Party(c), 1>>]) + 1
          /\ Streams'
      BY <2>1, <2>3, <2>4, PutLength
    <2>6. chan'[<<Party(c), 1>>] # <<>>
      BY <2>3, <2>5, StreamLength DEF Streams
    <2>7. RoundType'
      BY <1>1, <2>2 DEF RoundType
    <2>8. ASSUME NEW e \in Clients PROVE InFlight(e)'
      BY <1>1, <2>2, <2>3, <2>5, <2>6 DEF InFlight, ControlType
    <2>9. ASSUME NEW e \in Clients PROVE Ahead(e)'
      BY <1>1, <2>2, <2>3, <2>5 DEF Ahead, ControlType
    <2> QED
      BY <1>2, <2>7, <2>8, <2>9
  <1>4. CASE VoleSend(c)
    <2>1. PICK msg : Put(Party(c), 0, msg)
      BY <1>4 DEF VoleSend
    <2>2. /\ cpc[c] = "commit" /\ UNCHANGED cpc /\ ci[c] < SBits
          /\ ci' = [ci EXCEPT ![c] = @ + 1] /\ mode = 1
      BY <1>4 DEF VoleSend, ClientMode, Calm, RoundType
    <2>3. <<Party(c), 0>> \in Links /\ \A e \in Clients : <<Party(e), 1>> \in Links
          /\ <<Party(e), 0>> \in Links /\ <<Party(e), 1>> # <<Party(c), 0>>
          /\ (e # c => <<Party(e), 0>> # <<Party(c), 0>>)
      BY LinkFacts
    <2>a. /\ ci[c] \in 0 .. SBits /\ ti[c] \in 0 .. SBits /\ SBits \in Nat
          /\ Len(chan[<<Party(c), 0>>]) \in Nat
      BY <2>3, SizeAssumption, StreamLength DEF RoundType, Streams
    <2>b. Len(chan[<<Party(c), 0>>]) + ti[c] = ci[c] /\ (tpc[0][c] = "finished" => ti[c] = SBits)
      BY <2>2 DEF Ahead
    <2>4. ~Gone(0)
      <3>1. tpc[0][c] # "finished"
        BY <2>2, <2>a, <2>b
      <3>2. spc[0] # "done" /\ spc[0] # "aborted"
        BY <3>1 DEF NoneAborted, Joined, AllFinished, Past, Servers
      <3> QED
        BY <3>2, OtherFacts DEF Servers
    <2>5. /\ \A l \in Links : l # <<Party(c), 0>> => chan'[l] = chan[l]
          /\ Len(chan'[<<Party(c), 0>>]) = Len(chan[<<Party(c), 0>>]) + 1
      BY <2>1, <2>3, <2>4, PutLength
    <2>7. RoundType'
      BY <1>1, <2>2, <2>a DEF RoundType
    <2>8. ASSUME NEW e \in Clients PROVE InFlight(e)'
      BY <1>1, <2>2, <2>3, <2>5 DEF InFlight
    <2>9. ASSUME NEW e \in Clients PROVE Ahead(e)'
      <3>1. CASE e = c
        <4>1. ci'[c] = ci[c] + 1
          BY <2>2 DEF RoundType
        <4>2. Len(chan'[<<Party(c), 0>>]) + ti[c] = ci'[c]
          BY <4>1, <2>5, <2>a, <2>b
        <4>3. cpc'[c] # "sent" /\ ti' = ti /\ tpc' = tpc
          BY <1>1, <2>2
        <4> QED
          BY <3>1, <4>2, <4>3, <2>b DEF Ahead
      <3>2. CASE e # c
        BY <1>1, <3>2, <2>2, <2>3, <2>5 DEF Ahead, RoundType
      <3> QED
        BY <3>1, <3>2
    <2> QED
      BY <1>2, <2>7, <2>8, <2>9
  <1> QED
    BY <1>3, <1>4 DEF Client

LEMMA CalmThread ==
  ASSUME CalmInv, Calm, NEW s \in Servers, NEW c \in Clients, Thread(s, c)
  PROVE  RoundType' /\ NoneAborted' /\ Spawned' /\ \A e \in Clients : InFlight(e)' /\ Ahead(e)'
  <1> USE DEF CalmInv, BalanceInv, DeliveryInv
  <1>0. /\ InFlight(c) /\ Ahead(c) /\ SBits \in Nat
        /\ ci[c] \in 0 .. SBits /\ ti[c] \in 0 .. SBits
        /\ Len(chan[<<Party(c), 0>>]) \in Nat
    BY SizeAssumption, LinkFacts, StreamLength DEF RoundType, Streams
  <1>1. CASE s = 0 /\ (HonestThread0(c) \/ DishonestThread0(c))
    <2>1. /\ tpc' = [tpc EXCEPT ![0][c] = "finished"]
          /\ UNCHANGED <<mode, cpc, ci, ti, chan, spc, si>>
      BY <1>1 DEF HonestThread0, DishonestThread0, Accumulate, clientVars, mainVars
    <2>a. mode = 1 => ti[c] = SBits
      BY <1>1 DEF HonestThread0, DishonestThread0
    <2>2. RoundType' /\ NoneAborted' /\ Spawned'
      BY <2>1 DEF RoundType, NoneAborted, Spawned, ControlType
    <2>3. ASSUME NEW e \in Clients PROVE InFlight(e)'
      BY <2>1 DEF InFlight, ControlType, Servers
    <2>4. ASSUME NEW e \in Clients PROVE Ahead(e)'
      BY <2>1, <2>a DEF Ahead, ControlType, Servers
    <2> QED
      BY <2>2, <2>3, <2>4
  <1>2. CASE s = 0 /\ VoleReceive(c)
    <2>1. /\ UNCHANGED <<mode, cpc, ci, tpc, spc, si>>
          /\ ti' = [ti EXCEPT ![c] = @ + 1] /\ ti[c] < SBits /\ tpc[0][c] = "run" /\ mode = 1
      BY <1>2 DEF VoleReceive, clientVars, mainVars
    <2>2. <<Party(c), 0>> \in Links /\ \A e \in Clients : <<Party(e), 1>> \in Links
          /\ <<Party(e), 0>> \in Links /\ <<Party(e), 1>> # <<Party(c), 0>>
          /\ (e # c => <<Party(e), 0>> # <<Party(c), 0>>)
      BY LinkFacts
    <2>3. CanReceive(Party(c), 0) /\ Take(Party(c), 0)
      BY <1>2 DEF VoleReceive
    <2>4. /\ \A l \in Links : l # <<Party(c), 0>> => chan'[l] = chan[l]
          /\ Len(chan'[<<Party(c), 0>>]) = Len(chan[<<Party(c), 0>>]) - 1
      BY <2>2, <2>3, TakeLength
    <2>5. RoundType' /\ NoneAborted' /\ Spawned'
      BY <2>1, <1>0 DEF RoundType, NoneAborted, Spawned
    <2>6. ASSUME NEW e \in Clients PROVE InFlight(e)'
      BY <2>1, <2>2, <2>4 DEF InFlight
    <2>7. ASSUME NEW e \in Clients PROVE Ahead(e)'
      <3>1. CASE e = c
        <4>1. ti'[c] = ti[c] + 1
          BY <2>1 DEF RoundType
        <4>2. Len(chan[<<Party(c), 0>>]) + ti[c] = ci[c] /\ (cpc[c] = "sent" => ci[c] = SBits)
          BY <1>0, <2>1 DEF Ahead
        <4>3. Len(chan'[<<Party(c), 0>>]) + ti'[c] = ci[c]
          BY <4>1, <4>2, <2>4, <1>0, SMTT(30)
        <4>4. cpc' = cpc /\ ci' = ci /\ tpc'[0][c] # "finished"
          BY <2>1
        <4> QED
          BY <3>1, <4>2, <4>3, <4>4 DEF Ahead
      <3>2. CASE e # c
        BY <3>2, <2>1, <2>2, <2>4 DEF Ahead, RoundType
      <3> QED
        BY <3>1, <3>2
    <2> QED
      BY <2>5, <2>6, <2>7
  <1>3. CASE s = 1 /\ (HonestThread1(c) \/ DishonestThread1(c))
    <2>1. /\ tpc' = [tpc EXCEPT ![1][c] = "finished"]
          /\ UNCHANGED <<mode, cpc, ci, ti, spc, si>>
      BY <1>3 DEF HonestThread1, DishonestThread1, Accumulate, clientVars, mainVars
    <2>2. <<Party(c), 1>> \in Links /\ \A e \in Clients : <<Party(e), 1>> \in Links
          /\ <<Party(e), 0>> \in Links /\ <<Party(e), 0>> # <<Party(c), 1>>
          /\ (e # c => <<Party(e), 1>> # <<Party(c), 1>>)
      BY LinkFacts
    <2>3. CanReceive(Party(c), 1) /\ Take(Party(c), 1)
      BY <1>3 DEF HonestThread1, DishonestThread1
    <2>4. \A l \in Links : l # <<Party(c), 1>> => chan'[l] = chan[l]
      BY <2>2, <2>3, TakeLength
    <2>5. RoundType' /\ NoneAborted' /\ Spawned'
      BY <2>1 DEF RoundType, NoneAborted, Spawned, ControlType
    <2>6. ASSUME NEW e \in Clients PROVE InFlight(e)'
      BY <2>1, <2>2, <2>4 DEF InFlight, ControlType, Servers
    <2>7. ASSUME NEW e \in Clients PROVE Ahead(e)'
      BY <2>1, <2>2, <2>4 DEF Ahead, ControlType, Servers
    <2> QED
      BY <2>5, <2>6, <2>7
  <1>4. CASE ThreadClosed(s, c)
    <2>1. /\ tpc[s][c] = "run" /\ Closed(Party(c), s)
          /\ s = 1 \/ (s = 0 /\ mode = 1 /\ ti[c] < SBits)
      BY <1>4 DEF ThreadClosed, Servers
    <2>2. cpc[c] = "sent" /\ chan[<<Party(c), s>>] = <<>>
      <3>1. Gone(Party(c)) => cpc[c] \in {"sent", "crashed"}
        BY LinkFacts DEF Gone, Party, NUM_SRV, Clients
      <3> QED
        BY <2>1, <3>1 DEF Closed, Calm
    <2>3. s # 1
      BY <1>0, <2>1, <2>2 DEF InFlight
    <2>4. Len(chan[<<Party(c), 0>>]) = 0
      BY <2>1, <2>2, <2>3, LinkFacts, StreamLength DEF Streams
    <2> QED
      BY <1>0, <2>1, <2>2, <2>3, <2>4 DEF Ahead
  <1> QED
    BY <1>1, <1>2, <1>3, <1>4 DEF Thread

LEMMA CalmMain ==
  ASSUME CalmInv, Calm, NEW s \in Servers, Main(s)
  PROVE  RoundType' /\ NoneAborted' /\ Spawned' /\ \A e \in Clients : InFlight(e)' /\ Ahead(e)'
  <1> USE DEF CalmInv, BalanceInv, DeliveryInv
  <1>1. UNCHANGED <<mode, cpc, ci, ti>>
    BY DEF Main, Spawn, Join, JoinNone, SendV, ReceiveV, SendZ, ReceiveZ, CheckBroken,
           clientVars, threadVars
  <1>2. RoundType'
    BY <1>1 DEF RoundType
  <1>3. ASSUME UNCHANGED tpc,
               \A e \in Clients, t \in Servers : chan'[<<Party(e), t>>] = chan[<<Party(e), t>>]
        PROVE  \A e \in Clients : InFlight(e)' /\ Ahead(e)'
    BY <1>1, <1>3 DEF InFlight, Ahead, Servers
  <1>4. CASE Spawn(s)
    <2>a. spc[s] = "spawn" /\ si[s] \in Clients
      BY <1>4 DEF Spawn, ControlType
    <2>b. \A e \in Clients : /\ e >= si[s] => tpc[s][e] = "none"
                             /\ e < si[s] => tpc[s][e] # "none"
      BY <2>a DEF Joined, Spawned
    <2>1. /\ spc[s] = "spawn" /\ si[s] \in Clients /\ tpc[s][si[s]] = "none"
          /\ \A e \in Clients : e < si[s] => tpc[s][e] # "none"
      BY <2>a, <2>b, LinkFacts
    <2>c. mode \in {0, 1}
      BY DEF Calm, RoundType
    <2>2. /\ tpc' = [tpc EXCEPT ![s][si[s]] = "run"] /\ UNCHANGED chan
          /\ IF si[s] + 1 < TotCli
             THEN si' = [si EXCEPT ![s] = @ + 1] /\ spc' = spc
             ELSE si' = [si EXCEPT ![s] = 0] /\ spc' = [spc EXCEPT ![s] = "join"]
      BY <1>4, <2>c DEF Spawn
    <2>3. NoneAborted'
      BY <2>2 DEF NoneAborted, ControlType
    <2>4. \A e \in Clients : tpc'[s][e] = IF e = si[s] THEN "run" ELSE tpc[s][e]
      BY <2>1, <2>2 DEF ControlType
    <2>5. \A t \in Servers : t # s => tpc'[t] = tpc[t] /\ spc'[t] = spc[t] /\ si'[t] = si[t]
      BY <2>2 DEF ControlType
    <2>6. ASSUME NEW e \in Clients, spc'[s] = "join" \/ (spc'[s] = "spawn" /\ e < si'[s])
          PROVE  tpc'[s][e] # "none"
      <3>1. e \in Int /\ e < TotCli /\ si[s] \in Int /\ si[s] < TotCli /\ TotCli \in Int
        BY <2>1, LinkFacts
      <3>2. e < si[s] \/ e = si[s]
        <4>1. CASE si[s] + 1 < TotCli
          <5>1. spc'[s] = "spawn" /\ si'[s] = si[s] + 1
            BY <2>1, <2>2, <4>1 DEF ControlType
          <5> QED
            BY <2>6, <3>1, <5>1
        <4>2. CASE ~(si[s] + 1 < TotCli)
          BY <3>1, <4>2
        <4> QED
          BY <4>1, <4>2
      <3> QED
        BY <2>1, <2>4, <3>2
    <2>7. Spawned'
      BY <2>5, <2>6 DEF Spawned
    <2>8. \A e \in Clients : InFlight(e)' /\ Ahead(e)'
      <3>1. \A e \in Clients, t \in Servers : tpc'[t][e] = "finished" <=> tpc[t][e] = "finished"
        BY <2>1, <2>4, <2>5
      <3> QED
        BY <1>1, <2>2, <3>1 DEF InFlight, Ahead, Servers
    <2> QED
      BY <1>2, <2>3, <2>7, <2>8
  <1>5. CASE Join(s)
    <2>1. /\ spc[s] = "join" /\ UNCHANGED <<chan, tpc>>
          /\ spc' = spc \/ spc' = [spc EXCEPT ![s] = "sendv"]
          /\ \A t \in Servers : t # s => si'[t] = si[t]
      BY <1>5 DEF Join, ControlType, threadVars
    <2>2. NoneAborted' /\ Spawned'
      BY <2>1, SMTT(30) DEF NoneAborted, Spawned, ControlType
    <2> QED
      BY <1>2, <1>3, <2>1, <2>2
  <1>6. CASE JoinNone(s)
    BY <1>6 DEF JoinNone, Spawned, ControlType
  <1>7. CASE SendV(s) \/ SendZ(s) \/ ReceiveV(s) \/ ReceiveZ(s)
    <2>1. /\ UNCHANGED <<tpc, si>>
          /\ spc[s] \in Past /\ \E t \in Past : spc' = [spc EXCEPT ![s] = t]
      BY <1>7 DEF SendV, SendZ, ReceiveV, ReceiveZ, threadVars, Past
    <2>2. NoneAborted' /\ Spawned'
      BY <2>1 DEF NoneAborted, Spawned, ControlType, Past
    <2>3. ASSUME NEW e \in Clients, NEW t \in Servers
          PROVE  chan'[<<Party(e), t>>] = chan[<<Party(e), t>>]
      <3>1. <<Party(e), t>> \in Links /\ <<Party(e), t>> # <<s, Other(s)>>
            /\ <<Party(e), t>> # <<Other(s), s>>
            /\ <<s, Other(s)>> \in Links /\ <<Other(s), s>> \in Links
        BY LinkFacts, OtherFacts
      <3>2. CASE SendV(s) \/ SendZ(s)
        <4>1. PICK msg : Put(s, Other(s), msg)
          BY <3>2 DEF SendV, SendZ
        <4> QED
          BY <3>1, <4>1, PutLength
      <3>3. CASE ReceiveV(s) \/ ReceiveZ(s)
        <4>1. CanReceive(Other(s), s) /\ Take(Other(s), s)
          BY <3>3 DEF ReceiveV, ReceiveZ
        <4> QED
          BY <3>1, <4>1, TakeLength
      <3> QED
        BY <1>7, <3>2, <3>3
    <2> QED
      BY <1>2, <1>3, <2>1, <2>2, <2>3
  <1>8. CASE CheckBroken(s)
    <2>1. Gone(Other(s)) /\ spc[Other(s)] = "done"
      BY <1>8, OtherFacts DEF CheckBroken, Closed, NoneAborted
    <2>2. spc[s] \in {"recvz", "done"}
      BY <2>1, BalanceImplies, OtherFacts DEF NeverAlone
    <2>3. spc[s] = "recvz" /\ chan[<<Other(s), s>>] = <<>>
      BY <1>8, <2>2 DEF CheckBroken, Closed
    <2>4. Len(chan[<<Other(s), s>>]) = 0
      BY <2>3, OtherFacts, StreamLength DEF Streams
    <2>5. Balanced(Other(s)) /\ Other(s) \in Servers /\ Other(Other(s)) = s
      BY OtherFacts
    <2> QED
      BY <2>1, <2>3, <2>4, <2>5, TalkFacts DEF Balanced, Pending
  <1> QED
    BY <1>4, <1>5, <1>6, <1>7, <1>8 DEF Main

(* Past a crash only the type of the round counters is left to show.       *)
LEMMA RoundNext ==
  ASSUME CalmInv, Next
  PROVE  RoundType'
  <1> USE SizeAssumption DEF CalmInv
  <1>1. ASSUME NEW c \in Clients, Client(c) \/ ClientCrash(c) PROVE RoundType'
    BY <1>1 DEF Client, HonestCommit, VoleSend, DishonestCommit, ClientCrash, RoundType, threadVars
  <1>2. ASSUME NEW s \in Servers, NEW c \in Clients, Thread(s, c) PROVE RoundType'
    <2>1. CASE VoleReceive(c)
      <3>1. /\ UNCHANGED <<mode, ci>> /\ ti[c] < SBits
            /\ ti' = [ti EXCEPT ![c] = @ + 1]
        BY <2>1 DEF VoleReceive, clientVars
      <3> QED
        BY <3>1 DEF RoundType
    <2>2. CASE ~VoleReceive(c)
      <3>1. UNCHANGED <<mode, ci, ti>>
        BY <1>2, <2>2 DEF Thread, HonestThread0, HonestThread1, DishonestThread0, DishonestThread1,
                          ThreadClosed, Accumulate, clientVars, threadVars
      <3> QED
        BY <3>1 DEF RoundType
    <2> QED
      BY <2>1, <2>2
  <1>3. ASSUME NEW s \in Servers, Main(s) PROVE RoundType'
    BY <1>3 DEF Main, Spawn, Join, JoinNone, SendV, ReceiveV, SendZ, ReceiveZ, RoundType,
                CheckBroken, clientVars, threadVars
  <1> QED
    BY <1>1, <1>2, <1>3 DEF Next

LEMMA CalmNext == CalmInv /\ [Next]_vars => CalmInv'
  <1> SUFFICES ASSUME CalmInv, [Next]_vars PROVE CalmInv'
    OBVIOUS
  <1>1. BalanceInv'
    BY BalanceNext DEF CalmInv
  <1>2. CASE UNCHANGED vars
    <2>1. RoundType'
      BY <1>2 DEF vars, CalmInv, RoundType
    <2>2. Calm' => Calm /\ NoneAborted' /\ Spawned'
      BY <1>2 DEF vars, CalmInv, Calm, NoneAborted, Spawned
    <2>3. ASSUME Calm, NEW c \in Clients PROVE InFlight(c)' /\ Ahead(c)'
      BY <1>2, <2>3 DEF vars, CalmInv, InFlight, Ahead
    <2> QED
      BY <1>1, <2>1, <2>2, <2>3 DEF CalmInv
  <1>3. CASE Next
    <2>1. RoundType'
      BY <1>3, RoundNext
    <2>2. ASSUME Calm'
          PROVE  NoneAborted' /\ Spawned' /\ \A e \in Clients : InFlight(e)' /\ Ahead(e)'
      <3>1. Calm
        BY <1>3, <2>2, CalmBefore DEF CalmInv, BalanceInv, DeliveryInv
      <3>2. ASSUME NEW c \in Clients PROVE ~ClientCrash(c)
        <4>1. ClientCrash(c) => cpc'[c] = "crashed"
          BY DEF ClientCrash, CalmInv, BalanceInv, DeliveryInv, ControlType
        <4> QED
          BY <2>2, <4>1 DEF Calm
      <3> QED
        BY <1>3, <3>1, <3>2, CalmClient, CalmThread, CalmMain DEF Next
    <2> QED
      BY <1>1, <2>1, <2>2 DEF CalmInv
  <1> QED
    BY <1>2, <1>3

(* Late receives and early exits of others are harmless: as long as no     *)
(* client dies, no exception ends a server in modes 0 and 1.               *)
THEOREM AbortNeedsCrash == Spec => []NoAbortWithoutCrash
  <1>1. Spec => []CalmInv
    BY CalmInit, CalmNext, PTL DEF Spec
  <1>2. CalmInv => NoAbortWithoutCrash
    BY DEF CalmInv, Calm, NoneAborted, NoAbortWithoutCrash
  <1> QED
    BY <1>1, <1>2, PTL

---------------------------------------------------------------------------
(***************************************************************************)
(* What the servers compute.  Sums over the indices of the vectors are     *)
(* folds in an arbitrary order; a table with the sum of every subset says  *)
(* what they are.                                                          *)
(***************************************************************************)

(* One choice of an element for every set, as the fold makes it.           *)
Pick(s) == CHOOSE e \in s : TRUE
Table(g, D, f) ==
  g = [s \in D |-> IF s = {} THEN 0 ELSE f[Pick(s)] + g[s \ {Pick(s)}]]

(* Of every finite set such a table exists.                              *)
LEMMA TableExists ==
  ASSUME NEW S, IsFiniteSet(S), NEW f
  PROVE  \E g : Table(g, SUBSET S, f)
  <1> DEFINE Part(n) == {T \in SUBSET S : Cardinality(T) <= n}
             Bad == {n \in Nat : ~ \E g : Table(g, Part(n), f)}
  <1>1. \A T \in SUBSET S : /\ IsFiniteSet(T) /\ Cardinality(T) \in Nat
                            /\ Cardinality(T) <= Cardinality(S)
    BY FS_Subset, FS_CardinalityType
  <1>2. ASSUME NEW n \in Bad, \A k \in Bad : ~(<<k, n>> \in OpToRel(<, Nat))
        PROVE  FALSE
    <2>1. CASE n = 0
      <3>1. \A T \in Part(0) : T = {}
        BY <1>1, FS_EmptySet
      <3>2. Table([s \in Part(0) |-> 0], Part(0), f)
        BY <3>1 DEF Table
      <3> QED
        BY <2>1, <3>2
    <2>2. CASE n # 0
      <3>1. n - 1 \in Nat /\ <<n - 1, n>> \in OpToRel(<, Nat)
        BY <2>2 DEF OpToRel
      <3>2. PICK g : Table(g, Part(n - 1), f)
        BY <3>1, <1>2
      <3> DEFINE h == [s \in Part(n) |->
                         IF s = {} THEN 0 ELSE f[Pick(s)] + g[s \ {Pick(s)}]]
      <3>3. ASSUME NEW s \in Part(n), s # {}
            PROVE  g[s \ {Pick(s)}] = h[s \ {Pick(s)}]
        <4>1. Pick(s) \in s
          BY <3>3 DEF Pick
        <4>2. Cardinality(s \ {Pick(s)}) = Cardinality(s) - 1
          BY <4>1, <1>1, FS_RemoveElement
        <4>3. s \ {Pick(s)} \in Part(n - 1) /\ s \ {Pick(s)} \in Part(n)
          BY <4>2, <1>1
        <4> QED
          BY <4>3, <3>2 DEF Table
      <3>4. Table(h, Part(n), f)
        BY <3>3 DEF Table
      <3> QED
        BY <3>4
    <2> QED
      BY <2>1, <2>2
  <1>3. Bad = {}
    <2> SUFFICES ASSUME Bad # {} PROVE FALSE
      OBVIOUS
    <2>1. PICK n \in Bad : \A k \in Bad : ~(<<k, n>> \in OpToRel(<, Nat))
      BY NatLessThanWellFounded, WFMin
    <2> QED
      BY <2>1, <1>2
  <1>4. Part(Cardinality(S)) = SUBSET S /\ Cardinality(S) \in Nat
    BY <1>1, FS_CardinalityType
  <1> QED
    BY <1>3, <1>4

(* SumFunction reads the sum of the whole set from it.                   *)
LEMMA SumTable ==
  ASSUME NEW S, IsFiniteSet(S), NEW f, DOMAIN f = S
  PROVE  \E g : Table(g, SUBSET S, f) /\ SumFunction(f) = g[S]
  <1>1. \E g : Table(g, SUBSET S, f)
    BY TableExists
  <1>2. \E g : Table(g, SUBSET S, f) /\ SumFunctionOnSet(f, S) = g[S]
    BY <1>1 DEF SumFunctionOnSet, FoldFunctionOnSet, MapThenFoldSet, Table, Pick
  <1>3. SumFunction(f) = SumFunctionOnSet(f, S)
    BY DEF SumFunction
  <1> QED
    BY <1>2, <1>3

(* Congruence modulo n, which sums and products keep.                    *)
Cong(e, g, n) == \E q \in Int : e = g + q * n

LEMMA ModFacts ==
  ASSUME NEW n \in Nat \ {0}, NEW e \in Int
  PROVE  /\ e % n \in 0 .. n - 1 /\ e % n \in Int
         /\ Cong(e % n, e, n) /\ Cong(e, e % n, n) /\ Cong(e, e, n)
  <1>1. e % n \in 0 .. n - 1 /\ e \div n \in Int /\ e = (e \div n) * n + (e % n)
    OBVIOUS
  <1> DEFINE r == e % n
             k == e \div n
  <1>2. r \in 0 .. n - 1 /\ k \in Int /\ e = k * n + r
    BY <1>1
  <1> HIDE DEF r, k
  <1>3. e = r + k * n /\ r = e + (-k) * n /\ e = e + 0 * n /\ -k \in Int /\ 0 \in Int
    BY <1>2
  <1>4. Cong(r, e, n) /\ Cong(e, r, n) /\ Cong(e, e, n)
    BY <1>2, <1>3, Zenon DEF Cong
  <1> QED
    BY <1>2, <1>4 DEF r

LEMMA CongMod ==
  ASSUME NEW n \in Nat \ {0}, NEW e \in Int, NEW g \in Int, Cong(e, g, n)
  PROVE  e % n = g % n
  <1>1. PICK q \in Int : e = g + q * n
    BY DEF Cong
  <1>2. g % n \in 0 .. n - 1 /\ g \div n \in Int /\ g = (g \div n) * n + (g % n)
    OBVIOUS
  <1>3. e = (q + (g \div n)) * n + (g % n)
    BY <1>1, <1>2
  <1>4. ASSUME NEW k \in Int, NEW r \in 0 .. n - 1, e = k * n + r PROVE r = e % n
    BY <1>4
  <1>5. q + (g \div n) \in Int
    BY <1>2
  <1> QED
    BY <1>2, <1>3, <1>4, <1>5

LEMMA CongAdd ==
  ASSUME NEW n \in Nat, NEW e \in Int, NEW g \in Int, Cong(e, g, n),
         NEW h \in Int, NEW k \in Int, Cong(h, k, n)
  PROVE  Cong(e + h, g + k, n) /\ Cong(e - h, g - k, n)
  <1>1. PICK q \in Int : e = g + q * n
    BY DEF Cong
  <1>2. PICK r \in Int : h = k + r * n
    BY DEF Cong
  <1>3. /\ e + h = (g + k) + (q + r) * n /\ q + r \in Int
        /\ e - h = (g - k) + (q - r) * n /\ q - r \in Int
    BY <1>1, <1>2
  <1> QED
    BY <1>3, Zenon DEF Cong

LEMMA CongTimes ==
  ASSUME NEW n \in Nat, NEW e \in Int, NEW g \in Int, Cong(e, g, n), NEW h \in Int
  PROVE  Cong(e * h, g * h, n)
  <1>1. PICK q \in Int : e = g + q * n
    BY DEF Cong
  <1>2. e * h = g * h + (q * h) * n /\ q * h \in Int
    BY <1>1
  <1> QED
    BY <1>2, Zenon DEF Cong

LEMMA CongTrans ==
  ASSUME NEW n \in Nat, NEW e \in Int, NEW g \in Int, Cong(e, g, n),
         NEW h \in Int, Cong(g, h, n)
  PROVE  Cong(e, h, n)
  <1>1. PICK q \in Int : e = g + q * n
    BY DEF Cong
  <1>2. PICK r \in Int : g = h + r * n
    BY DEF Cong
  <1>3. e = h + (q + r) * n /\ q + r \in Int
    BY <1>1, <1>2
  <1> QED
    BY <1>3, Zenon DEF Cong

(* If g + h is congruent to (e + f) * key everywhere, so are the sums.   *)
LEMMA SumCong ==
  ASSUME NEW S, IsFiniteSet(S), NEW n \in Nat, NEW key \in Int,
         NEW e \in [S -> Int], NEW f \in [S -> Int],
         NEW g \in [S -> Int], NEW h \in [S -> Int],
         \A j \in S : Cong(g[j] + h[j], (e[j] + f[j]) * key, n)
  PROVE  /\ SumFunction(e) \in Int /\ SumFunction(f) \in Int
         /\ SumFunction(g) \in Int /\ SumFunction(h) \in Int
         /\ Cong(SumFunction(g) + SumFunction(h), (SumFunction(e) + SumFunction(f)) * key, n)
  <1>1. PICK te : Table(te, SUBSET S, e) /\ SumFunction(e) = te[S]
    BY SumTable
  <1>2. PICK tf : Table(tf, SUBSET S, f) /\ SumFunction(f) = tf[S]
    BY SumTable
  <1>3. PICK tg : Table(tg, SUBSET S, g) /\ SumFunction(g) = tg[S]
    BY SumTable
  <1>4. PICK th : Table(th, SUBSET S, h) /\ SumFunction(h) = th[S]
    BY SumTable
  <1> DEFINE Good(T) == /\ te[T] \in Int /\ tf[T] \in Int /\ tg[T] \in Int /\ th[T] \in Int
                        /\ Cong(tg[T] + th[T], (te[T] + tf[T]) * key, n)
             Bad == {k \in Nat : \E T \in SUBSET S : Cardinality(T) = k /\ ~Good(T)}
  <1>5. \A T \in SUBSET S : IsFiniteSet(T) /\ Cardinality(T) \in Nat
    BY FS_Subset, FS_CardinalityType
  <1>6. Good({})
    <2>1. te[{}] = 0 /\ tf[{}] = 0 /\ tg[{}] = 0 /\ th[{}] = 0
      BY <1>1, <1>2, <1>3, <1>4 DEF Table
    <2>2. 0 + 0 = (0 + 0) * key + 0 * n
      OBVIOUS
    <2> QED
      BY <2>1, <2>2 DEF Cong
  <1>7. ASSUME NEW T \in SUBSET S, T # {}, Good(T \ {Pick(T)})
        PROVE  Good(T)
    <2> DEFINE p == Pick(T)
               U == T \ {Pick(T)}
    <2>1. p \in T
      BY <1>7 DEF Pick
    <2>2. /\ te[T] = e[p] + te[U] /\ tf[T] = f[p] + tf[U]
          /\ tg[T] = g[p] + tg[U] /\ th[T] = h[p] + th[U]
      BY <1>7, <1>1, <1>2, <1>3, <1>4 DEF Table
    <2> HIDE DEF p, U
    <2>3. /\ e[p] \in Int /\ f[p] \in Int /\ g[p] \in Int /\ h[p] \in Int
          /\ Cong(g[p] + h[p], (e[p] + f[p]) * key, n)
      BY <2>1
    <2>4. /\ te[U] \in Int /\ tf[U] \in Int /\ tg[U] \in Int /\ th[U] \in Int
          /\ Cong(tg[U] + th[U], (te[U] + tf[U]) * key, n)
      BY <1>7 DEF U
    <2>5. /\ g[p] + h[p] \in Int /\ (e[p] + f[p]) * key \in Int
          /\ tg[U] + th[U] \in Int /\ (te[U] + tf[U]) * key \in Int
      BY <2>3, <2>4
    <2>6. Cong((g[p] + h[p]) + (tg[U] + th[U]), (e[p] + f[p]) * key + (te[U] + tf[U]) * key, n)
      BY <2>3, <2>4, <2>5, CongAdd
    <2>7. /\ (g[p] + h[p]) + (tg[U] + th[U]) = tg[T] + th[T]
          /\ (e[p] + f[p]) * key + (te[U] + tf[U]) * key = (te[T] + tf[T]) * key
      BY <2>2, <2>3, <2>4
    <2>8. te[T] \in Int /\ tf[T] \in Int /\ tg[T] \in Int /\ th[T] \in Int
      BY <2>2, <2>3, <2>4
    <2> QED
      BY <2>6, <2>7, <2>8
  <1> HIDE DEF Good
  <1>8. ASSUME NEW k \in Bad, \A l \in Bad : ~(<<l, k>> \in OpToRel(<, Nat))
        PROVE  FALSE
    <2>1. PICK T \in SUBSET S : Cardinality(T) = k /\ ~Good(T)
      OBVIOUS
    <2>2. T # {}
      BY <2>1, <1>6
    <2>3. Pick(T) \in T
      BY <2>2 DEF Pick
    <2>4. Cardinality(T \ {Pick(T)}) = k - 1 /\ k - 1 \in Nat
      <3>1. IsFiniteSet(T) /\ IsFiniteSet(T \ {Pick(T)}) /\ Cardinality(T \ {Pick(T)}) \in Nat
        BY <1>5
      <3>2. Cardinality(T \ {Pick(T)}) = Cardinality(T) - 1
        BY <2>3, <3>1, FS_RemoveElement
      <3> QED
        BY <2>1, <3>1, <3>2
    <2>5. T \ {Pick(T)} \in SUBSET S /\ ~Good(T \ {Pick(T)})
      BY <2>1, <2>2, <1>7
    <2>6. k - 1 \in Bad /\ <<k - 1, k>> \in OpToRel(<, Nat)
      BY <2>4, <2>5 DEF OpToRel
    <2> QED
      BY <2>6, <1>8
  <1>9. Bad = {}
    <2> SUFFICES ASSUME Bad # {} PROVE FALSE
      OBVIOUS
    <2>1. PICK k \in Bad : \A l \in Bad : ~(<<l, k>> \in OpToRel(<, Nat))
      BY NatLessThanWellFounded, WFMin
    <2> QED
      BY <2>1, <1>8
  <1>10. Good(S)
    BY <1>9, <1>5
  <1> QED
    BY <1>1, <1>2, <1>3, <1>4, <1>10 DEF Good

(* Powers of two, as the recursion of Pow2 defines them.                 *)
Width == KBits + SBits + SBits

LEMMA Pow2Def ==
  \A n \in 0 .. Width : Pow2[n] = IF n = 0 THEN 1 ELSE 2 * Pow2[n - 1]
  <1> DEFINE Powers(g, w) == g = [n \in 0 .. w |-> IF n = 0 THEN 1 ELSE 2 * g[n - 1]]
             Bad == {w \in Nat : ~ \E g : Powers(g, w)}
  <1>1. ASSUME NEW w \in Bad, \A k \in Bad : ~(<<k, w>> \in OpToRel(<, Nat))
        PROVE  FALSE
    <2>1. CASE w = 0
      <3>1. Powers([n \in 0 .. 0 |-> 1], 0)
        OBVIOUS
      <3> QED
        BY <2>1, <3>1
    <2>2. CASE w # 0
      <3>1. w - 1 \in Nat /\ <<w - 1, w>> \in OpToRel(<, Nat)
        BY <2>2 DEF OpToRel
      <3>2. PICK g : Powers(g, w - 1)
        BY <3>1, <1>1
      <3> DEFINE h == [n \in 0 .. w |-> IF n = 0 THEN 1 ELSE 2 * g[n - 1]]
      <3>a. w \in Nat
        OBVIOUS
      <3>b. g = [n \in 0 .. w - 1 |-> IF n = 0 THEN 1 ELSE 2 * g[n - 1]]
        BY <3>2
      <3>3. \A n \in 0 .. w - 1 : g[n] = h[n]
        <4> SUFFICES ASSUME NEW n \in 0 .. w - 1 PROVE g[n] = h[n]
          OBVIOUS
        <4>1. n \in 0 .. w
          BY <3>a
        <4>2. h[n] = IF n = 0 THEN 1 ELSE 2 * g[n - 1]
          BY <4>1
        <4> HIDE DEF h
        <4>3. g[n] = IF n = 0 THEN 1 ELSE 2 * g[n - 1]
          BY <3>b
        <4> QED
          BY <4>2, <4>3
      <3>4. \A n \in 0 .. w : n # 0 => g[n - 1] = h[n - 1]
        <4> SUFFICES ASSUME NEW n \in 0 .. w, n # 0 PROVE g[n - 1] = h[n - 1]
          OBVIOUS
        <4>1. n - 1 \in 0 .. w - 1
          BY <3>a
        <4> HIDE DEF h
        <4> QED
          BY <4>1, <3>3
      <3>5. \A n \in 0 .. w : (IF n = 0 THEN 1 ELSE 2 * g[n - 1]) = (IF n = 0 THEN 1 ELSE 2 * h[n - 1])
        <4> HIDE DEF h
        <4> QED
          BY <3>4
      <3>6. h = [n \in 0 .. w |-> IF n = 0 THEN 1 ELSE 2 * g[n - 1]]
        OBVIOUS
      <3>7. Powers(h, w)
        <4> HIDE DEF h
        <4> QED
          BY <3>5, <3>6
      <3> QED
        BY <3>7
    <2> QED
      BY <2>1, <2>2
  <1>2. Bad = {}
    <2> SUFFICES ASSUME Bad # {} PROVE FALSE
      OBVIOUS
    <2>1. PICK w \in Bad : \A k \in Bad : ~(<<k, w>> \in OpToRel(<, Nat))
      BY NatLessThanWellFounded, WFMin
    <2> QED
      BY <2>1, <1>1
  <1>3. Width \in Nat
    BY SizeAssumption DEF Width
  <1>4. \E g : Powers(g, Width)
    BY <1>2, <1>3
  <1>5. Powers(Pow2, Width)
    BY <1>4 DEF Pow2, Width
  <1> QED
    BY <1>5

LEMMA Pow2Facts ==
  /\ Pow2[0] = 1
  /\ \A n \in 0 .. Width : Pow2[n] \in Nat \ {0}
  /\ \A n \in 0 .. Width - 1 : Pow2[n + 1] = 2 * Pow2[n]
  <1> DEFINE Bad == {n \in Nat : n <= Width /\ Pow2[n] \notin Nat \ {0}}
  <1>0. Width \in Nat
    BY SizeAssumption DEF Width
  <1>1. ASSUME NEW n \in Bad, \A k \in Bad : ~(<<k, n>> \in OpToRel(<, Nat))
        PROVE  FALSE
    <2>1. n # 0
      BY Pow2Def, <1>0
    <2>2. n - 1 \in Nat /\ <<n - 1, n>> \in OpToRel(<, Nat)
      BY <2>1 DEF OpToRel
    <2>3. n \in 0 .. Width /\ n - 1 \in 0 .. Width /\ Pow2[n] \notin Nat \ {0}
      BY <2>1, <1>0
    <2>4. n - 1 \notin Bad
      BY <2>2, <1>1
    <2>5. Pow2[n - 1] \in Nat \ {0}
      <3> SUFFICES ASSUME Pow2[n - 1] \notin Nat \ {0} PROVE n - 1 \in Bad
        BY <2>4
      <3>1. n - 1 \in Nat /\ n - 1 <= Width
        <4>1. n \in Nat /\ n <= Width
          OBVIOUS
        <4> HIDE DEF Bad
        <4> QED
          BY <4>1, <2>1, <1>0
      <3> QED
        BY <3>1
    <2>6. Pow2[n] = 2 * Pow2[n - 1]
      BY <2>1, <2>3, Pow2Def
    <2> QED
      BY <2>3, <2>5, <2>6
  <1>2. Bad = {}
    <2> SUFFICES ASSUME Bad # {} PROVE FALSE
      OBVIOUS
    <2>1. PICK n \in Bad : \A k \in Bad : ~(<<k, n>> \in OpToRel(<, Nat))
      BY NatLessThanWellFounded, WFMin
    <2> QED
      BY <2>1, <1>1
  <1> QED
    BY <1>0, <1>2, Pow2Def

(* A number modulo 2^(i + 1) has one more bit than modulo 2^i.           *)
LEMMA NextBit ==
  ASSUME NEW e \in Nat, NEW q \in Nat \ {0}
  PROVE  /\ (e \div q) % 2 \in 0 .. 1
         /\ e % (2 * q) = (e % q) + ((e \div q) % 2) * q
  <1> DEFINE w == e \div q
             r == e % q
             u == w \div 2
             t == w % 2
  <1>1. w \in Int /\ r \in 0 .. q - 1 /\ e = w * q + r
    OBVIOUS
  <1>2. u \in Int /\ t \in 0 .. 1 /\ w = u * 2 + t
    BY <1>1
  <1> HIDE DEF w, r, u, t
  <1>3. e = u * (2 * q) + (r + t * q)
    BY <1>1, <1>2
  <1>4. r + t * q \in 0 .. 2 * q - 1
    <2>1. CASE t = 0
      BY <2>1, <1>1
    <2>2. CASE t = 1
      BY <2>2, <1>1
    <2> QED
      BY <1>2, <2>1, <2>2
  <1>5. ASSUME NEW k \in Nat \ {0}, NEW s \in 0 .. k - 1, e = u * k + s PROVE s = e % k
    BY <1>2, <1>5
  <1>6. 2 * q \in Nat \ {0}
    OBVIOUS
  <1>7. r + t * q = e % (2 * q)
    BY <1>3, <1>4, <1>5, <1>6
  <1> QED
    BY <1>2, <1>7 DEF w, r, t

---------------------------------------------------------------------------
(* The constants, the rings and the vector OLE.                            *)

(* The MAC key, and the values of inputs that never change.              *)
Key == Alpha[0] + Alpha[1]
InputType == in \in [Clients -> Vec(ZKS)] /\ mode \in 0 .. 2

(* The types of the constants and of the moduli.                         *)
LEMMA RingFacts ==
  /\ ZKS \in Nat \ {0} /\ ZK2S \in Nat \ {0} /\ IsFiniteSet(Idx) /\ Mask \in Idx
  /\ Alpha[0] \in Nat /\ Alpha[1] \in Nat /\ Key \in Nat /\ SBits \in 0 .. Width
  /\ Alpha[0] < Pow2[SBits]
  /\ \A i \in 0 .. SBits : Pow2[i] \in Nat \ {0}
  /\ \A i \in 0 .. SBits - 1 : Pow2[i + 1] = 2 * Pow2[i]
  /\ \A j \in Idx : Prg[0][j] \in Nat /\ Prg[1][j] \in Nat
  /\ \A c \in Clients, j \in Idx : Weight(c, j) \in Nat
  <1>1. /\ SBits \in Nat /\ KBits \in Nat /\ KBits + SBits \in 0 .. Width /\ Width \in Nat
        /\ SBits \in 0 .. Width /\ Width \in 0 .. Width
    BY SizeAssumption DEF Width
  <1>2. ZKS \in Nat \ {0} /\ ZK2S \in Nat \ {0} /\ Pow2[SBits] \in Nat \ {0}
    BY <1>1, Pow2Facts DEF ZKS, ZK2S, Width
  <1>3. IsFiniteSet(Idx) /\ Mask \in Idx
    BY SizeAssumption, FS_Interval DEF Idx, Mask
  <1>4. Alpha[0] \in 0 .. Pow2[SBits] - 1 /\ Alpha[1] \in 0 .. Pow2[SBits] - 1
    BY DataAssumption DEF Servers
  <1>5. /\ \A i \in 0 .. SBits : Pow2[i] \in Nat \ {0}
        /\ \A i \in 0 .. SBits - 1 : Pow2[i + 1] = 2 * Pow2[i]
    <2>1. (\A i \in 0 .. SBits : i \in 0 .. Width) /\ (\A i \in 0 .. SBits - 1 : i \in 0 .. Width - 1)
      BY SizeAssumption DEF Width
    <2> QED
      BY <2>1, Pow2Facts
  <1>6. \A j \in Idx : Prg[0][j] \in Nat /\ Prg[1][j] \in Nat
    BY DataAssumption, <1>2 DEF Vec
  <1>7. ASSUME NEW c \in Clients, NEW j \in Idx PROVE Weight(c, j) \in Nat
    <2>1. j # Mask => j \in 1 .. XLen
      BY SizeAssumption DEF Idx, Mask
    <2>2. j # Mask => R[c][j] \in 0 .. Pow2[SBits] - 1
      BY <2>1, DataAssumption
    <2> QED
      BY <2>2, <1>2 DEF Weight
  <1> QED
    BY <1>1, <1>2, <1>3, <1>4, <1>5, <1>6, <1>7 DEF Key

(* What the client commits to is its input, whatever the ring.             *)
LEMMA SharePlain ==
  ASSUME InputType, NEW c \in Clients, NEW j \in Idx
  PROVE  in[c][j] \in 0 .. ZKS - 1 /\ in[c][j] \in Nat /\ X1(c, j) = in[c][j] /\ Xv(c, j) = in[c][j]
  <1>1. in[c][j] \in 0 .. ZKS - 1
    BY DEF InputType, Vec
  <1>2. ASSUME NEW n \in Nat \ {0}, NEW e \in 0 .. n - 1 PROVE (e - 0) % n = e /\ (0 + e) % n = e
    BY <1>2
  <1>3. (in[c][j] - 0) % ZKS = in[c][j] /\ (0 + in[c][j]) % ZKS = in[c][j]
    BY <1>1, <1>2, RingFacts
  <1> QED
    BY <1>1, <1>3, RingFacts DEF X1, Xv, X0

(* The outputs of the vector OLE after i rounds.                           *)
BVal(j, i) == (Prg[0][j] * (Pow2[i] - 1)) % ZK2S
AVal(c, j, i) ==
  (Prg[0][j] * (Pow2[i] - 1) + in[c][j] * (Alpha[0] % Pow2[i])) % ZK2S
UVal(c, j) == (Xv(c, j) + Prg[1][j] + Prg[0][j]) % ZK2S

(* The outputs before the first round, and what a round adds to them.    *)
LEMMA VoleStart ==
  ASSUME InputType, NEW c \in Clients, NEW j \in Idx
  PROVE  BVal(j, 0) = 0 /\ AVal(c, j, 0) = 0
  <1>1. /\ Pow2[0] = 1 /\ Prg[0][j] \in Nat /\ in[c][j] \in Nat /\ Alpha[0] \in Nat
        /\ ZK2S \in Nat \ {0}
    BY RingFacts, SharePlain, Pow2Facts
  <1>2. Prg[0][j] * (1 - 1) = 0 /\ Alpha[0] % 1 = 0 /\ in[c][j] * 0 = 0
    BY <1>1
  <1>3. 0 % ZK2S = 0
    BY <1>1
  <1> QED
    BY <1>1, <1>2, <1>3 DEF BVal, AVal

LEMMA VoleSent ==
  ASSUME NEW j \in Idx, NEW i \in 0 .. SBits - 1
  PROVE  (BVal(j, i) + Prg[0][j] * Pow2[i]) % ZK2S = BVal(j, i + 1)
  <1> DEFINE n == ZK2S
             p == Prg[0][j]
             q == Pow2[i]
             e == p * (q - 1)
  <1>1. i \in 0 .. SBits
    BY SizeAssumption
  <1>2. n \in Nat \ {0} /\ p \in Nat /\ q \in Nat \ {0} /\ Pow2[i + 1] = 2 * q
    BY <1>1, RingFacts
  <1> HIDE DEF n, p, q
  <1>3. e \in Int /\ p * q \in Int /\ e + p * q = p * (2 * q - 1)
    BY <1>2
  <1> HIDE DEF e
  <1>4. Cong(e % n, e, n) /\ e % n \in Int /\ Cong(p * q, p * q, n)
    BY <1>2, <1>3, ModFacts
  <1>5. Cong((e % n) + p * q, e + p * q, n)
    BY <1>2, <1>3, <1>4, CongAdd
  <1>6. (e % n) + p * q \in Int /\ e + p * q \in Int
    BY <1>3, <1>4
  <1>7. ((e % n) + p * q) % n = (e + p * q) % n
    BY <1>2, <1>5, <1>6, CongMod
  <1> QED
    BY <1>2, <1>3, <1>7 DEF BVal, n, p, q, e

LEMMA VoleReceived ==
  ASSUME InputType, NEW c \in Clients, NEW j \in Idx, NEW i \in 0 .. SBits - 1,
         NEW choice, choice = (Alpha[0] \div Pow2[i]) % 2
  PROVE  (AVal(c, j, i) + (IF choice = 1 THEN UVal(c, j) - Prg[choice][j] ELSE Prg[choice][j])
                            * Pow2[i]) % ZK2S
           = AVal(c, j, i + 1)
  <1> DEFINE n == ZK2S
             p == Prg[0][j]
             p1 == Prg[1][j]
             y == in[c][j]
             q == Pow2[i]
             k == Alpha[0] % q
             e == p * (q - 1) + y * k
             u == y + p1 + p
             got == IF choice = 1 THEN (u % n) - p1 ELSE p
             add == y * choice + p
  <1>1. i \in 0 .. SBits
    BY SizeAssumption
  <1>2. /\ n \in Nat \ {0} /\ p \in Nat /\ p1 \in Nat /\ q \in Nat \ {0} /\ Pow2[i + 1] = 2 * q
        /\ y \in Nat /\ Alpha[0] \in Nat
    BY <1>1, RingFacts, SharePlain
  <1>3. choice \in 0 .. 1 /\ Alpha[0] % (2 * q) = k + choice * q
    BY <1>2, NextBit
  <1>4. k \in Int
    BY <1>2
  <1>5. Xv(c, j) = y
    BY SharePlain
  <1> HIDE DEF n, p, p1, q, y, k
  <1>6. e \in Int /\ u \in Int /\ add \in Int
    BY <1>2, <1>3, <1>4
  <1>7. e + add * q = p * (2 * q - 1) + y * (k + choice * q)
    BY <1>2, <1>3, <1>4
  <1>a. u - p1 = y + p /\ (choice = 1 => add = y + p) /\ (choice = 0 => add = p) /\ p1 \in Int
    BY <1>2
  <1> HIDE DEF u, add
  <1>8. got \in Int /\ Cong(got, add, n)
    <2>1. CASE choice = 1
      <3>1. Cong(u % n, u, n) /\ u % n \in Int /\ Cong(p1, p1, n)
        BY <1>2, <1>6, <1>a, ModFacts
      <3>2. Cong((u % n) - p1, u - p1, n)
        BY <1>2, <1>6, <1>a, <3>1, CongAdd
      <3>3. u - p1 = add /\ (u % n) - p1 \in Int
        BY <2>1, <1>a, <3>1
      <3> QED
        BY <2>1, <3>2, <3>3
    <2>2. CASE choice = 0
      <3>1. got = p /\ add = p
        BY <2>2, <1>a
      <3>2. Cong(p, p, n)
        BY <1>2, ModFacts
      <3> QED
        BY <3>1, <3>2, <1>2
    <2> QED
      BY <1>3, <2>1, <2>2
  <1> HIDE DEF e, got
  <1>9. Cong(e % n, e, n) /\ e % n \in Int
    BY <1>2, <1>6, <1>a, ModFacts
  <1>10. Cong(got * q, add * q, n) /\ got * q \in Int /\ add * q \in Int
    BY <1>2, <1>6, <1>8, CongTimes
  <1>11. Cong((e % n) + got * q, e + add * q, n)
    BY <1>2, <1>6, <1>9, <1>10, CongAdd
  <1>12. (e % n) + got * q \in Int /\ e + add * q \in Int
    BY <1>6, <1>9, <1>10
  <1>13. ((e % n) + got * q) % n = (e + add * q) % n
    BY <1>2, <1>11, <1>12, CongMod
  <1>14. AVal(c, j, i) = e % n
    BY DEF AVal, e, n, p, q, y, k
  <1>15. (IF choice = 1 THEN UVal(c, j) - Prg[choice][j] ELSE Prg[choice][j]) = got
    <2>1. UVal(c, j) = u % n
      BY <1>5 DEF UVal, u, n, p, p1
    <2> QED
      BY <2>1, <1>3 DEF got, p, p1
  <1>16. AVal(c, j, i + 1) = (p * (2 * q - 1) + y * (k + choice * q)) % n
    BY <1>2, <1>3 DEF AVal, n, p, y
  <1>17. Pow2[i] = q /\ ZK2S = n
    BY DEF q, n
  <1> QED
    BY <1>7, <1>13, <1>14, <1>15, <1>16, <1>17

---------------------------------------------------------------------------
(* The shares of the two servers and the sums they exchange.               *)

(* The shares of client c that server s ends up with.                      *)
XShare(s, c) == IF s = 0 THEN [j \in Idx |-> X0] ELSE [j \in Idx |-> X1(c, j)]
MShare(s, c) ==
  IF s = 0 THEN [j \in Idx |-> IF mode = 0 THEN M0 ELSE (AVal(c, j, SBits) - Ab0) % ZK2S]
  ELSE [j \in Idx |-> IF mode = 0 THEN M1(c, j)
                      ELSE (X1(c, j) * Alpha[1] + Ab0 - BVal(j, SBits)) % ZK2S]

(* Shares add up to the input, MAC shares to the input times the key.    *)
LEMMA ShareFacts ==
  ASSUME InputType, NEW c \in Clients
  PROVE  /\ \A s \in Servers : XShare(s, c) \in [Idx -> Int] /\ MShare(s, c) \in [Idx -> Int]
         /\ \A j \in Idx :
              /\ XShare(0, c)[j] + XShare(1, c)[j] = in[c][j]
              /\ Cong(MShare(0, c)[j] + MShare(1, c)[j],
                      (XShare(0, c)[j] + XShare(1, c)[j]) * Key, ZK2S)
  <1> DEFINE n == ZK2S
  <1>1. n \in Nat \ {0} /\ Key \in Nat /\ Alpha[0] \in Nat /\ Alpha[1] \in Nat /\ Key = Alpha[0] + Alpha[1]
    BY RingFacts DEF Key
  <1>2. ASSUME NEW j \in Idx
        PROVE  /\ XShare(0, c)[j] = 0 /\ XShare(1, c)[j] = in[c][j] /\ in[c][j] \in Nat
    BY SharePlain DEF XShare, X0
  <1>3. ASSUME NEW j \in Idx, mode = 0
        PROVE  /\ MShare(0, c)[j] = 0 /\ MShare(1, c)[j] \in Int
               /\ Cong(MShare(1, c)[j], in[c][j] * Key, n)
    <2>1. MShare(0, c)[j] = 0 /\ MShare(1, c)[j] = M1(c, j)
      BY <1>3 DEF MShare, M0
    <2>2. M1(c, j) = (((0 + in[c][j]) * Key) - 0) % n
      BY SharePlain DEF M1, X0, M0, Key
    <2> DEFINE e == in[c][j] * Key
    <2>3. e \in Int /\ ((0 + in[c][j]) * Key) - 0 = e
      BY <1>1, <1>2
    <2> HIDE DEF e, n
    <2>4. Cong(e % n, e, n) /\ e % n \in Int
      BY <1>1, <2>3, ModFacts
    <2> QED
      BY <2>1, <2>2, <2>3, <2>4 DEF e
  <1>4. ASSUME NEW j \in Idx, mode # 0
        PROVE  /\ MShare(0, c)[j] \in Int /\ MShare(1, c)[j] \in Int
               /\ Cong(MShare(0, c)[j] + MShare(1, c)[j], in[c][j] * Key, n)
    <2> DEFINE y == in[c][j]
               q == Pow2[SBits]
               e == Prg[0][j] * (q - 1)
               f == y * Alpha[0]
               g == y * Alpha[1]
               am == (e + f) % n
               bm == e % n
    <2>1. /\ y \in Nat /\ q \in Nat \ {0} /\ Prg[0][j] \in Nat /\ SBits \in 0 .. SBits
      BY <1>2, RingFacts, SizeAssumption
    <2>2. Alpha[0] % q = Alpha[0]
      <3>1. ASSUME NEW k \in Nat \ {0}, NEW t \in 0 .. k - 1 PROVE t % k = t
        BY <3>1
      <3>2. Alpha[0] \in 0 .. q - 1
        BY RingFacts, <2>1
      <3> HIDE DEF q
      <3> QED
        BY <3>1, <3>2, <2>1
    <2>3. AVal(c, j, SBits) = am /\ BVal(j, SBits) = bm
      BY <2>2 DEF AVal, BVal
    <2>4. MShare(0, c)[j] = (am - 0) % n /\ MShare(1, c)[j] = (y * Alpha[1] + 0 - bm) % n
      BY <1>4, <2>3, SharePlain DEF MShare, Ab0, Servers
    <2>5. e \in Int /\ f \in Int /\ g \in Int /\ f + g = y * Key /\ y * Key \in Int
      BY <2>1, <1>1
    <2>6. MShare(1, c)[j] = (g + 0 - bm) % n
      BY <2>4
    <2> HIDE DEF n, y, q, e, f, g
    <2>7. am \in Int /\ Cong(am, e + f, n) /\ bm \in Int /\ Cong(bm, e, n) /\ Cong(g, g, n)
      <3>1. e + f \in Int
        BY <2>5
      <3> QED
        BY <1>1, <2>5, <3>1, ModFacts
    <2> HIDE DEF am, bm
    <2>8. Cong(g - bm, g - e, n)
      BY <1>1, <2>5, <2>7, CongAdd
    <2>9. /\ am - 0 = am /\ g + 0 - bm = g - bm /\ g - bm \in Int /\ e + f \in Int /\ g - e \in Int
      BY <2>5, <2>7
    <2>10. /\ am % n \in Int /\ Cong(am % n, am, n)
           /\ (g - bm) % n \in Int /\ Cong((g - bm) % n, g - bm, n)
      BY <1>1, <2>7, <2>9, ModFacts
    <2>11. Cong(am % n, e + f, n) /\ Cong((g - bm) % n, g - e, n)
      BY <1>1, <2>7, <2>8, <2>9, <2>10, CongTrans
    <2>12. Cong((am % n) + ((g - bm) % n), (e + f) + (g - e), n)
      BY <1>1, <2>9, <2>10, <2>11, CongAdd
    <2>13. (e + f) + (g - e) = y * Key
      BY <2>5
    <2> QED
      BY <2>4, <2>6, <2>9, <2>10, <2>12, <2>13 DEF y
  <1>5. ASSUME NEW j \in Idx
        PROVE  /\ MShare(0, c)[j] \in Int /\ MShare(1, c)[j] \in Int
               /\ Cong(MShare(0, c)[j] + MShare(1, c)[j], in[c][j] * Key, n)
    <2>1. CASE mode = 0
      <3>1. MShare(0, c)[j] + MShare(1, c)[j] = MShare(1, c)[j]
        BY <1>3, <2>1
      <3> QED
        BY <1>3, <2>1, <3>1
    <2> QED
      BY <1>4, <2>1
  <1>6. ASSUME NEW s \in Servers PROVE XShare(s, c) \in [Idx -> Int] /\ MShare(s, c) \in [Idx -> Int]
    <2>0. s = 0 \/ s = 1
      BY DEF Servers
    <2>1. \A j \in Idx : XShare(s, c)[j] \in Int /\ MShare(s, c)[j] \in Int
      BY <2>0, <1>2, <1>5
    <2>2. DOMAIN XShare(s, c) = Idx /\ XShare(s, c) = [j \in Idx |-> XShare(s, c)[j]]
      BY DEF XShare
    <2>3. DOMAIN MShare(s, c) = Idx /\ MShare(s, c) = [j \in Idx |-> MShare(s, c)[j]]
      BY DEF MShare
    <2> QED
      BY <2>1, <2>2, <2>3
  <1>7. ASSUME NEW j \in Idx
        PROVE  /\ XShare(0, c)[j] + XShare(1, c)[j] = in[c][j]
               /\ Cong(MShare(0, c)[j] + MShare(1, c)[j],
                      (XShare(0, c)[j] + XShare(1, c)[j]) * Key, n)
    <2>1. XShare(0, c)[j] + XShare(1, c)[j] = in[c][j]
      BY <1>2
    <2> QED
      BY <2>1, <1>5
  <1> QED
    BY <1>6, <1>7

(* What server s sends: its masked sums, then its part of the difference.  *)
VWord(s, c) == Masked(c, XShare(s, c)) % ZK2S
DWord(s, c) == Masked(c, MShare(s, c)) % ZK2S
ZWord(s, c) ==
  (DWord(s, c) - ((VWord(Other(s), c) + VWord(s, c)) % ZK2S) * Alpha[s]) % ZK2S

(* So do their masked sums: those of the MACs add up to v times the key. *)
LEMMA MaskedFacts ==
  ASSUME InputType, NEW c \in Clients
  PROVE  /\ \A s \in Servers : Masked(c, XShare(s, c)) \in Int /\ Masked(c, MShare(s, c)) \in Int
         /\ Cong(Masked(c, MShare(0, c)) + Masked(c, MShare(1, c)),
                 (Masked(c, XShare(0, c)) + Masked(c, XShare(1, c))) * Key, ZK2S)
  <1> DEFINE T(xs) == [j \in Idx |-> Weight(c, j) * xs[j]]
             e == T(XShare(0, c))
             f == T(XShare(1, c))
             g == T(MShare(0, c))
             h == T(MShare(1, c))
  <1>1. /\ XShare(0, c) \in [Idx -> Int] /\ XShare(1, c) \in [Idx -> Int]
        /\ MShare(0, c) \in [Idx -> Int] /\ MShare(1, c) \in [Idx -> Int]
    BY ShareFacts DEF Servers
  <1>2. \A xs \in [Idx -> Int] : T(xs) \in [Idx -> Int] /\ Masked(c, xs) = SumFunction(T(xs))
    BY RingFacts DEF Masked
  <1>3. ASSUME NEW j \in Idx PROVE Cong(g[j] + h[j], (e[j] + f[j]) * Key, ZK2S)
    <2> DEFINE w == Weight(c, j)
               x0 == XShare(0, c)[j]
               x1 == XShare(1, c)[j]
               m0 == MShare(0, c)[j]
               m1 == MShare(1, c)[j]
    <2>1. /\ w \in Nat /\ x0 \in Int /\ x1 \in Int /\ m0 \in Int /\ m1 \in Int
          /\ Key \in Nat /\ ZK2S \in Nat
      BY <1>1, RingFacts
    <2>2. Cong(m0 + m1, (x0 + x1) * Key, ZK2S)
      BY ShareFacts
    <2>3. g[j] = w * m0 /\ h[j] = w * m1 /\ e[j] = w * x0 /\ f[j] = w * x1
      OBVIOUS
    <2> HIDE DEF w, x0, x1, m0, m1, e, f, g, h
    <2>4. m0 + m1 \in Int /\ (x0 + x1) * Key \in Int
      BY <2>1
    <2>5. Cong((m0 + m1) * w, ((x0 + x1) * Key) * w, ZK2S)
      BY <2>1, <2>2, <2>4, CongTimes
    <2>6. (m0 + m1) * w = w * m0 + w * m1 /\ ((x0 + x1) * Key) * w = (w * x0 + w * x1) * Key
      BY <2>1
    <2> QED
      BY <2>3, <2>5, <2>6
  <1>4. e \in [Idx -> Int] /\ f \in [Idx -> Int] /\ g \in [Idx -> Int] /\ h \in [Idx -> Int]
    BY <1>1, <1>2
  <1>5. /\ Masked(c, XShare(0, c)) = SumFunction(e) /\ Masked(c, XShare(1, c)) = SumFunction(f)
        /\ Masked(c, MShare(0, c)) = SumFunction(g) /\ Masked(c, MShare(1, c)) = SumFunction(h)
    BY <1>1, <1>2
  <1> HIDE DEF e, f, g, h
  <1>6. IsFiniteSet(Idx) /\ ZK2S \in Nat /\ Key \in Int
    BY RingFacts
  <1>7. /\ SumFunction(e) \in Int /\ SumFunction(f) \in Int
        /\ SumFunction(g) \in Int /\ SumFunction(h) \in Int
        /\ Cong(SumFunction(g) + SumFunction(h), (SumFunction(e) + SumFunction(f)) * Key, ZK2S)
    BY <1>3, <1>4, <1>6, SumCong
  <1> QED
    BY <1>5, <1>7 DEF Servers

(* The differences of both servers cancel out.                             *)
LEMMA CheckZero ==
  ASSUME InputType, NEW c \in Clients, NEW s \in Servers
  PROVE  /\ ZWord(s, c) \in Int /\ VWord(s, c) \in Int /\ DWord(s, c) \in Int
         /\ (ZWord(Other(s), c) + ZWord(s, c)) % ZK2S = 0
  <1> DEFINE n == ZK2S
             e == Masked(c, XShare(0, c))
             f == Masked(c, XShare(1, c))
             g == Masked(c, MShare(0, c))
             h == Masked(c, MShare(1, c))
             w == ((e % n) + (f % n)) % n
             z0 == ((g % n) - w * Alpha[0]) % n
             z1 == ((h % n) - w * Alpha[1]) % n
  <1>1. /\ e \in Int /\ f \in Int /\ g \in Int /\ h \in Int /\ Cong(g + h, (e + f) * Key, n)
    BY MaskedFacts DEF Servers
  <1>2. n \in Nat \ {0} /\ Key \in Nat /\ Alpha[0] \in Nat /\ Alpha[1] \in Nat /\ Key = Alpha[0] + Alpha[1]
    BY RingFacts DEF Key
  <1>3. /\ s \in {0, 1} /\ Other(0) = 1 /\ Other(1) = 0
    BY DEF Servers, Other, NUM_SRV
  <1>4. VWord(0, c) = e % n /\ VWord(1, c) = f % n /\ DWord(0, c) = g % n /\ DWord(1, c) = h % n
    BY DEF VWord, DWord
  <1> HIDE DEF n, e, f, g, h
  <1>5. /\ e % n \in Int /\ f % n \in Int /\ g % n \in Int /\ h % n \in Int
        /\ Cong(e % n, e, n) /\ Cong(f % n, f, n) /\ Cong(g % n, g, n) /\ Cong(h % n, h, n)
    BY <1>1, <1>2, ModFacts
  <1>6. ZWord(0, c) = z0 /\ ZWord(1, c) = z1
    <2>1. (f % n) + (e % n) = (e % n) + (f % n)
      BY <1>5
    <2> QED
      BY <1>3, <1>4, <2>1 DEF ZWord, n
  <1>7. w \in Int /\ Cong(w, e + f, n)
    <2>a. Cong((e % n) + (f % n), e + f, n)
      BY <1>1, <1>2, <1>5, CongAdd
    <2>1. Cong((e % n) + (f % n), e + f, n) /\ (e % n) + (f % n) \in Int /\ e + f \in Int
      BY <1>1, <1>5, <2>a
    <2>2. w \in Int /\ Cong(w, (e % n) + (f % n), n)
      BY <1>2, <2>1, ModFacts
    <2> HIDE DEF w
    <2> QED
      BY <1>2, <2>1, <2>2, CongTrans
  <1> HIDE DEF w
  <1>8. /\ (g % n) - w * Alpha[0] \in Int /\ (h % n) - w * Alpha[1] \in Int
    BY <1>2, <1>5, <1>7
  <1>9. /\ z0 \in Int /\ Cong(z0, (g % n) - w * Alpha[0], n)
        /\ z1 \in Int /\ Cong(z1, (h % n) - w * Alpha[1], n)
    BY <1>2, <1>8, ModFacts
  <1> HIDE DEF z0, z1
  <1>10. Cong(z0 + z1, ((g % n) - w * Alpha[0]) + ((h % n) - w * Alpha[1]), n)
    BY <1>2, <1>8, <1>9, CongAdd
  <1>11. ((g % n) - w * Alpha[0]) + ((h % n) - w * Alpha[1]) = ((g % n) + (h % n)) - w * Key
    BY <1>2, <1>5, <1>7
  <1>12. Cong(((g % n) + (h % n)) - w * Key, (g + h) - (e + f) * Key, n)
    <2>1. Cong((g % n) + (h % n), g + h, n)
      BY <1>1, <1>2, <1>5, CongAdd
    <2>2. Cong(w * Key, (e + f) * Key, n)
      BY <1>1, <1>2, <1>7, CongTimes
    <2>3. /\ (g % n) + (h % n) \in Int /\ g + h \in Int /\ w * Key \in Int /\ (e + f) * Key \in Int
      BY <1>1, <1>2, <1>5, <1>7
    <2> QED
      BY <1>2, <2>1, <2>2, <2>3, CongAdd
  <1>13. Cong((g + h) - (e + f) * Key, 0, n)
    <2> DEFINE r == (e + f) * Key
               t == g + h
    <2>1. r \in Int /\ t \in Int /\ Cong(t, r, n)
      BY <1>1, <1>2
    <2> HIDE DEF r, t
    <2>2. Cong(r, r, n)
      BY <1>2, <2>1, ModFacts
    <2>3. Cong(t - r, r - r, n) /\ r - r = 0
      BY <1>2, <2>1, <2>2, CongAdd
    <2> QED
      BY <2>3 DEF r, t
  <1>14. /\ z0 + z1 \in Int /\ ((g % n) + (h % n)) - w * Key \in Int
         /\ (g + h) - (e + f) * Key \in Int
    BY <1>1, <1>2, <1>5, <1>7, <1>9
  <1>15. Cong(z0 + z1, (g + h) - (e + f) * Key, n)
    BY <1>2, <1>10, <1>11, <1>12, <1>14, CongTrans
  <1>16. Cong(z0 + z1, 0, n)
    BY <1>2, <1>13, <1>14, <1>15, CongTrans
  <1>17. (z0 + z1) % n = 0
    <2>1. (z0 + z1) % n = 0 % n
      <3> DEFINE t == z0 + z1
                 o == 0
      <3>1. t \in Int /\ o \in Int /\ Cong(t, o, n)
        BY <1>14, <1>16
      <3> HIDE DEF t, o
      <3>2. t % n = o % n
        BY <1>2, <3>1, CongMod
      <3> QED
        BY <3>2 DEF t, o
    <2>2. 0 % n = 0
      BY <1>2
    <2> QED
      BY <2>1, <2>2
  <1>18. (ZWord(Other(s), c) + ZWord(s, c)) % n = 0
    <2>1. z1 + z0 = z0 + z1
      BY <1>9
    <2> QED
      BY <1>3, <1>6, <1>17, <2>1
  <1> QED
    BY <1>3, <1>4, <1>5, <1>6, <1>9, <1>18 DEF n

---------------------------------------------------------------------------
(* The invariant: every value in the state and on the streams as a         *)
(* function of the inputs and of how far its owner is.                     *)

(* What is on the streams of a client.                                     *)
Round(c) == [j \in Idx |-> UVal(c, j)]
Handed(c) ==
  [x |-> [j \in Idx |-> X1(c, j)],
   m |-> [j \in Idx |-> IF mode = 0 THEN M1(c, j) ELSE BVal(j, SBits)]]

(* The domains of the functions in the state.                            *)
Shape ==
  /\ DOMAIN b = Clients /\ DOMAIN a = Clients
  /\ DOMAIN x = Servers /\ DOMAIN m = Servers
  /\ DOMAIN v = Servers /\ DOMAIN d = Servers /\ DOMAIN z = Servers
  /\ \A s \in Servers :
       /\ DOMAIN x[s] = Clients /\ DOMAIN m[s] = Clients
       /\ DOMAIN v[s] = Clients /\ DOMAIN d[s] = Clients /\ DOMAIN z[s] = Clients

(* Both ends of the vector OLE are as far as their rounds say.           *)
VoleInv ==
  \A c \in Clients :
    /\ b[c] = [j \in Idx |-> BVal(j, ci[c])]
    /\ a[c] = [j \in Idx |-> AVal(c, j, ti[c])]

(* What a client has sent does not depend on when it is received.        *)
StreamInv ==
  \A c \in Clients :
    /\ \A i \in 1 .. Len(chan[<<Party(c), 0>>]) : chan[<<Party(c), 0>>][i] = Round(c)
    /\ \A i \in 1 .. Len(chan[<<Party(c), 1>>]) : chan[<<Party(c), 1>>][i] = Handed(c)

(* The shares of a thread that is through.                               *)
ShareInv ==
  \A s \in Servers, c \in Clients :
    tpc[s][c] = "finished" => x[s][c] = XShare(s, c) /\ m[s][c] = MShare(s, c)

(* The sums before the exchange, the differences after it.                 *)
SumInv ==
  \A s \in Servers, c \in Clients :
    /\ spc[s] \in {"spawn", "join", "sendv", "recvv"} =>
         IF tpc[s][c] = "finished" THEN v[s][c] = VWord(s, c) /\ d[s][c] = DWord(s, c)
                                   ELSE v[s][c] = 0 /\ d[s][c] = 0
    /\ spc[s] \in {"sendz", "recvz"} => z[s][c] = ZWord(s, c)
    /\ spc[s] = "done" => z[s][c] = 0

(* Of the two words of a server, the first not yet received is the next. *)
WordInv ==
  \A s \in Servers : ~Gone(Other(s)) =>
    \A i \in 1 .. Len(chan[<<s, Other(s)>>]), c \in Clients :
      chan[<<s, Other(s)>>][i][c] =
        IF Heard(spc[Other(s)]) + i = 1 THEN VWord(s, c) ELSE ZWord(s, c)

ValueInv == InputType /\ Shape /\ VoleInv /\ StreamInv /\ ShareInv /\ SumInv /\ WordInv

(* Inputs never change, and with them what was said of the values.         *)
LEMMA InputFixed == [Next]_vars => UNCHANGED <<in, mode>>
  <1> SUFFICES ASSUME [Next]_vars PROVE UNCHANGED <<in, mode>>
    OBVIOUS
  <1>1. CASE UNCHANGED vars
    BY <1>1 DEF vars
  <1>2. ASSUME NEW c \in Clients, Client(c) \/ ClientCrash(c) PROVE UNCHANGED <<in, mode>>
    BY <1>2 DEF Client, HonestCommit, VoleSend, DishonestCommit, ClientCrash
  <1>3. ASSUME NEW s \in Servers, NEW c \in Clients, Thread(s, c) PROVE UNCHANGED <<in, mode>>
    BY <1>3 DEF Thread, HonestThread0, HonestThread1, DishonestThread0, DishonestThread1,
                VoleReceive, ThreadClosed, Accumulate, clientVars
  <1>4. ASSUME NEW s \in Servers, Main(s) PROVE UNCHANGED <<in, mode>>
    BY <1>4 DEF Main, Spawn, Join, JoinNone, SendV, ReceiveV, SendZ, ReceiveZ, CheckBroken,
                clientVars
  <1> QED
    BY <1>1, <1>2, <1>3, <1>4 DEF Next

LEMMA ValuesFixed ==
  ASSUME UNCHANGED <<in, mode>>
  PROVE  /\ InputType => InputType'
         /\ \A c \in Clients, j \in Idx, i \in 0 .. SBits : AVal(c, j, i)' = AVal(c, j, i)
         /\ \A c \in Clients : Round(c)' = Round(c) /\ Handed(c)' = Handed(c)
         /\ \A c \in Clients, s \in Servers :
              /\ XShare(s, c)' = XShare(s, c) /\ MShare(s, c)' = MShare(s, c)
              /\ VWord(s, c)' = VWord(s, c) /\ DWord(s, c)' = DWord(s, c)
              /\ ZWord(s, c)' = ZWord(s, c)
  <1>1. InputType => InputType'
    BY DEF InputType
  <1>2. ASSUME NEW c \in Clients, NEW j \in Idx
        PROVE  /\ X1(c, j)' = X1(c, j) /\ Xv(c, j)' = Xv(c, j) /\ M1(c, j)' = M1(c, j)
               /\ \A i \in 0 .. SBits : AVal(c, j, i)' = AVal(c, j, i)
               /\ AVal(c, j, SBits)' = AVal(c, j, SBits)
    BY DEF X1, Xv, M1, AVal
  <1>3. ASSUME NEW c \in Clients
        PROVE  Round(c)' = Round(c) /\ Handed(c)' = Handed(c)
    BY <1>2 DEF Round, Handed, UVal
  <1>4. ASSUME NEW c \in Clients, NEW s \in Servers
        PROVE  XShare(s, c)' = XShare(s, c) /\ MShare(s, c)' = MShare(s, c)
    BY <1>2 DEF XShare, MShare
  <1>5. ASSUME NEW c \in Clients, NEW s \in Servers
        PROVE  VWord(s, c)' = VWord(s, c) /\ DWord(s, c)' = DWord(s, c)
    BY <1>4 DEF VWord, DWord, Masked
  <1>6. ASSUME NEW c \in Clients, NEW s \in Servers
        PROVE  ZWord(s, c)' = ZWord(s, c)
    BY <1>5, OtherFacts DEF ZWord
  <1> QED
    BY <1>1, <1>2, <1>3, <1>4, <1>5, <1>6

(* The messages on a stream after a send and after a receive.              *)
LEMMA PutEntries ==
  ASSUME ControlType, Streams, NEW p, NEW q, <<p, q>> \in Links, NEW msg, Put(p, q, msg)
  PROVE  /\ \A l \in Links : l # <<p, q>> => chan'[l] = chan[l]
         /\ \A i \in 1 .. Len(chan'[<<p, q>>]) :
              \/ i \in 1 .. Len(chan[<<p, q>>]) /\ chan'[<<p, q>>][i] = chan[<<p, q>>][i]
              \/ i = Len(chan[<<p, q>>]) + 1 /\ chan'[<<p, q>>][i] = msg /\ ~Gone(q)
  <1>1. \A l \in Links : l # <<p, q>> => chan'[l] = chan[l]
    BY PutEffect
  <1>2. CASE Gone(q)
    BY <1>1, <1>2 DEF Put
  <1>3. CASE ~Gone(q)
    <2>1. chan'[<<p, q>>] = Append(chan[<<p, q>>], msg)
      BY <1>3 DEF Put, ControlType
    <2>2. PICK S : chan[<<p, q>>] \in Seq(S)
      BY DEF Streams, IsStream
    <2>3. chan[<<p, q>>] \in Seq(S \cup {msg}) /\ msg \in S \cup {msg}
      BY <2>2
    <2>4. /\ Len(chan[<<p, q>>]) \in Nat /\ Len(chan'[<<p, q>>]) = Len(chan[<<p, q>>]) + 1
          /\ \A i \in 1 .. Len(chan[<<p, q>>]) : chan'[<<p, q>>][i] = chan[<<p, q>>][i]
          /\ chan'[<<p, q>>][Len(chan[<<p, q>>]) + 1] = msg
      BY <2>1, <2>3, AppendProperties, LenProperties
    <2>5. \A i \in 1 .. Len(chan'[<<p, q>>]) :
            i \in 1 .. Len(chan[<<p, q>>]) \/ i = Len(chan[<<p, q>>]) + 1
      BY <2>4
    <2> QED
      BY <1>1, <1>3, <2>4, <2>5
  <1> QED
    BY <1>2, <1>3

LEMMA TakeEntries ==
  ASSUME ControlType, Streams, NEW p, NEW q, <<p, q>> \in Links, CanReceive(p, q), Take(p, q)
  PROVE  /\ \A l \in Links : l # <<p, q>> => chan'[l] = chan[l]
         /\ 1 \in 1 .. Len(chan[<<p, q>>]) /\ Message(p, q) = chan[<<p, q>>][1]
         /\ \A i \in 1 .. Len(chan'[<<p, q>>]) :
              i + 1 \in 1 .. Len(chan[<<p, q>>]) /\ chan'[<<p, q>>][i] = chan[<<p, q>>][i + 1]
  <1>1. \A l \in Links : l # <<p, q>> => chan'[l] = chan[l]
    BY TakeLength
  <1>2. chan'[<<p, q>>] = Tail(chan[<<p, q>>]) /\ chan[<<p, q>>] # <<>>
    BY DEF Take, ControlType, CanReceive
  <1>3. PICK S : chan[<<p, q>>] \in Seq(S)
    BY DEF Streams, IsStream
  <1> DEFINE r == chan[<<p, q>>]
  <1>4. r \in Seq(S) /\ r # <<>> /\ chan'[<<p, q>>] = Tail(r)
    BY <1>2, <1>3
  <1>5. Message(p, q) = Head(r)
    BY DEF Message
  <1> HIDE DEF r
  <1>6. /\ Len(r) \in Nat /\ Len(r) >= 1 /\ Len(Tail(r)) = Len(r) - 1
        /\ Head(r) = r[1]
        /\ \A i \in 1 .. Len(r) - 1 : Tail(r)[i] = r[i + 1]
    BY <1>4
  <1>7. \A i \in 1 .. Len(r) - 1 : i + 1 \in 1 .. Len(r)
    BY <1>6
  <1>8. 1 \in 1 .. Len(r)
    BY <1>6
  <1>9. /\ 1 \in 1 .. Len(r) /\ Message(p, q) = r[1]
        /\ \A i \in 1 .. Len(chan'[<<p, q>>]) :
             i + 1 \in 1 .. Len(r) /\ chan'[<<p, q>>][i] = r[i + 1]
    BY <1>4, <1>5, <1>6, <1>7, <1>8
  <1> QED
    BY <1>1, <1>9 DEF r

---------------------------------------------------------------------------
(* Its initial state, frames, and the steps of clients.                    *)

(* Initially nothing is computed and nothing is on its way.              *)
LEMMA ValueInit == Init => ValueInv
  <1> SUFFICES ASSUME Init PROVE ValueInv
    OBVIOUS
  <1>1. InputType
    BY ModeAssumption DEF Init, InputType
  <1>2. Shape
    BY DEF Init, Shape
  <1>3. ASSUME NEW c \in Clients
        PROVE  /\ b[c] = [j \in Idx |-> BVal(j, ci[c])]
               /\ a[c] = [j \in Idx |-> AVal(c, j, ti[c])]
    <2>1. b[c] = ZeroVec /\ a[c] = ZeroVec /\ ci[c] = 0 /\ ti[c] = 0
      BY <1>3 DEF Init
    <2>2. \A j \in Idx : BVal(j, 0) = 0 /\ AVal(c, j, 0) = 0
      BY <1>1, VoleStart
    <2> QED
      BY <2>1, <2>2 DEF ZeroVec
  <1>4. \A l \in Links : chan[l] = <<>> /\ Len(chan[l]) = 0
    BY DEF Init
  <1>5. StreamInv
    BY <1>4, LinkFacts DEF StreamInv, Servers
  <1>6. WordInv
    <2>1. \A s \in Servers : Len(chan[<<s, Other(s)>>]) = 0
      BY <1>4, OtherFacts
    <2> QED
      BY <2>1 DEF WordInv
  <1>7. \A s \in Servers, c \in Clients :
          spc[s] = "spawn" /\ tpc[s][c] = "none" /\ v[s][c] = 0 /\ d[s][c] = 0
    BY DEF Init
  <1>8. ShareInv /\ SumInv
    BY <1>7 DEF ShareInv, SumInv
  <1> QED
    BY <1>1, <1>2, <1>3, <1>5, <1>6, <1>8 DEF ValueInv, VoleInv

(* Clients and threads leave the exchange of the servers alone.            *)
LEMMA WordFrame ==
  ASSUME WordInv, UNCHANGED <<in, mode>>,
         \A s \in Servers : spc'[s] = spc[s] \/ spc'[s] = "aborted",
         \A s \in Servers : chan'[<<s, Other(s)>>] = chan[<<s, Other(s)>>]
  PROVE  WordInv'
  <1> SUFFICES ASSUME NEW s \in Servers, ~Gone(Other(s))',
                      NEW i \in 1 .. Len(chan[<<s, Other(s)>>]), NEW c \in Clients
               PROVE  chan[<<s, Other(s)>>][i][c] =
                        IF Heard(spc[Other(s)]) + i = 1 THEN VWord(s, c) ELSE ZWord(s, c)
    <2>1. /\ \A s \in Servers, c \in Clients : VWord(s, c)' = VWord(s, c) /\ ZWord(s, c)' = ZWord(s, c)
      BY ValuesFixed
    <2>2. \A s \in Servers : ~Gone(Other(s))' => spc'[Other(s)] = spc[Other(s)]
      BY OtherFacts DEF Gone, Servers, NUM_SRV, Other
    <2> QED
      BY <2>1, <2>2 DEF WordInv
  <1>1. spc'[Other(s)] = spc[Other(s)] /\ ~Gone(Other(s))
    BY OtherFacts DEF Gone, Servers, NUM_SRV, Other
  <1> QED
    BY <1>1 DEF WordInv

LEMMA SumFrame ==
  ASSUME SumInv, ShareInv, UNCHANGED <<in, mode, x, m, v, d, z>>,
         \A s \in Servers : spc'[s] = spc[s] \/ spc'[s] = "aborted",
         \A s \in Servers, c \in Clients :
           tpc'[s][c] = "finished" <=> tpc[s][c] = "finished"
  PROVE  SumInv' /\ ShareInv'
  <1>1. \A s \in Servers, c \in Clients :
          /\ XShare(s, c)' = XShare(s, c) /\ MShare(s, c)' = MShare(s, c)
          /\ VWord(s, c)' = VWord(s, c) /\ DWord(s, c)' = DWord(s, c)
          /\ ZWord(s, c)' = ZWord(s, c)
    BY ValuesFixed
  <1>2. ShareInv'
    BY <1>1 DEF ShareInv
  <1>3. ASSUME NEW s \in Servers, NEW c \in Clients
        PROVE  /\ spc'[s] \in {"spawn", "join", "sendv", "recvv"} =>
                    IF tpc'[s][c] = "finished" THEN v'[s][c] = VWord(s, c) /\ d'[s][c] = DWord(s, c)
                                               ELSE v'[s][c] = 0 /\ d'[s][c] = 0
               /\ spc'[s] \in {"sendz", "recvz"} => z'[s][c] = ZWord(s, c)
               /\ spc'[s] = "done" => z'[s][c] = 0
    BY DEF SumInv
  <1>4. SumInv'
    BY <1>1, <1>3 DEF SumInv
  <1> QED
    BY <1>2, <1>4

(* The steps of a client.                                                *)
LEMMA ValueClient ==
  ASSUME CalmInv, CalmInv', ValueInv, UNCHANGED <<in, mode>>,
         NEW c \in Clients, Client(c) \/ ClientCrash(c)
  PROVE  ValueInv'
  <1> USE DEF ValueInv
  <1>0. ControlType /\ Streams /\ RoundType /\ RoundType'
    BY DEF CalmInv, BalanceInv, DeliveryInv
  <1>1. UNCHANGED <<spc, tpc, ti, a, x, m, v, d, z>>
    BY DEF Client, HonestCommit, VoleSend, DishonestCommit, ClientCrash, threadVars, mainVars
  <1>2. InputType'
    BY ValuesFixed
  <1>3. SumInv' /\ ShareInv'
    BY <1>1, SumFrame
  <1>a. \A e \in Clients : a[e] = [j \in Idx |-> AVal(e, j, ti[e])]'
    <2>1. \A e \in Clients, j \in Idx : AVal(e, j, ti[e])' = AVal(e, j, ti[e])
      BY <1>1 DEF AVal
    <2> QED
      BY <2>1 DEF VoleInv
  <1>4. CASE HonestCommit(c) \/ DishonestCommit(c)
    <2>1. Put(Party(c), 1, Handed(c)) /\ UNCHANGED <<b, ci>>
      <3>1. CASE HonestCommit(c)
        BY <3>1 DEF HonestCommit, Handed, ClientMode
      <3>2. CASE DishonestCommit(c)
        <4>1. mode # 0 /\ ci[c] = SBits
          BY <3>2 DEF DishonestCommit, ClientMode
        <4>2. b[c] = [j \in Idx |-> BVal(j, SBits)]
          BY <4>1 DEF VoleInv
        <4>3. Handed(c) = [x |-> [j \in Idx |-> X1(c, j)], m |-> b[c]]
          BY <4>1, <4>2 DEF Handed
        <4> QED
          BY <3>2, <4>3 DEF DishonestCommit
      <3> QED
        BY <1>4, <3>1, <3>2
    <2>2. <<Party(c), 1>> \in Links
      BY LinkFacts DEF Servers
    <2>3. /\ \A l \in Links : l # <<Party(c), 1>> => chan'[l] = chan[l]
          /\ \A i \in 1 .. Len(chan'[<<Party(c), 1>>]) :
               \/ i \in 1 .. Len(chan[<<Party(c), 1>>])
                  /\ chan'[<<Party(c), 1>>][i] = chan[<<Party(c), 1>>][i]
               \/ chan'[<<Party(c), 1>>][i] = Handed(c)
      BY <1>0, <2>1, <2>2, PutEntries
    <2>4. StreamInv'
      <3> SUFFICES ASSUME NEW e \in Clients
                   PROVE  /\ \A i \in 1 .. Len(chan'[<<Party(e), 0>>]) :
                               chan'[<<Party(e), 0>>][i] = Round(e)
                          /\ \A i \in 1 .. Len(chan'[<<Party(e), 1>>]) :
                               chan'[<<Party(e), 1>>][i] = Handed(e)
        BY ValuesFixed DEF StreamInv
      <3>1. <<Party(e), 0>> \in Links /\ <<Party(e), 1>> \in Links
        BY LinkFacts DEF Servers
      <3>2. chan'[<<Party(e), 0>>] = chan[<<Party(e), 0>>]
        BY <2>3, <3>1
      <3>3. e # c => chan'[<<Party(e), 1>>] = chan[<<Party(e), 1>>]
        BY <2>3, <3>1, LinkFacts
      <3> QED
        BY <2>3, <3>2, <3>3 DEF StreamInv
    <2>5. \A s \in Servers : chan'[<<s, Other(s)>>] = chan[<<s, Other(s)>>]
      BY <2>3, OtherFacts DEF Servers
    <2>6. WordInv'
      BY <1>1, <2>5, WordFrame
    <2>7. VoleInv' /\ Shape'
      BY <1>1, <1>a, <2>1 DEF VoleInv, Shape, BVal
    <2> QED
      BY <1>2, <1>3, <2>4, <2>6, <2>7
  <1>5. CASE VoleSend(c)
    <2>1. /\ Put(Party(c), 0, Round(c)) /\ ci[c] < SBits /\ ci' = [ci EXCEPT ![c] = @ + 1]
          /\ b' = [b EXCEPT ![c] = [j \in Idx |-> (@[j] + Prg[0][j] * Pow2[ci[c]]) % ZK2S]]
      BY <1>5 DEF VoleSend, Round, UVal
    <2>2. <<Party(c), 0>> \in Links
      BY LinkFacts DEF Servers
    <2>3. /\ \A l \in Links : l # <<Party(c), 0>> => chan'[l] = chan[l]
          /\ \A i \in 1 .. Len(chan'[<<Party(c), 0>>]) :
               \/ i \in 1 .. Len(chan[<<Party(c), 0>>])
                  /\ chan'[<<Party(c), 0>>][i] = chan[<<Party(c), 0>>][i]
               \/ chan'[<<Party(c), 0>>][i] = Round(c)
      BY <1>0, <2>1, <2>2, PutEntries
    <2>4. StreamInv'
      <3> SUFFICES ASSUME NEW e \in Clients
                   PROVE  /\ \A i \in 1 .. Len(chan'[<<Party(e), 0>>]) :
                               chan'[<<Party(e), 0>>][i] = Round(e)
                          /\ \A i \in 1 .. Len(chan'[<<Party(e), 1>>]) :
                               chan'[<<Party(e), 1>>][i] = Handed(e)
        BY ValuesFixed DEF StreamInv
      <3>1. <<Party(e), 0>> \in Links /\ <<Party(e), 1>> \in Links
        BY LinkFacts DEF Servers
      <3>2. chan'[<<Party(e), 1>>] = chan[<<Party(e), 1>>]
        BY <2>3, <3>1
      <3>3. e # c => chan'[<<Party(e), 0>>] = chan[<<Party(e), 0>>]
        BY <2>3, <3>1, LinkFacts
      <3> QED
        BY <2>3, <3>2, <3>3 DEF StreamInv
    <2>5. \A s \in Servers : chan'[<<s, Other(s)>>] = chan[<<s, Other(s)>>]
      BY <2>3, OtherFacts DEF Servers
    <2>6. WordInv'
      BY <1>1, <2>5, WordFrame
    <2>7. Shape'
      BY <1>1, <2>1 DEF Shape
    <2>8. ASSUME NEW e \in Clients PROVE b'[e] = [j \in Idx |-> BVal(j, ci'[e])]
      <3>1. CASE e # c
        BY <2>1, <3>1, <1>0 DEF RoundType, VoleInv, Shape
      <3>2. CASE e = c
        <4>1. ci'[c] = ci[c] + 1 /\ ci[c] \in 0 .. SBits - 1
          BY <2>1, <1>0, SizeAssumption DEF RoundType
        <4>2. b'[c] = [j \in Idx |-> (b[c][j] + Prg[0][j] * Pow2[ci[c]]) % ZK2S]
          BY <2>1 DEF Shape
        <4>3. \A j \in Idx : b[c][j] = BVal(j, ci[c])
          BY DEF VoleInv
        <4>4. \A j \in Idx : (BVal(j, ci[c]) + Prg[0][j] * Pow2[ci[c]]) % ZK2S = BVal(j, ci[c] + 1)
          BY <4>1, VoleSent
        <4> QED
          BY <3>2, <4>1, <4>2, <4>3, <4>4
      <3> QED
        BY <3>1, <3>2
    <2>9. VoleInv'
      <3>1. \A e \in Clients : a'[e] = [j \in Idx |-> AVal(e, j, ti[e])]'
        BY <1>1, <1>a
      <3>2. \A e \in Clients : b'[e] = [j \in Idx |-> BVal(j, ci[e])]'
        BY <2>8 DEF BVal
      <3> QED
        BY <3>1, <3>2 DEF VoleInv
    <2> QED
      BY <1>2, <1>3, <2>4, <2>6, <2>7, <2>9
  <1>6. CASE ClientCrash(c)
    <2>1. UNCHANGED <<chan, b, ci>>
      BY <1>6 DEF ClientCrash
    <2>2. WordInv'
      BY <1>1, <2>1, WordFrame
    <2>3. StreamInv'
      BY <2>1, ValuesFixed DEF StreamInv
    <2>4. VoleInv' /\ Shape'
      BY <1>1, <1>a, <2>1 DEF VoleInv, Shape, BVal
    <2> QED
      BY <1>2, <1>3, <2>2, <2>3, <2>4
  <1> QED
    BY <1>4, <1>5, <1>6 DEF Client

---------------------------------------------------------------------------
(* The steps of the servers' threads.                                      *)

(* A thread adds its shares to sums that were empty.                       *)
LEMMA Accumulated ==
  ASSUME CalmInv, ValueInv, UNCHANGED <<in, mode>>, NEW s \in Servers, NEW c \in Clients,
         Running(s), tpc[s][c] = "run", Accumulate(s, c, XShare(s, c), MShare(s, c))
  PROVE  ShareInv' /\ SumInv' /\ Shape' /\ VoleInv' /\ InputType'
  <1> USE DEF ValueInv
  <1>0. ControlType /\ Joined /\ RoundType
    BY DEF CalmInv, BalanceInv, DeliveryInv
  <1>1. UNCHANGED <<b, a, ci, ti, spc, z>>
    BY DEF Accumulate, clientVars, mainVars
  <1>2. /\ x' = [x EXCEPT ![s][c] = XShare(s, c)] /\ m' = [m EXCEPT ![s][c] = MShare(s, c)]
        /\ v' = [v EXCEPT ![s][c] = (v[s][c] + Masked(c, XShare(s, c))) % ZK2S]
        /\ d' = [d EXCEPT ![s][c] = (d[s][c] + Masked(c, MShare(s, c))) % ZK2S]
        /\ tpc' = [tpc EXCEPT ![s][c] = "finished"]
    BY DEF Accumulate, Shape
  <1>3. spc[s] \in {"spawn", "join"}
    BY <1>0 DEF Running, Joined, AllFinished, Past, ControlType, ControlState
  <1>4. v[s][c] = 0 /\ d[s][c] = 0
    BY <1>3 DEF SumInv
  <1>5. /\ (0 + Masked(c, XShare(s, c))) % ZK2S = VWord(s, c)
        /\ (0 + Masked(c, MShare(s, c))) % ZK2S = DWord(s, c)
    <2>1. ASSUME NEW e \in Int PROVE 0 + e = e
      OBVIOUS
    <2>2. Masked(c, XShare(s, c)) \in Int /\ Masked(c, MShare(s, c)) \in Int
      BY MaskedFacts
    <2> QED
      BY <2>1, <2>2 DEF VWord, DWord
  <1>6. /\ x'[s][c] = XShare(s, c) /\ m'[s][c] = MShare(s, c)
        /\ v'[s][c] = VWord(s, c) /\ d'[s][c] = DWord(s, c) /\ tpc'[s][c] = "finished"
    BY <1>0, <1>2, <1>4, <1>5 DEF Shape, ControlType
  <1>7. \A t \in Servers, e \in Clients : t # s \/ e # c =>
          /\ x'[t][e] = x[t][e] /\ m'[t][e] = m[t][e]
          /\ v'[t][e] = v[t][e] /\ d'[t][e] = d[t][e] /\ tpc'[t][e] = tpc[t][e]
    BY <1>0, <1>2 DEF Shape, ControlType
  <1>8. /\ DOMAIN x' = Servers /\ DOMAIN m' = Servers /\ DOMAIN v' = Servers /\ DOMAIN d' = Servers
        /\ \A t \in Servers : /\ DOMAIN x'[t] = Clients /\ DOMAIN m'[t] = Clients
                              /\ DOMAIN v'[t] = Clients /\ DOMAIN d'[t] = Clients
    BY <1>2 DEF Shape
  <1>9. Shape'
    BY <1>1, <1>8 DEF Shape
  <1>10. ShareInv'
    <2> SUFFICES ASSUME NEW t \in Servers, NEW e \in Clients, tpc'[t][e] = "finished"
                 PROVE  x'[t][e] = XShare(t, e) /\ m'[t][e] = MShare(t, e)
      BY ValuesFixed DEF ShareInv
    <2> QED
      BY <1>6, <1>7 DEF ShareInv
  <1>11. SumInv'
    <2> SUFFICES ASSUME NEW t \in Servers, NEW e \in Clients
                 PROVE  /\ spc[t] \in {"spawn", "join", "sendv", "recvv"} =>
                             IF tpc'[t][e] = "finished"
                             THEN v'[t][e] = VWord(t, e) /\ d'[t][e] = DWord(t, e)
                             ELSE v'[t][e] = 0 /\ d'[t][e] = 0
                        /\ spc[t] \in {"sendz", "recvz"} => z[t][e] = ZWord(t, e)
                        /\ spc[t] = "done" => z[t][e] = 0
      BY <1>1, ValuesFixed DEF SumInv
    <2>1. CASE t = s /\ e = c
      BY <2>1, <1>3, <1>6
    <2>2. CASE t # s \/ e # c
      BY <2>2, <1>7 DEF SumInv
    <2> QED
      BY <2>1, <2>2
  <1>12. VoleInv'
    <2>1. \A e \in Clients, j \in Idx : AVal(e, j, ti[e])' = AVal(e, j, ti[e])
      BY <1>1 DEF AVal
    <2> QED
      BY <1>1, <2>1 DEF VoleInv, BVal
  <1> QED
    BY <1>9, <1>10, <1>11, <1>12, ValuesFixed

(* The steps of a server's thread.                                       *)
LEMMA ValueThread ==
  ASSUME CalmInv, CalmInv', ValueInv, UNCHANGED <<in, mode>>,
         NEW s \in Servers, NEW c \in Clients, Thread(s, c)
  PROVE  ValueInv'
  <1> USE DEF ValueInv
  <1>0. ControlType /\ Streams /\ RoundType /\ RoundType'
    BY DEF CalmInv, BalanceInv, DeliveryInv
  <1>l. <<Party(c), s>> \in Links /\ <<Party(c), 0>> \in Links /\ <<Party(c), 1>> \in Links
    BY LinkFacts DEF Servers
  (* What a receive leaves of the streams of the clients.                  *)
  <1>t. ASSUME CanReceive(Party(c), s), Take(Party(c), s)
        PROVE  /\ StreamInv'
               /\ \A t \in Servers : chan'[<<t, Other(t)>>] = chan[<<t, Other(t)>>]
               /\ s = 0 => Message(Party(c), s) = Round(c)
               /\ s = 1 => Message(Party(c), s) = Handed(c)
    <2>1. /\ \A l \in Links : l # <<Party(c), s>> => chan'[l] = chan[l]
          /\ 1 \in 1 .. Len(chan[<<Party(c), s>>])
          /\ Message(Party(c), s) = chan[<<Party(c), s>>][1]
          /\ \A i \in 1 .. Len(chan'[<<Party(c), s>>]) :
               /\ i + 1 \in 1 .. Len(chan[<<Party(c), s>>])
               /\ chan'[<<Party(c), s>>][i] = chan[<<Party(c), s>>][i + 1]
      BY <1>0, <1>l, <1>t, TakeEntries
    <2>2. StreamInv'
      <3> SUFFICES ASSUME NEW e \in Clients
                   PROVE  /\ \A i \in 1 .. Len(chan'[<<Party(e), 0>>]) :
                               chan'[<<Party(e), 0>>][i] = Round(e)
                          /\ \A i \in 1 .. Len(chan'[<<Party(e), 1>>]) :
                               chan'[<<Party(e), 1>>][i] = Handed(e)
        BY ValuesFixed DEF StreamInv
      <3>1. <<Party(e), 0>> \in Links /\ <<Party(e), 1>> \in Links
        BY LinkFacts DEF Servers
      <3>2. ASSUME NEW t \in Servers, e # c \/ t # s
            PROVE  chan'[<<Party(e), t>>] = chan[<<Party(e), t>>]
        BY <2>1, <3>1, <3>2, LinkFacts DEF Servers
      <3>6. /\ \A i \in 1 .. Len(chan[<<Party(e), 0>>]) : chan[<<Party(e), 0>>][i] = Round(e)
            /\ \A i \in 1 .. Len(chan[<<Party(e), 1>>]) : chan[<<Party(e), 1>>][i] = Handed(e)
        BY DEF StreamInv
      <3>3. s = 0 \/ s = 1
        BY DEF Servers
      <3>4. CASE s = 0
        <4>1. chan'[<<Party(e), 1>>] = chan[<<Party(e), 1>>]
          BY <3>2, <3>4 DEF Servers
        <4>2. e # c => chan'[<<Party(e), 0>>] = chan[<<Party(e), 0>>]
          BY <3>2 DEF Servers
        <4>3. CASE e = c
          <5>1. \A i \in 1 .. Len(chan'[<<Party(e), 0>>]) : chan'[<<Party(e), 0>>][i] = Round(e)
            BY <2>1, <3>4, <3>6, <4>3
          <5> QED
            BY <3>6, <4>1, <5>1
        <4> QED
          BY <3>6, <4>1, <4>2, <4>3
      <3>5. CASE s = 1
        <4>1. chan'[<<Party(e), 0>>] = chan[<<Party(e), 0>>]
          BY <3>2, <3>5 DEF Servers
        <4>2. e # c => chan'[<<Party(e), 1>>] = chan[<<Party(e), 1>>]
          BY <3>2 DEF Servers
        <4>3. CASE e = c
          <5>1. \A i \in 1 .. Len(chan'[<<Party(e), 1>>]) : chan'[<<Party(e), 1>>][i] = Handed(e)
            BY <2>1, <3>5, <3>6, <4>3
          <5> QED
            BY <3>6, <4>1, <5>1
        <4> QED
          BY <3>6, <4>1, <4>2, <4>3
      <3> QED
        BY <3>3, <3>4, <3>5
    <2>3. ASSUME NEW t \in Servers PROVE chan'[<<t, Other(t)>>] = chan[<<t, Other(t)>>]
      <3>1. <<t, Other(t)>> \in Links /\ <<t, Other(t)>> # <<Party(c), s>>
        BY OtherFacts
      <3> QED
        BY <2>1, <3>1
    <2>4. /\ s = 0 => Message(Party(c), s) = Round(c)
          /\ s = 1 => Message(Party(c), s) = Handed(c)
      BY <2>1 DEF StreamInv
    <2> QED
      BY <2>2, <2>3, <2>4
  <1>1. CASE s = 0 /\ (HonestThread0(c) \/ DishonestThread0(c))
    <2>1. UNCHANGED <<chan, spc>>
      BY <1>1 DEF HonestThread0, DishonestThread0, Accumulate, mainVars
    <2>2. Running(0) /\ tpc[0][c] = "run" /\ Accumulate(0, c, XShare(0, c), MShare(0, c))
      <3>1. CASE HonestThread0(c)
        BY <3>1 DEF HonestThread0, XShare, MShare
      <3>2. CASE DishonestThread0(c)
        <4>1. mode # 0 /\ ti[c] = SBits
          BY <3>2 DEF DishonestThread0
        <4>2. \A j \in Idx : a[c][j] = AVal(c, j, SBits)
          BY <4>1 DEF VoleInv
        <4>3. MShare(0, c) = [j \in Idx |-> (a[c][j] - Ab0) % ZK2S]
          BY <4>1, <4>2 DEF MShare
        <4> QED
          BY <3>2, <4>3 DEF DishonestThread0, XShare
      <3> QED
        BY <1>1, <3>1, <3>2
    <2>3. ShareInv' /\ SumInv' /\ Shape' /\ VoleInv' /\ InputType'
      BY <2>2, Accumulated DEF Servers
    <2>4. StreamInv'
      BY <2>1, ValuesFixed DEF StreamInv
    <2>5. WordInv'
      BY <2>1, WordFrame
    <2> QED
      BY <2>3, <2>4, <2>5
  <1>2. CASE s = 1 /\ (HonestThread1(c) \/ DishonestThread1(c))
    <2>1. UNCHANGED spc
      BY <1>2 DEF HonestThread1, DishonestThread1, Accumulate, mainVars
    <2>2. CanReceive(Party(c), s) /\ Take(Party(c), s)
      BY <1>2 DEF HonestThread1, DishonestThread1
    <2>3. Message(Party(c), 1) = Handed(c)
      BY <1>2, <1>t, <2>2
    <2>4. Running(1) /\ tpc[1][c] = "run" /\ Accumulate(1, c, XShare(1, c), MShare(1, c))
      <3>1. CASE HonestThread1(c)
        <4>1. mode = 0
          BY <3>1 DEF HonestThread1
        <4>2. Handed(c).x = XShare(1, c) /\ Handed(c).m = MShare(1, c)
          BY <4>1 DEF Handed, XShare, MShare
        <4> QED
          BY <3>1, <2>3, <4>2 DEF HonestThread1
      <3>2. CASE DishonestThread1(c)
        <4>1. mode # 0
          BY <3>2 DEF DishonestThread1
        <4>2. Handed(c).x = XShare(1, c)
          BY DEF Handed, XShare
        <4>3. \A j \in Idx : Handed(c).x[j] = X1(c, j) /\ Handed(c).m[j] = BVal(j, SBits)
          BY <4>1 DEF Handed
        <4>4. [j \in Idx |-> (Handed(c).x[j] * Alpha[1] + Ab0 - Handed(c).m[j]) % ZK2S] = MShare(1, c)
          BY <4>1, <4>3 DEF MShare
        <4> QED
          BY <3>2, <2>3, <4>2, <4>4 DEF DishonestThread1
      <3> QED
        BY <1>2, <3>1, <3>2
    <2>5. ShareInv' /\ SumInv' /\ Shape' /\ VoleInv' /\ InputType'
      BY <2>4, Accumulated DEF Servers
    <2>6. StreamInv' /\ WordInv'
      BY <1>t, <2>1, <2>2, WordFrame
    <2> QED
      BY <2>5, <2>6
  <1>3. CASE s = 0 /\ VoleReceive(c)
    <2> DEFINE choice == (Alpha[0] \div Pow2[ti[c]]) % 2
               got == [j \in Idx |-> IF choice = 1 THEN Round(c)[j] - Prg[choice][j]
                                                   ELSE Prg[choice][j]]
    <2>1. /\ ti[c] < SBits /\ CanReceive(Party(c), s) /\ Take(Party(c), s)
          /\ ti' = [ti EXCEPT ![c] = @ + 1]
          /\ UNCHANGED <<b, ci, spc, tpc, x, m, v, d, z>>
      BY <1>3 DEF VoleReceive, clientVars, mainVars
    <2>2. Message(Party(c), 0) = Round(c)
      BY <1>3, <1>t, <2>1
    <2>3. a' = [a EXCEPT ![c] = [j \in Idx |-> (a[c][j] + got[j] * Pow2[ti[c]]) % ZK2S]]
      BY <1>3, <2>2 DEF VoleReceive, Shape
    <2>4. ti'[c] = ti[c] + 1 /\ ti[c] \in 0 .. SBits - 1
      BY <2>1, <1>0, SizeAssumption DEF RoundType
    <2>5. \A j \in Idx :
            /\ a[c][j] = AVal(c, j, ti[c])
            /\ got[j] = IF choice = 1 THEN UVal(c, j) - Prg[choice][j] ELSE Prg[choice][j]
      BY DEF VoleInv, Round
    <2>6. ASSUME NEW j \in Idx
          PROVE  (AVal(c, j, ti[c]) + got[j] * Pow2[ti[c]]) % ZK2S = AVal(c, j, ti[c] + 1)
      <3> HIDE DEF got
      <3>1. PICK k : k = choice
        OBVIOUS
      <3> HIDE DEF choice
      <3>2. got[j] = IF k = 1 THEN UVal(c, j) - Prg[k][j] ELSE Prg[k][j]
        BY <2>5, <3>1
      <3>3. k = (Alpha[0] \div Pow2[ti[c]]) % 2
        BY <3>1 DEF choice
      <3> QED
        BY <2>4, <3>2, <3>3, VoleReceived
    <2> HIDE DEF got
    <2>7. a'[c] = [j \in Idx |-> AVal(c, j, ti[c] + 1)]
      BY <2>3, <2>5, <2>6 DEF Shape
    <2>8. ASSUME NEW e \in Clients PROVE a'[e] = [j \in Idx |-> AVal(e, j, ti'[e])]
      <3>1. CASE e = c
        BY <3>1, <2>4, <2>7
      <3>2. CASE e # c
        BY <3>2, <2>1, <2>3, <1>0 DEF VoleInv, Shape, RoundType
      <3> QED
        BY <3>1, <3>2
    <2>9. VoleInv'
      <3>1. \A e \in Clients : a'[e] = [j \in Idx |-> AVal(e, j, ti[e])]'
        BY <2>8 DEF AVal
      <3>2. \A e \in Clients : b'[e] = [j \in Idx |-> BVal(j, ci[e])]'
        BY <2>1 DEF VoleInv, BVal
      <3> QED
        BY <3>1, <3>2 DEF VoleInv
    <2>10. Shape'
      BY <2>1, <2>3 DEF Shape
    <2>11. StreamInv' /\ WordInv'
      BY <1>t, <2>1, WordFrame
    <2>12. SumInv' /\ ShareInv'
      BY <2>1, SumFrame
    <2> QED
      BY <2>9, <2>10, <2>11, <2>12, ValuesFixed
  <1>4. CASE ThreadClosed(s, c)
    <2>1. /\ spc' = [spc EXCEPT ![s] = "aborted"]
          /\ UNCHANGED <<b, ci, a, ti, chan, tpc, x, m, v, d, z>>
      BY <1>4 DEF ThreadClosed, clientVars, threadVars
    <2>2. \A t \in Servers : spc'[t] = spc[t] \/ spc'[t] = "aborted"
      BY <2>1, <1>0 DEF ControlType
    <2>3. SumInv' /\ ShareInv'
      BY <2>1, <2>2, SumFrame
    <2>4. WordInv'
      BY <2>1, <2>2, WordFrame
    <2>5. StreamInv' /\ Shape'
      BY <2>1, ValuesFixed DEF StreamInv, Shape
    <2>6. VoleInv'
      <3>1. \A e \in Clients, j \in Idx : AVal(e, j, ti[e])' = AVal(e, j, ti[e])
        BY <2>1 DEF AVal
      <3> QED
        BY <2>1, <3>1 DEF VoleInv, BVal
    <2> QED
      BY <2>3, <2>4, <2>5, <2>6, ValuesFixed
  <1> QED
    BY <1>1, <1>2, <1>3, <1>4 DEF Thread

---------------------------------------------------------------------------
(* The exchange between the servers, and the results.                      *)

(* The streams between the servers after a send and after a receive.       *)
LEMMA WordSend ==
  ASSUME CalmInv, ValueInv, UNCHANGED <<in, mode>>, NEW s \in Servers,
         NEW msg, Put(s, Other(s), msg), NEW pc, spc' = [spc EXCEPT ![s] = pc],
         spc[s] \in {"sendv", "sendz"}, ~(pc \in {"done", "aborted"}),
         Heard(pc) = Heard(spc[s]),
         \A c \in Clients : msg[c] = IF spc[s] = "sendv" THEN VWord(s, c) ELSE ZWord(s, c)
  PROVE  WordInv' /\ StreamInv'
  <1> USE DEF ValueInv
  <1>0. ControlType /\ Streams /\ Balanced(s)
    BY DEF CalmInv, BalanceInv, DeliveryInv
  <1>o. PICK o \in Servers : o = Other(s)
    BY OtherFacts
  <1>1. /\ o # s /\ Other(o) = s /\ <<s, o>> \in Links /\ <<o, s>> \in Links /\ <<s, o>> # <<o, s>>
        /\ \A t \in Servers : t = s \/ t = o
    BY <1>o, OtherFacts
  <1>2. /\ \A l \in Links : l # <<s, o>> => chan'[l] = chan[l]
        /\ \A i \in 1 .. Len(chan'[<<s, o>>]) :
             \/ i \in 1 .. Len(chan[<<s, o>>]) /\ chan'[<<s, o>>][i] = chan[<<s, o>>][i]
             \/ i = Len(chan[<<s, o>>]) + 1 /\ chan'[<<s, o>>][i] = msg /\ ~Gone(o)
    BY <1>0, <1>1, <1>o, PutEntries
  <1>3. spc'[o] = spc[o] /\ spc'[s] = pc
    BY <1>0, <1>1 DEF ControlType
  <1>g. \A t \in Servers : (Gone(t) <=> spc[t] \in {"done", "aborted"})
                           /\ (Gone(t)' <=> spc'[t] \in {"done", "aborted"})
    BY OtherFacts DEF Gone, Servers, NUM_SRV
  <1>4. StreamInv'
    <2> SUFFICES ASSUME NEW e \in Clients
                 PROVE  /\ \A i \in 1 .. Len(chan'[<<Party(e), 0>>]) :
                             chan'[<<Party(e), 0>>][i] = Round(e)
                        /\ \A i \in 1 .. Len(chan'[<<Party(e), 1>>]) :
                             chan'[<<Party(e), 1>>][i] = Handed(e)
      BY ValuesFixed DEF StreamInv
    <2>1. /\ <<Party(e), 0>> \in Links /\ <<Party(e), 1>> \in Links
          /\ <<Party(e), 0>> # <<s, o>> /\ <<Party(e), 1>> # <<s, o>>
      BY <1>o, LinkFacts, OtherFacts DEF Servers
    <2> QED
      BY <1>2, <2>1 DEF StreamInv
  <1>5. ASSUME ~Gone(o) PROVE Heard(spc[o]) + Len(chan[<<s, o>>]) + 1 = (IF spc[s] = "sendv" THEN 1 ELSE 2)
    <2>1. Len(chan[<<s, o>>]) + Heard(spc[o]) = Told(spc[s])
      BY <1>0, <1>5, <1>g, <1>o DEF Balanced, Pending
    <2>2. Len(chan[<<s, o>>]) \in Nat /\ Heard(spc[o]) \in 0 .. 2
      BY <1>0, <1>1, StreamLength, TalkFacts DEF Streams
    <2> QED
      BY <2>1, <2>2, TalkFacts
  <1>6. ASSUME ~Gone(o)', NEW i \in 1 .. Len(chan'[<<s, o>>]), NEW c \in Clients
        PROVE  chan'[<<s, o>>][i][c] = IF Heard(spc'[o]) + i = 1 THEN VWord(s, c) ELSE ZWord(s, c)
    <2>1. ~Gone(o) /\ spc'[o] = spc[o]
      BY <1>3, <1>6, <1>g
    <2>2. CASE i \in 1 .. Len(chan[<<s, o>>]) /\ chan'[<<s, o>>][i] = chan[<<s, o>>][i]
      BY <2>1, <2>2, <1>o DEF WordInv
    <2>3. CASE i = Len(chan[<<s, o>>]) + 1 /\ chan'[<<s, o>>][i] = msg
      <3>1. Heard(spc[o]) + i = IF spc[s] = "sendv" THEN 1 ELSE 2
        <4>1. Len(chan[<<s, o>>]) \in Nat /\ Heard(spc[o]) \in 0 .. 2
          BY <1>0, <1>1, StreamLength, TalkFacts DEF Streams
        <4> QED
          BY <1>5, <2>1, <2>3, <4>1
      <3> QED
        BY <2>1, <2>3, <3>1
    <2> QED
      BY <1>2, <1>6, <2>2, <2>3
  <1>7. ASSUME NEW i \in 1 .. Len(chan'[<<o, s>>]), NEW c \in Clients
        PROVE  chan'[<<o, s>>][i][c] = IF Heard(spc'[s]) + i = 1 THEN VWord(o, c) ELSE ZWord(o, c)
    <2>1. chan'[<<o, s>>] = chan[<<o, s>>] /\ ~Gone(s) /\ Heard(spc'[s]) = Heard(spc[s])
      BY <1>1, <1>2, <1>3, <1>g
    <2> QED
      BY <1>1, <2>1 DEF WordInv
  <1>8. WordInv'
    <2>1. \A t \in Servers, c \in Clients : VWord(t, c)' = VWord(t, c) /\ ZWord(t, c)' = ZWord(t, c)
      BY ValuesFixed
    <2> SUFFICES ASSUME NEW t \in Servers, ~Gone(Other(t))',
                        NEW i \in 1 .. Len(chan'[<<t, Other(t)>>]), NEW c \in Clients
                 PROVE  chan'[<<t, Other(t)>>][i][c] =
                          IF Heard(spc'[Other(t)]) + i = 1 THEN VWord(t, c) ELSE ZWord(t, c)
      BY <2>1 DEF WordInv
    <2>2. CASE t = s
      BY <2>2, <1>6, <1>o
    <2>3. CASE t = o
      BY <2>3, <1>1, <1>7
    <2> QED
      BY <1>1, <2>2, <2>3
  <1> QED
    BY <1>4, <1>8

LEMMA WordReceive ==
  ASSUME CalmInv, ValueInv, UNCHANGED <<in, mode>>, NEW s \in Servers,
         CanReceive(Other(s), s), Take(Other(s), s),
         NEW pc, spc' = [spc EXCEPT ![s] = pc],
         spc[s] \in {"recvv", "recvz"}, Heard(pc) = Heard(spc[s]) + 1
  PROVE  /\ WordInv' /\ StreamInv'
         /\ \A c \in Clients : Message(Other(s), s)[c] =
              IF spc[s] = "recvv" THEN VWord(Other(s), c) ELSE ZWord(Other(s), c)
  <1> USE DEF ValueInv
  <1>0. ControlType /\ Streams
    BY DEF CalmInv, BalanceInv, DeliveryInv
  <1>o. PICK o \in Servers : o = Other(s)
    BY OtherFacts
  <1>1. /\ o # s /\ Other(o) = s /\ <<s, o>> \in Links /\ <<o, s>> \in Links /\ <<s, o>> # <<o, s>>
        /\ \A t \in Servers : t = s \/ t = o
    BY <1>o, OtherFacts
  <1>2. /\ \A l \in Links : l # <<o, s>> => chan'[l] = chan[l]
        /\ 1 \in 1 .. Len(chan[<<o, s>>]) /\ Message(o, s) = chan[<<o, s>>][1]
        /\ \A i \in 1 .. Len(chan'[<<o, s>>]) :
             i + 1 \in 1 .. Len(chan[<<o, s>>]) /\ chan'[<<o, s>>][i] = chan[<<o, s>>][i + 1]
    <2>1. CanReceive(o, s) /\ Take(o, s)
      BY <1>o
    <2> QED
      BY <1>0, <1>1, <2>1, TakeEntries
  <1>3. spc'[o] = spc[o] /\ spc'[s] = pc
    BY <1>0, <1>1 DEF ControlType
  <1>g. \A t \in Servers : (Gone(t) <=> spc[t] \in {"done", "aborted"})
                           /\ (Gone(t)' <=> spc'[t] \in {"done", "aborted"})
    BY OtherFacts DEF Gone, Servers, NUM_SRV
  <1>4. StreamInv'
    <2> SUFFICES ASSUME NEW e \in Clients
                 PROVE  /\ \A i \in 1 .. Len(chan'[<<Party(e), 0>>]) :
                             chan'[<<Party(e), 0>>][i] = Round(e)
                        /\ \A i \in 1 .. Len(chan'[<<Party(e), 1>>]) :
                             chan'[<<Party(e), 1>>][i] = Handed(e)
      BY ValuesFixed DEF StreamInv
    <2>1. /\ <<Party(e), 0>> \in Links /\ <<Party(e), 1>> \in Links
          /\ <<Party(e), 0>> # <<o, s>> /\ <<Party(e), 1>> # <<o, s>>
      BY <1>1, LinkFacts, OtherFacts DEF Servers
    <2> QED
      BY <1>2, <2>1 DEF StreamInv
  <1>5. ~Gone(s) /\ Heard(spc[s]) \in 0 .. 2 /\ Heard("recvv") = 0 /\ Heard("recvz") = 1
    BY <1>g, TalkFacts
  <1>6. ASSUME NEW i \in 1 .. Len(chan[<<o, s>>]), NEW c \in Clients
        PROVE  chan[<<o, s>>][i][c] = IF Heard(spc[s]) + i = 1 THEN VWord(o, c) ELSE ZWord(o, c)
    BY <1>1, <1>5 DEF WordInv
  <1>7. ASSUME NEW c \in Clients
        PROVE  Message(o, s)[c] = IF spc[s] = "recvv" THEN VWord(o, c) ELSE ZWord(o, c)
    <2>1. Message(o, s)[c] = IF Heard(spc[s]) + 1 = 1 THEN VWord(o, c) ELSE ZWord(o, c)
      BY <1>2, <1>6
    <2> QED
      BY <2>1, <1>5
  <1>8. ASSUME NEW i \in 1 .. Len(chan'[<<o, s>>]), NEW c \in Clients
        PROVE  chan'[<<o, s>>][i][c] = IF Heard(spc'[s]) + i = 1 THEN VWord(o, c) ELSE ZWord(o, c)
    <2>1. i + 1 \in 1 .. Len(chan[<<o, s>>]) /\ chan'[<<o, s>>][i] = chan[<<o, s>>][i + 1]
      BY <1>2
    <2>2. chan[<<o, s>>][i + 1][c] = IF Heard(spc[s]) + (i + 1) = 1 THEN VWord(o, c) ELSE ZWord(o, c)
      BY <2>1, <1>6
    <2>3. Heard(spc'[s]) + i = Heard(spc[s]) + (i + 1)
      BY <1>3, <1>5
    <2> QED
      BY <2>1, <2>2, <2>3
  <1>9. ASSUME ~Gone(o)', NEW i \in 1 .. Len(chan'[<<s, o>>]), NEW c \in Clients
        PROVE  chan'[<<s, o>>][i][c] = IF Heard(spc'[o]) + i = 1 THEN VWord(s, c) ELSE ZWord(s, c)
    <2>1. chan'[<<s, o>>] = chan[<<s, o>>] /\ ~Gone(o) /\ spc'[o] = spc[o]
      BY <1>1, <1>2, <1>3, <1>9, <1>g
    <2> QED
      BY <1>o, <2>1 DEF WordInv
  <1>10. WordInv'
    <2>1. \A t \in Servers, c \in Clients : VWord(t, c)' = VWord(t, c) /\ ZWord(t, c)' = ZWord(t, c)
      BY ValuesFixed
    <2> SUFFICES ASSUME NEW t \in Servers, ~Gone(Other(t))',
                        NEW i \in 1 .. Len(chan'[<<t, Other(t)>>]), NEW c \in Clients
                 PROVE  chan'[<<t, Other(t)>>][i][c] =
                          IF Heard(spc'[Other(t)]) + i = 1 THEN VWord(t, c) ELSE ZWord(t, c)
      BY <2>1 DEF WordInv
    <2>2. CASE t = s
      BY <2>2, <1>9, <1>o
    <2>3. CASE t = o
      BY <2>3, <1>1, <1>8
    <2> QED
      BY <1>1, <2>2, <2>3
  <1> QED
    BY <1>4, <1>7, <1>10, <1>o

(* Steps that neither send, receive nor end a server keep what is sent.    *)
LEMMA WordSame ==
  ASSUME WordInv, UNCHANGED <<in, mode, chan>>,
         \A t \in Servers : Heard(spc'[t]) = Heard(spc[t]) /\ (Gone(t)' <=> Gone(t))
  PROVE  WordInv'
  <1>1. \A t \in Servers, c \in Clients : VWord(t, c)' = VWord(t, c) /\ ZWord(t, c)' = ZWord(t, c)
    BY ValuesFixed
  <1> SUFFICES ASSUME NEW t \in Servers, ~Gone(Other(t))',
                      NEW i \in 1 .. Len(chan[<<t, Other(t)>>]), NEW c \in Clients
               PROVE  chan[<<t, Other(t)>>][i][c] =
                        IF Heard(spc'[Other(t)]) + i = 1 THEN VWord(t, c) ELSE ZWord(t, c)
    BY <1>1 DEF WordInv
  <1>2. Other(t) \in Servers
    BY OtherFacts
  <1>3. ~Gone(Other(t)) /\ Heard(spc'[Other(t)]) = Heard(spc[Other(t)])
    BY <1>2
  <1> QED
    BY <1>3 DEF WordInv

(* The steps of a server's main thread.                                  *)
LEMMA ValueMain ==
  ASSUME CalmInv, CalmInv', ValueInv, UNCHANGED <<in, mode>>, NEW s \in Servers, Main(s)
  PROVE  ValueInv'
  <1> USE DEF ValueInv
  <1>0. ControlType /\ Streams /\ Joined
    BY DEF CalmInv, BalanceInv, DeliveryInv
  <1>1. UNCHANGED <<b, a, ci, ti, x, m>>
    BY DEF Main, Spawn, Join, JoinNone, SendV, ReceiveV, SendZ, ReceiveZ, CheckBroken,
           clientVars, threadVars
  <1>2. InputType' /\ VoleInv'
    <2>1. \A e \in Clients, j \in Idx : AVal(e, j, ti[e])' = AVal(e, j, ti[e])
      BY <1>1 DEF AVal
    <2> QED
      BY <1>1, <2>1, ValuesFixed DEF VoleInv, BVal
  <1>v. \A t \in Servers, c \in Clients :
          /\ XShare(t, c)' = XShare(t, c) /\ MShare(t, c)' = MShare(t, c)
          /\ VWord(t, c)' = VWord(t, c) /\ DWord(t, c)' = DWord(t, c)
          /\ ZWord(t, c)' = ZWord(t, c)
    BY ValuesFixed
  <1>3. CASE Spawn(s)
    <2>1. spc[s] = "spawn" /\ si[s] \in Clients /\ tpc[s][si[s]] = "none"
      <3>1. spc[s] = "spawn" /\ si[s] \in Clients
        BY <1>0, <1>3 DEF Spawn, ControlType
      <3> QED
        BY <3>1, <1>0, LinkFacts DEF Joined
    <2>2. /\ \E t \in {"none", "run"} : tpc' = [tpc EXCEPT ![s][si[s]] = t]
          /\ spc' = spc \/ spc' = [spc EXCEPT ![s] = "join"]
          /\ UNCHANGED <<chan, v, d, z>>
      BY <1>3, <2>1 DEF Spawn
    <2>3. \A t \in Servers, c \in Clients : tpc'[t][c] = "finished" <=> tpc[t][c] = "finished"
      BY <2>1, <2>2, <1>0 DEF ControlType
    <2>4. /\ \A t \in Servers : spc'[t] = spc[t] \/ (spc[t] = "spawn" /\ spc'[t] = "join")
      BY <2>1, <2>2, <1>0 DEF ControlType
    <2>5. ShareInv'
      BY <1>1, <1>v, <2>3 DEF ShareInv
    <2>6. SumInv'
      <3>1. ASSUME NEW t \in Servers, NEW c \in Clients
            PROVE  /\ spc'[t] \in {"spawn", "join", "sendv", "recvv"} =>
                        IF tpc'[t][c] = "finished" THEN v'[t][c] = VWord(t, c) /\ d'[t][c] = DWord(t, c)
                                                   ELSE v'[t][c] = 0 /\ d'[t][c] = 0
                   /\ spc'[t] \in {"sendz", "recvz"} => z'[t][c] = ZWord(t, c)
                   /\ spc'[t] = "done" => z'[t][c] = 0
        BY <2>2, <2>3, <2>4 DEF SumInv
      <3> QED
        BY <3>1, <1>v DEF SumInv
    <2>7. WordInv'
      <3>1. \A t \in Servers : Heard(spc'[t]) = Heard(spc[t]) /\ (Gone(t)' <=> Gone(t))
        BY <2>4, TalkFacts, OtherFacts DEF Gone, Servers, NUM_SRV
      <3> QED
        BY <2>2, <3>1, WordSame
    <2>8. StreamInv' /\ Shape'
      BY <1>1, <2>2, ValuesFixed DEF StreamInv, Shape
    <2> QED
      BY <1>2, <2>5, <2>6, <2>7, <2>8
  <1>4. CASE Join(s)
    <2>1. /\ spc[s] = "join"
          /\ spc' = spc \/ spc' = [spc EXCEPT ![s] = "sendv"]
          /\ UNCHANGED <<chan, tpc, v, d, z>>
      BY <1>4 DEF Join, threadVars
    <2>2. \A t \in Servers : spc'[t] = spc[t] \/ (spc[t] = "join" /\ spc'[t] = "sendv")
      BY <2>1, <1>0 DEF ControlType
    <2>5. ShareInv'
      BY <1>1, <1>v, <2>1 DEF ShareInv
    <2>6. SumInv'
      <3>1. ASSUME NEW t \in Servers, NEW c \in Clients
            PROVE  /\ spc'[t] \in {"spawn", "join", "sendv", "recvv"} =>
                        IF tpc'[t][c] = "finished" THEN v'[t][c] = VWord(t, c) /\ d'[t][c] = DWord(t, c)
                                                   ELSE v'[t][c] = 0 /\ d'[t][c] = 0
                   /\ spc'[t] \in {"sendz", "recvz"} => z'[t][c] = ZWord(t, c)
                   /\ spc'[t] = "done" => z'[t][c] = 0
        BY <2>1, <2>2 DEF SumInv
      <3> QED
        BY <3>1, <1>v DEF SumInv
    <2>7. WordInv'
      <3>1. \A t \in Servers : Heard(spc'[t]) = Heard(spc[t]) /\ (Gone(t)' <=> Gone(t))
        BY <2>2, TalkFacts, OtherFacts DEF Gone, Servers, NUM_SRV
      <3> QED
        BY <2>1, <3>1, WordSame
    <2>8. StreamInv' /\ Shape'
      BY <1>1, <2>1, ValuesFixed DEF StreamInv, Shape
    <2> QED
      BY <1>2, <2>5, <2>6, <2>7, <2>8
  <1>5. CASE JoinNone(s) \/ CheckBroken(s)
    <2>1. /\ spc' = [spc EXCEPT ![s] = "aborted"]
          /\ UNCHANGED <<chan, tpc, v, d, z>>
      BY <1>5 DEF JoinNone, CheckBroken, threadVars
    <2>2. \A t \in Servers : spc'[t] = spc[t] \/ spc'[t] = "aborted"
      BY <2>1, <1>0 DEF ControlType
    <2>3. SumInv' /\ ShareInv'
      BY <1>1, <2>1, <2>2, SumFrame
    <2>4. WordInv'
      BY <2>1, <2>2, WordFrame
    <2>5. StreamInv' /\ Shape'
      BY <1>1, <2>1, ValuesFixed DEF StreamInv, Shape
    <2> QED
      BY <1>2, <2>3, <2>4, <2>5
  <1>6. CASE SendV(s)
    <2>1. /\ spc[s] = "sendv" /\ Put(s, Other(s), v[s]) /\ spc' = [spc EXCEPT ![s] = "recvv"]
          /\ UNCHANGED <<tpc, v, d, z>>
      BY <1>6 DEF SendV, threadVars
    <2>2. \A c \in Clients : v[s][c] = VWord(s, c)
      BY <2>1, <1>0 DEF SumInv, Joined, Past, AllFinished
    <2>3. WordInv' /\ StreamInv'
      <3> HIDE DEF ValueInv
      <3>1. spc[s] \in {"sendv", "sendz"} /\ ~("recvv" \in {"done", "aborted"})
            /\ Heard("recvv") = Heard(spc[s])
        BY <2>1, TalkFacts
      <3>2. \A c \in Clients : v[s][c] = IF spc[s] = "sendv" THEN VWord(s, c) ELSE ZWord(s, c)
        BY <2>1, <2>2
      <3>3. Put(s, Other(s), v[s]) /\ spc' = [spc EXCEPT ![s] = "recvv"]
        BY <2>1
      <3> QED
        BY <3>1, <3>2, <3>3, WordSend
    <2>4. \A t \in Servers : spc'[t] = spc[t] \/ (spc[t] = "sendv" /\ spc'[t] = "recvv")
      BY <2>1, <1>0 DEF ControlType
    <2>5. ShareInv' /\ Shape'
      BY <1>1, <1>v, <2>1 DEF ShareInv, Shape
    <2>6. SumInv'
      <3>1. ASSUME NEW t \in Servers, NEW c \in Clients
            PROVE  /\ spc'[t] \in {"spawn", "join", "sendv", "recvv"} =>
                        IF tpc'[t][c] = "finished" THEN v'[t][c] = VWord(t, c) /\ d'[t][c] = DWord(t, c)
                                                   ELSE v'[t][c] = 0 /\ d'[t][c] = 0
                   /\ spc'[t] \in {"sendz", "recvz"} => z'[t][c] = ZWord(t, c)
                   /\ spc'[t] = "done" => z'[t][c] = 0
        BY <2>1, <2>4 DEF SumInv
      <3> QED
        BY <3>1, <1>v DEF SumInv
    <2> QED
      BY <1>2, <2>3, <2>5, <2>6
  <1>7. CASE SendZ(s)
    <2>1. /\ spc[s] = "sendz" /\ Put(s, Other(s), z[s]) /\ spc' = [spc EXCEPT ![s] = "recvz"]
          /\ UNCHANGED <<tpc, v, d, z>>
      BY <1>7 DEF SendZ, threadVars
    <2>2. \A c \in Clients : z[s][c] = ZWord(s, c)
      BY <2>1 DEF SumInv
    <2>3. WordInv' /\ StreamInv'
      <3> HIDE DEF ValueInv
      <3>1. spc[s] \in {"sendv", "sendz"} /\ ~("recvz" \in {"done", "aborted"})
            /\ Heard("recvz") = Heard(spc[s])
        BY <2>1, TalkFacts
      <3>2. \A c \in Clients : z[s][c] = IF spc[s] = "sendv" THEN VWord(s, c) ELSE ZWord(s, c)
        BY <2>1, <2>2
      <3>3. Put(s, Other(s), z[s]) /\ spc' = [spc EXCEPT ![s] = "recvz"]
        BY <2>1
      <3> QED
        BY <3>1, <3>2, <3>3, WordSend
    <2>4. \A t \in Servers : spc'[t] = spc[t] \/ (spc[t] = "sendz" /\ spc'[t] = "recvz")
      BY <2>1, <1>0 DEF ControlType
    <2>5. ShareInv' /\ Shape'
      BY <1>1, <1>v, <2>1 DEF ShareInv, Shape
    <2>6. SumInv'
      <3>1. ASSUME NEW t \in Servers, NEW c \in Clients
            PROVE  /\ spc'[t] \in {"spawn", "join", "sendv", "recvv"} =>
                        IF tpc'[t][c] = "finished" THEN v'[t][c] = VWord(t, c) /\ d'[t][c] = DWord(t, c)
                                                   ELSE v'[t][c] = 0 /\ d'[t][c] = 0
                   /\ spc'[t] \in {"sendz", "recvz"} => z'[t][c] = ZWord(t, c)
                   /\ spc'[t] = "done" => z'[t][c] = 0
        BY <2>1, <2>4 DEF SumInv
      <3> QED
        BY <3>1, <1>v DEF SumInv
    <2> QED
      BY <1>2, <2>3, <2>5, <2>6
  <1>8. CASE ReceiveV(s)
    <2>1. /\ spc[s] = "recvv" /\ CanReceive(Other(s), s) /\ Take(Other(s), s)
          /\ spc' = [spc EXCEPT ![s] = "sendz"] /\ UNCHANGED <<tpc, d>>
          /\ v' = [v EXCEPT ![s] = [c \in Clients |-> (Message(Other(s), s)[c] + v[s][c]) % ZK2S]]
          /\ z' = [z EXCEPT ![s] = [c \in Clients |->
                     (d[s][c] - ((Message(Other(s), s)[c] + v[s][c]) % ZK2S) * Alpha[s]) % ZK2S]]
      BY <1>8 DEF ReceiveV, threadVars
    <2>2. \A c \in Clients : v[s][c] = VWord(s, c) /\ d[s][c] = DWord(s, c)
      BY <2>1, <1>0 DEF SumInv, Joined, Past, AllFinished
    <2>3. /\ WordInv' /\ StreamInv'
          /\ \A c \in Clients : Message(Other(s), s)[c] = VWord(Other(s), c)
      <3>1. Heard("sendz") = Heard(spc[s]) + 1
        BY <2>1, TalkFacts
      <3> QED
        BY <2>1, <3>1, WordReceive
    <2>4. \A c \in Clients : z'[s][c] = ZWord(s, c)
      BY <2>1, <2>2, <2>3 DEF ZWord, Shape
    <2>5. /\ spc'[s] = "sendz"
          /\ \A t \in Servers : t # s => spc'[t] = spc[t] /\ v'[t] = v[t] /\ z'[t] = z[t]
      BY <2>1, <1>0 DEF ControlType, Shape
    <2>6. ShareInv' /\ Shape'
      BY <1>1, <1>v, <2>1 DEF ShareInv, Shape
    <2>7. SumInv'
      <3>1. ASSUME NEW t \in Servers, NEW c \in Clients
            PROVE  /\ spc'[t] \in {"spawn", "join", "sendv", "recvv"} =>
                        IF tpc'[t][c] = "finished" THEN v'[t][c] = VWord(t, c) /\ d'[t][c] = DWord(t, c)
                                                   ELSE v'[t][c] = 0 /\ d'[t][c] = 0
                   /\ spc'[t] \in {"sendz", "recvz"} => z'[t][c] = ZWord(t, c)
                   /\ spc'[t] = "done" => z'[t][c] = 0
        <4>1. CASE t = s
          BY <4>1, <2>4, <2>5
        <4>2. CASE t # s
          BY <4>2, <2>1, <2>5 DEF SumInv
        <4> QED
          BY <4>1, <4>2
      <3> QED
        BY <3>1, <1>v DEF SumInv
    <2> QED
      BY <1>2, <2>3, <2>6, <2>7
  <1>9. CASE ReceiveZ(s)
    <2>1. /\ spc[s] = "recvz" /\ CanReceive(Other(s), s) /\ Take(Other(s), s)
          /\ spc' = [spc EXCEPT ![s] = "done"] /\ UNCHANGED <<tpc, v, d>>
          /\ z' = [z EXCEPT ![s] = [c \in Clients |-> (Message(Other(s), s)[c] + z[s][c]) % ZK2S]]
      BY <1>9 DEF ReceiveZ, threadVars, Shape
    <2>2. \A c \in Clients : z[s][c] = ZWord(s, c)
      BY <2>1 DEF SumInv
    <2>3. /\ WordInv' /\ StreamInv'
          /\ \A c \in Clients : Message(Other(s), s)[c] = ZWord(Other(s), c)
      <3>1. Heard("done") = Heard(spc[s]) + 1
        BY <2>1, TalkFacts
      <3> QED
        BY <2>1, <3>1, WordReceive
    <2>4. ASSUME NEW c \in Clients PROVE z'[s][c] = 0
      <3>1. z'[s][c] = (ZWord(Other(s), c) + ZWord(s, c)) % ZK2S
        BY <2>1, <2>2, <2>3 DEF Shape
      <3> QED
        BY <3>1, CheckZero
    <2>5. /\ spc'[s] = "done"
          /\ \A t \in Servers : t # s => spc'[t] = spc[t] /\ z'[t] = z[t]
      BY <2>1, <1>0 DEF ControlType, Shape
    <2>6. ShareInv' /\ Shape'
      BY <1>1, <1>v, <2>1 DEF ShareInv, Shape
    <2>7. SumInv'
      <3>1. ASSUME NEW t \in Servers, NEW c \in Clients
            PROVE  /\ spc'[t] \in {"spawn", "join", "sendv", "recvv"} =>
                        IF tpc'[t][c] = "finished" THEN v'[t][c] = VWord(t, c) /\ d'[t][c] = DWord(t, c)
                                                   ELSE v'[t][c] = 0 /\ d'[t][c] = 0
                   /\ spc'[t] \in {"sendz", "recvz"} => z'[t][c] = ZWord(t, c)
                   /\ spc'[t] = "done" => z'[t][c] = 0
        <4>1. CASE t = s
          BY <4>1, <2>4, <2>5
        <4>2. CASE t # s
          BY <4>2, <2>1, <2>5 DEF SumInv
        <4> QED
          BY <4>1, <4>2
      <3> QED
        BY <3>1, <1>v DEF SumInv
    <2> QED
      BY <1>2, <2>3, <2>6, <2>7
  <1> QED
    BY <1>3, <1>4, <1>5, <1>6, <1>7, <1>8, <1>9 DEF Main

(* Every step keeps the invariant, which implies both properties.        *)
LEMMA ValueNext == CalmInv /\ CalmInv' /\ ValueInv /\ [Next]_vars => ValueInv'
  <1> SUFFICES ASSUME CalmInv, CalmInv', ValueInv, [Next]_vars PROVE ValueInv'
    OBVIOUS
  <1>1. UNCHANGED <<in, mode>>
    BY InputFixed
  <1>2. CASE UNCHANGED vars
    <2>1. UNCHANGED <<chan, spc, tpc, b, a, ci, ti, x, m, v, d, z>>
      BY <1>2 DEF vars
    <2>2. SumInv' /\ ShareInv' /\ WordInv'
      BY <1>1, <2>1, SumFrame, WordFrame DEF ValueInv
    <2>3. StreamInv' /\ Shape'
      BY <1>1, <2>1, ValuesFixed DEF ValueInv, StreamInv, Shape
    <2>4. VoleInv'
      <3>1. \A e \in Clients, j \in Idx : AVal(e, j, ti[e])' = AVal(e, j, ti[e])
        BY <1>1, <2>1 DEF AVal
      <3> QED
        BY <2>1, <3>1 DEF ValueInv, VoleInv, BVal
    <2> QED
      BY <1>1, <2>2, <2>3, <2>4, ValuesFixed DEF ValueInv
  <1>3. CASE Next
    <2>1. CASE \E c \in Clients : Client(c) \/ ClientCrash(c)
      BY <1>1, <2>1, ValueClient
    <2>2. CASE \E s \in Servers, c \in Clients : Thread(s, c)
      BY <1>1, <2>2, ValueThread
    <2>3. CASE \E s \in Servers : Main(s)
      BY <1>1, <2>3, ValueMain
    <2> QED
      BY <1>3, <2>1, <2>2, <2>3 DEF Next
  <1> QED
    BY <1>2, <1>3

LEMMA ValueImplies == ValueInv => CommitmentCorrect /\ HonestCheckPasses
  <1> SUFFICES ASSUME ValueInv PROVE CommitmentCorrect /\ HonestCheckPasses
    OBVIOUS
  <1>0. InputType /\ ShareInv /\ SumInv
    BY DEF ValueInv
  <1>1. HonestCheckPasses
    BY <1>0 DEF SumInv, HonestCheckPasses
  <1>2. ASSUME NEW c \in Clients, tpc[0][c] = "finished", tpc[1][c] = "finished", NEW j \in Idx
        PROVE  /\ (x[0][c][j] + x[1][c][j]) % ZKS = in[c][j]
               /\ (m[0][c][j] + m[1][c][j]) % ZK2S = (in[c][j] * (Alpha[0] + Alpha[1])) % ZK2S
    <2>1. /\ x[0][c] = XShare(0, c) /\ x[1][c] = XShare(1, c)
          /\ m[0][c] = MShare(0, c) /\ m[1][c] = MShare(1, c)
      BY <1>0, <1>2 DEF ShareInv, Servers
    <2> DEFINE e == MShare(0, c)[j] + MShare(1, c)[j]
               g == in[c][j] * Key
    <2>2. /\ XShare(0, c)[j] + XShare(1, c)[j] = in[c][j] /\ Cong(e, g, ZK2S)
          /\ MShare(0, c)[j] \in Int /\ MShare(1, c)[j] \in Int
      BY <1>0, ShareFacts DEF Servers
    <2>3. in[c][j] \in 0 .. ZKS - 1 /\ in[c][j] \in Nat /\ ZKS \in Nat \ {0} /\ ZK2S \in Nat \ {0}
          /\ Key \in Nat
      BY <1>0, SharePlain, RingFacts
    <2>4. in[c][j] % ZKS = in[c][j]
      <3>1. ASSUME NEW k \in Nat \ {0}, NEW t \in 0 .. k - 1 PROVE t % k = t
        BY <3>1
      <3> QED
        BY <2>3, <3>1
    <2>5. e \in Int /\ g \in Int
      BY <2>2, <2>3
    <2> HIDE DEF e, g
    <2>6. e % ZK2S = g % ZK2S
      BY <2>2, <2>3, <2>5, CongMod
    <2>7. x[0][c][j] + x[1][c][j] = in[c][j]
      BY <2>1, <2>2
    <2> QED
      BY <2>1, <2>4, <2>6, <2>7 DEF e, g, Key
  <1>3. CommitmentCorrect
    BY <1>2 DEF CommitmentCorrect
  <1> QED
    BY <1>1, <1>3

LEMMA ValueAlways == Spec => []ValueInv
  <1>1. Spec => []CalmInv
    BY CalmInit, CalmNext, PTL DEF Spec
  <1> QED
    BY <1>1, ValueInit, ValueNext, PTL DEF Spec

(* Whatever the interleaving, the mode, the data and the crashes, once the *)
(* threads of both servers for a client are through, their shares add up   *)
(* to its input and their MAC shares to the input times the key            *)
(* (input_commit_honest, input_commit_dishonest, vole_send_simu).          *)
THEOREM CommitmentAdds == Spec => []CommitmentCorrect
  BY ValueAlways, ValueImplies, PTL

(* A server that gets through the exchange has computed zero for every     *)
(* client: the check of step 8 (consistency_check_all) never fails for a   *)
(* client that follows the protocol.                                       *)
THEOREM HonestPasses == Spec => []HonestCheckPasses
  BY ValueAlways, ValueImplies, PTL
===========================================================================
