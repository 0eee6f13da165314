---------------------------- MODULE AlphaInput ----------------------------
(***************************************************************************)
(* The input commitment of AlphaFL: two servers (Alpha/alpha-server.cpp)   *)
(* and TotCli clients (Alpha/alpha-client.cpp), connected by TCP streams.  *)
(*                                                                         *)
(* Every server starts one thread per client.  In the honest-majority mode *)
(* a client sends its share of the input and of the MAC to server 1; in    *)
(* the dishonest-majority mode it first runs SBits rounds of a vector OLE  *)
(* with server 0.  When all threads of a server are joined, the servers    *)
(* exchange two vectors and each one verifies every commitment.            *)
(*                                                                         *)
(* Rings keep their width: Z2<k> is arithmetic modulo 2^k, and widening    *)
(* Z2<KS> to Z2<K2S> is zero extension.  A peer that dies or exits closes  *)
(* its sockets: what it sent is still received, then the receiver gets     *)
(* closed_connection, which terminates the receiving process.              *)
(***************************************************************************)
EXTENDS Integers, Sequences, FiniteSets, Functions

CONSTANTS
  TotCli,      \* number of clients (tot_cli)
  XLen,        \* length of the input vector (tot_in * L_INF)
  KBits,       \* K
  SBits,       \* S, also the number of vOLE rounds
  Modes,       \* the modes the servers are started with: 0 honest majority,
               \* 1 dishonest majority, 2 the same with vOLE pre-processing
  Alpha,       \* Alpha[s] = get_alpha(s), the MAC key share of server s
  Inputs,      \* the values an input may take, a subset of Z2<KS>
  Masks,       \* the values xt1.randomize may return, a subset of Z2<KS>
  R,           \* R[c][j], drawn by both servers from the same seed
  Prg,         \* Prg[choice][j], output of the vOLE generators (fixed seeds)
  Cap,         \* messages that fit into a socket buffer before send blocks
  MayCrash     \* whether a client may die before it has sent everything

Servers == {0, 1}
Clients == 0 .. TotCli - 1
NUM_SRV == 2
Party(c) == c + NUM_SRV
Other(s) == NUM_SRV - 1 - s

(* 2^n up to the width of the larger ring.                                 *)
Pow2[n \in 0 .. KBits + SBits + SBits] == IF n = 0 THEN 1 ELSE 2 * Pow2[n - 1]
ZKS == Pow2[KBits + SBits]
ZK2S == Pow2[KBits + SBits + SBits]

Mask == XLen + 1          \* index of the masking value xt after the inputs
Idx == 1 .. Mask
Vec(n) == [Idx -> 0 .. n - 1]
Weight(c, j) == IF j = Mask THEN 1 ELSE R[c][j]

Links == ({Party(c) : c \in Clients} \X Servers) \cup {<<0, 1>>, <<1, 0>>}

ASSUME SizeAssumption ==
  /\ TotCli \in Nat \ {0}
  /\ XLen \in Nat \ {0}
  /\ KBits \in Nat \ {0}
  /\ SBits \in Nat \ {0}
  /\ Cap \in Nat \ {0}
ASSUME ModeAssumption == Modes \subseteq 0 .. 2
ASSUME CrashAssumption == MayCrash \in BOOLEAN
ASSUME DataAssumption ==
  /\ Alpha \in [Servers -> 0 .. Pow2[SBits] - 1]
  /\ R \in [Clients -> [1 .. XLen -> 0 .. Pow2[SBits] - 1]]
  /\ Prg \in [0 .. 1 -> Vec(ZK2S)]

VARIABLES
  mode,   \* the servers' mode (never changes)
  in,     \* in[c]: the client's input vector and, at Mask, its xt1
  cpc,    \* control state of client c
  ci,     \* vOLE round of client c
  b,      \* b[c]: the vOLE output of client c so far (b1)
  chan,   \* chan[<<p, q>>]: messages in flight on the stream from p to q
  spc,    \* control state of server s
  si,     \* loop index of the server's main thread
  tpc,    \* tpc[s][c]: state of the thread of server s for client c
  ti,     \* ti[c]: vOLE round of server 0's thread for client c
  a,      \* a[c]: the vOLE output of server 0 so far (a1)
  x,      \* x[s][c]: share of the input (and of the mask)
  m,      \* m[s][c]: share of the MAC
  v,      \* v[s][c]: masked sum of the inputs; own share, then the total
  d,      \* d[s][c]: share of the masked sum of the MACs
  z       \* z[s][c]: own share of the difference, then the total

clientVars == <<mode, in, cpc, ci, b>>
threadVars == <<tpc, ti, a, x, m>>
mainVars == <<spc, si, z>>
vars == <<mode, in, cpc, ci, b, chan, spc, si, tpc, ti, a, x, m, v, d, z>>

ZeroVec == [j \in Idx |-> 0]

(* get_x0 and get_m0: server 0's shares are zero.                          *)
X0 == 0
M0 == 0

Gone(p) ==
  IF p < NUM_SRV THEN spc[p] \in {"done", "aborted"}
                 ELSE cpc[p - NUM_SRV] \in {"sent", "crashed"}

(* A send blocks while the buffer is full and is lost on a closed stream.  *)
CanSend(p, q) == Gone(q) \/ Len(chan[<<p, q>>]) < Cap
Put(p, q, msg) ==
  chan' = IF Gone(q) THEN chan ELSE [chan EXCEPT ![<<p, q>>] = Append(@, msg)]

CanReceive(p, q) == chan[<<p, q>>] # <<>>
Message(p, q) == Head(chan[<<p, q>>])
Take(p, q) == chan' = [chan EXCEPT ![<<p, q>>] = Tail(@)]
(* Mutants: the close overtakes the data; the close goes unnoticed.        *)
ClosedEarly(p, q) == Gone(p) /\ <<p, q>> \in Links
ClosedNever(p, q) == Gone(p) /\ <<p, q>> \notin Links
Closed(p, q) == chan[<<p, q>>] = <<>> /\ Gone(p)

Init ==
  /\ mode \in Modes
  /\ in \in [Clients -> {f \in Vec(ZKS) : /\ \A j \in 1 .. XLen : f[j] \in Inputs
                                          /\ f[Mask] \in Masks}]
  /\ cpc = [c \in Clients |-> "commit"]
  /\ ci = [c \in Clients |-> 0]
  /\ b = [c \in Clients |-> ZeroVec]
  /\ chan = [l \in Links |-> <<>>]
  /\ spc = [s \in Servers |-> "spawn"]
  /\ si = [s \in Servers |-> 0]
  /\ tpc = [s \in Servers |-> [c \in Clients |-> "none"]]
  /\ ti = [c \in Clients |-> 0]
  /\ a = [c \in Clients |-> ZeroVec]
  /\ x = [s \in Servers |-> [c \in Clients |-> ZeroVec]]
  /\ m = [s \in Servers |-> [c \in Clients |-> ZeroVec]]
  /\ v = [s \in Servers |-> [c \in Clients |-> 0]]
  /\ d = [s \in Servers |-> [c \in Clients |-> 0]]
  /\ z = [s \in Servers |-> [c \in Clients |-> 0]]

---------------------------------------------------------------------------
(* The client knows modes 0 and 1; for a server in mode 2 it runs mode 1.  *)
ClientMode == IF mode = 0 THEN 0 ELSE 1

(* The share for server 1; the mask has no plaintext to subtract from.     *)
X1(c, j) == IF j = Mask THEN in[c][j] ELSE (in[c][j] - X0) % ZKS

(* Mutant: the product is taken in the narrow ring of the inputs.          *)
M1Narrow(c, j) == (((X0 + X1(c, j)) * (Alpha[0] + Alpha[1])) - M0) % ZKS

(* Both key shares are known in the honest-majority mode.                  *)
M1(c, j) == (((X0 + X1(c, j)) * (Alpha[0] + Alpha[1])) - M0) % ZK2S

(* xv, the client's vOLE input: the whole value, not the share.            *)
Xv(c, j) == IF j = Mask THEN (X0 + in[c][j]) % ZKS ELSE in[c][j]

HonestCommit(c) ==
  /\ ClientMode = 0
  /\ cpc[c] = "commit"
  /\ CanSend(Party(c), 1)
  /\ Put(Party(c), 1, [x |-> [j \in Idx |-> X1(c, j)],
                       m |-> [j \in Idx |-> M1(c, j)]])
  /\ cpc' = [cpc EXCEPT ![c] = "sent"]
  /\ UNCHANGED <<mode, in, ci, b, threadVars, mainVars, v, d>>

(* One round of vole_send_simu: send vx + t1 + t0, add t0 << i to b.       *)
VoleSend(c) ==
  /\ ClientMode = 1
  /\ cpc[c] = "commit"
  /\ ci[c] < SBits
  /\ CanSend(Party(c), 0)
  /\ Put(Party(c), 0, [j \in Idx |-> (Xv(c, j) + Prg[1][j] + Prg[0][j]) % ZK2S])
  /\ b' = [b EXCEPT ![c] = [j \in Idx |-> (@[j] + Prg[0][j] * Pow2[ci[c]]) % ZK2S]]
  /\ ci' = [ci EXCEPT ![c] = @ + 1]
  /\ UNCHANGED <<mode, in, cpc, threadVars, mainVars, v, d>>

DishonestCommit(c) ==
  /\ ClientMode = 1
  /\ cpc[c] = "commit"
  /\ ci[c] = SBits
  /\ CanSend(Party(c), 1)
  /\ Put(Party(c), 1, [x |-> [j \in Idx |-> X1(c, j)], m |-> b[c]])
  /\ cpc' = [cpc EXCEPT ![c] = "sent"]
  /\ UNCHANGED <<mode, in, ci, b, threadVars, mainVars, v, d>>

(* The process dies: killed from outside, or by a send to a dead server.   *)
ClientCrash(c) ==
  /\ cpc[c] = "commit"
  /\ MayCrash \/ \E s \in Servers : Gone(s)
  /\ cpc' = [cpc EXCEPT ![c] = "crashed"]
  /\ UNCHANGED <<mode, in, ci, b, chan, threadVars, mainVars, v, d>>

---------------------------------------------------------------------------
(* The server's threads, one per client.                                   *)

Running(s) == spc[s] \notin {"done", "aborted"}

(* The sum of the shares under the weights r, the mask's weight being 1.   *)
Masked(c, xs) == SumFunction([j \in Idx |-> Weight(c, j) * xs[j]])

(* Steps 5 and 6: accumulate the shares xs and ms.                         *)
Accumulate(s, c, xs, ms) ==
  /\ x' = [x EXCEPT ![s][c] = xs]
  /\ m' = [m EXCEPT ![s][c] = ms]
  /\ v' = [v EXCEPT ![s][c] = (@ + Masked(c, xs)) % ZK2S]
  /\ d' = [d EXCEPT ![s][c] = (@ + Masked(c, ms)) % ZK2S]
  /\ tpc' = [tpc EXCEPT ![s][c] = "finished"]
  /\ UNCHANGED <<clientVars, mainVars, ti, a>>

HonestThread0(c) ==
  /\ Running(0) /\ mode = 0
  /\ tpc[0][c] = "run"
  /\ Accumulate(0, c, [j \in Idx |-> X0], [j \in Idx |-> M0])
  /\ UNCHANGED chan

HonestThread1(c) ==
  /\ Running(1) /\ mode = 0
  /\ tpc[1][c] = "run"
  /\ CanReceive(Party(c), 1)
  /\ Take(Party(c), 1)
  /\ LET msg == Message(Party(c), 1) IN Accumulate(1, c, msg.x, msg.m)

(* One round of vole_recv_simu: the bit of alpha picks what is learnt.     *)
VoleReceive(c) ==
  /\ Running(0) /\ mode = 1
  /\ tpc[0][c] = "run"
  /\ ti[c] < SBits
  /\ CanReceive(Party(c), 0)
  /\ Take(Party(c), 0)
  /\ LET u == Message(Party(c), 0)
         choice == (Alpha[0] \div Pow2[ti[c]]) % 2
         t == Prg[choice]
         learnt == [j \in Idx |-> IF choice = 1 THEN u[j] - t[j] ELSE t[j]]
     IN a' = [a EXCEPT ![c] = [j \in Idx |-> (@[j] + learnt[j] * Pow2[ti[c]]) % ZK2S]]
  /\ ti' = [ti EXCEPT ![c] = @ + 1]
  /\ UNCHANGED <<clientVars, mainVars, tpc, x, m, v, d>>

(* ab0 of vole_send_fake and vole_recv_fake is zero on both servers.       *)
Ab0 == 0

DishonestThread0(c) ==
  /\ Running(0) /\ mode = 1
  /\ tpc[0][c] = "run"
  /\ ti[c] = SBits
  /\ Accumulate(0, c, [j \in Idx |-> X0], [j \in Idx |-> (a[c][j] - Ab0) % ZK2S])
  /\ UNCHANGED chan

DishonestThread1(c) ==
  /\ Running(1) /\ mode = 1
  /\ tpc[1][c] = "run"
  /\ CanReceive(Party(c), 1)
  /\ Take(Party(c), 1)
  /\ LET msg == Message(Party(c), 1)
     IN Accumulate(1, c, msg.x,
                   [j \in Idx |-> (msg.x[j] * Alpha[1] + Ab0 - msg.m[j]) % ZK2S])

(* closed_connection leaves the thread function: the process terminates.   *)
ThreadClosed(s, c) ==
  /\ Running(s)
  /\ tpc[s][c] = "run"
  /\ s = 1 \/ (mode = 1 /\ ti[c] < SBits)
  /\ Closed(Party(c), s)
  /\ spc' = [spc EXCEPT ![s] = "aborted"]
  /\ UNCHANGED <<clientVars, chan, si, z, threadVars, v, d>>

---------------------------------------------------------------------------
(* The server's main thread.                                               *)

(* One turn of the first loop of main; mode 2 starts no thread.            *)
Spawn(s) ==
  /\ spc[s] = "spawn"
  /\ tpc' = [tpc EXCEPT ![s][si[s]] = IF mode \in {0, 1} THEN "run" ELSE @]
  /\ IF si[s] + 1 < TotCli
     THEN si' = [si EXCEPT ![s] = @ + 1] /\ spc' = spc
     ELSE si' = [si EXCEPT ![s] = 0] /\ spc' = [spc EXCEPT ![s] = "join"]
  /\ UNCHANGED <<clientVars, chan, ti, a, x, m, v, d, z>>

(* Mutant: the loop goes on without waiting for the thread.                *)
JoinNoWait(s) ==
  /\ spc[s] = "join"
  /\ IF si[s] + 1 < TotCli
     THEN si' = [si EXCEPT ![s] = @ + 1] /\ spc' = spc
     ELSE si' = si /\ spc' = [spc EXCEPT ![s] = "sendv"]
  /\ UNCHANGED <<clientVars, chan, threadVars, v, d, z>>

Join(s) ==
  /\ spc[s] = "join"
  /\ tpc[s][si[s]] = "finished"
  /\ IF si[s] + 1 < TotCli
     THEN si' = [si EXCEPT ![s] = @ + 1] /\ spc' = spc
     ELSE si' = si /\ spc' = [spc EXCEPT ![s] = "sendv"]
  /\ UNCHANGED <<clientVars, chan, threadVars, v, d, z>>

(* join() of a thread that was never started throws system_error.          *)
JoinNone(s) ==
  /\ spc[s] = "join"
  /\ tpc[s][si[s]] = "none"
  /\ spc' = [spc EXCEPT ![s] = "aborted"]
  /\ UNCHANGED <<clientVars, chan, si, z, threadVars, v, d>>

(* consistency_check_all: send v, receive the other's, send z, verify.     *)
SendV(s) ==
  /\ spc[s] = "sendv"
  /\ CanSend(s, Other(s))
  /\ Put(s, Other(s), v[s])
  /\ spc' = [spc EXCEPT ![s] = "recvv"]
  /\ UNCHANGED <<clientVars, si, z, threadVars, v, d>>

(* Mutant: z is computed from the own share of v only.                     *)
ReceiveVStale(s) ==
  /\ spc[s] = "recvv"
  /\ CanReceive(Other(s), s)
  /\ Take(Other(s), s)
  /\ v' = [v EXCEPT ![s] = [c \in Clients |-> (Message(Other(s), s)[c] + @[c]) % ZK2S]]
  /\ z' = [z EXCEPT ![s] = [c \in Clients |-> (d[s][c] - v[s][c] * Alpha[s]) % ZK2S]]
  /\ spc' = [spc EXCEPT ![s] = "sendz"]
  /\ UNCHANGED <<clientVars, si, threadVars, d>>

ReceiveV(s) ==
  /\ spc[s] = "recvv"
  /\ CanReceive(Other(s), s)
  /\ Take(Other(s), s)
  /\ LET vr == [c \in Clients |-> (Message(Other(s), s)[c] + v[s][c]) % ZK2S]
     IN /\ v' = [v EXCEPT ![s] = vr]
        /\ z' = [z EXCEPT ![s] = [c \in Clients |-> (d[s][c] - vr[c] * Alpha[s]) % ZK2S]]
  /\ spc' = [spc EXCEPT ![s] = "sendz"]
  /\ UNCHANGED <<clientVars, si, threadVars, d>>

SendZ(s) ==
  /\ spc[s] = "sendz"
  /\ CanSend(s, Other(s))
  /\ Put(s, Other(s), z[s])
  /\ spc' = [spc EXCEPT ![s] = "recvz"]
  /\ UNCHANGED <<clientVars, si, z, threadVars, v, d>>

ReceiveZ(s) ==
  /\ spc[s] = "recvz"
  /\ CanReceive(Other(s), s)
  /\ Take(Other(s), s)
  /\ z' = [z EXCEPT ![s] = [c \in Clients |-> (Message(Other(s), s)[c] + @[c]) % ZK2S]]
  /\ spc' = [spc EXCEPT ![s] = "done"]
  /\ UNCHANGED <<clientVars, si, threadVars, v, d>>

(* Mutant: the exception is swallowed and the check taken for finished.    *)
CheckBrokenSwallowed(s) ==
  /\ \/ spc[s] \in {"recvv", "recvz"} /\ Closed(Other(s), s)
     \/ spc[s] \in {"sendv", "sendz"} /\ Gone(Other(s))
  /\ spc' = [spc EXCEPT ![s] = "done"]
  /\ UNCHANGED <<clientVars, chan, si, z, threadVars, v, d>>

(* The other server is gone: a receive or a send ends this one as well.    *)
CheckBroken(s) ==
  /\ \/ spc[s] \in {"recvv", "recvz"} /\ Closed(Other(s), s)
     \/ spc[s] \in {"sendv", "sendz"} /\ Gone(Other(s))
  /\ spc' = [spc EXCEPT ![s] = "aborted"]
  /\ UNCHANGED <<clientVars, chan, si, z, threadVars, v, d>>

---------------------------------------------------------------------------
Client(c) == HonestCommit(c) \/ VoleSend(c) \/ DishonestCommit(c)

Thread(s, c) ==
  \/ s = 0 /\ (HonestThread0(c) \/ VoleReceive(c) \/ DishonestThread0(c))
  \/ s = 1 /\ (HonestThread1(c) \/ DishonestThread1(c))
  \/ ThreadClosed(s, c)

Main(s) ==
  \/ Spawn(s) \/ Join(s) \/ JoinNone(s)
  \/ SendV(s) \/ ReceiveV(s) \/ SendZ(s) \/ ReceiveZ(s)
  \/ CheckBroken(s)

Next ==
  \/ \E c \in Clients : Client(c) \/ ClientCrash(c)
  \/ \E s \in Servers, c \in Clients : Thread(s, c)
  \/ \E s \in Servers : Main(s)

(* Every process and every thread is scheduled; a crash is never owed.     *)
Fairness ==
  /\ \A c \in Clients : WF_vars(Client(c))
  /\ \A s \in Servers : WF_vars(Main(s))
  /\ \A s \in Servers, c \in Clients : WF_vars(Thread(s, c))

Spec == Init /\ [][Next]_vars
FairSpec == Spec /\ Fairness

---------------------------------------------------------------------------
(* The two servers' shares of a client add up to its input, and their MAC  *)
(* shares to the input times the key, as soon as both threads are through  *)
(* (input_commit_honest, input_commit_dishonest, the vOLE).                *)
CommitmentCorrect ==
  \A c \in Clients :
    tpc[0][c] = "finished" /\ tpc[1][c] = "finished" =>
      \A j \in Idx :
        /\ (x[0][c][j] + x[1][c][j]) % ZKS = in[c][j]
        /\ (m[0][c][j] + m[1][c][j]) % ZK2S = (in[c][j] * (Alpha[0] + Alpha[1])) % ZK2S

(* Commitments of honest clients never print "Commitment failed"           *)
(* (consistency_check_all, step 8).                                        *)
HonestCheckPasses ==
  \A s \in Servers : spc[s] = "done" => \A c \in Clients : z[s][c] = 0

(* A server gets through the consistency check only when every client has  *)
(* handed over its whole commitment, whatever dies in between.             *)
DoneMeansDelivered ==
  \A s \in Servers : spc[s] = "done" => \A c \in Clients : cpc[c] = "sent"

(* In modes 0 and 1 no server is terminated by an exception as long as no  *)
(* client dies: late receives and early exits of others are harmless.  (In *)
(* mode 2 joining threads that were never started throws: JoinNone.)       *)
NoAbortWithoutCrash ==
  mode # 2 /\ (\A c \in Clients : cpc[c] # "crashed") =>
    \A s \in Servers : spc[s] # "aborted"

(* Every server ends: it finishes the check, or an exception stops it;     *)
(* no crash of a client leaves a server waiting.                           *)
ServersEnd == <>[](\A s \in Servers : spc[s] \in {"done", "aborted"})

(* A server that finishes the check does so only if the other reaches the  *)
(* last exchange: one server never accepts alone.                          *)
NeverAlone ==
  \A s \in Servers : spc[s] = "done" => spc[Other(s)] \in {"recvz", "done"}
===========================================================================
