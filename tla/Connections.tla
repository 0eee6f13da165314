---------------------------- MODULE Connections ----------------------------
(***************************************************************************)
(* How the parties of a computation get connected.  Every party reports to *)
(* the coordination server, a thread of party 0 (Server.cpp), and gets the *)
(* addresses of all; then it listens (Names::setup_server).  Every player  *)
(* of a party (one per thread) connects to the parties up to its own,      *)
(* sending a name made of the player's id and the party, and waits for the *)
(* connections of the others under theirs (PlainPlayer::setup_sockets).  A *)
(* CryptoPlayer does this twice and then performs a TLS handshake on both  *)
(* connections with one peer after the other.                              *)
(*                                                                         *)
(* With faults, one party may crash at any time, and a wait of 60 seconds  *)
(* (CONNECTION_TIMEOUT) may end before or without what is waited for; both *)
(* end the process.  TCP connects to a party that listens; the connection  *)
(* is processed later, in any order (accept thread, deferred threads).     *)
(***************************************************************************)
EXTENDS Integers, FiniteSets

CONSTANTS
  N,         \* bound on the number of parties
  Setups     \* parties, players per party, whether these use TLS, whether
             \* party 0 listens on the coordination server's socket, and
             \* whether parties may crash or time out

ASSUME SizeAssumption == N \in Nat \ {0}

ASSUME SetupsAssumption ==
  Setups \subseteq
    [parties : 1 .. N, players : Nat \ {0}, tls : BOOLEAN, shared : BOOLEAN, faults : BOOLEAN]

Parties == 0 .. N - 1

VARIABLES
  setup,     \* which of the setups it is
  crashed,   \* whether a party has crashed
  spc, si,   \* control state and loop index of the coordination server
  reported,  \* parties that have sent the server their name and port
  named,     \* parties that the server has sent all names
  ppc,       \* ppc[p]: control state of party p's main thread
  tpc,       \* tpc[p][b]: control state of player b of p
  ti,        \* ti[p][b]: its loop index
  second,    \* second[p][b]: whether it is at its second set of connections
  sockets,   \* sockets[p][b][r][q]: its connection to q in set r
  arriving,  \* connections whose name has not been processed
  clients,   \* clients[p]: connections in the table of p's ServerSocket
  used       \* used[p]: names that have been asked for

serverVars == <<spc, si, reported, named>>
playerVars == <<tpc, ti, second, sockets>>
tableVars == <<arriving, clients, used>>
vars == <<setup, crashed, serverVars, ppc, playerVars, tableVars>>

Present == 0 .. setup.parties - 1
Last == setup.parties - 1
Players == 1 .. setup.players
AllPlayers == UNION {1 .. s.players : s \in Setups}

(* A connection, by the player that opens it, in which set, and to whom.   *)
Connection(p, b, r, q) == [from |-> p, player |-> b, set |-> r, to |-> q]
None == Connection(N, 0, 0, N)

Init ==
  /\ setup \in Setups
  /\ crashed = FALSE
  /\ spc = "off" /\ si = 0
  /\ reported = {} /\ named = {}
  /\ ppc = [p \in Parties |-> IF p \in Present THEN "start" ELSE "absent"]
  /\ tpc = [p \in Parties |-> [b \in AllPlayers |-> "connect"]]
  /\ ti = [p \in Parties |-> [b \in AllPlayers |-> 0]]
  /\ second = [p \in Parties |-> [b \in AllPlayers |-> 0]]
  /\ sockets = [p \in Parties |-> [b \in AllPlayers |->
                 [r \in 0 .. 1 |-> [q \in Parties |-> None]]]]
  /\ arriving = {}
  /\ clients = [p \in Parties |-> {}]
  /\ used = [p \in Parties |-> {}]

Gone(p) == ppc[p] = "gone"
Leave(p) == ppc' = [ppc EXCEPT ![p] = "gone"]

(***************************************************************************)
(* Coordination server and the parties' main threads.                      *)
(***************************************************************************)
ServerListen ==
  /\ spc = "off" /\ ~Gone(0)
  /\ spc' = "accept"
  /\ UNCHANGED <<setup, crashed, si, reported, named, ppc, playerVars, tableVars>>

(* One turn of the first loop of Server::start: connections in order.      *)
ServerAccept ==
  /\ spc = "accept" /\ ~Gone(0)
  /\ si \in reported
  /\ si' = IF si = Last THEN 0 ELSE si + 1
  /\ spc' = IF si = Last THEN "names" ELSE spc
  /\ UNCHANGED <<setup, crashed, reported, named, ppc, playerVars, tableVars>>

(* get_name for all parties; the data are there even if the party is gone  *)
(* by now, unless it left before it sent them.                             *)
ServerNames ==
  /\ spc = "names" /\ ~Gone(0)
  /\ spc' = "send"
  /\ UNCHANGED <<setup, crashed, si, reported, named, ppc, playerVars, tableVars>>

ServerSend ==
  /\ spc = "send" /\ ~Gone(0)
  /\ named' = named \cup {si}
  /\ si' = IF si = Last THEN si ELSE si + 1
  /\ spc' = IF si = Last THEN "closed" ELSE spc
  /\ UNCHANGED <<setup, crashed, reported, ppc, playerVars, tableVars>>

(* An exception in the thread of the server, or its time-out, ends party 0;*)
(* so does a party that dies in the middle of the name it reports under    *)
(* (AcceptFails below).                                                    *)
ServerFails ==
  /\ ~Gone(0)
  /\ \/ spc \in {"names", "send"} /\ \E q \in Parties : Gone(q)
     \/ spc = "accept" /\ setup.faults /\ si \notin reported
     \/ spc = "accept" /\ \E q \in Present \ reported : Gone(q)
  /\ Leave(0)
  /\ UNCHANGED <<setup, crashed, serverVars, playerVars, tableVars>>

Server == ServerListen \/ ServerAccept \/ ServerNames \/ ServerSend \/ ServerFails

(* setup_names: report to the server as soon as it can be reached.         *)
ReportTo(p) ==
  /\ ppc[p] = "start"
  /\ spc # "off" /\ ~Gone(0)
  /\ reported' = reported \cup {p}
  /\ ppc' = [ppc EXCEPT ![p] = "reported"]
  /\ UNCHANGED <<setup, crashed, spc, si, named, playerVars, tableVars>>

(* Party 0 joins its server before it goes on (start_networking).          *)
GetNames(p) ==
  /\ ppc[p] = "reported"
  /\ p \in named
  /\ p = 0 => spc = "closed"
  /\ ppc' = [ppc EXCEPT ![p] = "up"]
  /\ UNCHANGED <<setup, crashed, serverVars, playerVars, tableVars>>

(* "cannot reach coordination server", "error in network setup"            *)
NamesFail(p) ==
  /\ \/ ppc[p] = "start" /\ setup.faults /\ (spc = "off" \/ Gone(0))
     \/ ppc[p] = "reported" /\ p \notin named /\ Gone(0)
  /\ Leave(p)
  /\ UNCHANGED <<setup, crashed, serverVars, playerVars, tableVars>>

SetupNames(p) == ReportTo(p) \/ GetNames(p) \/ NamesFail(p)

(***************************************************************************)
(* Players.                                                                *)
(***************************************************************************)
Listening(p) ==
  /\ ~Gone(p)
  /\ ppc[p] = "up" \/ (p = 0 /\ setup.shared /\ spc # "off")

(* Mutant: the name says only from which party the connection is.          *)
NamePartyOnly(b, r, p) == <<0, r, p>>

(* id_base + "P" + player number                                           *)
Name(b, r, p) == <<b, r, p>>
NameOf(c) == Name(c.player, c.set, c.from)

(* The order of the handshakes: by offset, at each offset one of the two   *)
(* neighbours first, the parties taking turns in which.                    *)
Modulo(k) == (k + setup.parties) % setup.parties

(* Mutant: every party begins with the neighbour above it.                 *)
PeerAbove(p, j) ==
  LET offset == (j + 1) \div 2
  IN  IF j % 2 = 1 THEN Modulo(p + offset) ELSE Modulo(p - offset)

Peer(p, j) ==
  LET offset == (j + 1) \div 2
      below == p % (2 * offset) < offset
  IN  IF (j % 2 = 1) = below THEN Modulo(p - offset) ELSE Modulo(p + offset)

At(p, b, state) == ppc[p] = "up" /\ b \in Players /\ tpc[p][b] = state
Goto(p, b, state, i) ==
  /\ tpc' = [tpc EXCEPT ![p][b] = state]
  /\ ti' = [ti EXCEPT ![p][b] = i]

(* Mutant: a connection that is refused is not tried again.                *)
ConnectOnce(p, b) ==
  LET q == ti[p][b]
      c == Connection(p, b, second[p][b], q)
  IN
  /\ At(p, b, "connect")
  /\ IF Listening(q)
     THEN /\ arriving' = arriving \cup {c}
          /\ sockets' = [sockets EXCEPT ![p][b][second[p][b]][q] = c]
          /\ IF q = p THEN Goto(p, b, "accept", p) ELSE Goto(p, b, "connect", q + 1)
          /\ UNCHANGED ppc
     ELSE Leave(p) /\ UNCHANGED <<arriving, tpc, ti, sockets>>
  /\ UNCHANGED <<setup, crashed, serverVars, second, clients, used>>

(* set_up_client_socket, tried until the party listens, and the name; one  *)
(* turn of the loop over the parties up to player_no.                      *)
Connect(p, b) ==
  LET q == ti[p][b]
      c == Connection(p, b, second[p][b], q)
  IN
  /\ At(p, b, "connect")
  /\ Listening(q)
  /\ arriving' = arriving \cup {c}
  /\ sockets' = [sockets EXCEPT ![p][b][second[p][b]][q] = c]
  /\ IF q = p THEN Goto(p, b, "accept", p) ELSE Goto(p, b, "connect", q + 1)
  /\ UNCHANGED <<setup, crashed, serverVars, ppc, second, clients, used>>

Wanted(p, b) == Name(b, second[p][b], ti[p][b])
Found(p, b) == {c \in clients[p] : NameOf(c) = Wanted(p, b)}

(* get_connection_socket, one turn of the loop from player_no on.  A name  *)
(* that was used before is an exception that nobody catches.               *)
Accept(p, b) ==
  LET r == second[p][b]
      last == ti[p][b] = Last
  IN
  /\ At(p, b, "accept")
  /\ IF Wanted(p, b) \in used[p]
     THEN Leave(p) /\ UNCHANGED <<playerVars, used>>
     ELSE /\ \E c \in Found(p, b) :
               sockets' = [sockets EXCEPT ![p][b][r][ti[p][b]] = c]
          /\ used' = [used EXCEPT ![p] = @ \cup {Wanted(p, b)}]
          /\ second' = [second EXCEPT ![p][b] = IF last /\ setup.tls THEN 1 ELSE r]
          /\ IF ~last THEN Goto(p, b, "accept", ti[p][b] + 1)
             ELSE IF setup.tls /\ r = 0 THEN Goto(p, b, "connect", 0)
             ELSE IF setup.tls /\ Last > 0 THEN Goto(p, b, "handshake", 1)
             ELSE Goto(p, b, "ready", 0)
          /\ UNCHANGED ppc
  /\ UNCHANGED <<setup, crashed, serverVars, arriving, clients>>

(* CryptoPlayer::connect with one peer, on both connections.  A handshake  *)
(* needs both sides.                                                       *)
Shaken(p, b) == IF ti[p][b] = Last THEN "ready" ELSE "handshake"
Meeting(p, q, b) ==
  /\ p < q
  /\ At(p, b, "handshake") /\ Peer(p, ti[p][b]) = q
  /\ At(q, b, "handshake") /\ Peer(q, ti[q][b]) = p
Handshake(p, q, b) ==
  /\ Meeting(p, q, b)
  /\ tpc' = [tpc EXCEPT ![p][b] = Shaken(p, b), ![q][b] = Shaken(q, b)]
  /\ ti' = [ti EXCEPT ![p][b] = @ + 1, ![q][b] = @ + 1]
  /\ UNCHANGED <<setup, crashed, serverVars, ppc, second, sockets, tableVars>>

(* A wait that times out, or a handshake with a party that is gone.        *)
GiveUp(p, b) ==
  /\ \/ At(p, b, "connect") /\ setup.faults /\ ~Listening(ti[p][b])
     \/ At(p, b, "accept") /\ setup.faults /\ Wanted(p, b) \notin used[p] /\ Found(p, b) = {}
     \/ At(p, b, "handshake") /\ Gone(Peer(p, ti[p][b]))
  /\ Leave(p)
  /\ UNCHANGED <<setup, crashed, serverVars, playerVars, tableVars>>

Player(p, b) ==
  \/ Connect(p, b) \/ Accept(p, b) \/ GiveUp(p, b)
  \/ \E q \in Parties : Handshake(p, q, b)

(* process_connection, in the accept thread or in one of its own.          *)
ProcessConnection(p) ==
  /\ Listening(p)
  /\ \E c \in arriving :
       /\ c.to = p
       /\ arriving' = arriving \ {c}
       /\ clients' = [clients EXCEPT ![p] = {d \in @ : NameOf(d) # NameOf(c)} \cup {c}]
  /\ UNCHANGED <<setup, crashed, serverVars, ppc, playerVars, used>>

(* A party that died in the middle of its name, in the accept thread,      *)
(* which has no handler for closed_connection.                             *)
AcceptFails(p) ==
  /\ Listening(p)
  /\ \E c \in arriving :
       /\ c.to = p /\ Gone(c.from)
       /\ arriving' = arriving \ {c}
  /\ Leave(p)
  /\ UNCHANGED <<setup, crashed, serverVars, playerVars, clients, used>>

(* A party that died before the name was out, in a deferred thread, which  *)
(* has one (wait_for_client_id), or one that is gone before it accepted.   *)
LoseConnection ==
  /\ \E c \in arriving :
       /\ Gone(c.from) \/ Gone(c.to)
       /\ arriving' = arriving \ {c}
  /\ UNCHANGED <<setup, crashed, serverVars, ppc, playerVars, clients, used>>

Crash(p) ==
  /\ setup.faults /\ ~crashed /\ p \in Present /\ ~Gone(p)
  /\ crashed' = TRUE
  /\ Leave(p)
  /\ UNCHANGED <<setup, serverVars, playerVars, tableVars>>

Ready(p) == ppc[p] = "up" /\ \A b \in Players : tpc[p][b] = "ready"
Settled == \A p \in Present : Ready(p) \/ Gone(p)
Done == Settled /\ arriving = {} /\ UNCHANGED vars

Next ==
  \/ Server
  \/ \E p \in Parties : SetupNames(p) \/ ProcessConnection(p) \/ AcceptFails(p) \/ Crash(p)
  \/ \E p \in Parties, b \in AllPlayers : Player(p, b)
  \/ LoseConnection
  \/ Done

Fairness ==
  /\ WF_vars(Server)
  /\ \A p \in Parties : WF_vars(SetupNames(p)) /\ WF_vars(ProcessConnection(p))
  /\ \A p \in Parties, b \in AllPlayers : WF_vars(Player(p, b))

Spec == Init /\ [][Next]_vars /\ Fairness

-----------------------------------------------------------------------------
(* Two players that are connected hold the two ends of one connection, of  *)
(* their own player id and set, whatever the order in which parties start  *)
(* and names are processed (setup_sockets, Player.cpp:331).                *)
MatchedEnds ==
  \A p, q \in Present, b \in Players, r \in 0 .. 1 :
    tpc[p][b] = "ready" /\ tpc[q][b] = "ready" =>
      /\ sockets[p][b][r][q] = sockets[q][b][r][p]
      /\ (r = 0 \/ setup.tls) => {sockets[p][b][r][q]} \subseteq
           {Connection(p, b, r, q), Connection(q, b, r, p)}

(* Starting late, being connected to before having asked for it, or having *)
(* other players connect at the same time makes no process end.            *)
NoExitWithoutFault == setup.faults \/ \A p \in Present : ~Gone(p)

(* Without faults, as long as not all players are connected, the server, a *)
(* main thread, a player or a pair of players that meet in a handshake can *)
(* go on, or a connection can be processed: no party waits in a circle of  *)
(* parties, in the joins and accepts of setup_sockets or in the order of   *)
(* handshakes of CryptoPlayer, for every number of parties.                *)
ServerGoesOn == spc \in {"off", "names", "send"} \/ (spc = "accept" /\ si \in reported)
MainGoesOn(p) ==
  \/ ppc[p] = "start" /\ spc # "off"
  \/ ppc[p] = "reported" /\ p \in named /\ (p = 0 => spc = "closed")
PlayerGoesOn(p, b) ==
  \/ At(p, b, "connect") /\ Listening(ti[p][b])
  \/ At(p, b, "accept") /\ Wanted(p, b) \notin used[p] /\ Found(p, b) # {}
  \/ \E q \in Present : Meeting(p, q, b)
NobodyStuck ==
  \/ setup.faults \/ \A p \in Present : Ready(p)
  \/ ServerGoesOn
  \/ \E p \in Present : MainGoesOn(p) \/ \E b \in Players : PlayerGoesOn(p, b)
  \/ \E c \in arriving : Listening(c.to)

(* Nobody waits forever: without faults all players get connected, and     *)
(* otherwise every party gets connected or ends, whoever dies and when.    *)
EverySetupEnds == <>(Settled /\ (setup.faults \/ \A p \in Present : Ready(p)))
===========================================================================
