-------------------------- MODULE ExternalClients --------------------------
(***************************************************************************)
(* External clients: the parties listen, accept clients in the order their *)
(* names arrive, take one input of each, send it the result and close the  *)
(* connections (Programs/Source/bankers_bonus.mpc, one type_run, with a    *)
(* thread of the program per client).  A client connects to one party      *)
(* after the other (ExternalIO/Client.hpp).                                *)
(*                                                                         *)
(* Every party has a thread that accepts connections, with deferred ones   *)
(* whose name is late, so names are processed in any order.  The table     *)
(* clients of the server and external_client_sockets hold streams; a       *)
(* stream is named by the game its client's process plays, 0 for none.     *)
(* A closed stream ends whoever waits for it; its data arrive before.      *)
(***************************************************************************)
EXTENDS Naturals, Sequences, FiniteSets

CONSTANTS
  NParties,
  NClients,    \* players of a game; the last one sends the finish flag
  MaxGames,    \* bound: games played (n_rounds)
  Eager,       \* may a client's next game begin before the last is closed?
  MayDie       \* may a client's process die?

Parties == 0 .. NParties - 1
Clients == 0 .. NClients - 1
Games == 0 .. MaxGames

ASSUME ClientsAssumption ==
  /\ NParties \in Nat \ {0}
  /\ NClients \in Nat \ {0}
  /\ MaxGames \in Nat \ {0}
  /\ Eager \in BOOLEAN /\ MayDie \in BOOLEAN

VARIABLES
  cpc,         \* control state of the client
  at,          \* at[c]: party its loop over the parties has come to
  game,        \* game[c]: the game its process plays, or last played
  wire,        \* <<p, c, what>>: messages in flight between p and c
  ppc,         \* control state of the party's program
  idx,         \* idx[p]: client its program or its loop has come to
  queue,       \* client_connection_queue
  clients,     \* clients[p][c]: stream in the server's table
  table,       \* table[p][c]: stream in external_client_sockets
  seen,        \* the program's seen, as a set
  number,      \* number_clients
  masked,      \* clients that were sent their mask
  inputs,      \* clients whose input was read
  revealed,    \* revealed[p]: results p has sent its share of to the parties
  games,       \* games[p]: games p has finished
  late         \* history: some party has timed out

clientVars == <<cpc, at, game>>
serverVars == <<queue, clients>>
gameVars == <<seen, number, masked, inputs>>
vars == <<clientVars, wire, ppc, idx, serverVars, table, gameVars, revealed, games, late>>

Init ==
  /\ cpc = [c \in Clients |-> "idle"]
  /\ at = [c \in Clients |-> 0] /\ game = [c \in Clients |-> 0]
  /\ wire = {}
  /\ ppc = [p \in Parties |-> "start"] /\ idx = [p \in Parties |-> 0]
  /\ queue = [p \in Parties |-> <<>>]
  /\ clients = [p \in Parties |-> [c \in Clients |-> 0]]
  /\ table = [p \in Parties |-> [c \in Clients |-> 0]]
  /\ seen = [p \in Parties |-> {}] /\ number = [p \in Parties |-> 0]
  /\ masked = [p \in Parties |-> {}] /\ inputs = [p \in Parties |-> {}]
  /\ revealed = [p \in Parties |-> 0] /\ games = [p \in Parties |-> 0]
  /\ late = FALSE

Gone(p) == ppc[p] \in {"over", "dead"}
Goto(p, state) == ppc' = [ppc EXCEPT ![p] = state]
Send(p, c, what) == wire' = wire \cup {<<p, c, what>>}
Receive(p, c, what) == <<p, c, what>> \in wire /\ wire' = wire \ {<<p, c, what>>}

---------------------------------------------------------------------------
(* The client's process.                                                   *)

(* The end of a turn of a loop over the parties.                           *)
Turn(c, here, next) ==
  IF at[c] + 1 < NParties
  THEN at' = [at EXCEPT ![c] = @ + 1] /\ cpc' = [cpc EXCEPT ![c] = here]
  ELSE at' = [at EXCEPT ![c] = 0] /\ cpc' = [cpc EXCEPT ![c] = next]

(* Somebody starts the client for its next game.                           *)
StartClient(c) ==
  /\ cpc[c] = "idle" /\ game[c] < MaxGames
  /\ Eager \/ \A p \in Parties : games[p] = game[c]
  /\ game' = [game EXCEPT ![c] = @ + 1]
  /\ cpc' = [cpc EXCEPT ![c] = "connect"]
  /\ UNCHANGED <<at, wire, ppc, idx, serverVars, table, gameVars, revealed, games, late>>

(* set_up_client_socket tries again until the party listens; the name goes *)
(* first.                                                                  *)
Connect(c) ==
  /\ cpc[c] = "connect"
  /\ ppc[at[c]] # "start" /\ ~Gone(at[c])
  /\ Send(at[c], c, "name")
  /\ cpc' = [cpc EXCEPT ![c] = "greet"]
  /\ UNCHANGED <<at, game, ppc, idx, serverVars, table, gameVars, revealed, games, late>>

(* The finish flag goes to all parties after the last connection.          *)
SendFlag(c) ==
  /\ cpc[c] = "flag"
  /\ Send(at[c], c, "flag")
  /\ Turn(c, "flag", "mask")
  /\ UNCHANGED <<game, ppc, idx, serverVars, table, gameVars, revealed, games, late>>

(* send_private_inputs: the masks of all parties, then the input to all;   *)
(* receive_outputs.                                                        *)
GetMask(c) ==
  /\ cpc[c] = "mask"
  /\ Receive(at[c], c, "mask")
  /\ Turn(c, "mask", "input")
  /\ UNCHANGED <<game, ppc, idx, serverVars, table, gameVars, revealed, games, late>>

SendInput(c) ==
  /\ cpc[c] = "input"
  /\ Send(at[c], c, "input")
  /\ Turn(c, "input", "result")
  /\ UNCHANGED <<game, ppc, idx, serverVars, table, gameVars, revealed, games, late>>

(* With the last result the process ends.                                  *)
GetResult(c) ==
  /\ cpc[c] = "result"
  /\ Receive(at[c], c, "result")
  /\ Turn(c, "result", "idle")
  /\ UNCHANGED <<game, ppc, idx, serverVars, table, gameVars, revealed, games, late>>

(* The party it has to do with is gone: it cannot connect, or a send or a  *)
(* receive fails.                                                          *)
ClientLost(c) ==
  /\ Gone(at[c])
  /\ \/ cpc[c] \in {"connect", "greet", "flag", "input"}
     \/ cpc[c] \in {"mask", "result"} /\ <<at[c], c, cpc[c]>> \notin wire
  /\ cpc' = [cpc EXCEPT ![c] = "dead"]
  /\ UNCHANGED <<at, game, wire, ppc, idx, serverVars, table, gameVars, revealed, games,
                 late>>

ClientDies(c) ==
  /\ MayDie
  /\ cpc[c] \notin {"idle", "dead"}
  /\ cpc' = [cpc EXCEPT ![c] = "dead"]
  /\ UNCHANGED <<at, game, wire, ppc, idx, serverVars, table, gameVars, revealed, games,
                 late>>

(* It dies between the length and the text of its name: the accept thread  *)
(* has no handler for closed_connection (a deferred thread has one).       *)
DiesInName(c) ==
  /\ MayDie
  /\ cpc[c] = "connect"
  /\ ppc[at[c]] # "start" /\ ~Gone(at[c])
  /\ cpc' = [cpc EXCEPT ![c] = "dead"]
  /\ Goto(at[c], "dead")
  /\ UNCHANGED <<at, game, wire, idx, serverVars, table, gameVars, revealed, games, late>>

---------------------------------------------------------------------------
(* The party's accept thread.                                              *)

(* process_connection: a name that is in the table ends the process.       *)
ProcessConnection(p, c) ==
  /\ ~Gone(p)
  /\ Receive(p, c, "name")
  /\ IF clients[p][c] # 0
     THEN Goto(p, "dead") /\ UNCHANGED serverVars
     ELSE /\ clients' = [clients EXCEPT ![p][c] = game[c]]
          /\ queue' = [queue EXCEPT ![p] = Append(@, c)]
          /\ ppc' = ppc
  /\ UNCHANGED <<clientVars, idx, table, gameVars, revealed, games, late>>

---------------------------------------------------------------------------
(* The party's program.                                                    *)

StartListening(p) ==
  /\ ppc[p] = "start"
  /\ Goto(p, "accept")
  /\ UNCHANGED <<clientVars, wire, idx, serverVars, table, gameVars, revealed, games, late>>

(* get_client_connection: the client that waits longest ...                *)
GetConnection(p) ==
  /\ ppc[p] = "accept" /\ queue[p] # <<>>
  /\ idx' = [idx EXCEPT ![p] = Head(queue[p])]
  /\ queue' = [queue EXCEPT ![p] = Tail(@)]
  /\ Goto(p, "greet")
  /\ UNCHANGED <<clientVars, wire, clients, table, gameVars, revealed, games, late>>

(* ... or none within CONNECTION_TIMEOUT.                                  *)
TimeOut(p) ==
  /\ ppc[p] = "accept" /\ queue[p] = <<>>
  /\ Goto(p, "dead")
  /\ late' = TRUE
  /\ UNCHANGED <<clientVars, wire, idx, serverVars, table, gameVars, revealed, games>>

(* The handshake, in which both take part, and the specification.          *)
Greet(p) ==
  LET c == idx[p] IN
  /\ ppc[p] = "greet"
  /\ cpc[c] = "greet" /\ at[c] = p /\ game[c] = clients[p][c]
  /\ table' = [table EXCEPT ![p][c] = clients[p][c]]
  /\ Goto(p, "flag")
  /\ Turn(c, "connect", "flag")
  /\ UNCHANGED <<game, wire, idx, serverVars, gameVars, revealed, games, late>>

(* Mutant: the loop ends although the number of clients is not known.      *)
ReadFlagTooFew(p) ==
  LET c == idx[p] IN
  /\ ppc[p] = "flag"
  /\ Receive(p, c, "flag")
  /\ seen' = [seen EXCEPT ![p] = @ \cup {c}]
  /\ number' = [number EXCEPT ![p] = IF c = NClients - 1 THEN c + 1 ELSE @]
  /\ Goto(p, IF Cardinality(seen'[p]) < number'[p] THEN "accept" ELSE "serve")
  /\ UNCHANGED <<clientVars, idx, serverVars, table, masked, inputs, revealed, games, late>>

(* accept_client has read the finish flag: the number of clients is known  *)
(* with the last one; the loop ends when as many were seen.                *)
ReadFlag(p) ==
  LET c == idx[p]
      size == IF c = NClients - 1 THEN c + 1 ELSE number[p]
      more == size = 0 \/ Cardinality(seen[p] \cup {c}) < size
  IN
  /\ ppc[p] = "flag"
  /\ Receive(p, c, "flag")
  /\ seen' = [seen EXCEPT ![p] = @ \cup {c}]
  /\ number' = [number EXCEPT ![p] = size]
  /\ Goto(p, IF more THEN "accept" ELSE "serve")
  /\ UNCHANGED <<clientVars, idx, serverVars, table, masked, inputs, revealed, games, late>>

(* Mutant: one thread, and every party begins with another client.         *)
SendMaskOwnOrder(p, c) ==
  /\ ppc[p] = "serve" /\ c < number[p]
  /\ c \notin masked[p] /\ masked[p] = inputs[p]
  /\ c = p % number[p] \/ p % number[p] \in masked[p]
  /\ Send(p, c, "mask")
  /\ masked' = [masked EXCEPT ![p] = @ \cup {c}]
  /\ UNCHANGED <<clientVars, ppc, idx, serverVars, table, seen, number, inputs, revealed,
                 games, late>>

(* receive_from_client, in a thread per client.                            *)
SendMask(p, c) ==
  /\ ppc[p] = "serve" /\ c < number[p]
  /\ c \notin masked[p]
  /\ Send(p, c, "mask")
  /\ masked' = [masked EXCEPT ![p] = @ \cup {c}]
  /\ UNCHANGED <<clientVars, ppc, idx, serverVars, table, seen, number, inputs, revealed,
                 games, late>>

ReadInput(p, c) ==
  /\ ppc[p] = "serve" /\ c \in masked[p]
  /\ Receive(p, c, "input")
  /\ inputs' = [inputs EXCEPT ![p] = @ \cup {c}]
  /\ UNCHANGED <<clientVars, ppc, idx, serverVars, table, seen, number, masked, revealed,
                 games, late>>

(* The parties compute the result together: every one sends its share ...  *)
Reveal(p) ==
  /\ ppc[p] = "serve" /\ inputs[p] = 0 .. number[p] - 1
  /\ revealed' = [revealed EXCEPT ![p] = @ + 1]
  /\ Goto(p, "open")
  /\ UNCHANGED <<clientVars, wire, idx, serverVars, table, gameVars, games, late>>

(* ... and waits for the others'.                                          *)
Open(p) ==
  /\ ppc[p] = "open"
  /\ \A q \in Parties : revealed[q] >= revealed[p]
  /\ idx' = [idx EXCEPT ![p] = 0]
  /\ Goto(p, "give")
  /\ UNCHANGED <<clientVars, wire, serverVars, table, gameVars, revealed, games, late>>

(* reveal_to_clients, one after the other.                                 *)
GiveResult(p) ==
  LET c == idx[p]
      last == c + 1 = number[p]
  IN
  /\ ppc[p] = "give"
  /\ Send(p, c, "result")
  /\ idx' = [idx EXCEPT ![p] = IF last THEN 0 ELSE c + 1]
  /\ Goto(p, IF last THEN "close" ELSE "give")
  /\ UNCHANGED <<clientVars, serverVars, table, gameVars, revealed, games, late>>

(* Mutant: close_connection leaves the client in the server's table.       *)
CloseKept(p) ==
  LET c == idx[p]
      last == c + 1 = number[p]
  IN
  /\ ppc[p] = "close"
  /\ table' = [table EXCEPT ![p][c] = 0]
  /\ idx' = [idx EXCEPT ![p] = IF last THEN 0 ELSE c + 1]
  /\ games' = [games EXCEPT ![p] = IF last THEN @ + 1 ELSE @]
  /\ Goto(p, IF ~last THEN "close" ELSE IF games'[p] = MaxGames THEN "over" ELSE "accept")
  /\ seen' = [seen EXCEPT ![p] = IF last THEN {} ELSE @]
  /\ number' = [number EXCEPT ![p] = IF last THEN 0 ELSE @]
  /\ masked' = [masked EXCEPT ![p] = IF last THEN {} ELSE @]
  /\ inputs' = [inputs EXCEPT ![p] = IF last THEN {} ELSE @]
  /\ UNCHANGED <<clientVars, wire, queue, clients, revealed, late>>

(* close_connection of every client; then the next game, with new arrays.  *)
Close(p) ==
  LET c == idx[p]
      last == c + 1 = number[p]
  IN
  /\ ppc[p] = "close"
  /\ table' = [table EXCEPT ![p][c] = 0]
  /\ clients' = [clients EXCEPT ![p][c] = 0]
  /\ idx' = [idx EXCEPT ![p] = IF last THEN 0 ELSE c + 1]
  /\ games' = [games EXCEPT ![p] = IF last THEN @ + 1 ELSE @]
  /\ Goto(p, IF ~last THEN "close" ELSE IF games'[p] = MaxGames THEN "over" ELSE "accept")
  /\ seen' = [seen EXCEPT ![p] = IF last THEN {} ELSE @]
  /\ number' = [number EXCEPT ![p] = IF last THEN 0 ELSE @]
  /\ masked' = [masked EXCEPT ![p] = IF last THEN {} ELSE @]
  /\ inputs' = [inputs EXCEPT ![p] = IF last THEN {} ELSE @]
  /\ UNCHANGED <<clientVars, wire, queue, revealed, late>>

(* A client it waits for or writes to has died, or another party is gone   *)
(* before it sent its share: the exception ends the process.               *)
Lost(p) ==
  LET dead == {c \in Clients : cpc[c] = "dead"}
      silent == {c \in dead : <<p, c, "flag">> \notin wire /\ <<p, c, "input">> \notin wire}
  IN
  \/ ppc[p] \in {"greet", "give"} /\ idx[p] \in dead
  \/ ppc[p] = "flag" /\ idx[p] \in silent
  \/ ppc[p] = "serve" /\ \E c \in silent : c \notin inputs[p]
  \/ ppc[p] = "open" /\ \E q \in Parties : Gone(q) /\ revealed[q] < revealed[p]

PartyLost(p) ==
  /\ Lost(p)
  /\ Goto(p, "dead")
  /\ UNCHANGED <<clientVars, wire, idx, serverVars, table, gameVars, revealed, games, late>>

---------------------------------------------------------------------------
Client(c) ==
  \/ StartClient(c) \/ Connect(c) \/ SendFlag(c) \/ GetMask(c) \/ SendInput(c)
  \/ GetResult(c) \/ ClientLost(c)

Accept(p) == \E c \in Clients : ProcessConnection(p, c)

Program(p) ==
  \/ StartListening(p) \/ GetConnection(p) \/ TimeOut(p) \/ Greet(p) \/ ReadFlag(p)
  \/ \E c \in Clients : SendMask(p, c) \/ ReadInput(p, c)
  \/ Reveal(p) \/ Open(p) \/ GiveResult(p) \/ Close(p) \/ PartyLost(p)

AllEnded ==
  /\ \A p \in Parties : Gone(p)
  /\ \A c \in Clients : cpc[c] \in {"idle", "dead"}
Finish == AllEnded /\ UNCHANGED vars

Next ==
  \/ \E c \in Clients : Client(c) \/ ClientDies(c) \/ DiesInName(c)
  \/ \E p \in Parties : Accept(p) \/ Program(p)
  \/ Finish

(* Processes and their threads are scheduled, a wait of 60 seconds ends,   *)
(* and somebody starts the clients.                                        *)
Fairness ==
  /\ \A c \in Clients : WF_vars(Client(c))
  /\ \A p \in Parties : WF_vars(Accept(p)) /\ WF_vars(Program(p))

Spec == Init /\ [][Next]_vars
FairSpec == Spec /\ Fairness

---------------------------------------------------------------------------
(* When the loop over accept_client has ended, all players of this game    *)
(* are in the table, in whatever order they came: the program uses the     *)
(* ids 0 .. number_clients - 1 as handles.                                 *)
EveryoneAtTable ==
  \A p \in Parties : ppc[p] \in {"serve", "open", "give"} =>
    \A c \in Clients : table[p][c] = games[p] + 1

(* No party's process is ended by an error unless a client died or was     *)
(* late (exit_error in process_client, exceptions of the sockets): "Each   *)
(* round / game will reset and so this runs" on (bankers_bonus.mpc:13).    *)
NoExitWithoutFault ==
  (\E p \in Parties : ppc[p] = "dead") => late \/ \E c \in Clients : cpc[c] = "dead"

(* Nobody waits for ever: neither the parties for clients that wait for    *)
(* another party, nor after a death.                                       *)
EveryoneEnds == <>AllEnded
=============================================================================
