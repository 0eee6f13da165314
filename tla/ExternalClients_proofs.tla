---------------------- MODULE ExternalClients_proofs ----------------------
(* Proofs for any number of parties, clients and games, with clients that  *)
(* may die or start early: a party serves only when all clients of this    *)
(* game are in its table; and, if every game begins after the last one was *)
(* closed, no party's process ends unless a client is late or dead.        *)
EXTENDS ExternalClients, FiniteSetTheorems, SequenceTheorems, TLAPS

ClientState == {"idle", "connect", "greet", "flag", "mask", "input", "result", "dead"}
PartyState ==
  {"start", "accept", "greet", "flag", "serve", "open", "give", "close", "over", "dead"}

TypeInv ==
  /\ cpc \in [Clients -> ClientState]
  /\ at \in [Clients -> Parties]
  /\ game \in [Clients -> Nat]
  /\ ppc \in [Parties -> PartyState]
  /\ idx \in [Parties -> Nat]
  /\ queue \in [Parties -> Seq(Clients)]
  /\ clients \in [Parties -> [Clients -> Nat]]
  /\ table \in [Parties -> [Clients -> Nat]]
  /\ seen \in [Parties -> SUBSET Clients]
  /\ number \in [Parties -> {0, NClients}]
  /\ games \in [Parties -> Nat]

(***************************************************************************)
(* What a party and a client know of each other.  Greeted: the client is   *)
(* in the party's current game; Met: the party is behind it in the loop of *)
(* its constructor.  The game of a living client is told by both.          *)
(***************************************************************************)
Greeted(p, c) == table[p][c] # 0 \/ ppc[p] = "close"
Met(c, p) ==
  \/ cpc[c] \in {"idle", "flag", "mask", "input", "result"}
  \/ cpc[c] \in {"connect", "greet"} /\ p < at[c]
Named(p, c) == <<p, c, "name">> \in wire

Count(p, c) ==
  cpc[c] # "dead" =>
    /\ Greeted(p, c) /\ Met(c, p) => game[c] = games[p] + 1
    /\ Greeted(p, c) /\ ~Met(c, p) => game[c] = games[p] + 2
    /\ ~Greeted(p, c) /\ Met(c, p) => game[c] = games[p]
    /\ ~Greeted(p, c) /\ ~Met(c, p) => game[c] = games[p] + 1

(* A name under way is that of the game after the last greeting.           *)
Coming(p, c) ==
  Named(p, c) => /\ Greeted(p, c) => game[c] = games[p] + 2
                 /\ ~Greeted(p, c) => game[c] = games[p] + 1

(* Only a party that is closing can have a stream of the next game.        *)
Entry(p, c) ==
  clients[p][c] # 0 => \/ clients[p][c] = games[p] + 1
                       \/ /\ ppc[p] = "close" /\ c < idx[p]
                          /\ clients[p][c] = games[p] + 2

Seat(p, c) ==
  table[p][c] # 0 => table[p][c] = games[p] + 1 /\ clients[p][c] = games[p] + 1

Closing(p, c) ==
  ppc[p] = "close" =>
    /\ c < idx[p] => table[p][c] = 0 /\ clients[p][c] # games[p] + 1
    /\ ~(c < idx[p]) => clients[p][c] = games[p] + 1

Seated(p, c) ==
  ppc[p] \in {"serve", "open", "give"} \/ (c \in seen[p] /\ ppc[p] # "close") => table[p][c] # 0

Pair(p, c) ==
  Count(p, c) /\ Coming(p, c) /\ Entry(p, c) /\ Seat(p, c) /\ Closing(p, c) /\ Seated(p, c)

(* The client a party's program has come to, and its number of clients.    *)
Place(p) ==
  /\ ppc[p] \in {"greet", "flag", "give", "close"} => idx[p] \in Clients
  /\ ppc[p] = "flag" => table[p][idx[p]] # 0
  /\ ppc[p] \in {"serve", "open", "give", "close"} => number[p] = NClients

(* A name is sent once per game and entered once, dead party or not.       *)
Names(p, c) ==
  /\ clients[p][c] <= game[c]
  /\ Named(p, c) => /\ clients[p][c] # game[c]
                    /\ cpc[c] = "dead" \/ (cpc[c] = "greet" /\ at[c] = p)
  /\ clients[p][c] = game[c] => /\ ~(cpc[c] = "connect" /\ at[c] <= p)
                                /\ ~(cpc[c] = "greet" /\ at[c] < p)

TableInv ==
  /\ TypeInv
  /\ \A c \in Clients : cpc[c] = "idle" => at[c] = 0
  /\ \A p \in Parties, c \in Clients : Names(p, c)
  /\ \A p \in Parties : ~Gone(p) => Place(p) /\ \A c \in Clients : Pair(p, c)

---------------------------------------------------------------------------
LEMMA SizeFacts ==
  /\ NParties \in Nat /\ NClients \in Nat /\ MaxGames \in Nat /\ 0 \in Parties
  /\ \A p \in Parties : p \in Nat /\ p < NParties
  /\ \A p \in Nat : p < NParties => p \in Parties
  /\ \A c \in Clients : c \in Nat /\ c < NClients
  /\ \A c \in Nat : c < NClients => c \in Clients
  BY ClientsAssumption DEF Parties, Clients

LEMMA TableInit == Init => TableInv
  <1> SUFFICES ASSUME Init PROVE TableInv
    OBVIOUS
  <1>1. TypeInv
    BY SizeFacts, EmptySeq DEF Init, TypeInv, ClientState, PartyState
  <1>2. ASSUME NEW p \in Parties, NEW c \in Clients
        PROVE  Names(p, c)
    BY <1>2 DEF Init, Names, Named
  <1>3. ASSUME NEW p \in Parties PROVE Place(p)
    BY <1>3 DEF Init, Place
  <1>4. ASSUME NEW p \in Parties, NEW c \in Clients
        PROVE  Pair(p, c)
    BY <1>4 DEF Init, Pair, Count, Coming, Entry, Seat, Closing, Seated, Greeted, Met, Named
  <1>5. \A c \in Clients : at[c] = 0
    BY DEF Init
  <1> QED
    BY <1>1, <1>2, <1>3, <1>4, <1>5 DEF TableInv

(***************************************************************************)
(* Steps of clients.  They leave the parties alone; what may change is the *)
(* state of the client and the names under way.                            *)
(***************************************************************************)
partyVars == <<ppc, idx, queue, clients, table, seen, number, games>>

(* It suffices to look at the client that moves.                           *)
LEMMA ClientMoves ==
  ASSUME TableInv, TypeInv', UNCHANGED partyVars, NEW c \in Clients,
         \A e \in Clients : e # c => cpc'[e] = cpc[e] /\ at'[e] = at[e] /\ game'[e] = game[e],
         \A p \in Parties, e \in Clients : e # c /\ Named(p, e)' => Named(p, e),
         cpc'[c] = "idle" => at'[c] = 0,
         \A p \in Parties : Names(p, c)',
         \A p \in Parties : ~Gone(p) => Count(p, c)' /\ Coming(p, c)'
  PROVE  TableInv'
  <1> USE DEF TableInv, partyVars
  <1>1. ASSUME NEW p \in Parties, NEW e \in Clients PROVE Names(p, e)'
    BY DEF Names
  <1>2. ASSUME NEW p \in Parties, ~Gone(p)'
        PROVE  Place(p)' /\ \A e \in Clients : Pair(p, e)'
    <2>1. ~Gone(p)
      BY <1>2 DEF Gone
    <2>2. Place(p)'
      BY <2>1 DEF Place
    <2>3. ASSUME NEW e \in Clients
          PROVE  Entry(p, e)' /\ Seat(p, e)' /\ Closing(p, e)' /\ Seated(p, e)'
      BY <2>1 DEF Pair, Entry, Seat, Closing, Seated
    <2>4. ASSUME NEW e \in Clients PROVE Count(p, e)' /\ Coming(p, e)'
      BY <2>1 DEF Pair, Count, Coming, Greeted, Met
    <2> QED
      BY <2>2, <2>3, <2>4 DEF Pair
  <1>3. \A e \in Clients : cpc'[e] = "idle" => at'[e] = 0
    OBVIOUS
  <1> QED
    BY <1>1, <1>2, <1>3

(* A turn of a loop over the parties.                                      *)
LEMMA TurnEffect ==
  ASSUME TypeInv, NEW c \in Clients, NEW here \in ClientState, NEW next \in ClientState,
         Turn(c, here, next)
  PROVE  /\ at' \in [Clients -> Parties] /\ cpc' \in [Clients -> ClientState]
         /\ \A e \in Clients : e # c => cpc'[e] = cpc[e] /\ at'[e] = at[e]
         /\ \/ cpc'[c] = here /\ at'[c] = at[c] + 1
            \/ cpc'[c] = next /\ at'[c] = 0 /\ at[c] + 1 >= NParties
  <1>1. at[c] \in Parties /\ at[c] \in Nat
    BY SizeFacts DEF TypeInv
  <1>2. CASE at[c] + 1 < NParties
    <2>1. at[c] + 1 \in Parties
      BY <1>1, <1>2, SizeFacts
    <2>2. at' = [at EXCEPT ![c] = at[c] + 1] /\ cpc' = [cpc EXCEPT ![c] = here]
      BY <1>2 DEF Turn
    <2> QED
      BY <2>1, <2>2 DEF TypeInv
  <1>3. CASE ~(at[c] + 1 < NParties)
    <2>1. at' = [at EXCEPT ![c] = 0] /\ cpc' = [cpc EXCEPT ![c] = next]
      BY <1>3 DEF Turn
    <2>2. at[c] + 1 >= NParties
      BY <1>1, <1>3, SizeFacts
    <2>3. 0 \in Parties
      BY SizeFacts
    <2> QED
      BY <2>1, <2>2, <2>3 DEF TypeInv
  <1> QED
    BY <1>2, <1>3

(* A client past its connections has met everybody, and has no name under  *)
(* way.                                                                    *)
LEMMA TurnStep ==
  ASSUME TableInv, NEW c \in Clients,
         SendFlag(c) \/ GetMask(c) \/ SendInput(c) \/ GetResult(c)
  PROVE  TableInv'
  <1> USE DEF TableInv
  <1> DEFINE Past == {"flag", "mask", "input", "result", "idle"}
  <1>1. PICK here \in Past \ {"idle"}, next \in Past : Turn(c, here, next)
    BY DEF SendFlag, GetMask, SendInput, GetResult
  <1>2. cpc[c] \in Past \ {"idle"} /\ UNCHANGED <<game, partyVars>>
    BY DEF SendFlag, GetMask, SendInput, GetResult, partyVars, serverVars, gameVars
  <1>3. ASSUME NEW p \in Parties, NEW e \in Clients, Named(p, e)' PROVE Named(p, e)
    BY <1>3 DEF SendFlag, GetMask, SendInput, GetResult, Named, Send, Receive
  <1>4. /\ at' \in [Clients -> Parties] /\ cpc' \in [Clients -> ClientState]
        /\ \A e \in Clients : e # c => cpc'[e] = cpc[e] /\ at'[e] = at[e]
        /\ cpc'[c] \in Past
        /\ cpc'[c] = "idle" => at'[c] = 0
    BY <1>1, TurnEffect DEF ClientState
  <1>5. TypeInv'
    BY <1>2, <1>4 DEF TypeInv, partyVars
  <1>6. ASSUME NEW p \in Parties PROVE Names(p, c)'
    <2>1. ~Named(p, c)'
      BY <1>2, <1>3 DEF Names
    <2> QED
      BY <1>2, <1>4, <2>1 DEF Names, partyVars
  <1>7. ASSUME NEW p \in Parties, ~Gone(p) PROVE Count(p, c)' /\ Coming(p, c)'
    <2>1. ~Named(p, c)'
      BY <1>2, <1>3 DEF Names
    <2>2. Met(c, p) /\ Met(c, p)' /\ cpc[c] # "dead"
      BY <1>2, <1>4 DEF Met
    <2>3. Count(p, c)
      BY <1>7 DEF Pair
    <2> QED
      BY <1>2, <2>1, <2>2, <2>3 DEF Count, Coming, Greeted, partyVars
  <1> QED
    BY <1>2, <1>3, <1>4, <1>5, <1>6, <1>7, ClientMoves

(* A client that dies takes nothing back.                                  *)
LEMMA DeathStep ==
  ASSUME TableInv, NEW c \in Clients, ClientLost(c) \/ ClientDies(c)
  PROVE  TableInv'
  <1> USE DEF TableInv
  <1>1. cpc' = [cpc EXCEPT ![c] = "dead"] /\ UNCHANGED <<at, game, wire, partyVars>>
    BY DEF ClientLost, ClientDies, partyVars, serverVars, gameVars
  <1>2. TypeInv'
    BY <1>1 DEF TypeInv, ClientState, partyVars
  <1>3. cpc'[c] = "dead" /\ \A e \in Clients : e # c => cpc'[e] = cpc[e]
    BY <1>1 DEF TypeInv
  <1>4. ASSUME NEW p \in Parties PROVE Names(p, c)'
    BY <1>1, <1>3 DEF Names, Named, partyVars
  <1>5. ASSUME NEW p \in Parties, ~Gone(p) PROVE Count(p, c)' /\ Coming(p, c)'
    BY <1>1, <1>3, <1>5 DEF Pair, Count, Coming, Greeted, Named, partyVars
  <1> QED
    BY <1>1, <1>2, <1>3, <1>4, <1>5, ClientMoves DEF Named

(* The next game begins before any party has greeted the client for it.    *)
LEMMA StartStep ==
  ASSUME TableInv, NEW c \in Clients, StartClient(c)
  PROVE  TableInv'
  <1> USE DEF TableInv
  <1>1. /\ cpc[c] = "idle" /\ cpc' = [cpc EXCEPT ![c] = "connect"]
        /\ game' = [game EXCEPT ![c] = @ + 1] /\ UNCHANGED <<at, wire, partyVars>>
    BY DEF StartClient, partyVars, serverVars, gameVars
  <1>2. /\ cpc'[c] = "connect" /\ at'[c] = 0 /\ game'[c] = game[c] + 1 /\ game[c] \in Nat
        /\ \A e \in Clients : e # c => cpc'[e] = cpc[e] /\ game'[e] = game[e]
    BY <1>1 DEF TypeInv
  <1>3. TypeInv'
    <2>1. game' \in [Clients -> Nat] /\ cpc' \in [Clients -> ClientState]
      BY <1>1 DEF TypeInv, ClientState
    <2> QED
      BY <1>1, <2>1 DEF TypeInv, partyVars
  <1>4. ASSUME NEW p \in Parties
        PROVE  ~Named(p, c) /\ ~Named(p, c)' /\ clients[p][c] <= game[c] /\ clients[p][c] \in Nat
               /\ Met(c, p) /\ ~Met(c, p)'
    <2>1. p \in Nat /\ ~(p < 0)
      BY SizeFacts
    <2>2. ~Named(p, c) /\ clients[p][c] <= game[c]
      BY <1>1 DEF Names
    <2>3. ~Named(p, c)'
      BY <1>1, <2>2 DEF Named
    <2>4. Met(c, p) /\ ~Met(c, p)'
      BY <1>1, <1>2, <2>1 DEF Met
    <2> QED
      BY <2>2, <2>3, <2>4 DEF TypeInv
  <1>5. ASSUME NEW p \in Parties PROVE Names(p, c)'
    BY <1>1, <1>2, <1>4 DEF Names, partyVars
  <1>6. ASSUME NEW p \in Parties, ~Gone(p) PROVE Count(p, c)' /\ Coming(p, c)'
    <2>1. Count(p, c) /\ games[p] \in Nat
      BY <1>6 DEF Pair, TypeInv
    <2> QED
      BY <1>1, <1>2, <1>4, <2>1 DEF Count, Coming, Greeted, partyVars
  <1> QED
    BY <1>1, <1>2, <1>3, <1>5, <1>6, ClientMoves DEF Named

(* The name goes to a party that has not greeted the client for this game. *)
LEMMA ConnectStep ==
  ASSUME TableInv, NEW c \in Clients, Connect(c)
  PROVE  TableInv'
  <1> USE DEF TableInv
  <1>1. /\ cpc[c] = "connect" /\ cpc' = [cpc EXCEPT ![c] = "greet"]
        /\ UNCHANGED <<at, game, partyVars>> /\ wire' = wire \cup {<<at[c], c, "name">>}
    BY DEF Connect, Send, partyVars, serverVars, gameVars
  <1>2. cpc'[c] = "greet" /\ \A e \in Clients : e # c => cpc'[e] = cpc[e]
    BY <1>1 DEF TypeInv
  <1>3. TypeInv'
    BY <1>1 DEF TypeInv, ClientState, partyVars
  <1>4. \A p \in Parties, e \in Clients : Named(p, e)' <=> Named(p, e) \/ (e = c /\ p = at[c])
    BY <1>1 DEF Named
  <1>5. ASSUME NEW p \in Parties
        PROVE  /\ ~Named(p, c) /\ (Met(c, p)' <=> Met(c, p)) /\ (p = at[c] => ~Met(c, p))
               /\ p \in Nat /\ at[c] \in Nat /\ clients[p][c] \in Nat /\ game[c] \in Nat
               /\ clients[p][c] = game[c] => ~(at[c] <= p)
    <2>1. p \in Nat /\ at[c] \in Nat /\ clients[p][c] \in Nat /\ game[c] \in Nat
      BY SizeFacts DEF TypeInv
    <2>2. ~Named(p, c) /\ (clients[p][c] = game[c] => ~(at[c] <= p))
      BY <1>1 DEF Names
    <2>3. (Met(c, p)' <=> Met(c, p)) /\ (p = at[c] => ~Met(c, p))
      BY <1>1, <1>2, <2>1 DEF Met
    <2> QED
      BY <2>1, <2>2, <2>3
  <1>6. ASSUME NEW p \in Parties PROVE Names(p, c)'
    <2>1. clients[p][c] <= game[c]
      BY DEF Names
    <2>2. Named(p, c)' => p = at[c] /\ clients[p][c] # game[c]
      BY <1>4, <1>5
    <2> QED
      BY <1>1, <1>2, <1>5, <2>1, <2>2 DEF Names, partyVars
  <1>7. ASSUME NEW p \in Parties, ~Gone(p) PROVE Count(p, c)' /\ Coming(p, c)'
    <2>1. Count(p, c)
      BY <1>7 DEF Pair
    <2>2. Named(p, c)' => ~Met(c, p)
      BY <1>4, <1>5
    <2> QED
      BY <1>1, <1>2, <1>5, <2>1, <2>2 DEF Count, Coming, Greeted, partyVars
  <1> QED
    BY <1>1, <1>2, <1>3, <1>4, <1>6, <1>7, ClientMoves

(***************************************************************************)
(* Steps of a party.  The clients' processes stand still but for the       *)
(* client that is greeted.                                                 *)
(***************************************************************************)
(* It suffices to look at the party that moves, as long as it lives.       *)
LEMMA PartyMoves ==
  ASSUME TableInv, TypeInv', NEW p \in Parties, UNCHANGED <<cpc, at, game>>,
         \A q \in Parties : q # p =>
           /\ ppc'[q] = ppc[q] /\ idx'[q] = idx[q] /\ clients'[q] = clients[q]
           /\ table'[q] = table[q] /\ seen'[q] = seen[q] /\ number'[q] = number[q]
           /\ games'[q] = games[q],
         \A q \in Parties, c \in Clients : Named(q, c)' => Named(q, c),
         \A c \in Clients : Names(p, c)',
         ~Gone(p)' => Place(p)' /\ \A c \in Clients : Pair(p, c)'
  PROVE  TableInv'
  <1> USE DEF TableInv
  <1>1. ASSUME NEW q \in Parties, NEW c \in Clients, q # p PROVE Names(q, c)'
    BY <1>1 DEF Names
  <1>2. ASSUME NEW q \in Parties, q # p, ~Gone(q)'
        PROVE  Place(q)' /\ \A c \in Clients : Pair(q, c)'
    <2>1. ~Gone(q)
      BY <1>2 DEF Gone
    <2>2. Place(q)'
      BY <1>2, <2>1 DEF Place
    <2>3. ASSUME NEW c \in Clients
          PROVE  Entry(q, c)' /\ Seat(q, c)' /\ Closing(q, c)' /\ Seated(q, c)'
      BY <1>2, <2>1 DEF Pair, Entry, Seat, Closing, Seated
    <2>4. ASSUME NEW c \in Clients PROVE Count(q, c)' /\ Coming(q, c)'
      BY <1>2, <2>1 DEF Pair, Count, Coming, Greeted, Met
    <2> QED
      BY <2>2, <2>3, <2>4 DEF Pair
  <1> QED
    BY <1>1, <1>2

(* Steps that leave the tables, the games and the clients' names alone.    *)
LEMMA ProgramMoves ==
  ASSUME TableInv, NEW p \in Parties, UNCHANGED <<cpc, at, game, clients, table, games>>,
         NEW state \in PartyState, ppc' = [ppc EXCEPT ![p] = state],
         \/ state = "dead"
         \/ /\ ppc[p] \notin {"close", "over", "dead"}
            /\ state = "close" => ppc[p] = "give" /\ idx'[p] = 0,
         idx' \in [Parties -> Nat], queue' \in [Parties -> Seq(Clients)],
         seen' \in [Parties -> SUBSET Clients], number' \in [Parties -> {0, NClients}],
         \A q \in Parties : q # p =>
           idx'[q] = idx[q] /\ seen'[q] = seen[q] /\ number'[q] = number[q],
         \A q \in Parties, c \in Clients : Named(q, c)' => Named(q, c),
         state \notin {"over", "dead"} => Place(p)' /\ \A c \in Clients : Seated(p, c)'
  PROVE  TableInv'
  <1> USE DEF TableInv
  <1>1. ppc' \in [Parties -> PartyState] /\ ppc'[p] = state /\ \A q \in Parties : q # p => ppc'[q] = ppc[q]
    BY DEF TypeInv
  <1>2. TypeInv'
    BY <1>1 DEF TypeInv
  <1>3. ASSUME NEW c \in Clients PROVE Names(p, c)'
    BY DEF Names
  <1>4. ASSUME NEW c \in Clients, ~Gone(p)'
        PROVE  Pair(p, c)'
    <2>0. /\ state \notin {"over", "dead"} /\ ppc[p] \notin {"close", "over", "dead"}
          /\ state = "close" => ppc[p] = "give" /\ idx'[p] = 0
      BY <1>1, <1>4 DEF Gone
    <2>1. Pair(p, c) /\ ~Gone(p)
      BY <2>0 DEF Gone
    <2>2. Seated(p, c)'
      BY <2>0
    <2>3. Entry(p, c)' /\ Seat(p, c)'
      BY <1>1, <2>0, <2>1 DEF Pair, Entry, Seat
    <2>4. CASE state # "close"
      <3>1. (Greeted(p, c)' <=> Greeted(p, c)) /\ (Met(c, p)' <=> Met(c, p)) /\ (Named(p, c)' => Named(p, c))
        BY <1>1, <2>0, <2>4 DEF Greeted, Met
      <3>2. Count(p, c)' /\ Coming(p, c)'
        BY <2>1, <3>1 DEF Pair, Count, Coming
      <3>3. Closing(p, c)'
        BY <1>1, <2>4 DEF Closing
      <3> QED
        BY <2>2, <2>3, <3>2, <3>3 DEF Pair
    <2>5. CASE state = "close"
      <3>1. table[p][c] # 0 /\ ppc[p] = "give" /\ idx'[p] = 0
        BY <2>0, <2>1, <2>5 DEF Pair, Seated
      <3>2. Greeted(p, c)' /\ Greeted(p, c) /\ (Met(c, p)' <=> Met(c, p)) /\ (Named(p, c)' => Named(p, c))
        BY <1>1, <2>5, <3>1 DEF Greeted, Met
      <3>3. Count(p, c)' /\ Coming(p, c)'
        BY <2>1, <3>2 DEF Pair, Count, Coming
      <3>4. Closing(p, c)'
        BY <2>1, <3>1, SizeFacts DEF Pair, Seat, Closing
      <3> QED
        BY <2>2, <2>3, <3>3, <3>4 DEF Pair
    <2> QED
      BY <2>4, <2>5
  <1>5. ~Gone(p)' => Place(p)'
    BY <1>1 DEF Gone
  <1> QED
    BY <1>1, <1>2, <1>3, <1>4, <1>5, PartyMoves

(* As many clients as there are, are all of them.                          *)
LEMMA EveryoneSeen ==
  ASSUME NEW S \in SUBSET Clients, Cardinality(S) >= NClients
  PROVE  S = Clients
  <1>1. IsFiniteSet(Clients) /\ Cardinality(Clients) = NClients
    <2>1. 0 \in Int /\ NClients - 1 \in Int /\ ~(0 > NClients - 1)
      BY ClientsAssumption
    <2>2. Cardinality(Clients) = NClients - 1 - 0 + 1
      BY <2>1, FS_Interval DEF Clients
    <2> QED
      BY <2>1, <2>2, FS_Interval, SizeFacts DEF Clients
  <1>2. Cardinality(S) <= NClients /\ Cardinality(S) \in Nat
    BY <1>1, FS_Subset, FS_CardinalityType
  <1> QED
    BY <1>1, <1>2, FS_Subset, SizeFacts

LEMMA ReadFlagStep ==
  ASSUME TableInv, NEW p \in Parties, ReadFlag(p)
  PROVE  TableInv'
  <1> USE DEF TableInv
  <1> DEFINE c == idx[p]
             size == IF c = NClients - 1 THEN c + 1 ELSE number[p]
             next == IF size = 0 \/ Cardinality(seen[p] \cup {c}) < size THEN "accept" ELSE "serve"
  <1>1. /\ ppc[p] = "flag" /\ ppc' = [ppc EXCEPT ![p] = next]
        /\ seen' = [seen EXCEPT ![p] = @ \cup {c}] /\ number' = [number EXCEPT ![p] = size]
        /\ UNCHANGED <<cpc, at, game, clients, table, games, idx, queue>>
    BY DEF ReadFlag, Goto, clientVars, serverVars
  <1>2. c \in Clients /\ c \in Nat /\ table[p][c] # 0 /\ seen[p] \subseteq Clients
        /\ number[p] \in {0, NClients}
    BY <1>1, SizeFacts DEF Gone, Place, TypeInv
  <1>3. size \in {0, NClients}
    BY <1>2, SizeFacts
  <1>4. \A q \in Parties, e \in Clients : Named(q, e)' => Named(q, e)
    BY DEF ReadFlag, Receive, Named
  <1>5. seen' \in [Parties -> SUBSET Clients] /\ number' \in [Parties -> {0, NClients}]
        /\ seen'[p] = seen[p] \cup {c} /\ number'[p] = size
        /\ \A q \in Parties : q # p => seen'[q] = seen[q] /\ number'[q] = number[q]
    BY <1>1, <1>2, <1>3 DEF TypeInv
  <1>6. ppc'[p] = next /\ next \in {"accept", "serve"}
    BY <1>1 DEF TypeInv
  <1>7. next = "serve" => size = NClients /\ seen'[p] = Clients
    <2>1. SUFFICES ASSUME size # 0, ~(Cardinality(seen[p] \cup {c}) < size)
                   PROVE  size = NClients /\ seen'[p] = Clients
      OBVIOUS
    <2>2. size = NClients
      BY <1>3, <2>1
    <2>3. Cardinality(seen[p] \cup {c}) \in Nat
      <3>1. IsFiniteSet(Clients)
        BY SizeFacts, FS_Interval DEF Clients
      <3> QED
        BY <1>2, <3>1, FS_Subset, FS_CardinalityType
    <2>4. seen[p] \cup {c} = Clients
      BY <1>2, <2>1, <2>2, <2>3, EveryoneSeen, SizeFacts
    <2> QED
      BY <1>5, <2>2, <2>4
  <1>8. \A e \in seen'[p] : table[p][e] # 0
    BY <1>1, <1>2, <1>5 DEF Gone, Pair, Seated
  <1>9. Place(p)' /\ \A e \in Clients : Seated(p, e)'
    <2>1. Place(p)'
      BY <1>5, <1>6, <1>7 DEF Place
    <2>2. \A e \in Clients : Seated(p, e)'
      BY <1>1, <1>6, <1>7, <1>8 DEF Seated
    <2> QED
      BY <2>1, <2>2
  <1>10. next \in PartyState /\ idx' \in [Parties -> Nat] /\ queue' \in [Parties -> Seq(Clients)]
    BY <1>1, <1>6 DEF TypeInv, PartyState
  <1> HIDE DEF next, size, c
  <1> QED
    BY <1>1, <1>4, <1>5, <1>6, <1>9, <1>10, ProgramMoves

(* Turns of the program that leave both tables and the count of games.     *)
LEMMA QuietStep ==
  ASSUME TableInv, NEW p \in Parties,
         \/ StartListening(p) \/ GetConnection(p) \/ TimeOut(p)
         \/ \E c \in Clients : SendMask(p, c) \/ ReadInput(p, c)
         \/ Reveal(p) \/ Open(p) \/ GiveResult(p) \/ PartyLost(p)
  PROVE  TableInv'
  <1> USE DEF TableInv
  <1>1. /\ UNCHANGED <<cpc, at, game, clients, table, games, seen, number>>
        /\ \A q \in Parties, c \in Clients : Named(q, c)' => Named(q, c)
    <2>1. UNCHANGED <<cpc, at, game, clients, table, games, seen, number>>
      BY DEF StartListening, GetConnection, TimeOut, SendMask, ReadInput, Reveal, Open,
             GiveResult, PartyLost, clientVars, serverVars, gameVars
    <2>2. ASSUME wire' = wire
          PROVE  \A q \in Parties, c \in Clients : Named(q, c)' => Named(q, c)
      BY <2>2 DEF Named
    <2>3. ASSUME NEW c \in Clients, SendMask(p, c) \/ ReadInput(p, c)
          PROVE  \A q \in Parties, e \in Clients : Named(q, e)' => Named(q, e)
      BY <2>3 DEF SendMask, ReadInput, Send, Receive, Named
    <2>4. ASSUME GiveResult(p)
          PROVE  \A q \in Parties, c \in Clients : Named(q, c)' => Named(q, c)
      <3>1. wire' = wire \cup {<<p, idx[p], "result">>}
        BY <2>4 DEF GiveResult, Send
      <3> QED
        BY <3>1 DEF Named
    <2> QED
      BY <2>1, <2>2, <2>3, <2>4 DEF StartListening, GetConnection, TimeOut, Reveal, Open, PartyLost
  <1>2. /\ seen' \in [Parties -> SUBSET Clients] /\ number' \in [Parties -> {0, NClients}]
        /\ ppc \in [Parties -> PartyState]
    BY <1>1 DEF TypeInv
  <1>3. CASE TimeOut(p) \/ PartyLost(p)
    <2>1. ppc' = [ppc EXCEPT ![p] = "dead"] /\ UNCHANGED <<idx, queue>>
      BY <1>3 DEF TimeOut, PartyLost, Goto, serverVars
    <2>2. idx' \in [Parties -> Nat] /\ queue' \in [Parties -> Seq(Clients)] /\ "dead" \in PartyState
      BY <2>1 DEF TypeInv, PartyState
    <2> QED
      BY <1>1, <1>2, <2>1, <2>2, ProgramMoves
  <1>4. CASE StartListening(p) \/ Reveal(p) \/ \E c \in Clients : SendMask(p, c) \/ ReadInput(p, c)
    <2>1. UNCHANGED <<idx, queue>> /\ ppc[p] \in {"start", "serve"}
      BY <1>4 DEF StartListening, Reveal, SendMask, ReadInput, serverVars
    <2>2. PICK state \in {"accept", "serve", "open"} :
            /\ ppc' = [ppc EXCEPT ![p] = state]
            /\ state = "accept" <=> ppc[p] = "start"
      <3>1. CASE StartListening(p)
        BY <3>1 DEF StartListening, Goto
      <3>2. CASE Reveal(p)
        BY <3>2 DEF Reveal, Goto
      <3>3. CASE \E c \in Clients : SendMask(p, c) \/ ReadInput(p, c)
        <4>1. ppc[p] = "serve" /\ UNCHANGED ppc
          BY <3>3 DEF SendMask, ReadInput
        <4>2. ppc' = [ppc EXCEPT ![p] = "serve"]
          BY <1>2, <4>1
        <4> QED
          BY <4>1, <4>2
      <3> QED
        BY <1>4, <3>1, <3>2, <3>3
    <2>3. ppc'[p] = state /\ ~Gone(p)
      BY <1>2, <2>1, <2>2 DEF Gone
    <2>4. Place(p)' /\ \A c \in Clients : Seated(p, c)'
      BY <1>1, <2>1, <2>2, <2>3 DEF Place, Pair, Seated
    <2>5. idx' \in [Parties -> Nat] /\ queue' \in [Parties -> Seq(Clients)] /\ state \in PartyState
      BY <2>1 DEF TypeInv, PartyState
    <2> QED
      BY <1>1, <1>2, <2>1, <2>2, <2>4, <2>5, ProgramMoves
  <1>5. CASE GetConnection(p)
    <2>1. /\ ppc[p] = "accept" /\ queue[p] # <<>> /\ ppc' = [ppc EXCEPT ![p] = "greet"]
          /\ idx' = [idx EXCEPT ![p] = Head(queue[p])] /\ queue' = [queue EXCEPT ![p] = Tail(@)]
      BY <1>5 DEF GetConnection, Goto
    <2>2. Head(queue[p]) \in Clients /\ Tail(queue[p]) \in Seq(Clients) /\ Head(queue[p]) \in Nat
      BY <2>1, HeadTailProperties, SizeFacts DEF TypeInv
    <2>3. /\ idx' \in [Parties -> Nat] /\ idx'[p] \in Clients
          /\ \A q \in Parties : q # p => idx'[q] = idx[q]
      BY <2>1, <2>2 DEF TypeInv
    <2>4. queue' \in [Parties -> Seq(Clients)]
      BY <2>1, <2>2 DEF TypeInv
    <2>5. ppc'[p] = "greet" /\ ~Gone(p) /\ "greet" \in PartyState
      BY <1>2, <2>1 DEF Gone, PartyState
    <2>6. Place(p)' /\ \A c \in Clients : Seated(p, c)'
      BY <1>1, <2>1, <2>3, <2>5 DEF Place, Pair, Seated
    <2> QED
      BY <1>1, <1>2, <2>1, <2>3, <2>4, <2>5, <2>6, ProgramMoves
  <1>6. CASE Open(p) \/ GiveResult(p)
    <2>1. ppc[p] \in {"open", "give"} /\ number[p] = NClients /\ ~Gone(p) /\ UNCHANGED queue
          /\ (ppc[p] = "give" => idx[p] \in Clients)
      BY <1>6 DEF Open, GiveResult, Gone, Place, serverVars
    <2>2. PICK state \in {"give", "close"}, i \in Clients :
            /\ ppc' = [ppc EXCEPT ![p] = state] /\ idx' = [idx EXCEPT ![p] = i]
            /\ state = "close" => ppc[p] = "give" /\ i = 0
      <3>1. CASE Open(p)
        <4>1. ppc' = [ppc EXCEPT ![p] = "give"] /\ idx' = [idx EXCEPT ![p] = 0]
          BY <3>1 DEF Open, Goto
        <4>2. 0 \in Clients
          BY ClientsAssumption, SizeFacts
        <4> QED
          BY <4>1, <4>2
      <3>2. CASE GiveResult(p)
        <4>1. ppc[p] = "give" /\ idx[p] \in Clients /\ idx[p] \in Nat
          BY <2>1, <3>2, SizeFacts DEF GiveResult
        <4>2. CASE idx[p] + 1 = number[p]
          <5>1. ppc' = [ppc EXCEPT ![p] = "close"] /\ idx' = [idx EXCEPT ![p] = 0]
            BY <3>2, <4>2 DEF GiveResult, Goto
          <5>2. 0 \in Clients
            BY ClientsAssumption, SizeFacts
          <5> QED
            BY <4>1, <5>1, <5>2
        <4>3. CASE idx[p] + 1 # number[p]
          <5>1. ppc' = [ppc EXCEPT ![p] = "give"] /\ idx' = [idx EXCEPT ![p] = idx[p] + 1]
            BY <3>2, <4>3 DEF GiveResult, Goto
          <5>2. idx[p] + 1 \in Clients
            BY <2>1, <4>1, <4>3, SizeFacts
          <5> QED
            BY <5>1, <5>2
        <4> QED
          BY <4>2, <4>3
      <3> QED
        BY <1>6, <3>1, <3>2
    <2>3. i \in Nat
      BY SizeFacts
    <2>4. /\ idx' \in [Parties -> Nat] /\ idx'[p] = i
          /\ \A q \in Parties : q # p => idx'[q] = idx[q]
      BY <2>2, <2>3 DEF TypeInv
    <2>5. ppc'[p] = state /\ state \in PartyState
      BY <1>2, <2>2 DEF PartyState
    <2>6. Place(p)' /\ \A c \in Clients : Seated(p, c)'
      BY <1>1, <2>1, <2>4, <2>5 DEF Place, Pair, Seated
    <2>7. queue' \in [Parties -> Seq(Clients)]
      BY <2>1 DEF TypeInv
    <2> QED
      BY <1>1, <1>2, <2>1, <2>2, <2>4, <2>5, <2>6, <2>7, ProgramMoves
  <1> QED
    BY <1>3, <1>4, <1>5, <1>6

(* A name that is taken up is new to the table, and of the next game to be *)
(* greeted; otherwise the process ends.                                    *)
LEMMA AcceptStep ==
  ASSUME TableInv, NEW p \in Parties, NEW c \in Clients, ProcessConnection(p, c)
  PROVE  TableInv'
  <1> USE DEF TableInv
  <1>1. ~Gone(p) /\ Named(p, c) /\ UNCHANGED <<cpc, at, game, idx, table, seen, number, games>>
    BY DEF ProcessConnection, Receive, Named, clientVars, gameVars
  <1>2. wire' = wire \ {<<p, c, "name">>}
    BY DEF ProcessConnection, Receive
  <1>3. ~Named(p, c)' /\ \A q \in Parties, e \in Clients : Named(q, e)' => Named(q, e)
    BY <1>2 DEF Named
  <1>4. Names(p, c) /\ Pair(p, c)
    BY <1>1
  <1>5. CASE clients[p][c] # 0
    <2>1. ppc' = [ppc EXCEPT ![p] = "dead"] /\ UNCHANGED <<queue, clients>>
      BY <1>5 DEF ProcessConnection, Goto, serverVars
    <2>2. queue' \in [Parties -> Seq(Clients)] /\ idx' \in [Parties -> Nat]
          /\ seen' \in [Parties -> SUBSET Clients] /\ number' \in [Parties -> {0, NClients}]
          /\ "dead" \in PartyState
      BY <1>1, <2>1 DEF TypeInv, PartyState
    <2> QED
      BY <1>1, <1>3, <2>1, <2>2, ProgramMoves
  <1>6. CASE clients[p][c] = 0
    <2>1. /\ clients' = [clients EXCEPT ![p][c] = game[c]] /\ ppc' = ppc
          /\ queue' = [queue EXCEPT ![p] = Append(@, c)]
      BY <1>6 DEF ProcessConnection
    <2>2. /\ clients' \in [Parties -> [Clients -> Nat]] /\ clients'[p][c] = game[c]
          /\ \A e \in Clients : e # c => clients'[p][e] = clients[p][e]
          /\ \A q \in Parties : q # p => clients'[q] = clients[q]
      BY <2>1 DEF TypeInv
    <2>3. queue' \in [Parties -> Seq(Clients)]
      <3>1. Append(queue[p], c) \in Seq(Clients)
        BY AppendProperties DEF TypeInv
      <3> QED
        BY <2>1, <3>1 DEF TypeInv
    <2>4. TypeInv'
      BY <1>1, <2>1, <2>2, <2>3 DEF TypeInv
    <2>5. games[p] \in Nat /\ game[c] \in Nat /\ idx[p] \in Nat /\ c \in Nat /\ p \in Nat
      BY SizeFacts DEF TypeInv
    <2>6. /\ table[p][c] = 0 /\ (ppc[p] = "close" => c < idx[p])
          /\ game[c] = games[p] + (IF ppc[p] = "close" THEN 2 ELSE 1)
      <3>1. table[p][c] = 0 /\ (ppc[p] = "close" => c < idx[p])
        BY <1>4, <1>6, <2>5 DEF Pair, Seat, Closing
      <3> QED
        BY <1>1, <1>4, <2>5, <3>1 DEF Pair, Coming, Greeted
    <2>7. ASSUME NEW e \in Clients PROVE Names(p, e)'
      <3>1. CASE e = c
        BY <1>1, <1>3, <1>4, <2>2, <2>5, <3>1 DEF Names
      <3>2. CASE e # c
        BY <1>1, <1>3, <2>2, <3>2 DEF Names
      <3> QED
        BY <3>1, <3>2
    <2>8. Place(p)'
      BY <1>1, <2>1 DEF Place
    <2>9. ASSUME NEW e \in Clients PROVE Pair(p, e)'
      <3>1. Count(p, e)' /\ Coming(p, e)' /\ Seated(p, e)'
        BY <1>1, <1>3, <2>1 DEF Pair, Count, Coming, Seated, Greeted, Met
      <3>2. Entry(p, e)' /\ Seat(p, e)' /\ Closing(p, e)'
        <4>1. CASE e = c
          BY <1>1, <2>1, <2>2, <2>5, <2>6, <4>1 DEF Entry, Seat, Closing
        <4>2. CASE e # c
          BY <1>1, <2>1, <2>2, <4>2 DEF Pair, Entry, Seat, Closing
        <4> QED
          BY <4>1, <4>2
      <3> QED
        BY <3>1, <3>2 DEF Pair
    <2> QED
      BY <1>1, <1>3, <2>1, <2>2, <2>4, <2>7, <2>8, <2>9, PartyMoves
  <1> QED
    BY <1>5, <1>6

(* The handshake: the party and the client that wait for each other mean   *)
(* the party's current game, and no other stream.                          *)
LEMMA GreetStep ==
  ASSUME TableInv, NEW p \in Parties, Greet(p)
  PROVE  TableInv'
  <1> USE DEF TableInv
  <1> PICK c \in Clients : c = idx[p]
    BY DEF Greet, Gone, Place
  <1>1. /\ ppc[p] = "greet" /\ ~Gone(p) /\ cpc[c] = "greet" /\ at[c] = p
        /\ game[c] = clients[p][c] /\ table' = [table EXCEPT ![p][c] = clients[p][c]]
        /\ ppc' = [ppc EXCEPT ![p] = "flag"] /\ Turn(c, "connect", "flag")
        /\ UNCHANGED <<game, wire, idx, queue, clients, seen, number, games>>
    BY DEF Greet, Goto, Gone, serverVars, gameVars
  <1>2. /\ games[p] \in Nat /\ game[c] \in Nat /\ p \in Nat /\ at[c] \in Nat
        /\ \A q \in Parties : q \in Nat /\ q < NParties
        /\ NParties \in Nat
    BY SizeFacts DEF TypeInv
  <1>3. table[p][c] = 0 /\ clients[p][c] = games[p] + 1
    <2>1. ~Met(c, p) /\ Count(p, c) /\ Entry(p, c)
      BY <1>1, <1>2 DEF Met, Pair
    <2> QED
      BY <1>1, <1>2, <2>1 DEF Count, Entry, Greeted
  <1>4. /\ at' \in [Clients -> Parties] /\ cpc' \in [Clients -> ClientState]
        /\ \A e \in Clients : e # c => cpc'[e] = cpc[e] /\ at'[e] = at[e]
        /\ \/ cpc'[c] = "connect" /\ at'[c] = p + 1
           \/ cpc'[c] = "flag" /\ at'[c] = 0 /\ p + 1 >= NParties
    BY <1>1, TurnEffect DEF ClientState
  <1>5. /\ table' \in [Parties -> [Clients -> Nat]] /\ table'[p][c] = clients[p][c]
        /\ \A e \in Clients : e # c => table'[p][e] = table[p][e]
        /\ \A q \in Parties : q # p => table'[q] = table[q]
    BY <1>1 DEF TypeInv
  <1>6. /\ ppc' \in [Parties -> PartyState] /\ ppc'[p] = "flag"
        /\ \A q \in Parties : q # p => ppc'[q] = ppc[q]
    BY <1>1 DEF TypeInv, PartyState
  <1>7. TypeInv'
    BY <1>1, <1>4, <1>5, <1>6 DEF TypeInv
  <1>8. ASSUME NEW q \in Parties
        PROVE  ~Named(q, c) /\ (Met(c, q)' <=> Met(c, q) \/ q = p)
    <2>1. ~Named(q, c)
      BY <1>1 DEF Names
    <2>0. /\ q \in Nat /\ q < NParties
          /\ Met(c, q) <=> q < p
      BY <1>1, <1>2 DEF Met
    <2>2. CASE cpc'[c] = "connect" /\ at'[c] = p + 1
      <3>1. Met(c, q)' <=> q < p + 1
        BY <2>2 DEF Met
      <3> QED
        BY <1>2, <2>0, <2>1, <3>1
    <2>3. CASE cpc'[c] = "flag" /\ p + 1 >= NParties
      <3>1. Met(c, q)'
        BY <2>3 DEF Met
      <3> QED
        BY <1>2, <2>0, <2>1, <2>3, <3>1
    <2> QED
      BY <1>4, <2>1, <2>2, <2>3
  <1>9. \A q \in Parties, e \in Clients : Named(q, e)' <=> Named(q, e)
    BY <1>1 DEF Named
  <1>10. ASSUME NEW q \in Parties, NEW e \in Clients PROVE Names(q, e)'
    <2>1. CASE e = c
      <3>1. clients[q][c] <= game[c] /\ (clients[q][c] = game[c] => ~(p < q))
        BY <1>1 DEF Names
      <3>2. ~(cpc'[c] = "greet") /\ (cpc'[c] = "connect" => at'[c] = p + 1) /\ q \in Nat
        BY <1>2, <1>4
      <3> QED
        BY <1>1, <1>2, <1>8, <1>9, <2>1, <3>1, <3>2 DEF Names
    <2>2. CASE e # c
      BY <1>1, <1>4, <1>9, <2>2 DEF Names
    <2> QED
      BY <2>1, <2>2
  <1>11. ASSUME NEW q \in Parties, ~Gone(q)' PROVE Place(q)' /\ ~Gone(q)
    <2>1. ~Gone(q)
      BY <1>1, <1>6, <1>11 DEF Gone
    <2>2. CASE q = p
      BY <1>1, <1>2, <1>3, <1>5, <1>6, <2>2 DEF Place
    <2>3. CASE q # p
      BY <1>1, <1>5, <1>6, <2>1, <2>3 DEF Place
    <2> QED
      BY <2>1, <2>2, <2>3
  <1>12. ASSUME NEW q \in Parties, NEW e \in Clients, ~Gone(q)' PROVE Pair(q, e)'
    <2>1. Pair(q, e)
      BY <1>11, <1>12
    <2>2. Count(q, e)' /\ Coming(q, e)'
      <3>1. CASE e # c
        <4>1. (Greeted(q, e)' <=> Greeted(q, e)) /\ (Met(e, q)' <=> Met(e, q))
          BY <1>1, <1>4, <1>5, <1>6, <3>1 DEF Greeted, Met
        <4> QED
          BY <1>1, <1>4, <1>9, <2>1, <3>1, <4>1 DEF Pair, Count, Coming
      <3>2. CASE e = c /\ q # p
        <4>1. (Greeted(q, e)' <=> Greeted(q, e)) /\ (Met(e, q)' <=> Met(e, q))
          BY <1>5, <1>6, <1>8, <3>2 DEF Greeted
        <4> QED
          BY <1>1, <1>4, <1>8, <1>9, <2>1, <3>2, <4>1 DEF Pair, Count, Coming
      <3>3. CASE e = c /\ q = p
        <4>1. Greeted(q, e)' /\ Met(e, q)'
          BY <1>2, <1>3, <1>5, <1>8, <3>3 DEF Greeted
        <4> QED
          BY <1>1, <1>3, <1>8, <1>9, <3>3, <4>1 DEF Count, Coming
      <3> QED
        BY <3>1, <3>2, <3>3
    <2>3. Entry(q, e)' /\ Closing(q, e)'
      BY <1>1, <1>5, <1>6, <2>1 DEF Pair, Entry, Closing
    <2>4. Seat(q, e)' /\ Seated(q, e)'
      <3>1. CASE e = c /\ q = p
        BY <1>1, <1>2, <1>3, <1>5, <3>1 DEF Seat, Seated
      <3>2. CASE ~(e = c /\ q = p)
        <4>1. table'[q][e] = table[q][e]
          BY <1>5, <3>2
        <4>2. Seated(q, e)'
          BY <1>1, <1>6, <2>1, <4>1 DEF Pair, Seated
        <4> QED
          BY <1>1, <2>1, <4>1, <4>2 DEF Pair, Seat
      <3> QED
        BY <3>1, <3>2
    <2> QED
      BY <2>2, <2>3, <2>4 DEF Pair
  <1>13. \A e \in Clients : cpc'[e] = "idle" => at'[e] = 0
    BY <1>4
  <1> QED
    BY <1>7, <1>10, <1>11, <1>12, <1>13

(* Closing a client forgets it in both tables; with the last one the game  *)
(* is over, and who has connected again is greeted in the next one.        *)
LEMMA CloseStep ==
  ASSUME TableInv, NEW p \in Parties, Close(p)
  PROVE  TableInv'
  <1> USE DEF TableInv
  <1> PICK c \in Clients : c = idx[p]
    BY DEF Close, Gone, Place
  <1>1. /\ ppc[p] = "close" /\ ~Gone(p) /\ number[p] = NClients
        /\ clients' = [clients EXCEPT ![p][c] = 0] /\ table' = [table EXCEPT ![p][c] = 0]
        /\ UNCHANGED <<cpc, at, game, wire, queue>>
    BY DEF Close, Gone, Place, clientVars
  <1>2. /\ games[p] \in Nat /\ c \in Nat /\ NClients \in Nat
        /\ \A e \in Clients : e \in Nat /\ e < NClients /\ game[e] \in Nat
    BY SizeFacts DEF TypeInv
  <1>3. /\ clients' \in [Parties -> [Clients -> Nat]] /\ clients'[p][c] = 0
        /\ table' \in [Parties -> [Clients -> Nat]] /\ table'[p][c] = 0
        /\ \A e \in Clients : e # c => clients'[p][e] = clients[p][e] /\ table'[p][e] = table[p][e]
        /\ \A q \in Parties : q # p => clients'[q] = clients[q] /\ table'[q] = table[q]
    BY <1>1 DEF TypeInv
  <1>4. \A q \in Parties, e \in Clients : Named(q, e)' <=> Named(q, e)
    BY <1>1 DEF Named
  <1>5. ASSUME NEW e \in Clients
        PROVE  /\ cpc[e] # "dead" => game[e] = games[p] + (IF Met(e, p) THEN 1 ELSE 2)
               /\ Named(p, e) => game[e] = games[p] + 2
               /\ e < c => table[p][e] = 0 /\ clients[p][e] # games[p] + 1
               /\ ~(e < c) => clients[p][e] = games[p] + 1
               /\ clients[p][e] = 0 \/ clients[p][e] = games[p] + 1
                  \/ (e < c /\ clients[p][e] = games[p] + 2)
               /\ Met(e, p)' <=> Met(e, p)
    <2>1. Pair(p, e) /\ Greeted(p, e) /\ idx[p] = c
      BY <1>1 DEF Greeted
    <2>2. Met(e, p)' <=> Met(e, p)
      BY <1>1 DEF Met
    <2> QED
      BY <1>1, <2>1, <2>2 DEF Pair, Count, Coming, Entry, Closing
  <1>6. ASSUME NEW e \in Clients PROVE Names(p, e)'
    <2>1. CASE e # c
      BY <1>1, <1>3, <1>4, <2>1 DEF Names
    <2>2. CASE e = c
      <3>1. game[c] # 0 \/ (cpc[c] = "dead" /\ ~Named(p, c))
        BY <1>2, <1>5
      <3>2. Named(p, c) => cpc[c] = "dead" \/ (cpc[c] = "greet" /\ at[c] = p)
        BY DEF Names
      <3> QED
        BY <1>1, <1>2, <1>3, <1>4, <2>2, <3>1, <3>2 DEF Names
    <2> QED
      BY <2>1, <2>2
  <1>7. CASE c + 1 # NClients
    <2>1. /\ c + 1 \in Clients /\ c + 1 \in Nat
          /\ ppc' = [ppc EXCEPT ![p] = "close"] /\ idx' = [idx EXCEPT ![p] = c + 1]
      <3>1. c + 1 \in Clients /\ c + 1 \in Nat
        <4>1. c < NClients
          BY SizeFacts
        <4> QED
          BY <1>2, <1>7, <4>1, SizeFacts
      <3> QED
        BY <1>1, <1>7, <3>1 DEF Close, Goto
    <2>2. UNCHANGED <<games, seen, number>>
      BY <1>1, <1>7 DEF Close, TypeInv
    <2>3. /\ idx' \in [Parties -> Nat] /\ idx'[p] = c + 1
          /\ \A q \in Parties : q # p => idx'[q] = idx[q]
      BY <2>1 DEF TypeInv
    <2>4. ppc' \in [Parties -> PartyState] /\ ppc'[p] = "close"
          /\ \A q \in Parties : q # p => ppc'[q] = ppc[q]
      BY <2>1 DEF TypeInv, PartyState
    <2>5. TypeInv'
      BY <1>1, <1>3, <2>2, <2>3, <2>4 DEF TypeInv
    <2>6. Place(p)'
      BY <1>1, <2>1, <2>2, <2>3, <2>4 DEF Place
    <2>7. ASSUME NEW e \in Clients PROVE Pair(p, e)'
      <3>1. Count(p, e)' /\ Coming(p, e)'
        BY <1>1, <1>4, <1>5, <2>2, <2>4 DEF Count, Coming, Greeted
      <3>2. Seated(p, e)'
        BY <2>4 DEF Seated
      <3>3. Entry(p, e)' /\ Seat(p, e)' /\ Closing(p, e)'
        <4>1. CASE e = c
          BY <1>2, <1>3, <2>2, <2>3, <4>1 DEF Entry, Seat, Closing
        <4>2. CASE e # c
          <5>1. clients'[p][e] = clients[p][e] /\ table'[p][e] = table[p][e]
            BY <1>3, <4>2
          <5>3. e < c + 1 <=> e < c
            <6>1. e \in Nat
              BY SizeFacts
            <6> QED
              BY <1>2, <4>2, <6>1
          <5>2. Seat(p, e)
            BY <1>1 DEF Pair
          <5> QED
            BY <1>5, <2>2, <2>3, <2>4, <5>1, <5>2, <5>3 DEF Entry, Seat, Closing
        <4> QED
          BY <4>1, <4>2
      <3> QED
        BY <3>1, <3>2, <3>3 DEF Pair
    <2> QED
      BY <1>1, <1>3, <1>4, <1>6, <2>2, <2>3, <2>4, <2>5, <2>6, <2>7, PartyMoves
  <1>8. CASE c + 1 = NClients
    <2>1. /\ idx' = [idx EXCEPT ![p] = 0] /\ games' = [games EXCEPT ![p] = games[p] + 1]
          /\ seen' = [seen EXCEPT ![p] = {}] /\ number' = [number EXCEPT ![p] = 0]
      BY <1>1, <1>8 DEF Close
    <2>2. PICK state \in {"over", "accept"} : ppc' = [ppc EXCEPT ![p] = state]
      BY <1>1, <1>8 DEF Close, Goto
    <2>3. /\ ppc' \in [Parties -> PartyState] /\ ppc'[p] \in {"over", "accept"}
          /\ \A q \in Parties : q # p => ppc'[q] = ppc[q]
      BY <2>2 DEF TypeInv, PartyState
    <2>4. /\ games' \in [Parties -> Nat] /\ games'[p] = games[p] + 1
          /\ idx' \in [Parties -> Nat]
          /\ \A q \in Parties : q # p => idx'[q] = idx[q] /\ games'[q] = games[q]
      <3>1. games[p] + 1 \in Nat
        BY <1>2
      <3> QED
        BY <2>1, <3>1 DEF TypeInv
    <2>5. /\ seen' \in [Parties -> SUBSET Clients] /\ number' \in [Parties -> {0, NClients}]
          /\ seen'[p] = {}
          /\ \A q \in Parties : q # p => seen'[q] = seen[q] /\ number'[q] = number[q]
      BY <2>1 DEF TypeInv
    <2>6. TypeInv'
      BY <1>1, <1>3, <2>3, <2>4, <2>5 DEF TypeInv
    <2>7. Place(p)'
      BY <2>3 DEF Place
    <2>8. ASSUME NEW e \in Clients PROVE Pair(p, e)'
      <3>0. e = c \/ e < c
        <4>1. e \in Nat /\ e < NClients
          BY SizeFacts
        <4> QED
          BY <1>2, <1>8, <4>1
      <3>1. table'[p][e] = 0
        BY <1>3, <1>5, <3>0
      <3>2. Count(p, e)' /\ Coming(p, e)'
        <4>1. ~Greeted(p, e)'
          BY <2>3, <3>1 DEF Greeted
        <4>2. games[p] + 1 + 1 = games[p] + 2
          BY <1>2
        <4>3. Count(p, e)'
          BY <1>1, <1>5, <2>4, <4>1, <4>2 DEF Count
        <4> QED
          BY <1>1, <1>4, <1>5, <2>4, <4>1, <4>2, <4>3 DEF Coming
      <3>3. Seat(p, e)' /\ Closing(p, e)' /\ Seated(p, e)'
        BY <2>3, <2>5, <3>1 DEF Seat, Closing, Seated
      <3>4. Entry(p, e)'
        <4>1. clients'[p][e] = 0 \/ clients'[p][e] = games[p] + 2
          BY <1>3, <1>5, <3>0
        <4> QED
          BY <1>2, <2>4, <4>1 DEF Entry
      <3> QED
        BY <3>2, <3>3, <3>4 DEF Pair
    <2> QED
      BY <1>1, <1>3, <1>4, <1>6, <2>3, <2>4, <2>5, <2>6, <2>7, <2>8, PartyMoves
  <1> QED
    BY <1>7, <1>8

(* A death that takes a party with it.                                     *)
LEMMA DeathInNameStep ==
  ASSUME TableInv, NEW c \in Clients, DiesInName(c)
  PROVE  TableInv'
  <1> USE DEF TableInv
  <1>1. /\ cpc' = [cpc EXCEPT ![c] = "dead"] /\ ppc' = [ppc EXCEPT ![at[c]] = "dead"]
        /\ UNCHANGED <<at, game, wire, idx, queue, clients, table, seen, number, games>>
    BY DEF DiesInName, Goto, serverVars, gameVars
  <1>2. /\ cpc' \in [Clients -> ClientState] /\ ppc' \in [Parties -> PartyState]
        /\ cpc'[c] = "dead" /\ \A e \in Clients : e # c => cpc'[e] = cpc[e]
        /\ \A q \in Parties : ppc'[q] = ppc[q] \/ ppc'[q] = "dead"
    BY <1>1 DEF TypeInv, ClientState, PartyState
  <1>3. TypeInv'
    BY <1>1, <1>2 DEF TypeInv
  <1>4. ASSUME NEW q \in Parties, NEW e \in Clients PROVE Names(q, e)'
    BY <1>1, <1>2 DEF Names, Named
  <1>5. ASSUME NEW q \in Parties, ~Gone(q)'
        PROVE  ~Gone(q) /\ ppc'[q] = ppc[q]
    BY <1>2, <1>5 DEF Gone
  <1>6. ASSUME NEW q \in Parties, ~Gone(q)' PROVE Place(q)'
    BY <1>1, <1>5, <1>6 DEF Place
  <1>7. ASSUME NEW q \in Parties, NEW e \in Clients, ~Gone(q)' PROVE Pair(q, e)'
    <2>1. Pair(q, e) /\ ppc'[q] = ppc[q]
      BY <1>5, <1>7
    <2>2. Count(q, e)' /\ Coming(q, e)'
      BY <1>1, <1>2, <2>1 DEF Pair, Count, Coming, Greeted, Met, Named
    <2>3. Entry(q, e)' /\ Seat(q, e)' /\ Closing(q, e)' /\ Seated(q, e)'
      BY <1>1, <2>1 DEF Pair, Entry, Seat, Closing, Seated
    <2> QED
      BY <2>2, <2>3 DEF Pair
  <1> QED
    BY <1>1, <1>2, <1>3, <1>4, <1>6, <1>7

LEMMA TableNext == TableInv /\ [Next]_vars => TableInv'
  <1> SUFFICES ASSUME TableInv, [Next]_vars
               PROVE  TableInv'
    OBVIOUS
  <1>1. ASSUME NEW c \in Clients, Client(c) PROVE TableInv'
    BY <1>1, TurnStep, DeathStep, StartStep, ConnectStep DEF Client
  <1>2. ASSUME NEW c \in Clients, ClientDies(c) PROVE TableInv'
    BY <1>2, DeathStep
  <1>3. ASSUME NEW c \in Clients, DiesInName(c) PROVE TableInv'
    BY <1>3, DeathInNameStep
  <1>4. ASSUME NEW p \in Parties, Accept(p) PROVE TableInv'
    BY <1>4, AcceptStep DEF Accept
  <1>5. ASSUME NEW p \in Parties, Program(p) PROVE TableInv'
    <2>1. CASE Greet(p)
      BY <2>1, GreetStep
    <2>2. CASE ReadFlag(p)
      BY <2>2, ReadFlagStep
    <2>3. CASE Close(p)
      BY <2>3, CloseStep
    <2>4. CASE ~(Greet(p) \/ ReadFlag(p) \/ Close(p))
      BY <1>5, <2>4, QuietStep DEF Program
    <2> QED
      BY <2>1, <2>2, <2>3, <2>4
  <1>6. CASE Finish \/ UNCHANGED vars
    <2>1. UNCHANGED vars
      BY <1>6 DEF Finish
    <2>2. UNCHANGED <<cpc, at, game, wire, partyVars>>
      BY <2>1 DEF vars, clientVars, serverVars, gameVars, partyVars
    <2>3. TypeInv'
      BY <2>2 DEF TableInv, TypeInv, partyVars
    <2>4. \A p \in Parties, c \in Clients : Names(p, c)'
      BY <2>2 DEF TableInv, Names, Named, partyVars
    <2>5. \A p \in Parties : (~Gone(p)' => ~Gone(p)) /\ (Place(p) => Place(p)')
      BY <2>2 DEF Gone, Place, partyVars
    <2>6. \A p \in Parties, c \in Clients : Pair(p, c) => Pair(p, c)'
      BY <2>2 DEF Pair, Count, Coming, Entry, Seat, Closing, Seated, Greeted, Met, Named, partyVars
    <2> QED
      BY <2>2, <2>3, <2>4, <2>5, <2>6 DEF TableInv
  <1> QED
    BY <1>1, <1>2, <1>3, <1>4, <1>5, <1>6 DEF Next

(***************************************************************************)
(* When the loop over accept_client has ended, all players of this game    *)
(* are in external_client_sockets, in whatever order they connected        *)
(* (bankers_bonus.mpc uses the ids as handles).                            *)
(***************************************************************************)
THEOREM EveryoneServed == Spec => []EveryoneAtTable
  <1>1. TableInv => EveryoneAtTable
    BY DEF TableInv, Pair, Seat, Seated, EveryoneAtTable, Gone
  <1> QED
    BY <1>1, TableInit, TableNext, PTL DEF Spec

---------------------------------------------------------------------------
(***************************************************************************)
(* No process ends but after a fault.  Two more facts are needed: a party  *)
(* that has revealed a result waits for parties that do so or are dead,    *)
(* never for one that has played all its games; and, without an early      *)
(* start, no client is more than one game ahead of any party.              *)
(***************************************************************************)
Opened(p) == ppc[p] \in {"open", "give", "close"}
ShareInv ==
  /\ revealed \in [Parties -> Nat]
  /\ \A p \in Parties :
       /\ ppc[p] # "dead" /\ Opened(p) => revealed[p] = games[p] + 1
       /\ ppc[p] # "dead" /\ ~Opened(p) => revealed[p] = games[p]
       /\ ppc[p] = "over" => games[p] = MaxGames
       /\ ~Gone(p) => games[p] < MaxGames

OneAhead == \A p \in Parties, c \in Clients : game[c] <= games[p] + 1

Fault == late \/ \E c \in Clients : cpc[c] = "dead"

(* Steps that take no part in the counts of games and results.             *)
LEMMA SharesKept ==
  ASSUME ShareInv, TypeInv', UNCHANGED <<revealed, games>>,
         \A p \in Parties : \/ ppc'[p] = ppc[p]
                            \/ ppc'[p] = "dead"
                            \/ ~Gone(p) /\ ~Gone(p)' /\ (Opened(p)' <=> Opened(p))
  PROVE  ShareInv'
  BY DEF ShareInv, Gone, Opened

LEMMA SharesNext ==
  ASSUME TableInv, TableInv', ShareInv, [Next]_vars
  PROVE  ShareInv'
  <1> USE DEF TableInv
  <1>1. ASSUME NEW c \in Clients, Client(c) \/ ClientDies(c) PROVE ShareInv'
    <2>1. UNCHANGED <<ppc, revealed, games>>
      BY <1>1 DEF Client, ClientDies, StartClient, Connect, SendFlag, GetMask, SendInput,
             GetResult, ClientLost
    <2> QED
      BY <2>1, SharesKept
  <1>2. ASSUME NEW c \in Clients, DiesInName(c) PROVE ShareInv'
    <2>1. ppc' = [ppc EXCEPT ![at[c]] = "dead"] /\ UNCHANGED <<revealed, games>>
      BY <1>2 DEF DiesInName, Goto
    <2>2. \A p \in Parties : ppc'[p] = ppc[p] \/ ppc'[p] = "dead"
      BY <2>1 DEF TypeInv
    <2> QED
      BY <2>1, <2>2, SharesKept
  <1>3. ASSUME NEW p \in Parties, Accept(p) PROVE ShareInv'
    <2>1. UNCHANGED <<revealed, games>> /\ (ppc' = ppc \/ ppc' = [ppc EXCEPT ![p] = "dead"])
      BY <1>3 DEF Accept, ProcessConnection, Goto
    <2>2. \A q \in Parties : ppc'[q] = ppc[q] \/ ppc'[q] = "dead"
      BY <2>1 DEF TypeInv
    <2> QED
      BY <2>1, <2>2, SharesKept
  <1>4. ASSUME NEW p \in Parties, Program(p) PROVE ShareInv'
    <2>1. CASE \E c \in Clients : SendMask(p, c) \/ ReadInput(p, c)
      <3>1. UNCHANGED <<ppc, revealed, games>>
        BY <2>1 DEF SendMask, ReadInput
      <3> QED
        BY <3>1, SharesKept
    <2>2. CASE StartListening(p) \/ GetConnection(p) \/ TimeOut(p) \/ Greet(p) \/ ReadFlag(p)
               \/ Open(p) \/ GiveResult(p) \/ PartyLost(p)
      <3>1. UNCHANGED <<revealed, games>>
        BY <2>2 DEF StartListening, GetConnection, TimeOut, Greet, ReadFlag, Open, GiveResult, PartyLost
      <3>2. PICK state \in PartyState :
              /\ ppc' = [ppc EXCEPT ![p] = state]
              /\ \/ state = "dead"
                 \/ ppc[p] \in {"open", "give"} /\ state \in {"give", "close"}
                 \/ ppc[p] \in {"start", "accept", "greet", "flag"}
                    /\ state \in {"accept", "greet", "flag", "serve"}
        <4>1. CASE StartListening(p) \/ GetConnection(p) \/ TimeOut(p) \/ Greet(p)
          BY <4>1 DEF StartListening, GetConnection, TimeOut, Greet, Goto, PartyState
        <4>2. CASE Open(p) \/ GiveResult(p) \/ PartyLost(p)
          BY <4>2 DEF Open, GiveResult, PartyLost, Goto, PartyState
        <4>3. CASE ReadFlag(p)
          BY <4>3 DEF ReadFlag, Goto, PartyState
        <4> QED
          BY <2>2, <4>1, <4>2, <4>3
      <3>3. ppc'[p] = state /\ \A q \in Parties : q # p => ppc'[q] = ppc[q]
        BY <3>2 DEF TypeInv
      <3>4. \A q \in Parties : \/ ppc'[q] = ppc[q]
                               \/ ppc'[q] = "dead"
                               \/ ~Gone(q) /\ ~Gone(q)' /\ (Opened(q)' <=> Opened(q))
        BY <3>2, <3>3 DEF Gone, Opened
      <3> QED
        BY <3>1, <3>4, SharesKept
    <2>3. CASE Reveal(p)
      <3>1. /\ ppc[p] = "serve" /\ ppc' = [ppc EXCEPT ![p] = "open"] /\ games' = games
            /\ revealed' = [revealed EXCEPT ![p] = revealed[p] + 1]
            /\ revealed[p] = games[p] /\ revealed[p] + 1 \in Nat
        BY <2>3 DEF Reveal, Goto, ShareInv, Opened
      <3>2. /\ ppc'[p] = "open" /\ revealed' \in [Parties -> Nat] /\ revealed'[p] = games[p] + 1
            /\ \A q \in Parties : q # p => ppc'[q] = ppc[q] /\ revealed'[q] = revealed[q]
        BY <3>1 DEF ShareInv, TypeInv
      <3>3. games[p] < MaxGames
        BY <3>1 DEF ShareInv, Gone
      <3> QED
        BY <3>1, <3>2, <3>3 DEF ShareInv, Gone, Opened
    <2>4. CASE Close(p)
      <3>1. /\ ppc[p] = "close" /\ revealed' = revealed /\ games[p] \in Nat /\ MaxGames \in Nat
            /\ revealed[p] = games[p] + 1 /\ games[p] < MaxGames
        BY <2>4, SizeFacts DEF Close, ShareInv, Gone, Opened, TypeInv
      <3>2. CASE idx[p] + 1 = number[p]
        <4>1. /\ games' = [games EXCEPT ![p] = games[p] + 1]
              /\ ppc' = [ppc EXCEPT ![p] = IF games'[p] = MaxGames THEN "over" ELSE "accept"]
          BY <2>4, <3>2 DEF Close, Goto
        <4>2. games'[p] = games[p] + 1 /\ \A q \in Parties : q # p => games'[q] = games[q]
          BY <4>1 DEF TypeInv
        <4>3. /\ IF games[p] + 1 = MaxGames THEN ppc'[p] = "over" ELSE ppc'[p] = "accept"
              /\ \A q \in Parties : q # p => ppc'[q] = ppc[q]
          BY <4>1, <4>2 DEF TypeInv
        <4> QED
          BY <3>1, <4>2, <4>3 DEF ShareInv, Gone, Opened
      <3>3. CASE idx[p] + 1 # number[p]
        <4>1. ppc' = [ppc EXCEPT ![p] = "close"] /\ UNCHANGED games
          BY <2>4, <3>3 DEF Close, Goto, TypeInv
        <4>2. \A q \in Parties : ppc'[q] = ppc[q]
          BY <3>1, <4>1 DEF TypeInv
        <4> QED
          BY <3>1, <4>1, <4>2, SharesKept
      <3> QED
        BY <3>2, <3>3
    <2> QED
      BY <1>4, <2>1, <2>2, <2>3, <2>4 DEF Program
  <1>5. CASE Finish \/ UNCHANGED vars
    <2>1. UNCHANGED <<ppc, revealed, games>>
      BY <1>5 DEF Finish, vars
    <2> QED
      BY <2>1, SharesKept
  <1> QED
    BY <1>1, <1>2, <1>3, <1>4, <1>5 DEF Next

LEMMA OneAheadNext ==
  ASSUME TableInv, TableInv', OneAhead, ~Eager, [Next]_vars
  PROVE  OneAhead'
  <1> USE DEF TableInv
  <1>1. \A p \in Parties : games[p] \in Nat /\ games'[p] \in Nat
    BY DEF TypeInv
  <1>2. \A c \in Clients : game[c] \in Nat
    BY DEF TypeInv
  <1>3. ASSUME NEW c \in Clients, StartClient(c) PROVE OneAhead'
    <2>1. /\ game' = [game EXCEPT ![c] = game[c] + 1] /\ games' = games
          /\ \A p \in Parties : games[p] = game[c]
      BY <1>3 DEF StartClient
    <2>2. game'[c] = game[c] + 1 /\ \A e \in Clients : e # c => game'[e] = game[e]
      BY <2>1 DEF TypeInv
    <2> QED
      BY <1>1, <1>2, <2>1, <2>2 DEF OneAhead
  <1>4. ASSUME NEW p \in Parties, Close(p) PROVE OneAhead'
    <2>1. \A q \in Parties : games'[q] \in {games[q], games[q] + 1}
      BY <1>1, <1>4 DEF Close, TypeInv
    <2>2. game' = game
      BY <1>4 DEF Close, clientVars
    <2> QED
      BY <1>1, <1>2, <2>1, <2>2 DEF OneAhead
  <1>5. CASE UNCHANGED <<game, games>>
    BY <1>5 DEF OneAhead
  <1>6. \/ UNCHANGED <<game, games>>
        \/ \E c \in Clients : StartClient(c)
        \/ \E p \in Parties : Close(p)
    <2>1. ASSUME NEW c \in Clients, Client(c) \/ ClientDies(c) \/ DiesInName(c), ~StartClient(c)
          PROVE  UNCHANGED <<game, games>>
      BY <2>1 DEF Client, ClientDies, DiesInName, Connect, SendFlag, GetMask, SendInput,
             GetResult, ClientLost
    <2>2. ASSUME NEW p \in Parties, Accept(p) \/ Program(p), ~Close(p)
          PROVE  UNCHANGED <<game, games>>
      BY <2>2 DEF Accept, Program, ProcessConnection, StartListening, GetConnection, TimeOut,
             Greet, ReadFlag, SendMask, ReadInput, Reveal, Open, GiveResult, PartyLost, clientVars
    <2>3. Finish \/ UNCHANGED vars => UNCHANGED <<game, games>>
      BY DEF Finish, vars, clientVars
    <2> QED
      BY <2>1, <2>2, <2>3 DEF Next
  <1> QED
    BY <1>3, <1>4, <1>5, <1>6

(* Nobody comes to life again.                                             *)
LEMMA FaultStays ==
  ASSUME TableInv, Fault, [Next]_vars
  PROVE  Fault'
  <1> USE DEF TableInv
  <1>1. late => late'
    BY DEF Next, Client, ClientDies, DiesInName, Accept, Program, Finish, StartClient, Connect,
           SendFlag, GetMask, SendInput, GetResult, ClientLost, ProcessConnection, StartListening,
           GetConnection, TimeOut, Greet, ReadFlag, SendMask, ReadInput, Reveal, Open,
           GiveResult, Close, PartyLost, vars
  <1>2. ASSUME NEW c \in Clients, cpc[c] = "dead" PROVE cpc'[c] = "dead"
    <2>1. ASSUME NEW e \in Clients, NEW here \in ClientState, NEW next \in ClientState,
                 cpc[e] # "dead", Turn(e, here, next)
          PROVE  cpc'[c] = "dead"
      BY <1>2, <2>1, TurnEffect
    <2>2. ASSUME NEW e \in Clients,
                 SendFlag(e) \/ GetMask(e) \/ SendInput(e) \/ GetResult(e)
          PROVE  cpc'[c] = "dead"
      BY <2>1, <2>2 DEF SendFlag, GetMask, SendInput, GetResult, ClientState
    <2>3. ASSUME NEW e \in Clients,
                 StartClient(e) \/ Connect(e) \/ ClientLost(e) \/ ClientDies(e) \/ DiesInName(e)
          PROVE  cpc'[c] = "dead"
      BY <1>2, <2>3 DEF StartClient, Connect, ClientLost, ClientDies, DiesInName, TypeInv
    <2>4. ASSUME NEW p \in Parties, Greet(p) PROVE cpc'[c] = "dead"
      <3>1. PICK e \in Clients : e = idx[p]
        BY <2>4 DEF Greet, Gone, Place
      <3>2. cpc[e] = "greet" /\ Turn(e, "connect", "flag")
        BY <2>4, <3>1 DEF Greet
      <3> QED
        BY <2>1, <3>2 DEF ClientState
    <2>5. CASE UNCHANGED cpc
      BY <1>2, <2>5
    <2>6. \/ UNCHANGED cpc
          \/ \E p \in Parties : Greet(p)
          \/ \E e \in Clients : \/ SendFlag(e) \/ GetMask(e) \/ SendInput(e) \/ GetResult(e)
                                \/ StartClient(e) \/ Connect(e) \/ ClientLost(e) \/ ClientDies(e)
                                \/ DiesInName(e)
      BY DEF Next, Client, Accept, Program, Finish, ProcessConnection, StartListening,
             GetConnection, TimeOut, ReadFlag, SendMask, ReadInput, Reveal, Open, GiveResult,
             Close, PartyLost, vars, clientVars
    <2> QED
      BY <2>2, <2>3, <2>4, <2>5, <2>6
  <1> QED
    BY <1>1, <1>2 DEF Fault

(* A name that is in the table belongs to a client that has died since.    *)
LEMMA DuplicateIsDead ==
  ASSUME TableInv, OneAhead, NEW p \in Parties, NEW c \in Clients,
         ~Gone(p), Named(p, c), clients[p][c] # 0
  PROVE  cpc[c] = "dead"
  <1>1. games[p] \in Nat /\ game[c] \in Nat
    BY DEF TableInv, TypeInv
  <1>2. Pair(p, c) /\ Names(p, c)
    BY DEF TableInv
  <1>3. ~Greeted(p, c) /\ game[c] = games[p] + 1
    BY <1>1, <1>2 DEF Pair, Coming, OneAhead
  <1>4. clients[p][c] = games[p] + 1
    BY <1>2, <1>3 DEF Pair, Entry, Greeted
  <1> QED
    BY <1>2, <1>3, <1>4 DEF Names

LEMMA ExitNext ==
  ASSUME TableInv, ShareInv, OneAhead, NoExitWithoutFault, [Next]_vars
  PROVE  NoExitWithoutFault'
  <1>1. Fault => NoExitWithoutFault'
    BY FaultStays DEF Fault, NoExitWithoutFault
  <1>2. SUFFICES ASSUME ~Fault, \A p \in Parties : ppc[p] # "dead",
                        NEW p \in Parties, ppc'[p] = "dead"
                 PROVE  Fault'
    BY <1>1 DEF NoExitWithoutFault, Fault
  <1>3. CASE TimeOut(p)
    BY <1>3 DEF TimeOut, Fault
  <1>4. ASSUME NEW c \in Clients, DiesInName(c) PROVE Fault'
    BY <1>4 DEF DiesInName, Fault, TableInv, TypeInv
  <1>5. ASSUME NEW c \in Clients, ProcessConnection(p, c), ppc' # ppc PROVE FALSE
    <2>1. ~Gone(p) /\ Named(p, c) /\ clients[p][c] # 0
      BY <1>5 DEF ProcessConnection, Receive, Named
    <2> QED
      BY <1>2, <2>1, DuplicateIsDead DEF Fault
  <1>6. CASE PartyLost(p)
    <2>1. Lost(p) /\ \A c \in Clients : cpc[c] # "dead"
      BY <1>2, <1>6 DEF PartyLost, Fault
    <2>2. idx[p] \notin {c \in Clients : cpc[c] = "dead"}
      BY <2>1
    <2>3. PICK q \in Parties : ppc[p] = "open" /\ Gone(q) /\ revealed[q] < revealed[p]
      BY <2>1, <2>2 DEF Lost
    <2>4. ppc[q] = "over"
      BY <1>2, <2>3 DEF Gone
    <2>5. revealed[q] = MaxGames /\ revealed[p] = games[p] + 1 /\ games[p] < MaxGames
      BY <2>3, <2>4 DEF ShareInv, Gone, Opened
    <2>6. games[p] \in Nat /\ MaxGames \in Nat
      BY SizeFacts DEF TableInv, TypeInv
    <2> QED
      BY <2>3, <2>5, <2>6
  <1>7. \/ TimeOut(p) \/ PartyLost(p)
        \/ \E c \in Clients : DiesInName(c) \/ (ProcessConnection(p, c) /\ ppc' # ppc)
    <2>1. ppc'[p] # ppc[p] /\ ppc \in [Parties -> PartyState]
      BY <1>2 DEF TableInv, TypeInv
    <2>2. ASSUME NEW q \in Parties, Accept(q) \/ Program(q), q # p PROVE FALSE
      <3>1. ppc'[p] = ppc[p]
        BY <2>1, <2>2 DEF Accept, Program, ProcessConnection, StartListening, GetConnection,
               TimeOut, Greet, ReadFlag, SendMask, ReadInput, Reveal, Open, GiveResult, Close,
               PartyLost, Goto
      <3> QED
        BY <2>1, <3>1
    <2>3. ASSUME NEW c \in Clients, Client(c) \/ ClientDies(c) PROVE FALSE
      BY <2>1, <2>3 DEF Client, ClientDies, StartClient, Connect, SendFlag, GetMask, SendInput,
             GetResult, ClientLost
    <2>4. CASE Program(p)
      BY <1>2, <2>1, <2>4 DEF Program, StartListening, GetConnection, Greet, ReadFlag, SendMask,
             ReadInput, Reveal, Open, GiveResult, Close, Goto
    <2>5. CASE Accept(p)
      BY <2>1, <2>5 DEF Accept
    <2>6. ~(Finish \/ UNCHANGED vars)
      BY <2>1 DEF Finish, vars
    <2> QED
      BY <2>2, <2>3, <2>4, <2>5, <2>6 DEF Next
  <1> QED
    BY <1>3, <1>4, <1>5, <1>6, <1>7

(***************************************************************************)
(* exit_error in process_client and the exceptions of the sockets end a    *)
(* party's process only if a client timed out or died, provided the next   *)
(* game of a client begins when all parties have closed the last one;      *)
(* with an early start it does not hold.                                   *)
(***************************************************************************)
THEOREM ExitWithoutEagerness == ~Eager => (Spec => []NoExitWithoutFault)
  <1> SUFFICES ASSUME ~Eager PROVE Spec => []NoExitWithoutFault
    OBVIOUS
  <1> DEFINE Inv == TableInv /\ ShareInv /\ OneAhead /\ NoExitWithoutFault
  <1>1. Init => Inv
    <2> SUFFICES ASSUME Init PROVE Inv
      OBVIOUS
    <2>1. ShareInv
      BY ClientsAssumption DEF Init, ShareInv, Gone, Opened
    <2>2. OneAhead /\ NoExitWithoutFault
      BY DEF Init, OneAhead, NoExitWithoutFault
    <2> QED
      BY <2>1, <2>2, TableInit
  <1>2. Inv /\ [Next]_vars => Inv'
    <2> SUFFICES ASSUME Inv, [Next]_vars PROVE Inv'
      OBVIOUS
    <2>1. TableInv'
      BY TableNext
    <2> QED
      BY <2>1, SharesNext, OneAheadNext, ExitNext
  <1> QED
    BY <1>1, <1>2, PTL DEF Spec
====
