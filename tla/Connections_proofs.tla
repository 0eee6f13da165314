------------------------ MODULE Connections_proofs ------------------------
(* Proofs for any number of parties and players, with and without TLS:     *)
(* connected players hold the two ends of one connection, and without a    *)
(* crash or a time-out no process ends during the set-up, and no parties   *)
(* wait for each other in a circle.                                        *)
EXTENDS Connections, WellFoundedInduction, TLAPS

(***************************************************************************)
(* The state of the set-up is well typed: the tables hold connections to   *)
(* their party, a player's index is one of its loop.                       *)
(***************************************************************************)
Sets == 0 .. 1
Wire == [from : Parties, player : AllPlayers, set : Sets, to : Parties]

TableType ==
  /\ arriving \subseteq Wire
  /\ DOMAIN clients = Parties
  /\ \A p \in Parties : clients[p] \subseteq {c \in Wire : c.to = p}

PlayerType ==
  /\ setup \in Setups
  /\ tpc \in [Parties -> [AllPlayers -> {"connect", "accept", "handshake", "ready"}]]
  /\ ti \in [Parties -> [AllPlayers -> Int]]
  /\ second \in [Parties -> [AllPlayers -> Sets]]
  /\ DOMAIN sockets = Parties
  /\ \A p \in Parties :
       /\ DOMAIN sockets[p] = AllPlayers
       /\ \A b \in AllPlayers :
            /\ DOMAIN sockets[p][b] = Sets
            /\ \A r \in Sets : DOMAIN sockets[p][b][r] = Parties

(* The index runs over the parties up to the own one, then from it on.     *)
IndexInv ==
  \A p \in Present, b \in Players :
    /\ tpc[p][b] = "connect" => ti[p][b] \in 0 .. p
    /\ tpc[p][b] = "accept" => ti[p][b] \in p .. Last

(* A second set is for TLS only, and the handshakes come after both.       *)
SetsInv ==
  \A p \in Present, b \in Players :
    /\ second[p][b] = 1 => setup.tls
    /\ tpc[p][b] \in {"handshake", "ready"} /\ setup.tls => second[p][b] = 1

(* Whether the player's loop has passed q in set r.                        *)
Passed(p, b, r, q) ==
  \/ r < second[p][b]
  \/ /\ r = second[p][b]
     /\ \/ q < ti[p][b] /\ tpc[p][b] \in {"connect", "accept"}
        \/ q <= p /\ tpc[p][b] = "accept"
        \/ tpc[p][b] \in {"handshake", "ready"}

(* Towards lower parties a player keeps the connection it opened, towards  *)
(* higher ones the one it was asked for; other sockets are not open.       *)
SocketInv ==
  \A p, q \in Present, b \in Players, r \in Sets :
    /\ Passed(p, b, r, q) =>
         sockets[p][b][r][q] = IF q <= p THEN Connection(p, b, r, q) ELSE Connection(q, b, r, p)
    /\ r > second[p][b] => sockets[p][b][r][q] = None

MatchInv == TableType /\ PlayerType /\ IndexInv /\ SetsInv /\ SocketInv

---------------------------------------------------------------------------
LEMMA SetupFacts ==
  ASSUME setup \in Setups
  PROVE  /\ setup.parties \in 1 .. N /\ setup.players \in Nat /\ N \in Nat
         /\ Present \subseteq Parties /\ Players \subseteq AllPlayers
         /\ Last \in Present /\ Last \in Int
         /\ \A p \in Present : p \in Int /\ 0 <= p /\ p <= Last
         /\ \A p \in Int : 0 <= p /\ p <= Last => p \in Present
         /\ 0 \in Present
         /\ setup.tls \in BOOLEAN
  <1>1. setup.parties \in 1 .. N /\ setup.players \in Nat /\ setup.tls \in BOOLEAN
    BY SetupsAssumption
  <1>2. Players \subseteq AllPlayers
    BY DEF Players, AllPlayers
  <1> QED
    BY <1>1, <1>2, SizeAssumption DEF Present, Parties, Last

(* A connection is determined by its four fields.                          *)
LEMMA WireFields ==
  ASSUME NEW c \in Wire
  PROVE  /\ c = Connection(c.from, c.player, c.set, c.to)
         /\ c.from \in Parties /\ c.player \in AllPlayers /\ c.set \in Sets /\ c.to \in Parties
  BY DEF Wire, Connection

LEMMA ConnectionWire ==
  ASSUME NEW p \in Parties, NEW b \in AllPlayers, NEW r \in Sets, NEW q \in Parties
  PROVE  /\ Connection(p, b, r, q) \in Wire
         /\ Connection(p, b, r, q).to = q
  BY DEF Wire, Connection

LEMMA MatchInit == Init => MatchInv
  <1> SUFFICES ASSUME Init PROVE MatchInv
    OBVIOUS
  <1>1. TableType
    BY DEF Init, TableType
  <1>2. PlayerType
    BY DEF Init, PlayerType, Sets
  <1>3. ASSUME NEW p \in Present, NEW b \in Players
        PROVE  /\ tpc[p][b] = "connect" /\ ti[p][b] = 0 /\ second[p][b] = 0
               /\ \A r \in Sets, q \in Present : sockets[p][b][r][q] = None
    BY SetupFacts DEF Init, Sets
  <1>4. IndexInv
    BY <1>3, <1>2, SetupFacts DEF IndexInv, PlayerType
  <1>5. SetsInv
    BY <1>3 DEF SetsInv
  <1>6. SocketInv
    BY <1>2, <1>3, SetupFacts DEF SocketInv, Passed, PlayerType, Sets
  <1> QED
    BY <1>1, <1>2, <1>4, <1>5, <1>6 DEF MatchInv

(* Steps that leave the players alone.                                     *)
LEMMA PlayersFrame ==
  ASSUME MatchInv, UNCHANGED <<setup, playerVars>>, TableType'
  PROVE  MatchInv'
  BY DEF MatchInv, playerVars, PlayerType, IndexInv, SetsInv, SocketInv, Passed, Present,
         Players, Last

(* A player's turn changes nothing of the other players.                   *)
LEMMA OtherPlayers ==
  ASSUME MatchInv, NEW p \in Present, NEW b \in Players, UNCHANGED setup,
         PlayerType', TableType',
         \A e \in Present, d \in Players :
           <<e, d>> # <<p, b>> => /\ tpc'[e][d] = tpc[e][d] /\ ti'[e][d] = ti[e][d]
                                  /\ second'[e][d] = second[e][d]
                                  /\ sockets'[e][d] = sockets[e][d],
         tpc'[p][b] = "connect" => ti'[p][b] \in 0 .. p,
         tpc'[p][b] = "accept" => ti'[p][b] \in p .. Last,
         second'[p][b] = 1 => setup.tls,
         tpc'[p][b] \in {"handshake", "ready"} /\ setup.tls => second'[p][b] = 1,
         \A q \in Present, r \in Sets :
           /\ Passed(p, b, r, q)' => sockets'[p][b][r][q] =
                IF q <= p THEN Connection(p, b, r, q) ELSE Connection(q, b, r, p)
           /\ r > second'[p][b] => sockets'[p][b][r][q] = None
  PROVE  MatchInv'
  <1> USE DEF MatchInv
  <1>1. Present' = Present /\ Players' = Players /\ Last' = Last /\ setup' = setup
    BY DEF Present, Players, Last
  <1>2. IndexInv'
    BY <1>1 DEF IndexInv
  <1>3. SetsInv'
    BY <1>1 DEF SetsInv
  <1>4. SocketInv'
    <2> SUFFICES ASSUME NEW e \in Present, NEW q \in Present, NEW d \in Players, NEW r \in Sets
                 PROVE  /\ Passed(e, d, r, q)' => sockets'[e][d][r][q] =
                             IF q <= e THEN Connection(e, d, r, q) ELSE Connection(q, d, r, e)
                        /\ r > second'[e][d] => sockets'[e][d][r][q] = None
      BY <1>1 DEF SocketInv
    <2>1. CASE <<e, d>> # <<p, b>>
      <3>1. Passed(e, d, r, q)' <=> Passed(e, d, r, q)
        BY <2>1 DEF Passed
      <3> QED
        BY <2>1, <3>1 DEF SocketInv
    <2>2. CASE <<e, d>> = <<p, b>>
      BY <2>2
    <2> QED
      BY <2>1, <2>2
  <1> QED
    BY <1>2, <1>3, <1>4

(* The effects of a player's own turn on its entries.                      *)
LEMMA GotoEffect ==
  ASSUME PlayerType, NEW p \in Parties, NEW b \in AllPlayers, NEW state, NEW i, Goto(p, b, state, i)
  PROVE  /\ tpc'[p][b] = state /\ ti'[p][b] = i
         /\ \A e \in Parties, d \in AllPlayers :
              <<e, d>> # <<p, b>> => tpc'[e][d] = tpc[e][d] /\ ti'[e][d] = ti[e][d]
         /\ state \in {"connect", "accept", "handshake", "ready"} /\ i \in Int =>
              /\ tpc' \in [Parties -> [AllPlayers -> {"connect", "accept", "handshake", "ready"}]]
              /\ ti' \in [Parties -> [AllPlayers -> Int]]
  BY DEF Goto, PlayerType

SocketsType ==
  /\ DOMAIN sockets = Parties
  /\ \A p \in Parties :
       /\ DOMAIN sockets[p] = AllPlayers
       /\ \A b \in AllPlayers :
            /\ DOMAIN sockets[p][b] = Sets
            /\ \A r \in Sets : DOMAIN sockets[p][b][r] = Parties

LEMMA SocketEffect ==
  ASSUME SocketsType, NEW p \in Parties, NEW b \in AllPlayers, NEW r \in Sets, NEW q \in Parties, NEW c,
         sockets' = [sockets EXCEPT ![p][b][r][q] = c]
  PROVE  /\ SocketsType'
         /\ sockets'[p][b][r][q] = c
         /\ \A e \in Parties, d \in AllPlayers : <<e, d>> # <<p, b>> => sockets'[e][d] = sockets[e][d]
         /\ \A f \in Sets, e \in Parties :
              <<f, e>> # <<r, q>> => sockets'[p][b][f][e] = sockets[p][b][f][e]
  BY DEF SocketsType

LEMMA ConnectStep ==
  ASSUME MatchInv, NEW p \in Parties, NEW b \in AllPlayers, Connect(p, b), p \in Present
  PROVE  MatchInv'
  <1> USE DEF MatchInv
  <1>1. /\ b \in Players /\ tpc[p][b] = "connect" /\ setup \in Setups
        /\ second[p][b] \in Sets /\ ti[p][b] \in Int
    BY DEF Connect, At, PlayerType
  <1>2. ti[p][b] \in 0 .. p /\ p \in Int /\ p <= Last /\ Last \in Int
    BY <1>1, SetupFacts DEF IndexInv
  <1> PICK q \in Present : q = ti[p][b]
    BY <1>1, <1>2, SetupFacts
  <1> PICK r \in Sets : r = second[p][b]
    BY <1>1
  <1>3. q \in Parties /\ q \in Int /\ q <= p /\ 0 <= q
    BY <1>1, <1>2, SetupFacts
  <1>4. /\ arriving' = arriving \cup {Connection(p, b, r, q)}
        /\ sockets' = [sockets EXCEPT ![p][b][r][q] = Connection(p, b, r, q)]
        /\ IF q = p THEN Goto(p, b, "accept", p) ELSE Goto(p, b, "connect", q + 1)
        /\ UNCHANGED <<setup, second, clients>>
    BY DEF Connect
  <1>5. TableType'
    BY <1>3, <1>4, ConnectionWire DEF TableType
  <1>6. /\ SocketsType'
        /\ sockets'[p][b][r][q] = Connection(p, b, r, q)
        /\ \A e \in Parties, d \in AllPlayers : <<e, d>> # <<p, b>> => sockets'[e][d] = sockets[e][d]
        /\ \A f \in Sets, e \in Parties :
              <<f, e>> # <<r, q>> => sockets'[p][b][f][e] = sockets[p][b][f][e]
    <2>1. SocketsType
      BY DEF PlayerType, SocketsType
    <2> QED
      BY <1>3, <1>4, <2>1 DEF SocketsType
  <1>7. /\ IF q = p THEN tpc'[p][b] = "accept" /\ ti'[p][b] = p
                    ELSE tpc'[p][b] = "connect" /\ ti'[p][b] = q + 1
        /\ \A e \in Parties, d \in AllPlayers :
              <<e, d>> # <<p, b>> => tpc'[e][d] = tpc[e][d] /\ ti'[e][d] = ti[e][d]
        /\ tpc' \in [Parties -> [AllPlayers -> {"connect", "accept", "handshake", "ready"}]]
        /\ ti' \in [Parties -> [AllPlayers -> Int]]
    <2>1. CASE q = p
      BY <1>2, <1>4, <2>1, GotoEffect
    <2>2. CASE q # p
      BY <1>2, <1>3, <1>4, <2>2, GotoEffect
    <2> QED
      BY <2>1, <2>2
  <1>a. \/ q = p /\ tpc'[p][b] = "accept" /\ ti'[p][b] = p
        \/ q < p /\ tpc'[p][b] = "connect" /\ ti'[p][b] = q + 1
    <2>1. q = p \/ q < p
      BY <1>2, <1>3
    <2> QED
      BY <1>7, <2>1
  <1>8. PlayerType'
    BY <1>4, <1>6, <1>7 DEF PlayerType, SocketsType
  <1>9. ASSUME NEW e \in Present, NEW f \in Sets
        PROVE  /\ Passed(p, b, f, e)' => sockets'[p][b][f][e] =
                    IF e <= p THEN Connection(p, b, f, e) ELSE Connection(e, b, f, p)
               /\ f > second'[p][b] => sockets'[p][b][f][e] = None
    <2>1. e \in Int /\ e \in Parties
      BY <1>1, SetupFacts
    <2>2. CASE f = r /\ e = q
      <3>1. sockets'[p][b][f][e] = Connection(p, b, f, e)
        BY <1>6, <2>2
      <3>2. e <= p
        BY <1>3, <2>2
      <3>3. ~(f > second'[p][b])
        BY <1>4, <2>2 DEF Sets
      <3> QED
        BY <3>1, <3>2, <3>3
    <2>3. CASE ~(f = r /\ e = q)
      <3>1. sockets'[p][b][f][e] = sockets[p][b][f][e]
        BY <1>6, <2>1, <2>3
      <3>2. Passed(p, b, f, e)' => Passed(p, b, f, e)
        <4>1. CASE f < r
          BY <4>1 DEF Passed
        <4>2. CASE f = r
          <5>1. r = second[p][b] /\ second'[p][b] = r /\ q = ti[p][b] /\ e # q
            BY <1>4, <2>3, <4>2
          <5>2. Passed(p, b, f, e)' =>
                  e < ti'[p][b] \/ (e <= p /\ tpc'[p][b] = "accept")
            BY <1>a, <4>2, <5>1 DEF Passed, Sets
          <5>3. Passed(p, b, f, e)' => e < q
            BY <1>2, <1>3, <1>a, <2>1, <5>1, <5>2
          <5> QED
            BY <1>1, <4>2, <5>1, <5>3 DEF Passed
        <4>3. CASE f > r
          BY <1>4, <4>3 DEF Passed, Sets
        <4> QED
          BY <4>1, <4>2, <4>3 DEF Sets
      <3> QED
        BY <1>1, <1>4, <3>1, <3>2 DEF SocketInv
    <2> QED
      BY <2>2, <2>3
  <1>10. /\ tpc'[p][b] = "connect" => ti'[p][b] \in 0 .. p
         /\ tpc'[p][b] = "accept" => ti'[p][b] \in p .. Last
         /\ tpc'[p][b] \in {"connect", "accept"}
    BY <1>2, <1>3, <1>a
  <1>11. second'[p][b] = 1 => setup.tls
    BY <1>1, <1>4 DEF SetsInv
  <1>12. \A e \in Present, d \in Players :
           <<e, d>> # <<p, b>> => /\ tpc'[e][d] = tpc[e][d] /\ ti'[e][d] = ti[e][d]
                                  /\ second'[e][d] = second[e][d]
                                  /\ sockets'[e][d] = sockets[e][d]
    <2>1. Present \subseteq Parties /\ Players \subseteq AllPlayers
      BY <1>1, SetupFacts
    <2>2. \A e \in Present, d \in Players :
            <<e, d>> # <<p, b>> => tpc'[e][d] = tpc[e][d] /\ ti'[e][d] = ti[e][d]
      BY <1>7, <2>1
    <2>3. \A e \in Present, d \in Players : <<e, d>> # <<p, b>> => sockets'[e][d] = sockets[e][d]
      BY <1>6, <2>1
    <2> QED
      BY <1>4, <2>2, <2>3
  <1> QED
    BY <1>1, <1>4, <1>5, <1>8, <1>9, <1>10, <1>11, <1>12, OtherPlayers

(* The table a player looks its peer's name up in holds connections to it. *)
LEMMA FoundPeer ==
  ASSUME TableType, NEW p \in Parties, NEW b \in AllPlayers, NEW c \in Found(p, b)
  PROVE  c = Connection(ti[p][b], b, second[p][b], p)
  <1>1. c \in Wire /\ c.to = p /\ NameOf(c) = Wanted(p, b)
    BY DEF TableType, Found
  <1>2. c.player = b /\ c.set = second[p][b] /\ c.from = ti[p][b]
    BY <1>1 DEF NameOf, Wanted, Name
  <1> QED
    BY <1>1, <1>2, WireFields

(* Where a player goes when it has the connection of party ti[p][b].       *)
LEMMA AcceptMoves ==
  ASSUME MatchInv, NEW p \in Present, NEW b \in AllPlayers, Accept(p, b), Wanted(p, b) \notin used[p],
         NEW q \in Present, q = ti[p][b], NEW r \in Sets, r = second[p][b]
  PROVE  /\ \/ q < Last /\ tpc'[p][b] = "accept" /\ ti'[p][b] = q + 1
            \/ q = Last /\ setup.tls /\ r = 0 /\ tpc'[p][b] = "connect" /\ ti'[p][b] = 0
            \/ q = Last /\ ~(setup.tls /\ r = 0) /\ tpc'[p][b] \in {"handshake", "ready"}
         /\ second'[p][b] = IF q = Last /\ setup.tls THEN 1 ELSE r
         /\ \A e \in Parties, d \in AllPlayers :
              <<e, d>> # <<p, b>> => /\ tpc'[e][d] = tpc[e][d] /\ ti'[e][d] = ti[e][d]
                                     /\ second'[e][d] = second[e][d]
         /\ tpc' \in [Parties -> [AllPlayers -> {"connect", "accept", "handshake", "ready"}]]
         /\ ti' \in [Parties -> [AllPlayers -> Int]]
         /\ second' \in [Parties -> [AllPlayers -> Sets]]
  <1> USE DEF MatchInv
  <1>1. setup \in Setups
    BY DEF PlayerType
  <1>b. p \in Parties /\ q \in Int /\ q <= Last
    BY <1>1, SetupFacts
  <1>c. Last \in Int
    BY <1>1, SetupFacts
  <1>3. second' = [second EXCEPT ![p][b] = IF q = Last /\ setup.tls THEN 1 ELSE r]
    BY DEF Accept
  <1>4. IF q # Last THEN Goto(p, b, "accept", q + 1)
           ELSE IF setup.tls /\ r = 0 THEN Goto(p, b, "connect", 0)
           ELSE IF setup.tls /\ Last > 0 THEN Goto(p, b, "handshake", 1)
           ELSE Goto(p, b, "ready", 0)
    BY DEF Accept
  <1>5. q = Last \/ q < Last
    BY <1>b, <1>c
  <1>6. PICK state \in {"connect", "accept", "handshake", "ready"}, i \in Int :
          /\ Goto(p, b, state, i)
          /\ \/ q < Last /\ state = "accept" /\ i = q + 1
             \/ q = Last /\ setup.tls /\ r = 0 /\ state = "connect" /\ i = 0
             \/ q = Last /\ ~(setup.tls /\ r = 0) /\ state \in {"handshake", "ready"}
    <2>1. CASE q < Last
      BY <1>b, <1>c, <1>4, <2>1
    <2>2. CASE q = Last
      BY <1>4, <2>2
    <2> QED
      BY <1>5, <2>1, <2>2
  <1>a. /\ tpc'[p][b] = state /\ ti'[p][b] = i
        /\ \A e \in Parties, d \in AllPlayers :
              <<e, d>> # <<p, b>> => tpc'[e][d] = tpc[e][d] /\ ti'[e][d] = ti[e][d]
        /\ tpc' \in [Parties -> [AllPlayers -> {"connect", "accept", "handshake", "ready"}]]
        /\ ti' \in [Parties -> [AllPlayers -> Int]]
    BY <1>b, <1>6, GotoEffect
  <1>7. /\ second'[p][b] = IF q = Last /\ setup.tls THEN 1 ELSE r
        /\ \A e \in Parties, d \in AllPlayers : <<e, d>> # <<p, b>> => second'[e][d] = second[e][d]
        /\ second' \in [Parties -> [AllPlayers -> Sets]]
    <2>1. (IF q = Last /\ setup.tls THEN 1 ELSE r) \in Sets
      BY DEF Sets
    <2> QED
      BY <1>3, <1>b, <2>1 DEF PlayerType
  <1> QED
    BY <1>6, <1>7, <1>a

LEMMA AcceptStep ==
  ASSUME MatchInv, NEW p \in Parties, NEW b \in AllPlayers, Accept(p, b), p \in Present
  PROVE  MatchInv'
  <1> USE DEF MatchInv
  <1>1. /\ b \in Players /\ tpc[p][b] = "accept" /\ setup \in Setups
        /\ second[p][b] \in Sets /\ ti[p][b] \in Int
    BY DEF Accept, At, PlayerType
  <1>2. ti[p][b] \in p .. Last /\ p \in Int /\ p <= Last /\ Last \in Int /\ 0 <= p
    BY <1>1, SetupFacts DEF IndexInv
  <1> PICK q \in Present : q = ti[p][b]
    BY <1>1, <1>2, SetupFacts
  <1> PICK r \in Sets : r = second[p][b]
    BY <1>1
  <1>3. q \in Parties /\ q \in Int /\ p <= q /\ q <= Last
    BY <1>1, <1>2, SetupFacts
  <1>4. TableType' /\ setup' = setup
    BY DEF Accept, TableType
  <1>5. CASE Wanted(p, b) \in used[p]
    <2>1. UNCHANGED playerVars
      BY <1>5 DEF Accept
    <2> QED
      BY <1>4, <2>1, PlayersFrame
  <1>6. CASE Wanted(p, b) \notin used[p]
    <2>1. PICK c \in Found(p, b) : sockets' = [sockets EXCEPT ![p][b][r][q] = c]
      BY <1>6 DEF Accept
    <2>2. c = Connection(q, b, r, p)
      BY <2>1, FoundPeer
    <2>5. /\ \/ q < Last /\ tpc'[p][b] = "accept" /\ ti'[p][b] = q + 1
             \/ q = Last /\ setup.tls /\ r = 0 /\ tpc'[p][b] = "connect" /\ ti'[p][b] = 0
             \/ q = Last /\ ~(setup.tls /\ r = 0) /\ tpc'[p][b] \in {"handshake", "ready"}
          /\ second'[p][b] = IF q = Last /\ setup.tls THEN 1 ELSE r
          /\ \A e \in Parties, d \in AllPlayers :
               <<e, d>> # <<p, b>> => /\ tpc'[e][d] = tpc[e][d] /\ ti'[e][d] = ti[e][d]
                                      /\ second'[e][d] = second[e][d]
          /\ tpc' \in [Parties -> [AllPlayers -> {"connect", "accept", "handshake", "ready"}]]
          /\ ti' \in [Parties -> [AllPlayers -> Int]]
          /\ second' \in [Parties -> [AllPlayers -> Sets]]
      BY <1>6, AcceptMoves
    <2>a. \/ q < Last /\ tpc'[p][b] = "accept" /\ ti'[p][b] = q + 1
          \/ q = Last /\ setup.tls /\ r = 0 /\ tpc'[p][b] = "connect" /\ ti'[p][b] = 0
          \/ q = Last /\ ~(setup.tls /\ r = 0) /\ tpc'[p][b] \in {"handshake", "ready"}
      BY <2>5
    <2>6. /\ SocketsType'
          /\ sockets'[p][b][r][q] = c
          /\ \A e \in Parties, d \in AllPlayers : <<e, d>> # <<p, b>> => sockets'[e][d] = sockets[e][d]
          /\ \A f \in Sets, e \in Parties :
                <<f, e>> # <<r, q>> => sockets'[p][b][f][e] = sockets[p][b][f][e]
      <3>1. SocketsType
        BY DEF PlayerType, SocketsType
      <3> QED
        BY <1>3, <2>1, <3>1 DEF SocketsType
    <2>b. r = second[p][b] /\ q = ti[p][b] /\ r \in 0 .. 1
          /\ second'[p][b] = IF q = Last /\ setup.tls THEN 1 ELSE r
      BY <2>5 DEF Sets
    <2>c. second'[p][b] >= r /\ second'[p][b] \in 0 .. 1
      BY <2>b
    <2>8. PlayerType'
      BY <1>4, <2>5, <2>6 DEF PlayerType, SocketsType
    <2>9. ASSUME NEW e \in Present, NEW f \in Sets
          PROVE  /\ Passed(p, b, f, e)' => sockets'[p][b][f][e] =
                      IF e <= p THEN Connection(p, b, f, e) ELSE Connection(e, b, f, p)
                 /\ f > second'[p][b] => sockets'[p][b][f][e] = None
      <3>1. e \in Int /\ e \in Parties /\ e <= Last
        BY <1>1, SetupFacts
      <3>2. f \in 0 .. 1
        BY DEF Sets
      <3>3. CASE f = r /\ e = q
        <4>1. sockets'[p][b][f][e] = Connection(q, b, r, p)
          BY <2>2, <2>6, <3>3
        <4>2. sockets'[p][b][f][e] = IF e <= p THEN Connection(p, b, f, e) ELSE Connection(e, b, f, p)
          <5>1. e = p \/ e > p
            BY <1>2, <1>3, <3>1, <3>3
          <5> QED
            BY <1>2, <3>1, <3>3, <4>1, <5>1
        <4>3. ~(f > second'[p][b])
          BY <2>b, <2>c, <3>3
        <4> QED
          BY <4>2, <4>3
      <3>4. CASE ~(f = r /\ e = q)
        <4>1. sockets'[p][b][f][e] = sockets[p][b][f][e]
          BY <2>6, <3>1, <3>4
        <4>2. Passed(p, b, f, e)' => Passed(p, b, f, e)
          <5>1. CASE f < r
            BY <5>1 DEF Passed
          <5>2. CASE f = r
            <6>1. e # q /\ f = second[p][b] /\ tpc[p][b] = "accept"
              BY <1>1, <2>b, <3>4, <5>2
            <6>2. CASE q < Last
              <7>1. second'[p][b] = r /\ tpc'[p][b] = "accept" /\ ti'[p][b] = q + 1
                BY <2>a, <2>b, <6>2, <1>3
              <7>2. Passed(p, b, f, e)' => e < q + 1 \/ e <= p
                BY <2>b, <5>2, <7>1 DEF Passed
              <7>3. Passed(p, b, f, e)' => e < q \/ e <= p
                BY <1>2, <1>3, <3>1, <6>1, <7>2
              <7> QED
                BY <2>b, <6>1, <7>3 DEF Passed
            <6>3. CASE q = Last
              <7>1. e < q
                BY <1>3, <3>1, <6>1, <6>3
              <7> QED
                BY <2>b, <6>1, <7>1 DEF Passed
            <6> QED
              BY <2>a, <6>2, <6>3
          <5>3. CASE f > r
            <6>1. f = 1 /\ r = 0
              BY <2>b, <3>2, <5>3
            <6>2. CASE second'[p][b] = 0
              BY <6>1, <6>2 DEF Passed
            <6>3. CASE second'[p][b] = 1
              <7>1. tpc'[p][b] = "connect" /\ ti'[p][b] = 0
                BY <1>3, <2>a, <2>b, <6>1, <6>3
              <7> QED
                BY <3>1, <6>1, <6>3, <7>1, SetupFacts, <1>1 DEF Passed
            <6> QED
              BY <2>c, <6>2, <6>3
          <5> QED
            BY <2>b, <3>2, <5>1, <5>2, <5>3
        <4>3. f > second'[p][b] => f > second[p][b]
          BY <2>b, <2>c, <3>2
        <4> QED
          BY <1>1, <4>1, <4>2, <4>3 DEF SocketInv
      <3> QED
        BY <3>3, <3>4
    <2>10. /\ tpc'[p][b] = "connect" => ti'[p][b] \in 0 .. p
           /\ tpc'[p][b] = "accept" => ti'[p][b] \in p .. Last
      BY <1>2, <1>3, <2>a
    <2>11. /\ second'[p][b] = 1 => setup.tls
           /\ tpc'[p][b] \in {"handshake", "ready"} /\ setup.tls => second'[p][b] = 1
      BY <1>1, <2>a, <2>b DEF SetsInv
    <2>12. \A e \in Present, d \in Players :
             <<e, d>> # <<p, b>> => /\ tpc'[e][d] = tpc[e][d] /\ ti'[e][d] = ti[e][d]
                                    /\ second'[e][d] = second[e][d]
                                    /\ sockets'[e][d] = sockets[e][d]
      BY <1>1, <2>5, <2>6, SetupFacts
    <2> QED
      BY <1>1, <1>4, <2>8, <2>9, <2>10, <2>11, <2>12, OtherPlayers
  <1> QED
    BY <1>5, <1>6

(* The handshakes move two players that have passed all sockets.           *)
LEMMA HandshakeStep ==
  ASSUME MatchInv, NEW p \in Parties, NEW q \in Parties, NEW b \in AllPlayers, Handshake(p, q, b)
  PROVE  MatchInv'
  <1> USE DEF MatchInv
  <1>1. /\ p # q /\ tpc[p][b] = "handshake" /\ tpc[q][b] = "handshake"
        /\ tpc' = [tpc EXCEPT ![p][b] = Shaken(p, b), ![q][b] = Shaken(q, b)]
        /\ ti' = [ti EXCEPT ![p][b] = @ + 1, ![q][b] = @ + 1]
        /\ UNCHANGED <<setup, second, sockets>>
    BY DEF Handshake, Meeting, At, Parties
  <1>2. Shaken(p, b) \in {"ready", "handshake"} /\ Shaken(q, b) \in {"ready", "handshake"}
    BY DEF Shaken
  <1>3. TableType'
    BY DEF Handshake, Meeting, tableVars, TableType
  <1>4. tpc' \in [Parties -> [AllPlayers -> {"connect", "accept", "handshake", "ready"}]]
    BY <1>1, <1>2 DEF PlayerType
  <1>5. ti' \in [Parties -> [AllPlayers -> Int]]
    <2>1. ti[p][b] + 1 \in Int /\ ti[q][b] + 1 \in Int
      BY DEF PlayerType
    <2>2. ti' = [ti EXCEPT ![p][b] = ti[p][b] + 1, ![q][b] = ti[q][b] + 1]
      BY <1>1 DEF PlayerType
    <2> QED
      BY <2>1, <2>2 DEF PlayerType
  <1>6. PlayerType'
    <2>1. setup' \in Setups /\ second' \in [Parties -> [AllPlayers -> Sets]]
      BY <1>1 DEF PlayerType
    <2>2. SocketsType'
      BY <1>1 DEF PlayerType, SocketsType
    <2> QED
      BY <1>4, <1>5, <2>1, <2>2 DEF PlayerType, SocketsType
  <1>7. ASSUME NEW e \in Parties, NEW d \in AllPlayers
        PROVE  \/ tpc'[e][d] = tpc[e][d] /\ ti'[e][d] = ti[e][d]
               \/ tpc[e][d] = "handshake" /\ tpc'[e][d] \in {"handshake", "ready"}
    BY <1>1, <1>2 DEF PlayerType
  <1>8. /\ Present' = Present /\ Players' = Players /\ Last' = Last
        /\ Present \subseteq Parties /\ Players \subseteq AllPlayers
    BY <1>1, SetupFacts DEF PlayerType, Present, Players, Last
  <1>9. IndexInv'
    BY <1>7, <1>8 DEF IndexInv
  <1>10. SetsInv'
    <2>1. ASSUME NEW e \in Present, NEW d \in Players
          PROVE  /\ second'[e][d] = 1 => setup'.tls
                 /\ tpc'[e][d] \in {"handshake", "ready"} /\ setup'.tls => second'[e][d] = 1
      <3>1. \/ tpc'[e][d] = tpc[e][d]
            \/ tpc[e][d] = "handshake"
        BY <1>7, <1>8
      <3> QED
        BY <1>1, <3>1 DEF SetsInv
    <2> QED
      BY <1>8, <2>1 DEF SetsInv
  <1>11. SocketInv'
    <2>1. ASSUME NEW e \in Present, NEW f \in Present, NEW d \in Players, NEW r \in Sets,
                 Passed(e, d, r, f)'
          PROVE  Passed(e, d, r, f)
      <3>1. \/ tpc'[e][d] = tpc[e][d] /\ ti'[e][d] = ti[e][d]
            \/ tpc[e][d] = "handshake" /\ tpc'[e][d] \in {"handshake", "ready"}
        BY <1>7, <1>8
      <3> QED
        BY <1>1, <2>1, <3>1 DEF Passed
    <2> QED
      BY <1>1, <1>8, <2>1 DEF SocketInv
  <1> QED
    BY <1>3, <1>6, <1>9, <1>10, <1>11

(***************************************************************************)
(* The main threads: parties that do not take part do nothing.             *)
(***************************************************************************)
HereInv ==
  /\ ppc \in [Parties -> {"absent", "start", "reported", "up", "gone"}]
  /\ \A p \in Parties : p \in Present <=> ppc[p] # "absent"

(* What a step other than those of a player's loop changes.                *)
LEMMA QuietSteps ==
  ASSUME TableType, Next,
         ~\E p \in Parties, b \in AllPlayers :
            Connect(p, b) \/ Accept(p, b) \/ \E q \in Parties : Handshake(p, q, b)
  PROVE  UNCHANGED <<setup, playerVars, used>> /\ TableType'
  <1>1. CASE Server
    BY <1>1 DEF Server, ServerListen, ServerAccept, ServerNames, ServerSend, ServerFails,
                tableVars, serverVars, TableType
  <1>2. ASSUME NEW p \in Parties, SetupNames(p)
        PROVE  UNCHANGED <<setup, playerVars, used>> /\ TableType'
    BY <1>2 DEF SetupNames, ReportTo, GetNames, NamesFail, tableVars, TableType
  <1>3. ASSUME NEW p \in Parties, ProcessConnection(p)
        PROVE  UNCHANGED <<setup, playerVars, used>> /\ TableType'
    <2>1. PICK c \in arriving :
            /\ c.to = p /\ arriving' = arriving \ {c}
            /\ clients' = [clients EXCEPT ![p] = {d \in @ : NameOf(d) # NameOf(c)} \cup {c}]
      BY <1>3 DEF ProcessConnection
    <2>2. \A e \in Parties : clients'[e] \subseteq clients[e] \cup {d \in Wire : d = c /\ d.to = e}
      BY <2>1 DEF TableType
    <2>3. TableType'
      BY <2>1, <2>2 DEF TableType
    <2> QED
      BY <1>3, <2>3 DEF ProcessConnection
  <1>4. ASSUME NEW p \in Parties, AcceptFails(p) \/ Crash(p)
        PROVE  UNCHANGED <<setup, playerVars, used>> /\ TableType'
    BY <1>4 DEF AcceptFails, Crash, tableVars, TableType
  <1>5. ASSUME NEW p \in Parties, NEW b \in AllPlayers, Player(p, b)
        PROVE  UNCHANGED <<setup, playerVars, used>> /\ TableType'
    BY <1>5 DEF Player, GiveUp, tableVars, TableType
  <1>6. CASE LoseConnection \/ Done
    BY <1>6 DEF LoseConnection, Done, vars, tableVars, playerVars, TableType
  <1> QED
    BY <1>1, <1>2, <1>3, <1>4, <1>5, <1>6 DEF Next

LEMMA SetupFixed ==
  ASSUME Next
  PROVE  UNCHANGED setup
  <1>1. CASE Server
    BY <1>1 DEF Server, ServerListen, ServerAccept, ServerNames, ServerSend, ServerFails
  <1>2. ASSUME NEW p \in Parties,
               SetupNames(p) \/ ProcessConnection(p) \/ AcceptFails(p) \/ Crash(p)
        PROVE  UNCHANGED setup
    BY <1>2 DEF SetupNames, ReportTo, GetNames, NamesFail, ProcessConnection, AcceptFails, Crash
  <1>3. ASSUME NEW p \in Parties, NEW b \in AllPlayers, Player(p, b)
        PROVE  UNCHANGED setup
    BY <1>3 DEF Player, Connect, Accept, GiveUp, Handshake
  <1>4. CASE LoseConnection \/ Done
    BY <1>4 DEF LoseConnection, Done, vars
  <1> QED
    BY <1>1, <1>2, <1>3, <1>4 DEF Next

(* The peer of a handshake is a party.                                     *)
LEMMA PeerPresent ==
  ASSUME setup \in Setups, NEW p \in Int, NEW j \in Int
  PROVE  Peer(p, j) \in Present
  <1>1. setup.parties \in Nat /\ setup.parties >= 1
    BY SetupFacts
  <1>2. \A k \in Int : Modulo(k) \in Present
    <2>1. \A x \in Int : x % setup.parties \in 0 .. setup.parties - 1
      BY <1>1
    <2> QED
      BY <1>1, <2>1 DEF Modulo, Present
  <1>3. (j + 1) \div 2 \in Int
    OBVIOUS
  <1> QED
    BY <1>2, <1>3 DEF Peer

(* Who leaves, and why: nobody without a fault but after somebody else, or *)
(* on a name asked for twice.                                              *)
LEMMA MainThreads ==
  ASSUME MatchInv, HereInv, Next
  PROVE  /\ HereInv'
         /\ \A p \in Parties : Gone(p)' =>
              \/ setup.faults
              \/ \E q \in Parties : Gone(q)
              \/ Gone(p)
              \/ \E b \in AllPlayers : Accept(p, b) /\ Wanted(p, b) \in used[p]
  <1> DEFINE Reason(p) == \/ setup.faults
                          \/ \E q \in Parties : Gone(q)
                          \/ \E b \in AllPlayers : Accept(p, b) /\ Wanted(p, b) \in used[p]
             Leaves(p) == ppc[p] # "absent" /\ ppc' = [ppc EXCEPT ![p] = "gone"] /\ Reason(p)
             Moves(p) == /\ ppc[p] # "absent"
                         /\ \E t \in {"reported", "up"} : ppc' = [ppc EXCEPT ![p] = t]
  <1>0. 0 \in Parties /\ ppc[0] # "absent" /\ Present \subseteq Parties
    BY SetupFacts DEF MatchInv, PlayerType, HereInv
  <1>1. \/ UNCHANGED ppc
        \/ \E p \in Parties : Leaves(p) \/ Moves(p)
    <2>1. CASE Server
      <3>1. CASE ServerFails
        <4>1. ppc' = [ppc EXCEPT ![0] = "gone"] /\ (setup.faults \/ \E q \in Parties : Gone(q))
          BY <1>0, <3>1 DEF ServerFails, Leave
        <4> QED
          BY <1>0, <4>1
      <3> QED
        BY <2>1, <3>1 DEF Server, ServerListen, ServerAccept, ServerNames, ServerSend
    <2>2. ASSUME NEW p \in Parties, SetupNames(p)
          PROVE  Leaves(p) \/ Moves(p)
      <3>1. CASE ReportTo(p) \/ GetNames(p)
        BY <3>1 DEF ReportTo, GetNames
      <3>2. CASE NamesFail(p)
        <4>1. ppc' = [ppc EXCEPT ![p] = "gone"] /\ ppc[p] # "absent"
          BY <3>2 DEF NamesFail, Leave
        <4>2. setup.faults \/ Gone(0)
          BY <3>2 DEF NamesFail
        <4> QED
          BY <1>0, <4>1, <4>2
      <3> QED
        BY <2>2, <3>1, <3>2 DEF SetupNames
    <2>3. ASSUME NEW p \in Parties, ProcessConnection(p)
          PROVE  UNCHANGED ppc
      BY <2>3 DEF ProcessConnection
    <2>4. ASSUME NEW p \in Parties, Crash(p)
          PROVE  Leaves(p)
      BY <2>4 DEF Crash, Leave, HereInv
    <2>5. ASSUME NEW p \in Parties, NEW b \in AllPlayers, Player(p, b)
          PROVE  UNCHANGED ppc \/ Leaves(p)
      <3>1. CASE Connect(p, b) \/ \E q \in Parties : Handshake(p, q, b)
        BY <3>1 DEF Connect, Handshake, Meeting
      <3>2. CASE Accept(p, b)
        <4>1. \/ UNCHANGED ppc
              \/ Wanted(p, b) \in used[p] /\ ppc' = [ppc EXCEPT ![p] = "gone"]
          BY <3>2 DEF Accept, Leave
        <4>2. ppc[p] # "absent"
          BY <3>2 DEF Accept, At
        <4> QED
          BY <3>2, <4>1, <4>2
      <3>3. CASE GiveUp(p, b)
        <4>1. ppc' = [ppc EXCEPT ![p] = "gone"] /\ ppc[p] = "up"
          BY <3>3 DEF GiveUp, Leave, At
        <4>2. setup.faults \/ Gone(Peer(p, ti[p][b]))
          BY <3>3 DEF GiveUp
        <4>3. Peer(p, ti[p][b]) \in Parties
          <5>1. ti[p][b] \in Int /\ p \in Int /\ setup \in Setups
            BY DEF MatchInv, PlayerType, Parties
          <5> QED
            BY <1>0, <5>1, PeerPresent
        <4> QED
          BY <4>1, <4>2, <4>3
      <3> QED
        BY <2>5, <3>1, <3>2, <3>3 DEF Player
    <2>6. CASE LoseConnection \/ Done
      BY <2>6 DEF LoseConnection, Done, vars
    <2>7. ASSUME NEW p \in Parties, AcceptFails(p)
          PROVE  Leaves(p)
      <3>1. /\ ppc[p] # "absent" /\ ppc' = [ppc EXCEPT ![p] = "gone"]
            /\ \E c \in arriving : Gone(c.from)
        BY <2>7, <1>0 DEF AcceptFails, Leave, Listening
      <3>2. \A c \in arriving : c.from \in Parties
        BY WireFields DEF MatchInv, TableType
      <3> QED
        BY <3>1, <3>2
    <2> QED
      BY <2>1, <2>2, <2>3, <2>4, <2>5, <2>6, <2>7 DEF Next
  <1>2. Present' = Present
    BY SetupFixed DEF Present
  <1>3. CASE UNCHANGED ppc
    BY <1>2, <1>3 DEF HereInv, Gone
  <1>4. ASSUME NEW p \in Parties, Leaves(p) \/ Moves(p)
        PROVE  /\ HereInv'
               /\ \A e \in Parties : Gone(e)' => Gone(e) \/ (e = p /\ Reason(p))
    <2>1. PICK t \in {"reported", "up", "gone"} : ppc' = [ppc EXCEPT ![p] = t] /\ (t = "gone" => Reason(p))
      BY <1>4
    <2> QED
      BY <1>2, <1>4, <2>1 DEF HereInv, Gone
  <1> QED
    BY <1>1, <1>3, <1>4

(***************************************************************************)
(* A name is asked for once.                                               *)
(***************************************************************************)
Asked(p, b, r, q) ==
  \/ r < second[p][b]
  \/ /\ r = second[p][b]
     /\ \/ q < ti[p][b] /\ tpc[p][b] = "accept"
        \/ tpc[p][b] \in {"handshake", "ready"}

UsedInv ==
  /\ DOMAIN used = Parties
  /\ \A p, q \in Present, b \in Players, r \in Sets : <<b, r, q>> \in used[p] => Asked(p, b, r, q)

NoFault == ~setup.faults => \A p \in Parties : ~Gone(p)

ExitInv == MatchInv /\ HereInv /\ UsedInv /\ NoFault

LEMMA MatchNext == MatchInv /\ HereInv /\ [Next]_vars => MatchInv'
  <1> SUFFICES ASSUME MatchInv, HereInv, [Next]_vars PROVE MatchInv'
    OBVIOUS
  <1>1. CASE UNCHANGED vars
    <2>1. UNCHANGED <<setup, playerVars>> /\ TableType'
      BY <1>1 DEF vars, tableVars, MatchInv, TableType
    <2> QED
      BY <2>1, PlayersFrame
  <1>2. CASE Next
    <2>1. ASSUME NEW p \in Parties, NEW b \in AllPlayers, Connect(p, b) PROVE MatchInv'
      <3>1. p \in Present
        BY <2>1 DEF Connect, At, HereInv
      <3> QED
        BY <2>1, <3>1, ConnectStep
    <2>2. ASSUME NEW p \in Parties, NEW b \in AllPlayers, Accept(p, b) PROVE MatchInv'
      <3>1. p \in Present
        BY <2>2 DEF Accept, At, HereInv
      <3> QED
        BY <2>2, <3>1, AcceptStep
    <2>3. ASSUME NEW p \in Parties, NEW b \in AllPlayers, NEW q \in Parties, Handshake(p, q, b)
          PROVE  MatchInv'
      BY <2>3, HandshakeStep
    <2>4. ASSUME ~\E p \in Parties, b \in AllPlayers :
                    Connect(p, b) \/ Accept(p, b) \/ \E q \in Parties : Handshake(p, q, b)
          PROVE  MatchInv'
      <3>1. UNCHANGED <<setup, playerVars, used>> /\ TableType'
        BY <1>2, <2>4, QuietSteps DEF MatchInv
      <3> QED
        BY <3>1, PlayersFrame
    <2> QED
      BY <2>1, <2>2, <2>3, <2>4
  <1> QED
    BY <1>1, <1>2

LEMMA UsedNext == MatchInv /\ HereInv /\ UsedInv /\ [Next]_vars => UsedInv'
  <1> SUFFICES ASSUME MatchInv, HereInv, UsedInv, [Next]_vars PROVE UsedInv'
    OBVIOUS
  <1>1. UNCHANGED <<setup, Present, Players>>
    BY SetupFixed DEF vars, Present, Players
  <1>2. CASE UNCHANGED <<playerVars, used>>
    BY <1>1, <1>2 DEF UsedInv, Asked, playerVars
  <1> SUFFICES ASSUME Next, ~UNCHANGED <<playerVars, used>> PROVE UsedInv'
    BY <1>2 DEF vars, tableVars
  <1>3. PICK p \in Parties, b \in AllPlayers :
          Connect(p, b) \/ Accept(p, b) \/ \E q \in Parties : Handshake(p, q, b)
    BY QuietSteps DEF MatchInv
  <1>4. p \in Present /\ b \in Players /\ setup \in Setups /\ second[p][b] \in Sets /\ ti[p][b] \in Int
    BY <1>3 DEF Connect, Accept, Handshake, Meeting, At, HereInv, MatchInv, PlayerType
  <1> DEFINE Kept(e, d) == tpc'[e][d] = tpc[e][d] /\ ti'[e][d] = ti[e][d] /\ second'[e][d] = second[e][d]
  <1>5. ASSUME NEW e \in Present, NEW q \in Present, NEW d \in Players, NEW r \in Sets,
               <<d, r, q>> \in used[e], Asked(e, d, r, q) /\ Kept(e, d)
        PROVE  Asked(e, d, r, q)'
    BY <1>5 DEF Asked
  <1>a. Present \subseteq Parties /\ Players \subseteq AllPlayers
    BY <1>4, SetupFacts
  <1>6. CASE Connect(p, b)
    <2>1. /\ UNCHANGED <<second, used>> /\ tpc[p][b] = "connect"
          /\ \A e \in Parties, d \in AllPlayers : <<e, d>> # <<p, b>> => Kept(e, d)
      <3>1. /\ UNCHANGED <<second, used>> /\ tpc[p][b] = "connect"
            /\ \E state, i : Goto(p, b, state, i)
        BY <1>6 DEF Connect, At
      <3> QED
        BY <3>1, GotoEffect DEF MatchInv
    <2>2. ASSUME NEW e \in Present, NEW q \in Present, NEW d \in Players, NEW r \in Sets,
                 <<d, r, q>> \in used[e]
          PROVE  Asked(e, d, r, q)'
      <3>1. Asked(e, d, r, q)
        BY <2>2 DEF UsedInv
      <3>2. CASE <<e, d>> = <<p, b>>
        BY <2>1, <3>1, <3>2 DEF Asked
      <3>3. CASE <<e, d>> # <<p, b>>
        BY <1>5, <1>a, <2>1, <2>2, <3>1, <3>3
      <3> QED
        BY <3>2, <3>3
    <2> QED
      BY <1>1, <2>1, <2>2 DEF UsedInv
  <1>7. CASE Accept(p, b)
    <2>1. Wanted(p, b) \notin used[p]
      BY <1>7 DEF Accept, playerVars
    <2>2. used' = [used EXCEPT ![p] = @ \cup {Wanted(p, b)}] /\ tpc[p][b] = "accept"
      BY <1>7, <2>1 DEF Accept, At
    <2>3. ti[p][b] \in p .. Last
      BY <1>4, <2>2 DEF MatchInv, IndexInv
    <2> PICK t \in Present : t = ti[p][b]
      BY <1>4, <2>3, SetupFacts
    <2> PICK s \in Sets : s = second[p][b]
      BY <1>4
    <2>4. /\ \/ t < Last /\ tpc'[p][b] = "accept" /\ ti'[p][b] = t + 1
             \/ t = Last /\ setup.tls /\ s = 0 /\ tpc'[p][b] = "connect" /\ ti'[p][b] = 0
             \/ t = Last /\ ~(setup.tls /\ s = 0) /\ tpc'[p][b] \in {"handshake", "ready"}
          /\ second'[p][b] = IF t = Last /\ setup.tls THEN 1 ELSE s
      BY <1>4, <1>7, <1>a, <2>1, AcceptMoves
    <2>5. \A e \in Present, d \in Players : <<e, d>> # <<p, b>> => Kept(e, d)
      BY <1>4, <1>7, <1>a, <2>1, AcceptMoves
    <2>6. ASSUME NEW q \in Present, NEW r \in Sets, Asked(p, b, r, q) \/ (r = s /\ q = t)
          PROVE  Asked(p, b, r, q)'
      <3>1. q \in Int /\ t \in Int /\ s \in 0 .. 1 /\ r \in 0 .. 1
        BY <1>4, SetupFacts DEF Sets
      <3>2. r < s \/ (r = s /\ q <= t)
        BY <2>2, <2>6, <3>1 DEF Asked
      <3>3. second'[p][b] >= s /\ second'[p][b] \in 0 .. 1
        BY <2>4, <3>1
      <3>4. CASE r < second'[p][b]
        BY <3>4 DEF Asked
      <3>5. CASE r = s /\ second'[p][b] = s /\ q <= t
        <4>1. \/ tpc'[p][b] = "accept" /\ ti'[p][b] = t + 1
              \/ tpc'[p][b] \in {"handshake", "ready"}
          BY <2>4, <3>1, <3>5
        <4>2. q < t + 1
          BY <3>1, <3>5
        <4> QED
          BY <3>5, <4>1, <4>2 DEF Asked
      <3> QED
        BY <3>1, <3>2, <3>3, <3>4, <3>5
    <2>7. ASSUME NEW e \in Present, NEW q \in Present, NEW d \in Players, NEW r \in Sets,
                 <<d, r, q>> \in used'[e]
          PROVE  Asked(e, d, r, q)'
      <3>1. <<d, r, q>> \in used[e] \/ (e = p /\ d = b /\ r = s /\ q = t)
        BY <1>a, <2>2, <2>7 DEF UsedInv, Wanted, Name
      <3>2. CASE <<e, d>> = <<p, b>>
        <4>1. Asked(p, b, r, q) \/ (r = s /\ q = t)
          BY <3>1, <3>2 DEF UsedInv
        <4> QED
          BY <2>6, <3>2, <4>1
      <3>3. CASE <<e, d>> # <<p, b>>
        <4>1. <<d, r, q>> \in used[e] /\ Kept(e, d)
          BY <2>5, <3>1, <3>3
        <4>2. Asked(e, d, r, q)
          BY <4>1 DEF UsedInv
        <4> QED
          BY <1>5, <4>1, <4>2
      <3> QED
        BY <3>2, <3>3
    <2>8. DOMAIN used' = Parties
      BY <2>2 DEF UsedInv
    <2> QED
      BY <1>1, <2>7, <2>8 DEF UsedInv
  <1>8. ASSUME NEW q \in Parties, Handshake(p, q, b) PROVE UsedInv'
    <2>1. /\ tpc[p][b] = "handshake" /\ tpc[q][b] = "handshake"
          /\ tpc' = [tpc EXCEPT ![p][b] = Shaken(p, b), ![q][b] = Shaken(q, b)]
          /\ ti' = [ti EXCEPT ![p][b] = @ + 1, ![q][b] = @ + 1]
          /\ UNCHANGED <<second, used>>
      BY <1>8 DEF Handshake, Meeting, At, tableVars
    <2>2. Shaken(p, b) \in {"ready", "handshake"} /\ Shaken(q, b) \in {"ready", "handshake"}
      BY DEF Shaken
    <2>3. ASSUME NEW e \in Parties, NEW d \in AllPlayers
          PROVE  \/ Kept(e, d)
                 \/ tpc[e][d] = "handshake" /\ tpc'[e][d] \in {"handshake", "ready"}
      <3>1. CASE d = b /\ e \in {p, q}
        BY <2>1, <2>2, <3>1 DEF MatchInv, PlayerType
      <3>2. CASE ~(d = b /\ e \in {p, q})
        BY <2>1, <3>2 DEF MatchInv, PlayerType
      <3> QED
        BY <3>1, <3>2
    <2>4. ASSUME NEW e \in Present, NEW f \in Present, NEW d \in Players, NEW r \in Sets,
                 <<d, r, f>> \in used[e]
          PROVE  Asked(e, d, r, f)'
      <3>1. Asked(e, d, r, f)
        BY <2>4 DEF UsedInv
      <3>2. \/ Kept(e, d)
            \/ tpc[e][d] = "handshake" /\ tpc'[e][d] \in {"handshake", "ready"}
        BY <1>a, <2>3
      <3>3. CASE Kept(e, d)
        BY <1>5, <2>4, <3>1, <3>3
      <3>4. CASE tpc[e][d] = "handshake" /\ tpc'[e][d] \in {"handshake", "ready"}
        BY <2>1, <3>1, <3>4 DEF Asked
      <3> QED
        BY <3>2, <3>3, <3>4
    <2> QED
      BY <1>1, <2>1, <2>4 DEF UsedInv
  <1> QED
    BY <1>3, <1>6, <1>7, <1>8

(* No name is asked for that was asked for before.                         *)
LEMMA WantedUnused ==
  ASSUME ExitInv, NEW p \in Parties, NEW b \in AllPlayers, At(p, b, "accept")
  PROVE  /\ p \in Present /\ b \in Players /\ setup \in Setups /\ second[p][b] \in Sets
         /\ ti[p][b] \in p .. Last /\ ti[p][b] \in Present
         /\ Wanted(p, b) \notin used[p]
  <1>1. /\ p \in Present /\ b \in Players /\ tpc[p][b] = "accept" /\ setup \in Setups
        /\ second[p][b] \in Sets /\ ti[p][b] \in p .. Last
    BY DEF At, ExitInv, HereInv, MatchInv, IndexInv, PlayerType
  <1>2. ti[p][b] \in Present /\ ti[p][b] \in Int
    BY <1>1, SetupFacts
  <1>3. ~Asked(p, b, second[p][b], ti[p][b])
    BY <1>1, <1>2 DEF Asked, Sets
  <1> QED
    BY <1>1, <1>2, <1>3 DEF ExitInv, UsedInv, Wanted, Name

LEMMA NoFaultNext == ExitInv /\ [Next]_vars => NoFault'
  <1> SUFFICES ASSUME ExitInv, [Next]_vars PROVE NoFault'
    OBVIOUS
  <1>1. CASE UNCHANGED vars
    BY <1>1 DEF vars, ExitInv, NoFault, Gone
  <1>2. CASE Next
    <2>1. ASSUME NEW p \in Parties, NEW b \in AllPlayers, Accept(p, b)
          PROVE  Wanted(p, b) \notin used[p]
      BY <2>1, WantedUnused DEF Accept
    <2> QED
      BY <1>2, <2>1, MainThreads, SetupFixed DEF ExitInv, NoFault
  <1> QED
    BY <1>1, <1>2

LEMMA ExitNext == ExitInv /\ [Next]_vars => ExitInv'
  <1>1. HereInv /\ UNCHANGED vars => HereInv'
    BY DEF vars, HereInv, Present
  <1> QED
    BY <1>1, MatchNext, UsedNext, NoFaultNext, MainThreads DEF ExitInv

LEMMA ExitInit == Init => ExitInv
  <1> SUFFICES ASSUME Init PROVE ExitInv
    OBVIOUS
  <1>1. MatchInv
    BY MatchInit
  <1>2. HereInv
    <2>1. Present \subseteq Parties
      BY SetupFacts DEF Init
    <2> QED
      BY <2>1 DEF Init, HereInv
  <1>3. UsedInv
    <2>1. Present \subseteq Parties
      BY SetupFacts DEF Init
    <2> QED
      BY <2>1 DEF Init, UsedInv
  <1>4. NoFault
    BY DEF Init, NoFault, Gone
  <1> QED
    BY <1>1, <1>2, <1>3, <1>4 DEF ExitInv

(* Two players that are through agree on the connection between them.      *)
LEMMA MatchImplies == MatchInv => MatchedEnds
  <1> SUFFICES ASSUME MatchInv, NEW p \in Present, NEW q \in Present, NEW b \in Players, NEW r \in Sets,
                      tpc[p][b] = "ready", tpc[q][b] = "ready"
               PROVE  /\ sockets[p][b][r][q] = sockets[q][b][r][p]
                      /\ (r = 0 \/ setup.tls) => {sockets[p][b][r][q]} \subseteq
                           {Connection(p, b, r, q), Connection(q, b, r, p)}
    BY DEF MatchedEnds, Sets
  <1>1. /\ p \in Int /\ q \in Int /\ b \in AllPlayers /\ p \in Parties /\ q \in Parties
        /\ second[p][b] \in Sets /\ second[q][b] \in Sets
        /\ setup \in Setups
    BY SetupFacts DEF MatchInv, PlayerType
  <1>2. /\ second[p][b] = 1 <=> setup.tls
        /\ second[q][b] = 1 <=> setup.tls
    BY DEF MatchInv, SetsInv
  <1>3. CASE r = 0 \/ setup.tls
    <2>1. r <= second[p][b] /\ r <= second[q][b]
      BY <1>1, <1>2, <1>3 DEF Sets
    <2>2. Passed(p, b, r, q) /\ Passed(q, b, r, p)
      BY <1>1, <2>1 DEF Passed, Sets
    <2> QED
      BY <1>1, <2>2 DEF MatchInv, SocketInv
  <1>4. CASE ~(r = 0 \/ setup.tls)
    <2>1. r > second[p][b] /\ r > second[q][b]
      BY <1>1, <1>2, <1>4 DEF Sets
    <2> QED
      BY <1>4, <2>1 DEF MatchInv, SocketInv
  <1> QED
    BY <1>3, <1>4

(* Two players that are connected hold the two ends of one connection, of  *)
(* their own id and set, in whatever order the parties start, the names    *)
(* are processed and the connections are asked for (setup_sockets).        *)
THEOREM EndsMatch == Spec => []MatchedEnds
  <1>1. Spec => []ExitInv
    BY ExitInit, ExitNext, PTL DEF Spec
  <1>2. ExitInv => MatchedEnds
    BY MatchImplies DEF ExitInv
  <1> QED
    BY <1>1, <1>2, PTL

(* Without a crash and a time-out no process ends during the set-up: no    *)
(* name is asked for twice, and the server finds every party.              *)
THEOREM SetupWithoutExit == Spec => []NoExitWithoutFault
  <1>1. Spec => []ExitInv
    BY ExitInit, ExitNext, PTL DEF Spec
  <1>2. ExitInv => NoExitWithoutFault
    BY SetupFacts DEF ExitInv, MatchInv, PlayerType, NoFault, NoExitWithoutFault
  <1> QED
    BY <1>1, <1>2, PTL

---------------------------------------------------------------------------
(* Who waits for whom: the invariant.                                      *)

(* What the server and the main threads know of each other.                *)
ServerInv ==
  /\ spc \in {"off", "accept", "names", "send", "closed"}
  /\ si \in Present /\ (spc = "names" => si = 0)
  /\ \A p \in Present :
       /\ ppc[p] \in {"reported", "up"} => p \in reported
       /\ spc = "closed" \/ (spc = "send" /\ p < si) => p \in named

(* A connection that was opened arrives or is in the table.                *)
AskInv ==
  ~setup.faults =>
    \A p, q \in Present, b \in Players, r \in Sets :
      p <= q /\ Passed(q, b, r, p) => Connection(q, b, r, p) \in arriving \cup clients[p]

(* Both sides of a handshake know whether it is over.                      *)
Shook(p, b, j) == tpc[p][b] = "ready" \/ (tpc[p][b] = "handshake" /\ j < ti[p][b])
ShakeInv ==
  \A p \in Present, b \in Players :
    /\ tpc[p][b] = "handshake" => setup.tls /\ ti[p][b] \in 1 .. Last
    /\ setup.tls => \A q \in Present, j, k \in 1 .. Last :
         Peer(p, j) = q /\ Peer(q, k) = p => (Shook(p, b, j) <=> Shook(q, b, k))

StuckInv == ServerInv /\ AskInv /\ ShakeInv

---------------------------------------------------------------------------
(* The order of the handshakes: the neighbours of a party at an offset.    *)
Up(p, d) == IF p + d < setup.parties THEN p + d ELSE p + d - setup.parties
Down(p, d) == IF p < d THEN p - d + setup.parties ELSE p - d
Below(p, d) == p % (2 * d) < d
Offset(j) == (j + 1) \div 2

(* Division with remainder.                                                *)
LEMMA Remainder ==
  ASSUME NEW n \in Nat \ {0}, NEW c \in Int, NEW r \in 0 .. n - 1, NEW e, e = c * n + r
  PROVE  e % n = r
  OBVIOUS

LEMMA Division ==
  ASSUME NEW n \in Nat \ {0}, NEW e \in Int
  PROVE  e \div n \in Int /\ e % n \in 0 .. n - 1 /\ e = (e \div n) * n + (e % n)
  OBVIOUS

(* Parties d apart take turns in who begins, the first d wait for the      *)
(* neighbour below.                                                        *)
LEMMA BelowAlternates ==
  ASSUME NEW x \in Nat, NEW d \in Nat \ {0}
  PROVE  /\ Below(x + d, d) <=> ~Below(x, d)
         /\ x < d => Below(x, d)
  <1> DEFINE n == 2 * d
             c == x \div n
             r == x % n
  <1>1. n \in Nat \ {0} /\ n = d + d
    OBVIOUS
  <1>2. c \in Int /\ r \in 0 .. n - 1 /\ x = c * n + r
    <2> HIDE DEF n
    <2>1. x \in Int /\ n \in Nat \ {0}
      BY <1>1
    <2> QED
      BY <2>1, Division, Zenon
  <1> HIDE DEF c, r
  <1>3. x < d => x % n = x
    <2>1. x < d => x \in 0 .. n - 1 /\ x = 0 * n + x
      BY <1>1
    <2> HIDE DEF n
    <2> QED
      BY <1>1, <2>1, Remainder
  <1>4. CASE r < d
    <2>1. r + d \in 0 .. n - 1 /\ x + d = c * n + (r + d)
      BY <1>1, <1>2, <1>4
    <2> HIDE DEF n
    <2>2. (x + d) % n = r + d /\ x % n = r
      BY <1>1, <1>2, <2>1, Remainder
    <2>3. ~(r + d < d)
      BY <1>2
    <2> QED
      BY <1>3, <1>4, <2>2, <2>3 DEF Below, n
  <1>5. CASE ~(r < d)
    <2>1. r - d \in 0 .. n - 1 /\ x + d = (c + 1) * n + (r - d) /\ c + 1 \in Int
      BY <1>1, <1>2, <1>5
    <2> HIDE DEF n
    <2>2. (x + d) % n = r - d
      <3> DEFINE e == c + 1
                 f == r - d
      <3>1. e \in Int /\ f \in 0 .. n - 1 /\ x + d = e * n + f
        BY <2>1
      <3> HIDE DEF e, f
      <3>2. \A g : g = e * n + f => g % n = f
        BY <1>1, <3>1, Remainder, Zenon
      <3> QED
        BY <3>1, <3>2, Zenon DEF f
    <2>a. x % n = r
      BY <1>1, <1>2, Remainder
    <2>3. r - d < d
      BY <1>1, <1>2
    <2> QED
      BY <1>3, <1>5, <2>2, <2>a, <2>3 DEF Below, n
  <1> QED
    BY <1>4, <1>5

(* What get_player makes of them.                                          *)
LEMMA Neighbours ==
  ASSUME setup \in Setups, NEW p \in Present, NEW d \in 1 .. Last
  PROVE  /\ Modulo(p + d) = Up(p, d) /\ Modulo(p - d) = Down(p, d)
         /\ Up(p, d) \in Present /\ Down(p, d) \in Present
  <1> DEFINE n == setup.parties
  <1>1. n \in Nat \ {0} /\ p \in 0 .. n - 1 /\ d \in 1 .. n - 1
    BY SetupFacts DEF Present, Last
  <1> HIDE DEF n
  <1>2. (p + d + n) % n = IF p + d < n THEN p + d ELSE p + d - n
    <2>1. CASE p + d < n
      <3>1. p + d + n = 1 * n + (p + d) /\ p + d \in 0 .. n - 1
        BY <1>1, <2>1
      <3> QED
        BY <1>1, <2>1, <3>1, Remainder
    <2>2. CASE ~(p + d < n)
      <3>1. p + d + n = 2 * n + (p + d - n) /\ p + d - n \in 0 .. n - 1
        BY <1>1, <2>2
      <3> QED
        BY <1>1, <2>2, <3>1, Remainder
    <2> QED
      BY <2>1, <2>2
  <1>3. (p - d + n) % n = IF p < d THEN p - d + n ELSE p - d
    <2>1. CASE p < d
      <3>1. p - d + n = 0 * n + (p - d + n) /\ p - d + n \in 0 .. n - 1
        BY <1>1, <2>1
      <3> QED
        BY <1>1, <2>1, <3>1, Remainder
    <2>2. CASE ~(p < d)
      <3>1. p - d + n = 1 * n + (p - d) /\ p - d \in 0 .. n - 1
        BY <1>1, <2>2
      <3> QED
        BY <1>1, <2>2, <3>1, Remainder
    <2> QED
      BY <2>1, <2>2
  <1>4. Up(p, d) \in 0 .. n - 1 /\ Down(p, d) \in 0 .. n - 1
    BY <1>1 DEF Up, Down, n
  <1> QED
    BY <1>2, <1>3, <1>4 DEF Modulo, Up, Down, Present, n

(* The two turns at an offset.                                             *)
LEMMA Turns ==
  ASSUME setup \in Setups, NEW p \in Present, NEW d \in 1 .. Last
  PROVE  /\ Peer(p, 2 * d - 1) = IF Below(p, d) THEN Down(p, d) ELSE Up(p, d)
         /\ Peer(p, 2 * d) = IF Below(p, d) THEN Up(p, d) ELSE Down(p, d)
  <1>0. d \in Nat \ {0}
    OBVIOUS
  <1>1. /\ (2 * d - 1 + 1) \div 2 = d /\ (2 * d + 1) \div 2 = d
        /\ (2 * d - 1) % 2 = 1 /\ (2 * d) % 2 = 0
    BY <1>0
  <1>2. Modulo(p + d) = Up(p, d) /\ Modulo(p - d) = Down(p, d)
    BY Neighbours
  <1>3. (1 = 1) = Below(p, d) <=> Below(p, d)
    BY DEF Below
  <1>4. Peer(p, 2 * d - 1) = IF (1 = 1) = Below(p, d) THEN Modulo(p - d) ELSE Modulo(p + d)
    BY <1>1 DEF Peer, Below
  <1>5. Peer(p, 2 * d) = IF (0 = 1) = Below(p, d) THEN Modulo(p - d) ELSE Modulo(p + d)
    BY <1>1 DEF Peer, Below
  <1>6. Below(p, d) \in BOOLEAN
    BY DEF Below
  <1> QED
    BY <1>2, <1>4, <1>5, <1>6

(* Every turn is one of the two at its offset.                             *)
LEMMA OffsetFacts ==
  ASSUME setup \in Setups, NEW j \in 1 .. Last, NEW d, d = Offset(j)
  PROVE  d \in 1 .. Last /\ (j = 2 * d - 1 \/ j = 2 * d)
  <1>1. Last \in Int
    BY SetupFacts
  <1>2. d = (j + 1) \div 2
    BY DEF Offset
  <1> QED
    BY <1>1, <1>2

(* Up and Down are inverse, and different but for the last offset.         *)
LEMMA UpDown ==
  ASSUME setup \in Setups, NEW p \in Present, NEW q \in Present, NEW d \in 1 .. Last
  PROVE  /\ q = Up(p, d) <=> p = Down(q, d)
         /\ 2 * d <= Last => Up(p, d) # Down(p, d)
         /\ 2 * d = setup.parties => Up(p, d) = Down(p, d)
  <1> DEFINE n == setup.parties
  <1>1. n \in Nat \ {0} /\ p \in 0 .. n - 1 /\ q \in 0 .. n - 1 /\ d \in 1 .. n - 1 /\ Last = n - 1
    BY SetupFacts DEF Present, Last
  <1>2. Up(p, d) = IF p + d < n THEN p + d ELSE p + d - n
    BY DEF Up
  <1>3. Down(p, d) = (IF p < d THEN p - d + n ELSE p - d)
    BY DEF Down
  <1>4. Down(q, d) = (IF q < d THEN q - d + n ELSE q - d)
    BY DEF Down
  <1> HIDE DEF n
  <1>5. q = Up(p, d) <=> p = Down(q, d)
    <2>1. CASE p + d < n
      BY <1>1, <1>2, <1>4, <2>1
    <2>2. CASE ~(p + d < n)
      BY <1>1, <1>2, <1>4, <2>2
    <2> QED
      BY <2>1, <2>2
  <1>6. 2 * d <= Last => Up(p, d) # Down(p, d)
    BY <1>1, <1>2, <1>3
  <1>7. 2 * d = n => Up(p, d) = Down(p, d)
    BY <1>1, <1>2, <1>3
  <1> QED
    BY <1>5, <1>6, <1>7 DEF n

(* In the order of a party every other one has one turn.                   *)
LEMMA PeerOnce ==
  ASSUME setup \in Setups, NEW p \in Present, NEW j \in 1 .. Last, NEW k \in 1 .. Last,
         Peer(p, j) = Peer(p, k)
  PROVE  j = k
  <1> DEFINE d == Offset(j)
             e == Offset(k)
             n == setup.parties
             u == IF Below(p, d) THEN Down(p, d) ELSE Up(p, d)
             v == IF Below(p, d) THEN Up(p, d) ELSE Down(p, d)
             s == IF Below(p, e) THEN Down(p, e) ELSE Up(p, e)
             t == IF Below(p, e) THEN Up(p, e) ELSE Down(p, e)
  <1>1. d \in 1 .. Last /\ (j = 2 * d - 1 \/ j = 2 * d) /\ e \in 1 .. Last /\ (k = 2 * e - 1 \/ k = 2 * e)
    BY OffsetFacts
  <1>2. n \in Nat \ {0} /\ p \in 0 .. n - 1 /\ Last = n - 1
    BY SetupFacts DEF Present, Last
  <1> HIDE DEF d, e
  <1>3. Peer(p, j) = IF j = 2 * d - 1 THEN u ELSE v
    BY <1>1, Turns
  <1>4. Peer(p, k) = IF k = 2 * e - 1 THEN s ELSE t
    BY <1>1, Turns
  <1>5. d = e
    <2>1. Up(p, d) # Up(p, e) \/ d = e
      BY <1>1, <1>2 DEF Up
    <2>2. Down(p, d) # Down(p, e) \/ d = e
      BY <1>1, <1>2 DEF Down
    <2>3. ASSUME d # e PROVE d + e < n
      BY <1>1, <1>2, <2>3
    <2>4. Up(p, d) # Down(p, e) \/ d = e
      BY <1>1, <1>2, <2>3 DEF Up, Down
    <2>5. Down(p, d) # Up(p, e) \/ d = e
      BY <1>1, <1>2, <2>3 DEF Up, Down
    <2> QED
      BY <1>3, <1>4, <2>1, <2>2, <2>4, <2>5
  <1>6. 2 * d <= Last => Up(p, d) # Down(p, d)
    BY <1>1, UpDown
  <1>7. j # k => u = v /\ 2 * d <= Last
    <2>1. s = u /\ t = v
      BY <1>5
    <2> HIDE DEF s, t, u, v
    <2>2. j # k => {j, k} = {2 * d - 1, 2 * d} /\ 2 * d <= Last
      BY <1>1, <1>2, <1>5
    <2> QED
      BY <1>1, <1>3, <1>4, <1>5, <2>1, <2>2
  <1> QED
    BY <1>6, <1>7

(* Nobody shakes hands with itself.                                        *)
LEMMA PeerOther ==
  ASSUME setup \in Setups, NEW p \in Present, NEW j \in 1 .. Last
  PROVE  Peer(p, j) # p /\ Peer(p, j) \in Present
  <1> DEFINE d == Offset(j)
             n == setup.parties
  <1>1. d \in 1 .. Last /\ (j = 2 * d - 1 \/ j = 2 * d)
    BY OffsetFacts
  <1>2. n \in Nat \ {0} /\ p \in 0 .. n - 1 /\ Last = n - 1
    BY SetupFacts DEF Present, Last
  <1> HIDE DEF d
  <1>3. Peer(p, j) \in {Up(p, d), Down(p, d)}
    BY <1>1, Turns
  <1>4. Up(p, d) # p /\ Down(p, d) # p
    BY <1>1, <1>2 DEF Up, Down
  <1>5. Up(p, d) \in Present /\ Down(p, d) \in Present
    BY <1>1, Neighbours
  <1> QED
    BY <1>3, <1>4, <1>5

(* And both have theirs at the same offset.                                *)
LEMMA PeerBack ==
  ASSUME setup \in Setups, NEW p \in Present, NEW d \in 1 .. Last, NEW j \in 1 .. Last,
         j = 2 * d - 1 \/ j = 2 * d, NEW q, q = Peer(p, j)
  PROVE  q \in Present /\ \E k \in 1 .. Last : (k = 2 * d - 1 \/ k = 2 * d) /\ Peer(q, k) = p
  <1> DEFINE n == setup.parties
  <1>1. n \in Nat \ {0} /\ p \in 0 .. n - 1 /\ Last = n - 1 /\ Present = 0 .. n - 1
    BY SetupFacts DEF Present, Last
  <1>2. q \in Present /\ q \in {Up(p, d), Down(p, d)}
    BY PeerOther, Turns
  <1>3. /\ q = Up(p, d) => Down(q, d) = p
        /\ q = Down(p, d) => Up(q, d) = p
    BY <1>2, UpDown
  <1>4. {Peer(q, 2 * d - 1), Peer(q, 2 * d)} = {Up(q, d), Down(q, d)}
    BY <1>2, Turns
  <1>5. 2 * d - 1 \in 1 .. Last
    BY <1>1
  <1>6. CASE 2 * d <= Last
    <2>1. 2 * d \in 1 .. Last
      BY <1>1, <1>6
    <2>2. p \in {Peer(q, 2 * d - 1), Peer(q, 2 * d)}
      BY <1>2, <1>3, <1>4
    <2> QED
      BY <1>2, <1>5, <2>1, <2>2
  <1>7. CASE ~(2 * d <= Last)
    <2>1. n = 2 * d
      BY <1>1, <1>5, <1>7
    <2>2. Up(q, d) = Down(q, d)
      BY <1>2, <2>1, UpDown
    <2>3. Peer(q, 2 * d - 1) = p
      BY <1>2, <1>3, <2>2, Turns
    <2> QED
      BY <1>2, <1>5, <2>3
  <1> QED
    BY <1>6, <1>7

(* Three parties never wait for each other in a row: each of them for its  *)
(* first neighbour, which waits for another one first.                     *)
LEMMA NoCircle ==
  ASSUME setup \in Setups, NEW d \in 1 .. Last, 2 * d <= Last,
         NEW x \in Present, NEW y \in Present, NEW z \in Present,
         Peer(x, 2 * d - 1) = y, Peer(y, 2 * d) = x,
         Peer(y, 2 * d - 1) = z, Peer(z, 2 * d) = y
  PROVE  FALSE
  <1> DEFINE n == setup.parties
  <1>1. n \in Nat \ {0} /\ Last = n - 1 /\ Present = 0 .. n - 1
    BY SetupFacts DEF Present, Last
  <1>2. \A p \in Present : /\ Below(p, d) => Peer(p, 2 * d - 1) = Down(p, d) /\ Peer(p, 2 * d) = Up(p, d)
                           /\ ~Below(p, d) => Peer(p, 2 * d - 1) = Up(p, d) /\ Peer(p, 2 * d) = Down(p, d)
    BY Turns
  <1>3. \A p \in Present : p \in Nat /\ (p < d => Below(p, d))
    BY <1>1, BelowAlternates
  <1>4. ASSUME NEW p \in Present, NEW q \in Present, q = p + d
        PROVE  Below(q, d) <=> ~Below(p, d)
    <2>1. p \in Nat /\ d \in Nat \ {0}
      BY <1>1
    <2>2. Below(p + d, d) <=> ~Below(p, d)
      BY <2>1, BelowAlternates
    <2> QED
      BY <1>4, <2>2
  <1>5. \A p, q \in Present : q = Up(p, d) <=> p = Down(q, d)
    BY UpDown
  <1>6. \A p \in Present : Up(p, d) # Down(p, d)
    BY UpDown
  <1>a. ASSUME NEW p \in Present, NEW q \in Present
        PROVE  /\ q = Up(p, d) => q = p + d \/ q < d
               /\ q = Down(p, d) => p = q + d \/ (p < d /\ q + d = p + n)
    <2>1. Up(p, d) = IF p + d < n THEN p + d ELSE p + d - n
      BY DEF Up
    <2>2. Down(p, d) = (IF p < d THEN p - d + n ELSE p - d)
      BY DEF Down
    <2>3. p \in 0 .. n - 1 /\ q \in 0 .. n - 1
      BY <1>1
    <2> HIDE DEF n
    <2> QED
      BY <1>1, <2>1, <2>2, <2>3
  <1>7. CASE ~Below(x, d)
    <2>1. y = Up(x, d) /\ ~Below(y, d)
      BY <1>2, <1>5, <1>6, <1>7
    <2>2. y = x + d \/ y < d
      BY <1>a, <2>1
    <2> QED
      BY <1>3, <1>4, <1>7, <2>1, <2>2
  <1>8. CASE Below(x, d)
    <2>1. y = Down(x, d) /\ Below(y, d)
      BY <1>2, <1>5, <1>6, <1>8
    <2>2. z = Down(y, d) /\ Below(z, d)
      BY <1>2, <1>5, <1>6, <2>1
    <2>3. x = y + d \/ y = z + d
      <3>1. x \in Int /\ y \in Int /\ n \in Int
        BY <1>1
      <3>2. y + d = x + n /\ y < d => FALSE
        BY <1>1
      <3> QED
        BY <1>a, <2>1, <2>2, <3>2
    <2> QED
      BY <1>4, <1>8, <2>1, <2>2, <2>3
  <1> QED
    BY <1>7, <1>8

(* Two parties that have the same turn meet.                               *)
LEMMA TurnsMeet ==
  ASSUME setup \in Setups, NEW x \in Present, NEW y \in Present, NEW b \in Players, x # y,
         ppc[x] = "up", ppc[y] = "up", tpc[x][b] = "handshake", tpc[y][b] = "handshake",
         Peer(x, ti[x][b]) = y, Peer(y, ti[y][b]) = x
  PROVE  \E p, q \in Present : Meeting(p, q, b)
  <1>1. x < y \/ y < x
    BY SetupFacts
  <1> QED
    BY <1>1 DEF Meeting, At

(* Of all parties in handshakes some two can go on: at the least offset,   *)
(* one that waits in vain waits for a party at its first turn.             *)
LEMMA SomeoneShakes ==
  ASSUME MatchInv, ShakeInv, setup.tls, NEW b \in Players,
         \A p \in Present : ppc[p] = "up" /\ tpc[p][b] \in {"handshake", "ready"},
         \E p \in Present : tpc[p][b] = "handshake"
  PROVE  \E p, q \in Present : Meeting(p, q, b)
  <1> SUFFICES ASSUME ~\E p, q \in Present : Meeting(p, q, b) PROVE FALSE
    OBVIOUS
  <1> DEFINE Waits(p) == tpc[p][b] = "handshake"
             S == {d \in Nat : \E p \in Present : Waits(p) /\ d = Offset(ti[p][b])}
  <1>1. setup \in Setups /\ Last \in Int
    BY SetupFacts DEF MatchInv, PlayerType
  <1>2. \A p \in Present : Waits(p) => ti[p][b] \in 1 .. Last
    BY DEF ShakeInv
  <1>3. \A p \in Present : Waits(p) =>
          /\ Offset(ti[p][b]) \in 1 .. Last /\ Offset(ti[p][b]) \in S
          /\ ti[p][b] = 2 * Offset(ti[p][b]) - 1 \/ ti[p][b] = 2 * Offset(ti[p][b])
    BY <1>1, <1>2, OffsetFacts
  <1>4. S \subseteq Nat /\ S # {}
    BY <1>3
  <1>5. PICK d \in S : \A e \in S : ~(<<e, d>> \in OpToRel(<, Nat))
    <2> HIDE DEF S
    <2> QED
      BY <1>4, NatLessThanWellFounded, WFMin
  <1>6. \A e \in S : d <= e
    <2> HIDE DEF S
    <2>1. d \in Nat /\ \A e \in S : e \in Nat /\ ~(<<e, d>> \in OpToRel(<, Nat))
      BY <1>4, <1>5
    <2>2. \A e \in S : ~(e < d)
      BY <2>1 DEF OpToRel
    <2>3. ASSUME NEW e \in S PROVE d <= e
      <3>1. d \in Nat /\ e \in Nat
        BY <2>1, Zenon
      <3>2. ~(e < d)
        BY <2>2, Zenon
      <3> QED
        BY <3>1, <3>2
    <2> QED
      BY <2>3
  <1>7. PICK v \in Present : Waits(v) /\ d = Offset(ti[v][b])
    BY <1>5
  <1>8. d \in 1 .. Last /\ (ti[v][b] = 2 * d - 1 \/ ti[v][b] = 2 * d)
    BY <1>3, <1>7
  <1> HIDE DEF S
  <1>9. ASSUME NEW x \in Present, Waits(x), ti[x][b] = 2 * d - 1 \/ ti[x][b] = 2 * d,
               NEW y, y = Peer(x, ti[x][b])
        PROVE  /\ y \in Present /\ Waits(y) /\ ti[y][b] = 2 * d - 1
               /\ 2 * d <= Last /\ Peer(y, 2 * d) = x
    <2> DEFINE j == ti[x][b]
    <2>1. j \in 1 .. Last
      BY <1>2, <1>9
    <2>2. PICK k \in 1 .. Last : (k = 2 * d - 1 \/ k = 2 * d) /\ Peer(y, k) = x
      BY <1>1, <1>8, <1>9, <2>1, PeerBack
    <2>3. y \in Present /\ y # x
      BY <1>1, <1>9, <2>1, PeerOther
    <2>4. ~Shook(x, b, j)
      BY <1>9, <2>1 DEF Shook
    <2>5. ~Shook(y, b, k)
      BY <1>9, <2>1, <2>2, <2>3, <2>4 DEF ShakeInv
    <2>6. Waits(y) /\ ti[y][b] <= k
      <3>1. tpc[y][b] = "handshake"
        BY <2>3, <2>5 DEF Shook
      <3>2. ti[y][b] \in 1 .. Last /\ ~(k < ti[y][b])
        BY <1>2, <2>3, <2>5, <3>1 DEF Shook
      <3> QED
        BY <1>1, <3>1, <3>2
    <2>7. ti[y][b] # k
      BY <1>1, <1>9, <2>2, <2>3, <2>6, TurnsMeet
    <2>8. 2 * d - 1 <= ti[y][b]
      <3>1. d <= Offset(ti[y][b])
        BY <1>3, <1>6, <2>3, <2>6
      <3> QED
        BY <1>3, <1>8, <2>3, <2>6, <3>1
    <2>9. ti[y][b] \in Int
      BY <1>2, <2>3, <2>6
    <2>10. k = 2 * d /\ ti[y][b] = 2 * d - 1
      BY <1>8, <2>2, <2>6, <2>7, <2>8, <2>9
    <2> QED
      BY <1>1, <2>2, <2>3, <2>6, <2>10
  <1> DEFINE w == Peer(v, ti[v][b])
             x == Peer(w, 2 * d - 1)
             y == Peer(x, 2 * d - 1)
  <1>10. w \in Present /\ Waits(w) /\ ti[w][b] = 2 * d - 1 /\ 2 * d <= Last
    BY <1>7, <1>8, <1>9
  <1>11. x \in Present /\ Waits(x) /\ ti[x][b] = 2 * d - 1 /\ Peer(x, 2 * d) = w
    BY <1>9, <1>10
  <1>12. y \in Present /\ Peer(y, 2 * d) = x
    BY <1>9, <1>11
  <1> QED
    BY <1>1, <1>8, <1>10, <1>11, <1>12, NoCircle

---------------------------------------------------------------------------
(* Steps that are none of a handshake.                                     *)
LEMMA ShookSame ==
  ASSUME ShakeInv, UNCHANGED setup,
         \A p \in Present, b \in Players :
           /\ tpc'[p][b] = "handshake" => setup.tls /\ ti'[p][b] \in 1 .. Last
           /\ \A j \in 1 .. Last : setup.tls => (Shook(p, b, j)' <=> Shook(p, b, j))
  PROVE  ShakeInv'
  <1>1. Present' = Present /\ Players' = Players /\ Last' = Last
    BY DEF Present, Players, Last
  <1>2. \A p, j : Peer(p, j)' = Peer(p, j)
    BY DEF Peer, Modulo
  <1> QED
    BY <1>1, <1>2 DEF ShakeInv

(* A player begins with its first peer when all connections are there.     *)
LEMMA ShakeAccept ==
  ASSUME ExitInv, ShakeInv, NEW p \in Parties, NEW b \in AllPlayers, Accept(p, b)
  PROVE  ShakeInv'
  <1>1. /\ p \in Present /\ b \in Players /\ setup \in Setups /\ second[p][b] \in Sets
        /\ ti[p][b] \in Present /\ Wanted(p, b) \notin used[p] /\ tpc[p][b] = "accept"
    BY WantedUnused DEF Accept, At
  <1>2. \A e \in Parties, d \in AllPlayers :
          <<e, d>> # <<p, b>> => tpc'[e][d] = tpc[e][d] /\ ti'[e][d] = ti[e][d]
    BY <1>1, AcceptMoves DEF ExitInv
  <1>3. setup' = setup /\ Last \in Int /\ Present \subseteq Parties /\ Players \subseteq AllPlayers
    BY <1>1, SetupFacts DEF Accept
  <1>4. \/ tpc'[p][b] \in {"accept", "connect"}
        \/ tpc'[p][b] = "handshake" /\ ti'[p][b] = 1 /\ setup.tls /\ Last > 0
        \/ tpc'[p][b] = "ready" /\ ~(setup.tls /\ Last > 0)
    <2>1. \E i : \/ Goto(p, b, "accept", i)
                 \/ Goto(p, b, "connect", i)
                 \/ Goto(p, b, "handshake", 1) /\ setup.tls /\ Last > 0
                 \/ Goto(p, b, "ready", i) /\ ~(setup.tls /\ Last > 0)
      BY <1>1 DEF Accept
    <2>2. PlayerType
      BY DEF ExitInv, MatchInv
    <2> QED
      BY <2>1, <2>2, GotoEffect
  <1>5. ASSUME NEW e \in Present, NEW d \in Players
        PROVE  /\ tpc'[e][d] = "handshake" => setup.tls /\ ti'[e][d] \in 1 .. Last
               /\ \A j \in 1 .. Last : setup.tls => (Shook(e, d, j)' <=> Shook(e, d, j))
    <2>1. CASE <<e, d>> = <<p, b>>
      BY <1>1, <1>3, <1>4, <2>1 DEF Shook
    <2>2. CASE <<e, d>> # <<p, b>>
      BY <1>2, <1>3, <2>2 DEF Shook, ShakeInv
    <2> QED
      BY <2>1, <2>2
  <1> QED
    BY <1>3, <1>5, ShookSame

(* Both sides go on to their next peer.                                    *)
LEMMA ShakeHandshake ==
  ASSUME ExitInv, ShakeInv, NEW p \in Parties, NEW q \in Parties, NEW b \in AllPlayers,
         Handshake(p, q, b)
  PROVE  ShakeInv'
  <1> DEFINE i == ti[p][b]
             k == ti[q][b]
  <1>1. /\ p \in Present /\ q \in Present /\ b \in Players /\ p # q /\ setup' = setup
        /\ tpc[p][b] = "handshake" /\ tpc[q][b] = "handshake"
        /\ Peer(p, i) = q /\ Peer(q, k) = p
    BY DEF Handshake, Meeting, At, ExitInv, HereInv, Parties
  <1>2. /\ tpc' = [tpc EXCEPT ![p][b] = Shaken(p, b), ![q][b] = Shaken(q, b)]
        /\ ti' = [ti EXCEPT ![p][b] = @ + 1, ![q][b] = @ + 1]
    BY DEF Handshake
  <1>3. PlayerType /\ setup \in Setups /\ Last \in Int /\ Present \subseteq Parties /\ Players \subseteq AllPlayers
    BY SetupFacts DEF ExitInv, MatchInv, PlayerType
  <1>4. /\ tpc'[p][b] = Shaken(p, b) /\ ti'[p][b] = i + 1
        /\ tpc'[q][b] = Shaken(q, b) /\ ti'[q][b] = k + 1
        /\ \A e \in Parties, d \in AllPlayers :
             <<e, d>> # <<p, b>> /\ <<e, d>> # <<q, b>> => tpc'[e][d] = tpc[e][d] /\ ti'[e][d] = ti[e][d]
    BY <1>1, <1>2, <1>3 DEF PlayerType
  <1>5. setup.tls /\ i \in 1 .. Last /\ k \in 1 .. Last
    BY <1>1 DEF ShakeInv
  <1> DEFINE Now(e, d, j) == d = b /\ ((e = p /\ j = i) \/ (e = q /\ j = k))
  <1>6. ASSUME NEW e \in Present, NEW d \in Players
        PROVE  /\ tpc'[e][d] = "handshake" => setup.tls /\ ti'[e][d] \in 1 .. Last
               /\ \A j \in 1 .. Last : Shook(e, d, j)' <=> Shook(e, d, j) \/ Now(e, d, j)
    <2>1. CASE d = b /\ e = p
      <3>1. \/ i = Last /\ tpc'[e][d] = "ready"
            \/ i # Last /\ tpc'[e][d] = "handshake" /\ ti'[e][d] = i + 1
        BY <1>4, <2>1 DEF Shaken
      <3> QED
        BY <1>1, <1>3, <1>5, <2>1, <3>1 DEF Shook
    <2>2. CASE d = b /\ e = q
      <3>1. \/ k = Last /\ tpc'[e][d] = "ready"
            \/ k # Last /\ tpc'[e][d] = "handshake" /\ ti'[e][d] = k + 1
        BY <1>4, <2>2 DEF Shaken
      <3> QED
        BY <1>1, <1>3, <1>5, <2>2, <3>1 DEF Shook
    <2>3. CASE ~(d = b /\ e \in {p, q})
      <3>1. tpc'[e][d] = tpc[e][d] /\ ti'[e][d] = ti[e][d]
        BY <1>3, <1>4, <2>3
      <3> QED
        BY <2>3, <3>1 DEF Shook, ShakeInv
    <2> QED
      BY <2>1, <2>2, <2>3
  <1>7. ASSUME NEW e \in Present, NEW f \in Present, NEW d \in Players,
               NEW j \in 1 .. Last, NEW l \in 1 .. Last, Peer(e, j) = f, Peer(f, l) = e, Now(e, d, j)
        PROVE  Now(f, d, l)
    <2>1. CASE e = p /\ j = i
      <3>1. f = q /\ l = k
        BY <1>1, <1>3, <1>5, <1>7, <2>1, PeerOnce
      <3> QED
        BY <1>7, <3>1
    <2>2. CASE e = q /\ j = k
      <3>1. f = p /\ l = i
        BY <1>1, <1>3, <1>5, <1>7, <2>2, PeerOnce
      <3> QED
        BY <1>7, <3>1
    <2> QED
      BY <1>7, <2>1, <2>2
  <1> HIDE DEF Now
  <1>8. Present' = Present /\ Players' = Players /\ Last' = Last
    BY <1>1 DEF Present, Players, Last
  <1>9. \A e, j : Peer(e, j)' = Peer(e, j)
    BY <1>1 DEF Peer, Modulo
  <1>10. ASSUME NEW e \in Present, NEW f \in Present, NEW d \in Players,
                NEW j \in 1 .. Last, NEW l \in 1 .. Last, Peer(e, j) = f, Peer(f, l) = e
         PROVE  Shook(e, d, j)' <=> Shook(f, d, l)'
    <2>1. Shook(e, d, j) <=> Shook(f, d, l)
      BY <1>5, <1>10 DEF ShakeInv
    <2>2. Now(e, d, j) <=> Now(f, d, l)
      BY <1>7, <1>10
    <2> QED
      BY <1>6, <2>1, <2>2
  <1> QED
    BY <1>1, <1>6, <1>8, <1>9, <1>10 DEF ShakeInv

LEMMA ShakeNext == ExitInv /\ ShakeInv /\ [Next]_vars => ShakeInv'
  <1> SUFFICES ASSUME ExitInv, ShakeInv, [Next]_vars PROVE ShakeInv'
    OBVIOUS
  <1>0. TableType /\ setup \in Setups /\ Present \subseteq Parties /\ Players \subseteq AllPlayers
    BY SetupFacts DEF ExitInv, MatchInv, PlayerType
  <1>1. CASE UNCHANGED <<setup, playerVars>>
    BY <1>1, ShookSame DEF playerVars, Shook, ShakeInv
  <1>2. ASSUME NEW p \in Parties, NEW b \in AllPlayers, Connect(p, b) PROVE ShakeInv'
    <2>1. UNCHANGED setup /\ tpc[p][b] = "connect" /\ PlayerType
      BY <1>2 DEF Connect, At, ExitInv, MatchInv
    <2>2. \E i : Goto(p, b, "accept", i) \/ Goto(p, b, "connect", i)
      BY <1>2 DEF Connect
    <2>3. /\ tpc'[p][b] \in {"accept", "connect"}
          /\ \A e \in Parties, d \in AllPlayers :
               <<e, d>> # <<p, b>> => tpc'[e][d] = tpc[e][d] /\ ti'[e][d] = ti[e][d]
      BY <2>1, <2>2, GotoEffect
    <2>4. ASSUME NEW e \in Present, NEW d \in Players
          PROVE  /\ tpc'[e][d] = "handshake" => setup.tls /\ ti'[e][d] \in 1 .. Last
                 /\ \A j \in 1 .. Last : setup.tls => (Shook(e, d, j)' <=> Shook(e, d, j))
      <3>1. CASE <<e, d>> = <<p, b>>
        BY <2>1, <2>3, <3>1 DEF Shook
      <3>2. CASE <<e, d>> # <<p, b>>
        BY <1>0, <2>3, <3>2 DEF Shook, ShakeInv
      <3> QED
        BY <3>1, <3>2
    <2> QED
      BY <2>1, <2>4, ShookSame
  <1>3. CASE /\ Next
             /\ ~\E p \in Parties, b \in AllPlayers :
                   Connect(p, b) \/ Accept(p, b) \/ \E q \in Parties : Handshake(p, q, b)
    BY <1>0, <1>1, <1>3, QuietSteps
  <1> QED
    BY <1>1, <1>2, <1>3, ShakeAccept, ShakeHandshake DEF vars, playerVars

---------------------------------------------------------------------------
(* Connections that were opened are not lost, as long as nobody leaves.    *)
Known(p) == arriving \cup clients[p]

LEMMA KnownKept ==
  ASSUME ExitInv, ~setup.faults, [Next]_vars, NEW p \in Present, NEW c \in Known(p), c \in Wire, c.to = p
  PROVE  c \in Known(p)'
  <1>1. TableType /\ setup \in Setups /\ p \in Parties
    BY SetupFacts DEF ExitInv, MatchInv, PlayerType
  <1>2. CASE UNCHANGED <<arriving, clients>>
    BY <1>2 DEF Known
  <1>3. ASSUME NEW q \in Parties, ProcessConnection(q) PROVE c \in Known(p)'
    <2>1. PICK e \in arriving :
            /\ e.to = q /\ arriving' = arriving \ {e}
            /\ clients' = [clients EXCEPT ![q] = {d \in @ : NameOf(d) # NameOf(e)} \cup {e}]
      BY <1>3 DEF ProcessConnection
    <2>2. e \in Wire /\ DOMAIN clients = Parties
      BY <1>1 DEF TableType
    <2>3. CASE c = e
      BY <1>1, <2>1, <2>2, <2>3 DEF Known
    <2>4. CASE c # e
      <3>1. p = q => NameOf(c) # NameOf(e)
        BY <2>1, <2>2, <2>4, WireFields DEF NameOf, Name
      <3>2. c \in clients[p] => c \in clients'[p]
        BY <1>1, <2>1, <2>2, <3>1
      <3>3. c \in arriving => c \in arriving'
        BY <2>1, <2>4
      <3> QED
        BY <3>2, <3>3 DEF Known
    <2> QED
      BY <2>3, <2>4
  <1>4. ASSUME LoseConnection PROVE FALSE
    <2>1. PICK e \in arriving : Gone(e.from) \/ Gone(e.to)
      BY <1>4 DEF LoseConnection
    <2>2. e.from \in Parties /\ e.to \in Parties
      BY <1>1, WireFields DEF TableType
    <2> QED
      BY <2>1, <2>2 DEF ExitInv, NoFault
  <1>5. ASSUME NEW q \in Parties, NEW b \in AllPlayers, Connect(q, b) PROVE c \in Known(p)'
    BY <1>5 DEF Connect, Known
  <1>6. ASSUME NEW q \in Parties, NEW b \in AllPlayers, Player(q, b), ~Connect(q, b)
        PROVE  UNCHANGED <<arriving, clients>>
    BY <1>6 DEF Player, Accept, GiveUp, Handshake, tableVars
  <1>7. ASSUME Server \/ Done \/ \E q \in Parties : SetupNames(q) \/ Crash(q)
        PROVE  UNCHANGED <<arriving, clients>>
    BY <1>7 DEF Server, ServerListen, ServerAccept, ServerNames, ServerSend, ServerFails, Done, vars,
                SetupNames, ReportTo, GetNames, NamesFail, Crash, tableVars
  <1>8. CASE UNCHANGED vars
    BY <1>2, <1>8 DEF vars, tableVars
  <1>9. ASSUME NEW q \in Parties, AcceptFails(q) PROVE FALSE
    <2>1. PICK e \in arriving : Gone(e.from)
      BY <1>9 DEF AcceptFails
    <2>2. e.from \in Parties
      BY <1>1, <2>1, WireFields DEF TableType
    <2> QED
      BY <2>1, <2>2 DEF ExitInv, NoFault
  <1> QED
    BY <1>2, <1>3, <1>4, <1>5, <1>6, <1>7, <1>8, <1>9 DEF Next

(* A party that has passed a lower one has opened the connection just now  *)
(* or before.                                                              *)
Opened(p, b, r, q) == Passed(p, b, r, q) /\ q <= p

LEMMA OpenedNew ==
  ASSUME ExitInv, [Next]_vars, NEW p \in Present, NEW q \in Present, NEW b \in Players, NEW r \in Sets,
         Opened(p, b, r, q)', ~Opened(p, b, r, q)
  PROVE  Connection(p, b, r, q) \in arriving'
  <1>1. /\ TableType /\ PlayerType /\ setup \in Setups /\ Present \subseteq Parties /\ Players \subseteq AllPlayers
        /\ p \in Int /\ q \in Int /\ q <= p
    BY SetupFacts DEF ExitInv, MatchInv, PlayerType, Opened
  <1> DEFINE Kept == tpc'[p][b] = tpc[p][b] /\ ti'[p][b] = ti[p][b] /\ second'[p][b] = second[p][b]
  <1>2. ~Kept
    BY DEF Opened, Passed
  <1>3. /\ second[p][b] \in Sets /\ ti[p][b] \in Int
        /\ tpc[p][b] = "connect" => ti[p][b] \in 0 .. p
    BY <1>1 DEF PlayerType, ExitInv, MatchInv, IndexInv
  <1>4. ASSUME NEW e \in Parties, NEW d \in AllPlayers, Connect(e, d)
        PROVE  Connection(p, b, r, q) \in arriving'
    <2>1. UNCHANGED second /\ tpc[e][d] = "connect"
          /\ arriving' = arriving \cup {Connection(e, d, second[e][d], ti[e][d])}
      BY <1>4 DEF Connect, At
    <2>2. \/ Goto(e, d, "accept", e) /\ ti[e][d] = e
          \/ Goto(e, d, "connect", ti[e][d] + 1)
      BY <1>4 DEF Connect
    <2>3. <<e, d>> = <<p, b>>
      BY <1>1, <1>2, <2>1, <2>2, GotoEffect
    <2>4. \/ tpc'[p][b] = "accept" /\ ti[p][b] = p
          \/ tpc'[p][b] = "connect" /\ ti'[p][b] = ti[p][b] + 1
      BY <1>1, <2>2, <2>3, GotoEffect
    <2>5. r = second[p][b] /\ q = ti[p][b]
      <3>1. r = second[p][b]
        BY <1>1, <2>1, <2>3, <2>4 DEF Opened, Passed
      <3>2. ~(q < ti[p][b])
        BY <1>1, <2>1, <2>3, <3>1 DEF Opened, Passed
      <3>3. q < ti'[p][b] \/ tpc'[p][b] = "accept"
        BY <2>1, <2>4, <3>1 DEF Opened, Passed
      <3> QED
        BY <1>1, <1>3, <2>1, <2>3, <2>4, <3>1, <3>2, <3>3
    <2> QED
      BY <2>1, <2>3, <2>5
  <1>5. ASSUME NEW e \in Parties, NEW d \in AllPlayers, Accept(e, d)
        PROVE  FALSE
    <2>1. /\ e \in Present /\ tpc[e][d] = "accept" /\ Wanted(e, d) \notin used[e]
          /\ second[e][d] \in Sets /\ ti[e][d] \in Present
      BY <1>5, WantedUnused DEF Accept, At
    <2> PICK t \in Present : t = ti[e][d]
      BY <2>1
    <2> PICK s \in Sets : s = second[e][d]
      BY <2>1
    <2>2. /\ \/ tpc'[e][d] = "accept"
             \/ t = Last /\ setup.tls /\ s = 0 /\ tpc'[e][d] = "connect" /\ ti'[e][d] = 0
             \/ t = Last /\ ~(setup.tls /\ s = 0) /\ tpc'[e][d] \in {"handshake", "ready"}
          /\ second'[e][d] = IF t = Last /\ setup.tls THEN 1 ELSE s
          /\ tpc'[e][d] = "accept" => second'[e][d] = s
          /\ <<e, d>> # <<p, b>> => Kept
      <3>1. MatchInv
        BY DEF ExitInv
      <3>2. t < Last => t # Last
        BY <1>1, SetupFacts
      <3>3. /\ \/ t < Last /\ tpc'[e][d] = "accept" /\ ti'[e][d] = t + 1
               \/ t = Last /\ setup.tls /\ s = 0 /\ tpc'[e][d] = "connect" /\ ti'[e][d] = 0
               \/ t = Last /\ ~(setup.tls /\ s = 0) /\ tpc'[e][d] \in {"handshake", "ready"}
            /\ second'[e][d] = IF t = Last /\ setup.tls THEN 1 ELSE s
            /\ \A f \in Parties, g \in AllPlayers :
                 <<f, g>> # <<e, d>> => /\ tpc'[f][g] = tpc[f][g] /\ ti'[f][g] = ti[f][g]
                                        /\ second'[f][g] = second[f][g]
        BY <1>5, <2>1, <3>1, AcceptMoves
      <3>4. p \in Parties /\ b \in AllPlayers
        BY <1>1
      <3>5. <<e, d>> # <<p, b>> => Kept
        BY <3>3, <3>4
      <3> HIDE DEF Kept
      <3> QED
        BY <3>2, <3>3, <3>5
    <2>3. <<e, d>> = <<p, b>>
      BY <1>2, <2>2
    <2>4. r <= s => Opened(p, b, r, q)
      BY <1>1, <2>1, <2>3 DEF Opened, Passed, Sets
    <2>5. r > s
      BY <2>4 DEF Sets
    <2>6. q \in Nat
      BY DEF Present
    <2> QED
      BY <2>2, <2>3, <2>5, <2>6 DEF Opened, Passed, Sets
  <1>6. ASSUME NEW e \in Parties, NEW d \in AllPlayers, NEW f \in Parties, Handshake(e, f, d)
        PROVE  FALSE
    <2>1. /\ tpc[e][d] = "handshake" /\ tpc[f][d] = "handshake" /\ UNCHANGED second
          /\ tpc' = [tpc EXCEPT ![e][d] = Shaken(e, d), ![f][d] = Shaken(f, d)]
          /\ ti' = [ti EXCEPT ![e][d] = @ + 1, ![f][d] = @ + 1]
      BY <1>6 DEF Handshake, Meeting, At
    <2>2. Kept \/ tpc[p][b] = "handshake"
      BY <1>1, <2>1 DEF PlayerType
    <2>3. tpc[p][b] = "handshake"
      BY <1>2, <2>2
    <2>4. r > second[p][b]
      BY <1>1, <1>3, <2>3 DEF Opened, Passed, Sets
    <2> QED
      BY <1>3, <2>1, <2>4 DEF Opened, Passed, Sets
  <1>7. CASE UNCHANGED playerVars
    BY <1>2, <1>7 DEF playerVars
  <1>8. CASE /\ Next
             /\ ~\E e \in Parties, d \in AllPlayers :
                   Connect(e, d) \/ Accept(e, d) \/ \E f \in Parties : Handshake(e, f, d)
    BY <1>1, <1>7, <1>8, QuietSteps
  <1> QED
    BY <1>4, <1>5, <1>6, <1>7, <1>8 DEF vars

LEMMA AskNext == ExitInv /\ AskInv /\ [Next]_vars => AskInv'
  <1> SUFFICES ASSUME ExitInv, AskInv, [Next]_vars PROVE AskInv'
    OBVIOUS
  <1>1. UNCHANGED setup /\ Present' = Present /\ Players' = Players
    BY SetupFixed DEF vars, Present, Players
  <1>2. Present \subseteq Parties /\ Players \subseteq AllPlayers
    BY SetupFacts DEF ExitInv, MatchInv, PlayerType
  <1> SUFFICES ASSUME ~setup.faults, NEW p \in Present, NEW q \in Present, NEW b \in Players,
                      NEW r \in Sets, Opened(q, b, r, p)'
               PROVE  Connection(q, b, r, p) \in Known(p)'
    BY <1>1 DEF AskInv, Opened, Known
  <1>3. CASE Opened(q, b, r, p)
    <2>1. Connection(q, b, r, p) \in Known(p)
      BY <1>3 DEF AskInv, Opened, Known
    <2>2. Connection(q, b, r, p) \in Wire /\ Connection(q, b, r, p).to = p
      BY <1>2, ConnectionWire
    <2> QED
      BY <2>1, <2>2, KnownKept
  <1>4. CASE ~Opened(q, b, r, p)
    BY <1>4, OpenedNew DEF Known
  <1> QED
    BY <1>3, <1>4

---------------------------------------------------------------------------
(* The server and the main threads.                                        *)
LEMMA ServerNext == ExitInv /\ ServerInv /\ [Next]_vars => ServerInv'
  <1> SUFFICES ASSUME ExitInv, ServerInv, [Next]_vars PROVE ServerInv'
    OBVIOUS
  <1>1. /\ setup \in Setups /\ Last \in Present /\ 0 \in Present
        /\ \A p \in Present : p \in Int /\ 0 <= p /\ p <= Last
        /\ \A p \in Int : 0 <= p /\ p <= Last => p \in Present
        /\ Last \in Int
    BY SetupFacts DEF ExitInv, MatchInv, PlayerType
  <1>2. DOMAIN ppc = Parties /\ Present \subseteq Parties
    BY <1>1, SetupFacts DEF ExitInv, HereInv
  <1>3. UNCHANGED setup /\ Present' = Present
    BY SetupFixed DEF vars, Present
  <1>4. ASSUME UNCHANGED serverVars,
               \A p \in Present : ppc'[p] \in {"reported", "up"} => ppc[p] \in {"reported", "up"}
        PROVE  ServerInv'
    BY <1>3, <1>4 DEF ServerInv, serverVars
  <1>5. ASSUME NEW p \in Parties, UNCHANGED serverVars,
               ppc' = ppc \/ Leave(p) \/ (ppc[p] = "reported" /\ ppc' = [ppc EXCEPT ![p] = "up"])
        PROVE  ServerInv'
    BY <1>2, <1>4, <1>5 DEF Leave
  <1>6. CASE Server
    <2>1. CASE ServerListen
      BY <1>3, <2>1 DEF ServerListen, ServerInv
    <2>2. CASE ServerAccept
      <3>1. si \in Int /\ (si # Last => si + 1 \in Present)
        BY <1>1 DEF ServerInv
      <3> QED
        BY <1>1, <1>3, <2>2, <3>1 DEF ServerAccept, ServerInv
    <2>3. CASE ServerNames
      BY <1>1, <1>3, <2>3 DEF ServerNames, ServerInv
    <2>4. CASE ServerSend
      <3>1. si \in Int /\ (si # Last => si + 1 \in Present)
        BY <1>1 DEF ServerInv
      <3>2. /\ si' \in Present /\ spc' \in {"send", "closed"} /\ UNCHANGED <<reported, ppc>>
            /\ named' = named \cup {si}
            /\ spc' = IF si = Last THEN "closed" ELSE spc
            /\ si' = IF si = Last THEN si ELSE si + 1
        BY <1>1, <2>4, <3>1 DEF ServerSend
      <3>3. ASSUME NEW p \in Present, spc' = "closed" \/ (spc' = "send" /\ p < si')
            PROVE  p \in named'
        <4>1. p < si \/ p = si
          BY <1>1, <2>4, <3>1, <3>2, <3>3 DEF ServerSend
        <4> QED
          BY <2>4, <3>2, <4>1 DEF ServerSend, ServerInv
      <3> QED
        BY <1>3, <3>2, <3>3 DEF ServerInv
    <2>5. CASE ServerFails
      <3>1. 0 \in Parties
        BY <1>1, <1>2
      <3> QED
        BY <1>5, <2>5, <3>1 DEF ServerFails
    <2> QED
      BY <1>6, <2>1, <2>2, <2>3, <2>4, <2>5 DEF Server
  <1>7. ASSUME NEW p \in Parties, SetupNames(p) PROVE ServerInv'
    <2>1. CASE ReportTo(p)
      <3>1. /\ UNCHANGED <<spc, si, named>> /\ reported' = reported \cup {p}
            /\ ppc' = [ppc EXCEPT ![p] = "reported"]
        BY <2>1 DEF ReportTo
      <3> QED
        BY <1>2, <1>3, <3>1 DEF ServerInv
    <2>2. CASE GetNames(p) \/ NamesFail(p)
      BY <1>5, <2>2 DEF GetNames, NamesFail
    <2> QED
      BY <1>7, <2>1, <2>2 DEF SetupNames
  <1>8. ASSUME NEW p \in Parties, ProcessConnection(p) \/ AcceptFails(p) \/ Crash(p)
        PROVE  ServerInv'
    BY <1>5, <1>8 DEF ProcessConnection, AcceptFails, Crash
  <1>9. ASSUME NEW p \in Parties, NEW b \in AllPlayers, Player(p, b) PROVE ServerInv'
    <2>1. UNCHANGED serverVars
      BY <1>9 DEF Player, Connect, Accept, GiveUp, Handshake
    <2>2. ppc' = ppc \/ Leave(p)
      BY <1>9 DEF Player, Connect, Accept, GiveUp, Handshake
    <2> QED
      BY <1>5, <2>1, <2>2
  <1>10. CASE LoseConnection \/ Done \/ UNCHANGED vars
    <2>1. UNCHANGED <<serverVars, ppc>>
      BY <1>10 DEF LoseConnection, Done, vars
    <2> QED
      BY <1>4, <2>1
  <1> QED
    BY <1>6, <1>7, <1>8, <1>9, <1>10 DEF Next

LEMMA StuckInit == Init => StuckInv
  <1> SUFFICES ASSUME Init PROVE StuckInv
    OBVIOUS
  <1>1. /\ setup \in Setups /\ 0 \in Present /\ Present \subseteq Parties /\ Players \subseteq AllPlayers
        /\ \A p \in Present : p \in Int /\ 0 <= p
    BY SetupFacts DEF Init
  <1>2. \A p \in Present, b \in Players : tpc[p][b] = "connect" /\ ti[p][b] = 0 /\ second[p][b] = 0
    BY <1>1 DEF Init
  <1>3. ServerInv
    BY <1>1 DEF Init, ServerInv
  <1>4. AskInv
    BY <1>1, <1>2 DEF AskInv, Passed, Sets
  <1>5. ShakeInv
    BY <1>2 DEF ShakeInv, Shook
  <1> QED
    BY <1>3, <1>4, <1>5 DEF StuckInv

(* If all wait, they are in handshakes or connected, and there two can go  *)
(* on unless all are connected.                                            *)
LEMMA StuckImplies == ExitInv /\ StuckInv => NobodyStuck
  <1> SUFFICES ASSUME ExitInv, StuckInv, ~setup.faults, ~ServerGoesOn,
                      \A p \in Present : ~MainGoesOn(p) /\ \A b \in Players : ~PlayerGoesOn(p, b),
                      ~\E c \in arriving : Listening(c.to),
                      NEW p \in Present
               PROVE  Ready(p)
    BY DEF NobodyStuck
  <1>1. /\ setup \in Setups /\ Present \subseteq Parties /\ Players \subseteq AllPlayers
        /\ PlayerType /\ TableType
        /\ \A q \in Present : q \in Int /\ 0 <= q /\ q <= Last
        /\ \A q \in Int : 0 <= q /\ q <= Last => q \in Present
        /\ Last \in Int
    BY SetupFacts DEF ExitInv, MatchInv, PlayerType
  <1>2. \A q \in Present : ~Gone(q) /\ ppc[q] \in {"start", "reported", "up"}
    BY <1>1 DEF ExitInv, NoFault, HereInv, Gone
  <1>3. \A q \in Present : ppc[q] \in {"reported", "up"} /\ q \in reported
    <2>1. spc # "off"
      BY DEF ServerGoesOn
    <2> QED
      BY <1>2, <2>1 DEF MainGoesOn, StuckInv, ServerInv
  <1>4. spc = "closed"
    BY <1>3 DEF ServerGoesOn, StuckInv, ServerInv
  <1>5. \A q \in Present : ppc[q] = "up"
    BY <1>3, <1>4 DEF MainGoesOn, StuckInv, ServerInv
  <1>6. \A q \in Present : Listening(q)
    BY <1>2, <1>5 DEF Listening
  <1>7. \A q \in Present, b \in Players : tpc[q][b] # "connect"
    <2> SUFFICES ASSUME NEW q \in Present, NEW b \in Players, tpc[q][b] = "connect" PROVE FALSE
      OBVIOUS
    <2>1. ti[q][b] \in Present
      BY <1>1 DEF ExitInv, MatchInv, IndexInv
    <2> QED
      BY <1>5, <1>6, <2>1 DEF PlayerGoesOn, At
  <1>8. ASSUME NEW q \in Present, NEW b \in Players, tpc[q][b] = "accept", second[ti[q][b]][b] >= second[q][b]
        PROVE  FALSE
    <2> DEFINE t == ti[q][b]
               r == second[q][b]
               c == Connection(t, b, r, q)
    <2>1. /\ At(q, b, "accept") /\ q \in Parties /\ b \in AllPlayers /\ r \in Sets /\ t \in q .. Last
          /\ t \in Present /\ Wanted(q, b) \notin used[q]
      BY <1>1, <1>5, <1>8, WantedUnused DEF At
    <2>2. second[t][b] \in Sets /\ tpc[t][b] \in {"accept", "handshake", "ready"}
      BY <1>1, <1>7, <2>1 DEF PlayerType
    <2>3. q \in Int /\ q <= t
      BY <1>1, <2>1
    <2>4. Passed(t, b, r, q)
      BY <1>8, <2>1, <2>2, <2>3 DEF Passed, Sets
    <2>5. c \in arriving \cup clients[q] /\ c.to = q
      BY <2>1, <2>3, <2>4 DEF StuckInv, AskInv, Connection
    <2>6. c \in clients[q]
      BY <1>6, <2>5
    <2>7. c \in Found(q, b)
      BY <2>6 DEF Found, Wanted, NameOf, Name, Connection
    <2> QED
      BY <2>1, <2>7 DEF PlayerGoesOn
  <1>9. \A q \in Present, b \in Players : tpc[q][b] # "accept"
    <2> SUFFICES ASSUME NEW q \in Present, NEW b \in Players, tpc[q][b] = "accept" PROVE FALSE
      OBVIOUS
    <2> DEFINE t == ti[q][b]
    <2>1. t \in Present /\ second[t][b] \in Sets /\ second[q][b] \in Sets
      <3>1. t \in q .. Last
        BY DEF ExitInv, MatchInv, IndexInv
      <3> QED
        BY <1>1, <3>1 DEF PlayerType
    <2>2. second[t][b] = 0 /\ second[q][b] = 1
      BY <1>8, <2>1 DEF Sets
    <2>3. tpc[t][b] = "accept"
      <3>1. setup.tls
        BY <2>2 DEF ExitInv, MatchInv, SetsInv
      <3>2. tpc[t][b] \notin {"handshake", "ready"}
        BY <2>1, <2>2, <3>1 DEF ExitInv, MatchInv, SetsInv
      <3> QED
        BY <1>1, <1>7, <2>1, <3>2 DEF PlayerType
    <2>4. ti[t][b] \in Present /\ second[ti[t][b]][b] \in Sets
      <3>1. ti[t][b] \in t .. Last
        BY <2>1, <2>3 DEF ExitInv, MatchInv, IndexInv
      <3> QED
        BY <1>1, <2>1, <3>1 DEF PlayerType
    <2> QED
      BY <1>8, <2>1, <2>2, <2>3, <2>4 DEF Sets
  <1>10. \A q \in Present, b \in Players : tpc[q][b] \in {"handshake", "ready"}
    BY <1>1, <1>7, <1>9 DEF PlayerType
  <1>11. ASSUME NEW b \in Players PROVE tpc[p][b] = "ready"
    <2> SUFFICES ASSUME tpc[p][b] = "handshake" PROVE FALSE
      BY <1>10
    <2>1. setup.tls /\ MatchInv /\ ShakeInv
      BY DEF StuckInv, ShakeInv, ExitInv
    <2>2. \E q, t \in Present : Meeting(q, t, b)
      BY <1>5, <1>10, <2>1, SomeoneShakes
    <2> QED
      BY <2>2 DEF PlayerGoesOn
  <1> QED
    BY <1>5, <1>11 DEF Ready

(* Without faults no party ever waits in a circle of parties: not for the  *)
(* server, not in connecting and accepting, with the sets of connections   *)
(* one after the other, and not in the order of the handshakes.            *)
THEOREM SetupGoesOn == Spec => []NobodyStuck
  <1>1. ExitInv /\ StuckInv /\ [Next]_vars => StuckInv'
    BY ServerNext, AskNext, ShakeNext DEF StuckInv
  <1>2. Spec => [](ExitInv /\ StuckInv)
    BY <1>1, ExitInit, ExitNext, StuckInit, PTL DEF Spec
  <1> QED
    BY <1>2, StuckImplies, PTL
===========================================================================
