------------------------ MODULE Coordinator_proofs -------------------------
(* Proof, for any number of parties, threads and checks and whatever party *)
(* is faulty, that nothing is opened before every party is committed, that *)
(* a coordinator lets one check go at a time and only when every party has *)
(* it waiting, and that the openings form one sequence on all parties.     *)
EXTENDS Coordinator, FiniteSetTheorems, WellFoundedInduction, TLAPS

ThreadStates == {"work", "commit", "wait", "open", "over"}

(* The state the two invariants speak about.                               *)
CheckType ==
  /\ tpc \in [Parties -> [Ids -> ThreadStates]]
  /\ committed \in [Parties -> [Ids -> Nat]] /\ opened \in [Parties -> [Ids -> Nat]]
  /\ signals \in [Parties -> [Ids -> Nat]] /\ done \in [Parties -> Nat]
  /\ cpc \in [Parties -> {"pop", "broadcast", "scan", "done", "ended"}]
  /\ at \in [Parties -> Nat]

(* Commitments run ahead of openings by the check a thread is in, and a    *)
(* thread that waits for the coordinator has everybody's commitment.       *)
Ahead(p, t) == IF tpc[p][t] \in {"commit", "wait"} THEN 1 ELSE 0
Committed ==
  \A p \in Parties, t \in Ids :
    /\ committed[p][t] = opened[p][t] + Ahead(p, t)
    /\ tpc[p][t] = "wait" => \A q \in Parties : committed[p][t] <= committed[q][t]

(* A coordinator that waits for finished() has exactly one check going: it *)
(* is signalled, opening, or reported.                                     *)
Signalled(p) == done[p] = 0 /\ signals[p][at[p]] = 1 /\ tpc[p][at[p]] # "open"
Opening(p) == done[p] = 0 /\ signals[p][at[p]] = 0 /\ tpc[p][at[p]] = "open"
Reported(p) == done[p] = 1 /\ signals[p][at[p]] = 0 /\ tpc[p][at[p]] # "open"
Quiet(p, t) == signals[p][t] = 0 /\ tpc[p][t] # "open"
Token ==
  \A p \in Parties :
    /\ cpc[p] # "done" => done[p] = 0 /\ \A t \in Ids : Quiet(p, t)
    /\ cpc[p] = "done" => /\ at[p] \in Ids
                          /\ \A t \in Ids \ {at[p]} : Quiet(p, t)
                          /\ Signalled(p) \/ Opening(p) \/ Reported(p)

CheckInv == CheckType /\ Committed /\ OpenedAfterCommitted /\ Token

---------------------------------------------------------------------------
LEMMA IdFacts == \A t \in Ids : t \in Nat
  BY CoordinatorAssumption DEF Ids

LEMMA CheckInit == Init => CheckInv
  BY IdFacts, CoordinatorAssumption
  DEF Init, CheckInv, CheckType, Committed, OpenedAfterCommitted, Token, PerThread, Ahead,
      ThreadStates, Quiet

LEMMA CommittedKept ==
  ASSUME CheckInv, UNCHANGED <<tpc, committed, opened>>
  PROVE  Committed' /\ OpenedAfterCommitted'
  BY DEF CheckInv, Committed, OpenedAfterCommitted, Ahead

LEMMA TokenKept ==
  ASSUME CheckInv, UNCHANGED <<tpc, signals, done, cpc, at>>
  PROVE  Token'
  BY DEF CheckInv, Token, Quiet, Signalled, Opening, Reported

(* A commitment is broadcast.                                              *)
LEMMA CommitStep ==
  ASSUME CheckInv, NEW p \in Parties, NEW t \in Ids, Commit(p, t)
  PROVE  CheckInv'
  <1>1. /\ tpc[p][t] = "work"
        /\ committed' = Set(committed, p, t, committed[p][t] + 1)
        /\ tpc' = Set(tpc, p, t, "commit")
        /\ UNCHANGED <<opened, signals, done, cpc, at>>
    BY DEF Commit, queueVars, coordVars
  <1>2. /\ tpc \in [Parties -> [Ids -> ThreadStates]]
        /\ committed \in [Parties -> [Ids -> Nat]] /\ opened \in [Parties -> [Ids -> Nat]]
        /\ committed[p][t] \in Nat /\ committed[p][t] + 1 \in Nat
    BY DEF CheckInv, CheckType
  <1>3. /\ tpc' \in [Parties -> [Ids -> ThreadStates]]
        /\ tpc'[p][t] = "commit"
        /\ \A q \in Parties, u \in Ids : (q # p \/ u # t) => tpc'[q][u] = tpc[q][u]
    BY <1>1, <1>2 DEF Set, ThreadStates
  <1>4. /\ committed' \in [Parties -> [Ids -> Nat]]
        /\ committed'[p][t] = committed[p][t] + 1
        /\ \A q \in Parties, u \in Ids :
             (q # p \/ u # t) => committed'[q][u] = committed[q][u]
    BY <1>1, <1>2 DEF Set
  <1>5. CheckType'
    BY <1>1, <1>3, <1>4 DEF CheckInv, CheckType
  <1>6. \A q \in Parties, u \in Ids : committed[q][u] <= committed'[q][u]
    BY <1>2, <1>4
  <1>7. ASSUME NEW r \in Parties, NEW u \in Ids
        PROVE  /\ committed'[r][u] = opened[r][u] + Ahead(r, u)'
               /\ tpc'[r][u] = "wait" => \A q \in Parties : committed'[r][u] <= committed'[q][u]
               /\ \A q \in Parties : opened[r][u] <= committed'[q][u]
    <2>1. /\ committed[r][u] = opened[r][u] + Ahead(r, u)
          /\ tpc[r][u] = "wait" => \A q \in Parties : committed[r][u] <= committed[q][u]
          /\ \A q \in Parties : opened[r][u] <= committed[q][u]
      BY DEF CheckInv, Committed, OpenedAfterCommitted
    <2>2. \A q \in Parties : /\ committed[q][u] \in Nat /\ committed'[q][u] \in Nat
                             /\ opened[r][u] \in Nat
      BY <1>2, <1>4
    <2>3. \A q \in Parties : committed[q][u] <= committed'[q][u]
      BY <1>6
    <2>4. \A q \in Parties : opened[r][u] <= committed'[q][u]
      BY <2>1, <2>2, <2>3
    <2>5. CASE r = p /\ u = t
      <3>1. tpc[r][u] = "work" /\ tpc'[r][u] = "commit"
        BY <1>1, <1>3, <2>5
      <3>2. Ahead(r, u) = 0 /\ Ahead(r, u)' = 1
        BY <3>1 DEF Ahead
      <3>3. committed'[r][u] = committed[r][u] + 1
        BY <1>4, <2>5
      <3> QED
        BY <2>1, <2>2, <2>4, <3>1, <3>2, <3>3
    <2>6. CASE r # p \/ u # t
      <3>1. tpc'[r][u] = tpc[r][u] /\ committed'[r][u] = committed[r][u]
        BY <1>3, <1>4, <2>6
      <3>2. Ahead(r, u)' = Ahead(r, u)
        BY <3>1 DEF Ahead
      <3>3. ASSUME tpc'[r][u] = "wait", NEW q \in Parties
            PROVE  committed'[r][u] <= committed'[q][u]
        <4>1. committed[r][u] <= committed[q][u] /\ committed[q][u] <= committed'[q][u]
          BY <2>1, <2>3, <3>1, <3>3
        <4>2. committed[r][u] \in Nat /\ committed[q][u] \in Nat /\ committed'[q][u] \in Nat
          BY <2>2
        <4> QED
          BY <3>1, <4>1, <4>2
      <3> QED
        BY <2>1, <2>4, <3>1, <3>2, <3>3
    <2> QED
      BY <2>5, <2>6
  <1>8. Committed' /\ OpenedAfterCommitted'
    BY <1>1, <1>7 DEF Committed, OpenedAfterCommitted
  <1>9. Token'
    <2>1. \A q \in Parties, u \in Ids : tpc'[q][u] = "open" <=> tpc[q][u] = "open"
      BY <1>1, <1>3
    <2> QED
      BY <1>1, <2>1 DEF CheckInv, Token, Quiet, Signalled, Opening, Reported
  <1> QED
    BY <1>5, <1>8, <1>9 DEF CheckInv

(* The commitments of all are received before the coordinator is asked.    *)
LEMMA AskStep ==
  ASSUME CheckInv, NEW p \in Parties, NEW t \in Ids, Ask(p, t)
  PROVE  CheckInv'
  <1>1. /\ tpc[p][t] = "commit"
        /\ \A q \in Parties : committed[q][t] >= committed[p][t]
        /\ tpc' = Set(tpc, p, t, "wait")
        /\ UNCHANGED <<committed, opened, signals, done, cpc, at>>
    BY DEF Ask, Received, coordVars
  <1>2. /\ tpc' \in [Parties -> [Ids -> ThreadStates]]
        /\ tpc'[p][t] = "wait"
        /\ \A q \in Parties, u \in Ids : (q # p \/ u # t) => tpc'[q][u] = tpc[q][u]
    <2>1. tpc \in [Parties -> [Ids -> ThreadStates]]
      BY DEF CheckInv, CheckType
    <2> QED
      BY <1>1, <2>1 DEF Set, ThreadStates
  <1>3. CheckType'
    BY <1>1, <1>2 DEF CheckInv, CheckType
  <1>4. \A q \in Parties, u \in Ids : committed[q][u] \in Nat
    BY DEF CheckInv, CheckType
  <1>5. \A q \in Parties, u \in Ids : Ahead(q, u)' = Ahead(q, u)
    BY <1>1, <1>2 DEF Ahead
  <1>6. Committed'
    <2>1. ASSUME NEW r \in Parties, NEW u \in Ids, tpc'[r][u] = "wait", NEW q \in Parties
          PROVE  committed[r][u] <= committed[q][u]
      <3>1. CASE r = p /\ u = t
        BY <1>1, <1>4, <3>1
      <3>2. CASE r # p \/ u # t
        BY <1>2, <2>1, <3>2 DEF CheckInv, Committed
      <3> QED
        BY <3>1, <3>2
    <2> QED
      BY <1>1, <1>5, <2>1 DEF CheckInv, Committed
  <1>7. OpenedAfterCommitted'
    BY <1>1 DEF CheckInv, OpenedAfterCommitted
  <1>8. Token'
    <2>1. \A q \in Parties, u \in Ids : tpc'[q][u] = "open" <=> tpc[q][u] = "open"
      BY <1>1, <1>2
    <2> QED
      BY <1>1, <2>1 DEF CheckInv, Token, Quiet, Signalled, Opening, Reported
  <1> QED
    BY <1>3, <1>6, <1>7, <1>8 DEF CheckInv

(* Only the thread the coordinator let go opens, and by then everybody's   *)
(* commitment is there.                                                    *)
LEMMA OpenStep ==
  ASSUME CheckInv, NEW p \in Parties, NEW t \in Ids, Open(p, t)
  PROVE  CheckInv'
  <1>1. /\ tpc[p][t] = "wait" /\ signals[p][t] > 0
        /\ signals' = Set(signals, p, t, signals[p][t] - 1)
        /\ opened' = Set(opened, p, t, opened[p][t] + 1)
        /\ tpc' = Set(tpc, p, t, "open")
        /\ UNCHANGED <<committed, done, cpc, at>>
    BY DEF Open, coordVars
  <1>2. /\ tpc \in [Parties -> [Ids -> ThreadStates]]
        /\ committed \in [Parties -> [Ids -> Nat]] /\ opened \in [Parties -> [Ids -> Nat]]
        /\ signals \in [Parties -> [Ids -> Nat]]
        /\ signals[p][t] \in Nat /\ opened[p][t] \in Nat
    BY DEF CheckInv, CheckType
  <1>3. cpc[p] = "done" /\ at[p] = t /\ done[p] = 0 /\ signals[p][t] = 1
    <2>1. ~Quiet(p, t)
      BY <1>1 DEF Quiet
    <2>2. /\ cpc[p] = "done" /\ at[p] = t
          /\ Signalled(p) \/ Opening(p) \/ Reported(p)
      BY <2>1 DEF CheckInv, Token
    <2> QED
      BY <1>1, <1>2, <2>2 DEF Signalled, Opening, Reported
  <1>4. /\ tpc' \in [Parties -> [Ids -> ThreadStates]]
        /\ tpc'[p][t] = "open"
        /\ \A q \in Parties, u \in Ids : (q # p \/ u # t) => tpc'[q][u] = tpc[q][u]
    BY <1>1, <1>2 DEF Set, ThreadStates
  <1>5. /\ opened' \in [Parties -> [Ids -> Nat]]
        /\ opened'[p][t] = opened[p][t] + 1
        /\ \A q \in Parties, u \in Ids : (q # p \/ u # t) => opened'[q][u] = opened[q][u]
    BY <1>1, <1>2 DEF Set
  <1>6. /\ signals' \in [Parties -> [Ids -> Nat]]
        /\ signals'[p][t] = 0
        /\ \A q \in Parties, u \in Ids : (q # p \/ u # t) => signals'[q][u] = signals[q][u]
    BY <1>1, <1>2, <1>3 DEF Set
  <1>7. CheckType'
    BY <1>1, <1>4, <1>5, <1>6 DEF CheckInv, CheckType
  <1>8. ASSUME NEW r \in Parties, NEW u \in Ids
        PROVE  /\ committed[r][u] = opened'[r][u] + Ahead(r, u)'
               /\ tpc'[r][u] = "wait" => \A q \in Parties : committed[r][u] <= committed[q][u]
               /\ \A q \in Parties : opened'[r][u] <= committed[q][u]
    <2>1. /\ committed[r][u] = opened[r][u] + Ahead(r, u)
          /\ tpc[r][u] = "wait" => \A q \in Parties : committed[r][u] <= committed[q][u]
          /\ \A q \in Parties : opened[r][u] <= committed[q][u]
      BY DEF CheckInv, Committed, OpenedAfterCommitted
    <2>2. CASE r = p /\ u = t
      <3>1. tpc[r][u] = "wait" /\ tpc'[r][u] = "open"
        BY <1>1, <1>4, <2>2
      <3>2. Ahead(r, u) = 1 /\ Ahead(r, u)' = 0
        BY <3>1 DEF Ahead
      <3>3. opened'[r][u] = opened[r][u] + 1 /\ opened[r][u] \in Nat
        BY <1>2, <1>5, <2>2
      <3>4. committed[r][u] = opened'[r][u] + 0
        BY <2>1, <3>2, <3>3
      <3>5. opened'[r][u] = committed[r][u]
        BY <2>1, <3>2, <3>3
      <3> QED
        BY <2>1, <3>1, <3>2, <3>4, <3>5
    <2>3. CASE r # p \/ u # t
      <3>1. tpc'[r][u] = tpc[r][u] /\ opened'[r][u] = opened[r][u]
        BY <1>4, <1>5, <2>3
      <3>2. Ahead(r, u)' = Ahead(r, u)
        BY <3>1 DEF Ahead
      <3> QED
        BY <2>1, <3>1, <3>2
    <2> QED
      BY <2>2, <2>3
  <1>9. Committed' /\ OpenedAfterCommitted'
    BY <1>1, <1>8 DEF Committed, OpenedAfterCommitted
  <1>10. Token'
    <2>1. Opening(p)'
      BY <1>1, <1>3, <1>4, <1>6 DEF Opening
    <2>2. \A u \in Ids \ {t} : Quiet(p, u)'
      BY <1>3, <1>4, <1>6 DEF CheckInv, Token, Quiet
    <2>3. ASSUME NEW r \in Parties, r # p
          PROVE  /\ cpc[r] # "done" => done[r] = 0 /\ \A u \in Ids : Quiet(r, u)'
                 /\ cpc[r] = "done" => /\ at[r] \in Ids
                                       /\ \A u \in Ids \ {at[r]} : Quiet(r, u)'
                                       /\ Signalled(r)' \/ Opening(r)' \/ Reported(r)'
      <3>1. \A u \in Ids : tpc'[r][u] = tpc[r][u] /\ signals'[r][u] = signals[r][u]
        BY <1>4, <1>6, <2>3
      <3> QED
        BY <1>1, <3>1 DEF CheckInv, Token, Quiet, Signalled, Opening, Reported
    <2> QED
      BY <1>1, <1>3, <2>1, <2>2, <2>3 DEF Token
  <1> QED
    BY <1>7, <1>9, <1>10 DEF CheckInv

(* finished() is called by the thread whose turn it is.                    *)
LEMMA VerifyStep ==
  ASSUME CheckInv, NEW p \in Parties, NEW t \in Ids, Verify(p, t)
  PROVE  CheckInv'
  <1>1. /\ tpc[p][t] = "open"
        /\ done' = [done EXCEPT ![p] = @ + 1]
        /\ UNCHANGED <<committed, opened, signals, cpc, at>>
    BY DEF Verify, coordVars
  <1>2. PICK s \in {"over", "work"} : tpc' = Set(tpc, p, t, s)
    BY DEF Verify
  <1>3. /\ tpc \in [Parties -> [Ids -> ThreadStates]] /\ done \in [Parties -> Nat]
        /\ signals \in [Parties -> [Ids -> Nat]]
    BY DEF CheckInv, CheckType
  <1>4. cpc[p] = "done" /\ at[p] = t /\ done[p] = 0 /\ signals[p][t] = 0
    BY <1>1 DEF CheckInv, Token, Quiet, Signalled, Opening, Reported
  <1>5. /\ tpc' \in [Parties -> [Ids -> ThreadStates]]
        /\ tpc'[p][t] = s
        /\ \A q \in Parties, u \in Ids : (q # p \/ u # t) => tpc'[q][u] = tpc[q][u]
    BY <1>2, <1>3 DEF Set, ThreadStates
  <1>6. /\ done' \in [Parties -> Nat] /\ done'[p] = 1
        /\ \A q \in Parties : q # p => done'[q] = done[q]
    BY <1>1, <1>3, <1>4
  <1>7. CheckType'
    BY <1>1, <1>5, <1>6 DEF CheckInv, CheckType
  <1>8. \A q \in Parties, u \in Ids : /\ Ahead(q, u)' = Ahead(q, u)
                                      /\ tpc'[q][u] = "wait" => tpc[q][u] = "wait"
    BY <1>1, <1>5 DEF Ahead
  <1>9. Committed'
    <2>1. ASSUME NEW r \in Parties, NEW u \in Ids
          PROVE  /\ committed[r][u] = opened[r][u] + Ahead(r, u)'
                 /\ tpc'[r][u] = "wait" => \A q \in Parties : committed[r][u] <= committed[q][u]
      <3>1. /\ committed[r][u] = opened[r][u] + Ahead(r, u)
            /\ tpc[r][u] = "wait" => \A q \in Parties : committed[r][u] <= committed[q][u]
        BY DEF CheckInv, Committed
      <3>2. Ahead(r, u)' = Ahead(r, u)
        BY <1>8
      <3>3. tpc'[r][u] = "wait" => tpc[r][u] = "wait"
        BY <1>8
      <3> QED
        BY <3>1, <3>2, <3>3
    <2> QED
      BY <1>1, <2>1 DEF Committed
  <1>10. OpenedAfterCommitted'
    BY <1>1 DEF CheckInv, OpenedAfterCommitted
  <1>11. Token'
    <2>1. Reported(p)'
      BY <1>1, <1>4, <1>5, <1>6 DEF Reported
    <2>2. \A u \in Ids \ {t} : Quiet(p, u)'
      BY <1>1, <1>4, <1>5 DEF CheckInv, Token, Quiet
    <2>3. ASSUME NEW r \in Parties, r # p
          PROVE  /\ cpc[r] # "done" => done'[r] = 0 /\ \A u \in Ids : Quiet(r, u)'
                 /\ cpc[r] = "done" => /\ at[r] \in Ids
                                       /\ \A u \in Ids \ {at[r]} : Quiet(r, u)'
                                       /\ Signalled(r)' \/ Opening(r)' \/ Reported(r)'
      <3>1. done'[r] = done[r] /\ \A u \in Ids : tpc'[r][u] = tpc[r][u]
        BY <1>5, <1>6, <2>3
      <3> QED
        BY <1>1, <3>1 DEF CheckInv, Token, Quiet, Signalled, Opening, Reported
    <2> QED
      BY <1>1, <1>4, <2>1, <2>2, <2>3 DEF Token
  <1> QED
    BY <1>7, <1>9, <1>10, <1>11 DEF CheckInv

---------------------------------------------------------------------------
(* The coordinator's own steps.                                            *)

(* The next thread of a scan exists.                                       *)
LEMMA FirstIn ==
  ASSUME NEW S \in SUBSET Ids, S # {}
  PROVE  First(S) \in S /\ First(S) \in Ids /\ \A u \in S : First(S) <= u
  <1>1. S \subseteq Nat
    BY IdFacts
  <1>2. PICK t \in S : \A u \in S : ~(<<u, t>> \in OpToRel(<, Nat))
    BY <1>1, NatLessThanWellFounded, WFMin
  <1>3. \A u \in S : ~(u < t)
    BY <1>1, <1>2 DEF OpToRel
  <1>4. \A u \in S : t <= u
    BY <1>1, <1>3
  <1>5. First(S) \in S /\ \A u \in S : First(S) <= u
    BY <1>4 DEF First
  <1> QED
    BY <1>5

(* Nobody is let go while the coordinator pops, broadcasts or scans.       *)
LEMMA BetweenStep ==
  ASSUME CheckInv, NEW p \in Parties,
         Announce(p) \/ Count(p) \/ EndScan(p) \/ Teardown(p)
  PROVE  CheckInv'
  <1>1. /\ cpc[p] # "done"
        /\ UNCHANGED <<tpc, committed, opened, signals, done>>
        /\ at' = at \/ at' = [at EXCEPT ![p] = 1]
    BY DEF Announce, Count, EndScan, Teardown, threadVars, queueVars
  <1>2. PICK c \in {"broadcast", "scan", "pop", "ended"} : cpc' = [cpc EXCEPT ![p] = c]
    BY DEF Announce, Count, EndScan, Teardown
  <1>3. /\ cpc \in [Parties -> {"pop", "broadcast", "scan", "done", "ended"}]
        /\ at \in [Parties -> Nat]
    BY DEF CheckInv, CheckType
  <1>4. at' \in [Parties -> Nat] /\ \A q \in Parties : q # p => at'[q] = at[q]
    BY <1>1, <1>3
  <1>5. /\ cpc' \in [Parties -> {"pop", "broadcast", "scan", "done", "ended"}]
        /\ cpc'[p] # "done"
        /\ \A q \in Parties : q # p => cpc'[q] = cpc[q]
    BY <1>2, <1>3
  <1>6. CheckType'
    BY <1>1, <1>4, <1>5 DEF CheckInv, CheckType
  <1>7. Committed' /\ OpenedAfterCommitted'
    BY <1>1, CommittedKept
  <1>8. Token'
    BY <1>1, <1>4, <1>5 DEF CheckInv, Token, Quiet, Signalled, Opening, Reported
  <1> QED
    BY <1>6, <1>7, <1>8 DEF CheckInv

LEMMA GrantStep ==
  ASSUME CheckInv, NEW p \in Parties, Grant(p)
  PROVE  CheckInv'
  <1>1. PICK t \in Ids :
          /\ at' = [at EXCEPT ![p] = t]
          /\ signals' = Set(signals, p, t, signals[p][t] + 1)
    <2>1. Complete(p) \in SUBSET Ids /\ Complete(p) # {}
      BY DEF Grant, Complete
    <2>2. First(Complete(p)) \in Ids
      BY <2>1, FirstIn
    <2> QED
      BY <2>2 DEF Grant
  <1>2. /\ cpc[p] = "scan" /\ cpc' = [cpc EXCEPT ![p] = "done"]
        /\ UNCHANGED <<tpc, committed, opened, done>>
    BY DEF Grant, threadVars
  <1>3. /\ cpc \in [Parties -> {"pop", "broadcast", "scan", "done", "ended"}]
        /\ at \in [Parties -> Nat] /\ signals \in [Parties -> [Ids -> Nat]]
        /\ t \in Nat
    BY IdFacts DEF CheckInv, CheckType
  <1>4. done[p] = 0 /\ \A u \in Ids : signals[p][u] = 0 /\ tpc[p][u] # "open"
    BY <1>2 DEF CheckInv, Token, Quiet
  <1>5. /\ at' \in [Parties -> Nat] /\ at'[p] = t
        /\ \A q \in Parties : q # p => at'[q] = at[q]
    BY <1>1, <1>3
  <1>6. /\ cpc' \in [Parties -> {"pop", "broadcast", "scan", "done", "ended"}]
        /\ cpc'[p] = "done"
        /\ \A q \in Parties : q # p => cpc'[q] = cpc[q]
    BY <1>2, <1>3
  <1>7. /\ signals' \in [Parties -> [Ids -> Nat]] /\ signals'[p][t] = 1
        /\ \A q \in Parties, u \in Ids : (q # p \/ u # t) => signals'[q][u] = signals[q][u]
    BY <1>1, <1>3, <1>4 DEF Set
  <1>8. CheckType'
    BY <1>2, <1>5, <1>6, <1>7 DEF CheckInv, CheckType
  <1>9. Committed' /\ OpenedAfterCommitted'
    BY <1>2, CommittedKept
  <1>10. Token'
    <2>1. Signalled(p)' /\ \A u \in Ids \ {t} : Quiet(p, u)'
      BY <1>2, <1>4, <1>5, <1>7 DEF Signalled, Quiet
    <2>2. ASSUME NEW r \in Parties, r # p
          PROVE  /\ cpc'[r] = cpc[r] /\ at'[r] = at[r]
                 /\ \A u \in Ids : signals'[r][u] = signals[r][u]
      BY <1>5, <1>6, <1>7, <2>2
    <2>3. ASSUME NEW r \in Parties, r # p
          PROVE  /\ cpc'[r] # "done" => done'[r] = 0 /\ \A u \in Ids : Quiet(r, u)'
                 /\ cpc'[r] = "done" => /\ at'[r] \in Ids
                                        /\ \A u \in Ids \ {at'[r]} : Quiet(r, u)'
                                        /\ Signalled(r)' \/ Opening(r)' \/ Reported(r)'
      BY <1>2, <2>2, <2>3 DEF CheckInv, Token, Quiet, Signalled, Opening, Reported
    <2> QED
      BY <1>5, <1>6, <2>1, <2>3 DEF Token
  <1> QED
    BY <1>8, <1>9, <1>10 DEF CheckInv

(* The check has reported, so nobody is going any more.                    *)
LEMMA TakenStep ==
  ASSUME CheckInv, NEW p \in Parties, Taken(p)
  PROVE  CheckInv'
  <1>1. /\ cpc[p] = "done" /\ done[p] > 0
        /\ done' = [done EXCEPT ![p] = @ - 1]
        /\ at' = [at EXCEPT ![p] = @ + 1]
        /\ cpc' = [cpc EXCEPT ![p] = "scan"]
        /\ UNCHANGED <<tpc, committed, opened, signals>>
    BY DEF Taken, threadVars
  <1>2. /\ cpc \in [Parties -> {"pop", "broadcast", "scan", "done", "ended"}]
        /\ at \in [Parties -> Nat] /\ done \in [Parties -> Nat]
    BY DEF CheckInv, CheckType
  <1>3. done[p] = 1 /\ \A u \in Ids : Quiet(p, u)
    BY <1>1, <1>2 DEF CheckInv, Token, Quiet, Signalled, Opening, Reported
  <1>4. /\ done' \in [Parties -> Nat] /\ done'[p] = 0
        /\ \A q \in Parties : q # p => done'[q] = done[q]
    BY <1>1, <1>2, <1>3
  <1>5. at' \in [Parties -> Nat] /\ \A q \in Parties : q # p => at'[q] = at[q]
    BY <1>1, <1>2
  <1>6. /\ cpc' \in [Parties -> {"pop", "broadcast", "scan", "done", "ended"}]
        /\ cpc'[p] = "scan"
        /\ \A q \in Parties : q # p => cpc'[q] = cpc[q]
    BY <1>1, <1>2
  <1>7. CheckType'
    BY <1>1, <1>4, <1>5, <1>6 DEF CheckInv, CheckType
  <1>8. Committed' /\ OpenedAfterCommitted'
    BY <1>1, CommittedKept
  <1>9. Token'
    <2>1. \A q \in Parties, u \in Ids : Quiet(q, u)' = Quiet(q, u)
      BY <1>1 DEF Quiet
    <2>2. ASSUME NEW r \in Parties, r # p
          PROVE  /\ cpc'[r] # "done" => done'[r] = 0 /\ \A u \in Ids : Quiet(r, u)'
                 /\ cpc'[r] = "done" => /\ at'[r] \in Ids
                                        /\ \A u \in Ids \ {at'[r]} : Quiet(r, u)'
                                        /\ Signalled(r)' \/ Opening(r)' \/ Reported(r)'
      <3>1. cpc'[r] = cpc[r] /\ at'[r] = at[r] /\ done'[r] = done[r]
        BY <1>4, <1>5, <1>6, <2>2
      <3> QED
        BY <1>1, <2>2, <3>1 DEF CheckInv, Token, Quiet, Signalled, Opening, Reported
    <2> QED
      BY <1>3, <1>4, <1>6, <2>1, <2>2 DEF Token
  <1> QED
    BY <1>7, <1>8, <1>9 DEF CheckInv

LEMMA CheckStep == CheckInv /\ [Next]_vars => CheckInv'
  <1>1. SUFFICES ASSUME CheckInv, [Next]_vars PROVE CheckInv'
    OBVIOUS
  <1>2. CASE UNCHANGED <<tpc, committed, opened, signals, done, cpc, at>>
    BY <1>1, <1>2, CommittedKept, TokenKept DEF CheckInv, CheckType
  <1>3. ASSUME NEW p \in Parties, NEW t \in Ids, Thread(p, t) PROVE CheckInv'
    <2>1. CASE Invalid(p, t)
      BY <1>2, <2>1 DEF Invalid, threadVars, queueVars, coordVars
    <2> QED
      BY <1>1, <1>3, <2>1, CommitStep, AskStep, OpenStep, VerifyStep DEF Thread
  <1>4. ASSUME NEW p \in Parties, NEW q \in Parties, Closed(p, q) \/ Reset(p, q)
        PROVE  CheckInv'
    BY <1>2, <1>4 DEF Closed, Reset, threadVars, queueVars, coordVars
  <1>5. ASSUME NEW p \in Parties, Run(p) PROVE CheckInv'
    BY <1>1, <1>5, BetweenStep, GrantStep, TakenStep DEF Run
  <1>6. CASE UNCHANGED vars
    BY <1>2, <1>6 DEF vars, threadVars, queueVars, coordVars
  <1> QED
    BY <1>1, <1>3, <1>4, <1>5, <1>6 DEF Next, Finish

THEOREM CheckInvariant == Spec => []CheckInv
  BY CheckInit, CheckStep, PTL DEF Spec

---------------------------------------------------------------------------
(* No party opens its value of a MAC check before every party has          *)
(* broadcast its commitment for that check (Commit_And_Open_).             *)
THEOREM OpenedAfterCommit == Spec => []OpenedAfterCommitted
  <1>1. CheckInv => OpenedAfterCommitted
    BY DEF CheckInv
  <1> QED
    BY <1>1, CheckInvariant, PTL

(* A coordinator lets one thread at a time go, from its signal to the      *)
(* thread's finished() (Coordinator::run).                                 *)
THEOREM OneCheck == Spec => []OneCheckAtATime
  <1>1. CheckInv => OneCheckAtATime
    <2>1. SUFFICES ASSUME CheckInv, NEW p \in Parties, NEW t \in Ids, NEW u \in Ids,
                          ~Quiet(p, t), ~Quiet(p, u)
                   PROVE  t = u
      BY DEF OneCheckAtATime, Quiet, CheckInv, CheckType
    <2> QED
      BY <2>1 DEF CheckInv, Token
  <1> QED
    BY <1>1, CheckInvariant, PTL

---------------------------------------------------------------------------
(***************************************************************************)
(* The rounds.  All coordinators hear the same ids in the same rounds, and *)
(* count from the last check of an id that they know to be finished.  A    *)
(* party asks for one check of a thread at a time, and nobody finishes a   *)
(* check before all have opened it; so no count runs ahead by more than    *)
(* one, and a full count means that every party waits for the same check.  *)
(***************************************************************************)
RoundsOf(s, t, k) == {n \in 1 .. k : s[n] = t}
Times(s, t, k) == Cardinality(RoundsOf(s, t, k))
Said(q, t, k) == Times(cids[q], t, k)
Queued(p, t) == \E n \in DOMAIN in[p] : in[p][n] = t
Announced(p, t) == tpc[p][t] \in {"wait", "open"} /\ ~Queued(p, t)

RoundType ==
  /\ in \in [Parties -> Seq(Ids)] /\ cids \in [Parties -> Seq(Ids)]
  /\ round \in [Parties -> Nat] /\ waiting \in [Parties -> [Ids -> Nat]]
  /\ checks \in [Parties -> [Ids -> Nat]]

Asked ==
  /\ \A p \in Parties : \A n, m \in DOMAIN in[p] : in[p][n] = in[p][m] => n = m
  /\ \A p \in Parties, t \in Ids : Queued(p, t) => tpc[p][t] = "wait"
  /\ \A p \in Parties, t \in Ids :
       /\ Announced(p, t) => Said(p, t, Len(cids[p])) = checks[p][t] + 1
       /\ ~Announced(p, t) => Said(p, t, Len(cids[p])) = checks[p][t]

Verified ==
  \A p \in Parties, t \in Ids :
    /\ tpc[p][t] = "open" => opened[p][t] = checks[p][t] + 1
    /\ tpc[p][t] # "open" => opened[p][t] = checks[p][t]
    /\ \A q \in Parties : checks[p][t] <= opened[q][t]

(* The checks of t that coordinator p has taken off its counts.            *)
Settled(p, t) == cpc[p] = "done" /\ at[p] = t /\ done[p] = 1
Base(p, t) == IF Settled(p, t) THEN checks[p][t] - 1 ELSE checks[p][t]

Heard(p, t) == {q \in Parties : Said(q, t, round[p]) = Base(p, t) + 1}
Counts ==
  \A p \in Parties :
    /\ \A q \in Parties : round[p] <= Len(cids[q])
    /\ \A t \in Ids :
         /\ Settled(p, t) => checks[p][t] > 0
         /\ \A q \in Parties : Said(q, t, round[p]) \in {Base(p, t), Base(p, t) + 1}
         /\ waiting[p][t] = Cardinality(Heard(p, t))
    /\ cpc[p] = "done" => waiting[p][at[p]] = NParties

(* A check is let go in the first round that makes its count full.         *)
Passed(p, t) == cpc[p] \notin {"scan", "done"} \/ t < at[p]
InOrder ==
  \A p \in Parties, t \in Ids :
    /\ round[p] > 0 => \E q \in Parties : Said(q, t, round[p] - 1) <= Base(p, t)
    /\ Passed(p, t) => \E q \in Parties : Said(q, t, round[p]) <= Base(p, t)

RoundInv == RoundType /\ Asked /\ Verified /\ Counts /\ InOrder

---------------------------------------------------------------------------
(* Facts about the counts.                                                 *)
LEMMA TpcSet ==
  ASSUME CheckType, NEW p \in Parties, NEW t \in Ids, NEW v \in ThreadStates,
         tpc' = Set(tpc, p, t, v)
  PROVE  /\ tpc'[p][t] = v
         /\ \A q \in Parties, u \in Ids : (q # p \/ u # t) => tpc'[q][u] = tpc[q][u]
<1>1. tpc \in [Parties -> [Ids -> ThreadStates]]
  BY DEF CheckType
<1> QED BY <1>1 DEF Set

LEMMA NatSet ==
  ASSUME NEW f \in [Parties -> [Ids -> Nat]], NEW p \in Parties, NEW t \in Ids, NEW v \in Nat
  PROVE  /\ Set(f, p, t, v) \in [Parties -> [Ids -> Nat]]
         /\ Set(f, p, t, v)[p][t] = v
         /\ \A q \in Parties, u \in Ids : (q # p \/ u # t) => Set(f, p, t, v)[q][u] = f[q][u]
BY DEF Set

LEMMA TimesNat ==
  ASSUME NEW s, NEW t, NEW k \in Nat
  PROVE  Times(s, t, k) \in Nat /\ IsFiniteSet(RoundsOf(s, t, k))
<1>1. IsFiniteSet(1 .. k)
  BY FS_Interval
<1>2. RoundsOf(s, t, k) \in SUBSET (1 .. k)
  BY DEF RoundsOf
<1>3. IsFiniteSet(RoundsOf(s, t, k))
  BY <1>1, <1>2, FS_Subset
<1> QED BY <1>3, FS_CardinalityType DEF Times

LEMMA TimesGrows ==
  ASSUME NEW s, NEW t, NEW k \in Nat, NEW j \in Nat, j <= k
  PROVE  Times(s, t, j) <= Times(s, t, k)
<1>1. RoundsOf(s, t, j) \in SUBSET RoundsOf(s, t, k)
  BY DEF RoundsOf
<1> QED BY <1>1, TimesNat, FS_Subset DEF Times

LEMMA TimesNext ==
  ASSUME NEW s, NEW t, NEW k \in Nat
  PROVE  /\ s[k + 1] = t => Times(s, t, k + 1) = Times(s, t, k) + 1
         /\ s[k + 1] # t => Times(s, t, k + 1) = Times(s, t, k)
<1>1. CASE s[k + 1] = t
  <2>1. RoundsOf(s, t, k + 1) = RoundsOf(s, t, k) \cup {k + 1}
    BY <1>1 DEF RoundsOf
  <2>2. k + 1 \notin RoundsOf(s, t, k)
    BY DEF RoundsOf
  <2>3. Cardinality(RoundsOf(s, t, k) \cup {k + 1}) = Cardinality(RoundsOf(s, t, k)) + 1
    BY <2>2, TimesNat, FS_AddElement
  <2> QED BY <1>1, <2>1, <2>3 DEF Times
<1>2. CASE s[k + 1] # t
  <2>1. RoundsOf(s, t, k + 1) = RoundsOf(s, t, k)
    BY <1>2 DEF RoundsOf
  <2> QED BY <1>2, <2>1 DEF Times
<1> QED BY <1>1, <1>2

LEMMA TimesZero == ASSUME NEW s, NEW t PROVE Times(s, t, 0) = 0
<1>1. RoundsOf(s, t, 0) = {}
  BY DEF RoundsOf
<1> QED BY <1>1, FS_EmptySet DEF Times

(* A count is full when all parties were heard.                            *)
LEMMA FullCount ==
  ASSUME NEW S \in SUBSET Parties
  PROVE  /\ IsFiniteSet(S) /\ Cardinality(S) \in Nat
         /\ Cardinality(S) = NParties <=> S = Parties
<1>1. NParties \in Nat /\ Parties = 0 .. NParties - 1 /\ NParties > 0
  BY CoordinatorAssumption DEF Parties
<1>2. IsFiniteSet(Parties) /\ Cardinality(Parties) = NParties
  BY <1>1, FS_Interval
<1> QED BY <1>2, FS_Subset, FS_CardinalityType

LEMMA BaseNat ==
  ASSUME RoundType, Counts, NEW p \in Parties, NEW t \in Ids
  PROVE  /\ Base(p, t) \in Nat /\ checks[p][t] \in Nat
         /\ Settled(p, t) => checks[p][t] = Base(p, t) + 1
         /\ ~Settled(p, t) => checks[p][t] = Base(p, t)
<1>1. checks[p][t] \in Nat
  BY DEF RoundType
<1>2. Settled(p, t) => checks[p][t] > 0
  BY DEF Counts
<1> QED BY <1>1, <1>2 DEF Base

(* While a check is going on, its count was full.                          *)
LEMMA AllHeard ==
  ASSUME CheckInv, RoundType, Counts, NEW p \in Parties, cpc[p] = "done"
  PROVE  /\ at[p] \in Ids
         /\ \A q \in Parties : Said(q, at[p], round[p]) = Base(p, at[p]) + 1
<1> PICK t \in Ids : t = at[p]
  BY DEF CheckInv, Token
<1>1. waiting[p][t] = Cardinality(Heard(p, t)) /\ waiting[p][t] = NParties
  BY DEF Counts
<1>2. Heard(p, t) \in SUBSET Parties
  BY DEF Heard
<1>3. Heard(p, t) = Parties
  BY <1>1, <1>2, FullCount
<1> QED BY <1>3 DEF Heard

(* When p may open a check, every party has asked for the same one.        *)
LEMMA AllAnnounced ==
  ASSUME CheckInv, RoundInv, NEW p \in Parties, NEW t \in Ids, signals[p][t] > 0, NEW q \in Parties
  PROVE  checks[q][t] = checks[p][t] /\ Announced(q, t)
<1>1. cpc[p] = "done" /\ at[p] = t /\ done[p] = 0 /\ tpc[p][t] # "open"
  BY DEF CheckInv, Token, Quiet, Signalled, Opening, Reported
<1>2. Base(p, t) = checks[p][t]
  BY <1>1 DEF Base, Settled
<1>3. Said(q, t, round[p]) = checks[p][t] + 1
  BY <1>1, <1>2, AllHeard DEF RoundInv
<1>4. /\ round[p] \in Nat /\ Len(cids[q]) \in Nat /\ round[p] <= Len(cids[q])
      /\ checks[p][t] \in Nat /\ checks[q][t] \in Nat
  BY DEF RoundInv, RoundType, Counts
<1>5. Said(q, t, round[p]) <= Said(q, t, Len(cids[q]))
  BY <1>4, TimesGrows DEF Said
<1>6. opened[p][t] = checks[p][t] /\ checks[q][t] <= opened[p][t]
  BY <1>1 DEF RoundInv, Verified
<1>7. /\ Announced(q, t) => Said(q, t, Len(cids[q])) = checks[q][t] + 1
      /\ ~Announced(q, t) => Said(q, t, Len(cids[q])) = checks[q][t]
  BY DEF RoundInv, Asked
<1> QED BY <1>3, <1>4, <1>5, <1>6, <1>7
---------------------------------------------------------------------------
(* Steps of the threads.  The coordinators' counts stay when what they are *)
(* compared with does.                                                     *)
LEMMA CountsKept ==
  ASSUME Counts, InOrder, UNCHANGED <<cids, round, waiting, at, cpc>>,
         \A p \in Parties, t \in Ids : /\ Base(p, t)' = Base(p, t)
                                       /\ Settled(p, t)' => checks'[p][t] > 0
  PROVE  Counts' /\ InOrder'
<1>1. \A q, t, k : Said(q, t, k)' = Said(q, t, k)
  BY DEF Said
<1>2. \A p \in Parties, t \in Ids : Heard(p, t)' = Heard(p, t)
  BY <1>1 DEF Heard
<1>3. Counts'
  BY <1>1, <1>2 DEF Counts
<1>4. \A p \in Parties, t \in Ids : Passed(p, t)' <=> Passed(p, t)
  BY DEF Passed
<1>5. InOrder'
  BY <1>1, <1>4 DEF InOrder
<1> QED BY <1>3, <1>5

LEMMA BaseKept ==
  ASSUME Counts, InOrder, UNCHANGED <<cids, round, waiting, at, cpc, done, checks>>
  PROVE  Counts' /\ InOrder'
<1>1. \A p \in Parties, t \in Ids : /\ Base(p, t)' = Base(p, t)
                                    /\ Settled(p, t)' => checks'[p][t] > 0
  BY DEF Base, Settled, Counts
<1> QED BY <1>1, CountsKept

LEMMA AskedKept ==
  ASSUME Asked, UNCHANGED <<in, cids>>,
         \A p \in Parties, t \in Ids :
           /\ Queued(p, t) => tpc'[p][t] = "wait"
           /\ \/ (Announced(p, t)' <=> Announced(p, t)) /\ checks'[p][t] = checks[p][t]
              \/ Announced(p, t) /\ ~Announced(p, t)' /\ checks'[p][t] = checks[p][t] + 1
  PROVE  Asked'
<1>1. \A q, t, k : Said(q, t, k)' = Said(q, t, k)
  BY DEF Said
<1>2. \A p \in Parties, t \in Ids : Queued(p, t)' <=> Queued(p, t)
  BY DEF Queued
<1> QED BY <1>1, <1>2 DEF Asked

LEMMA RoundCommit ==
  ASSUME CheckInv, RoundInv, NEW p \in Parties, NEW t \in Ids, Commit(p, t)
  PROVE  RoundInv'
<1>1. /\ tpc[p][t] = "work" /\ tpc' = Set(tpc, p, t, "commit") /\ "commit" \in ThreadStates
      /\ UNCHANGED <<checks, opened, in, signals, done, cpc, cids, round, waiting, at>>
  BY DEF Commit, queueVars, coordVars, ThreadStates
<1>2. /\ tpc'[p][t] = "commit"
      /\ \A q \in Parties, u \in Ids : (q # p \/ u # t) => tpc'[q][u] = tpc[q][u]
  BY <1>1, TpcSet DEF CheckInv
<1>3. ASSUME NEW q \in Parties, NEW u \in Ids
      PROVE  /\ Queued(q, u) => tpc'[q][u] = "wait"
             /\ Announced(q, u)' <=> Announced(q, u)
             /\ tpc'[q][u] = "open" <=> tpc[q][u] = "open"
  <2>1. Queued(q, u) => tpc[q][u] = "wait"
    BY DEF RoundInv, Asked
  <2>2. Queued(q, u)' <=> Queued(q, u)
    BY <1>1 DEF Queued
  <2> QED BY <1>1, <1>2, <2>1, <2>2 DEF Announced
<1>4. Asked'
  BY <1>1, <1>3, AskedKept DEF RoundInv
<1>5. Verified'
  BY <1>1, <1>3 DEF RoundInv, Verified
<1> QED BY <1>1, <1>4, <1>5, BaseKept DEF RoundInv, RoundType

(* The queue of ids.                                                       *)
LEMMA QueueAppend ==
  ASSUME NEW s \in Seq(Ids), NEW t \in Ids, \A n \in DOMAIN s : s[n] # t,
         \A n, m \in DOMAIN s : s[n] = s[m] => n = m
  PROVE  /\ \A n, m \in DOMAIN Append(s, t) : Append(s, t)[n] = Append(s, t)[m] => n = m
         /\ \A u : (\E n \in DOMAIN Append(s, t) : Append(s, t)[n] = u)
                     <=> u = t \/ \E n \in DOMAIN s : s[n] = u
<1>1. /\ DOMAIN Append(s, t) = DOMAIN s \cup {Len(s) + 1} /\ Append(s, t)[Len(s) + 1] = t
      /\ \A n \in DOMAIN s : Append(s, t)[n] = s[n]
  OBVIOUS
<1> QED BY <1>1

LEMMA QueueTail ==
  ASSUME NEW s \in Seq(Ids), s # <<>>, \A n, m \in DOMAIN s : s[n] = s[m] => n = m
  PROVE  /\ Head(s) \in Ids /\ \E n \in DOMAIN s : s[n] = Head(s)
         /\ \A n, m \in DOMAIN Tail(s) : Tail(s)[n] = Tail(s)[m] => n = m
         /\ \A u : (\E n \in DOMAIN Tail(s) : Tail(s)[n] = u)
                     <=> u # Head(s) /\ \E n \in DOMAIN s : s[n] = u
<1>1. /\ 1 \in DOMAIN s /\ Head(s) = s[1] /\ Head(s) \in Ids
      /\ \A n \in DOMAIN Tail(s) : n + 1 \in DOMAIN s /\ Tail(s)[n] = s[n + 1] /\ n + 1 # 1
      /\ \A n \in DOMAIN s : n # 1 => n - 1 \in DOMAIN Tail(s) /\ Tail(s)[n - 1] = s[n]
      /\ \A n \in DOMAIN Tail(s) : n \in Nat
  OBVIOUS
<1>2. \A n, m \in DOMAIN Tail(s) : Tail(s)[n] = Tail(s)[m] => n = m
  <2> SUFFICES ASSUME NEW n \in DOMAIN Tail(s), NEW m \in DOMAIN Tail(s),
                      Tail(s)[n] = Tail(s)[m]
               PROVE  n = m
    OBVIOUS
  <2>1. n + 1 = m + 1
    BY <1>1
  <2> QED BY <1>1, <2>1
<1>3. ASSUME NEW u, u # Head(s), NEW n \in DOMAIN s, s[n] = u
      PROVE  \E m \in DOMAIN Tail(s) : Tail(s)[m] = u
  <2>1. n # 1
    BY <1>1, <1>3
  <2> QED BY <1>1, <1>3, <2>1
<1>4. ASSUME NEW n \in DOMAIN Tail(s)
      PROVE  Tail(s)[n] # Head(s) /\ \E m \in DOMAIN s : s[m] = Tail(s)[n]
  BY <1>1
<1> QED BY <1>1, <1>2, <1>3, <1>4

LEMMA RoundAsk ==
  ASSUME CheckInv, RoundInv, NEW p \in Parties, NEW t \in Ids, Ask(p, t)
  PROVE  RoundInv'
<1>1. /\ tpc[p][t] = "commit" /\ tpc' = Set(tpc, p, t, "wait") /\ "wait" \in ThreadStates
      /\ in' = [in EXCEPT ![p] = Append(@, t)]
      /\ UNCHANGED <<checks, opened, signals, done, cpc, cids, round, waiting, at>>
  BY DEF Ask, coordVars, ThreadStates
<1>2. /\ tpc'[p][t] = "wait"
      /\ \A q \in Parties, u \in Ids : (q # p \/ u # t) => tpc'[q][u] = tpc[q][u]
  BY <1>1, TpcSet DEF CheckInv
<1>3. /\ in \in [Parties -> Seq(Ids)] /\ in' \in [Parties -> Seq(Ids)] /\ in[p] \in Seq(Ids)
      /\ in'[p] = Append(in[p], t) /\ \A q \in Parties : q # p => in'[q] = in[q]
  BY <1>1 DEF RoundInv, RoundType
<1>4. /\ ~Queued(p, t) /\ \A n \in DOMAIN in[p] : in[p][n] # t
      /\ \A q \in Parties : \A n, m \in DOMAIN in[q] : in[q][n] = in[q][m] => n = m
  BY <1>1 DEF RoundInv, Asked, Queued
<1>5. /\ \A n, m \in DOMAIN in'[p] : in'[p][n] = in'[p][m] => n = m
      /\ \A u : Queued(p, u)' <=> u = t \/ Queued(p, u)
  <2>1. /\ \A n, m \in DOMAIN in'[p] : in'[p][n] = in'[p][m] => n = m
        /\ \A u : (\E n \in DOMAIN in'[p] : in'[p][n] = u)
                    <=> u = t \/ \E n \in DOMAIN in[p] : in[p][n] = u
    <3>1. \A n \in DOMAIN in[p] : in[p][n] # t
      BY <1>4
    <3>2. \A n, m \in DOMAIN in[p] : in[p][n] = in[p][m] => n = m
      BY <1>4
    <3>3. /\ \A n, m \in DOMAIN Append(in[p], t) :
               Append(in[p], t)[n] = Append(in[p], t)[m] => n = m
          /\ \A u : (\E n \in DOMAIN Append(in[p], t) : Append(in[p], t)[n] = u)
                      <=> u = t \/ \E n \in DOMAIN in[p] : in[p][n] = u
      BY <1>3, <3>1, <3>2, QueueAppend
    <3> QED BY <1>3, <3>3
  <2> QED BY <2>1 DEF Queued
<1>6. \A q \in Parties, u \in Ids : (q # p \/ u # t) => (Queued(q, u)' <=> Queued(q, u))
  <2>1. ASSUME NEW q \in Parties, NEW u \in Ids, q # p PROVE Queued(q, u)' <=> Queued(q, u)
    BY <1>3, <2>1 DEF Queued
  <2> QED BY <1>5, <2>1
<1>7. ASSUME NEW q \in Parties, NEW u \in Ids
      PROVE  /\ Announced(q, u)' <=> Announced(q, u)
             /\ tpc'[q][u] = "open" <=> tpc[q][u] = "open"
  BY <1>1, <1>2, <1>5, <1>6 DEF Announced
<1>8. \A q, u, k : Said(q, u, k)' = Said(q, u, k)
  BY <1>1 DEF Said
<1>9. Asked'
  <2>1. \A q \in Parties : \A n, m \in DOMAIN in'[q] : in'[q][n] = in'[q][m] => n = m
    BY <1>3, <1>4, <1>5
  <2>2. \A q \in Parties, u \in Ids : Queued(q, u)' => tpc'[q][u] = "wait"
    BY <1>2, <1>6 DEF RoundInv, Asked
  <2>3. ASSUME NEW q \in Parties, NEW u \in Ids
        PROVE  /\ Announced(q, u)' => Said(q, u, Len(cids[q]))' = checks'[q][u] + 1
               /\ ~Announced(q, u)' => Said(q, u, Len(cids[q]))' = checks'[q][u]
    <3>1. /\ Announced(q, u) => Said(q, u, Len(cids[q])) = checks[q][u] + 1
          /\ ~Announced(q, u) => Said(q, u, Len(cids[q])) = checks[q][u]
      BY DEF RoundInv, Asked
    <3>2. Said(q, u, Len(cids[q]))' = Said(q, u, Len(cids[q]))
      BY <1>1 DEF Said
    <3> QED BY <1>1, <1>7, <3>1, <3>2
  <2> QED BY <2>1, <2>2, <2>3 DEF Asked
<1>10. Verified'
  <2>1. ASSUME NEW q \in Parties, NEW u \in Ids
        PROVE  /\ tpc'[q][u] = "open" => opened[q][u] = checks[q][u] + 1
               /\ tpc'[q][u] # "open" => opened[q][u] = checks[q][u]
               /\ \A r \in Parties : checks[q][u] <= opened[r][u]
    <3>1. /\ tpc[q][u] = "open" => opened[q][u] = checks[q][u] + 1
          /\ tpc[q][u] # "open" => opened[q][u] = checks[q][u]
          /\ \A r \in Parties : checks[q][u] <= opened[r][u]
      BY DEF RoundInv, Verified
    <3>2. tpc'[q][u] = "open" <=> tpc[q][u] = "open"
      BY <1>7
    <3> QED BY <3>1, <3>2
  <2> QED BY <1>1, <2>1 DEF Verified
<1> QED BY <1>1, <1>3, <1>9, <1>10, BaseKept DEF RoundInv, RoundType

LEMMA RoundOpen ==
  ASSUME CheckInv, RoundInv, NEW p \in Parties, NEW t \in Ids, Open(p, t)
  PROVE  RoundInv'
<1>1. /\ tpc[p][t] = "wait" /\ tpc' = Set(tpc, p, t, "open") /\ "open" \in ThreadStates
      /\ signals[p][t] > 0 /\ opened' = Set(opened, p, t, opened[p][t] + 1)
      /\ UNCHANGED <<checks, in, done, cpc, cids, round, waiting, at>>
  BY DEF Open, coordVars, ThreadStates
<1>2. /\ tpc'[p][t] = "open"
      /\ \A q \in Parties, u \in Ids : (q # p \/ u # t) => tpc'[q][u] = tpc[q][u]
  BY <1>1, TpcSet DEF CheckInv
<1>3. /\ \A q \in Parties, u \in Ids : opened[q][u] \in Nat /\ checks[q][u] \in Nat
      /\ opened[p][t] + 1 \in Nat
  BY DEF CheckInv, CheckType, RoundInv, RoundType
<1>4. /\ opened'[p][t] = opened[p][t] + 1
      /\ \A q \in Parties, u \in Ids : (q # p \/ u # t) => opened'[q][u] = opened[q][u]
  <2>1. opened \in [Parties -> [Ids -> Nat]]
    BY DEF CheckInv, CheckType
  <2> QED BY <1>1, <1>3, <2>1, NatSet
<1>5. Announced(p, t)
  BY <1>1, AllAnnounced
<1>6. ASSUME NEW q \in Parties, NEW u \in Ids
      PROVE  /\ Queued(q, u) => tpc'[q][u] = "wait"
             /\ Announced(q, u)' <=> Announced(q, u)
  <2>1. Queued(q, u) => tpc[q][u] = "wait"
    BY DEF RoundInv, Asked
  <2>2. Queued(q, u)' <=> Queued(q, u)
    BY <1>1 DEF Queued
  <2> QED BY <1>1, <1>2, <1>5, <2>1, <2>2 DEF Announced
<1>7. Asked'
  BY <1>1, <1>6, AskedKept DEF RoundInv
<1>8. Verified'
  <2>1. ASSUME NEW q \in Parties, NEW u \in Ids
        PROVE  /\ tpc'[q][u] = "open" => opened'[q][u] = checks[q][u] + 1
               /\ tpc'[q][u] # "open" => opened'[q][u] = checks[q][u]
    <3>1. /\ tpc[q][u] = "open" => opened[q][u] = checks[q][u] + 1
          /\ tpc[q][u] # "open" => opened[q][u] = checks[q][u]
      BY DEF RoundInv, Verified
    <3> QED BY <1>1, <1>2, <1>4, <3>1
  <2>2. ASSUME NEW q \in Parties, NEW r \in Parties, NEW u \in Ids
        PROVE  checks[q][u] <= opened'[r][u]
    <3>1. checks[q][u] <= opened[r][u]
      BY DEF RoundInv, Verified
    <3>2. opened'[r][u] = opened[r][u] \/ opened'[r][u] = opened[r][u] + 1
      BY <1>4
    <3> QED BY <1>3, <3>1, <3>2
  <2> QED BY <1>1, <2>1, <2>2 DEF Verified
<1> QED BY <1>1, <1>7, <1>8, BaseKept DEF RoundInv, RoundType

LEMMA RoundVerify ==
  ASSUME CheckInv, RoundInv, NEW p \in Parties, NEW t \in Ids, Verify(p, t)
  PROVE  RoundInv'
<1>1. /\ tpc[p][t] = "open" /\ Received(p, t, opened)
      /\ checks' = Set(checks, p, t, checks[p][t] + 1) /\ done' = [done EXCEPT ![p] = @ + 1]
      /\ UNCHANGED <<opened, in, cpc, cids, round, waiting, at>>
  BY DEF Verify, coordVars
<1>2. PICK s \in {"over", "work"} : tpc' = Set(tpc, p, t, s)
  BY DEF Verify
<1>3. tpc'[p][t] = s /\ \A q \in Parties, u \in Ids : (q # p \/ u # t) => tpc'[q][u] = tpc[q][u]
  <2>1. s \in ThreadStates
    BY DEF ThreadStates
  <2> QED BY <1>2, <2>1, TpcSet DEF CheckInv
<1>4. /\ \A q \in Parties, u \in Ids : opened[q][u] \in Nat /\ checks[q][u] \in Nat
      /\ checks[p][t] + 1 \in Nat
  BY DEF CheckInv, CheckType, RoundInv, RoundType
<1>5. /\ checks' \in [Parties -> [Ids -> Nat]] /\ checks'[p][t] = checks[p][t] + 1
      /\ \A q \in Parties, u \in Ids : (q # p \/ u # t) => checks'[q][u] = checks[q][u]
  <2>1. checks \in [Parties -> [Ids -> Nat]]
    BY DEF RoundInv, RoundType
  <2> QED BY <1>1, <1>4, <2>1, NatSet
<1>6. /\ cpc[p] = "done" /\ at[p] = t /\ done[p] = 0 /\ done'[p] = 1
      /\ \A q \in Parties : q # p => done'[q] = done[q]
  BY <1>1 DEF CheckInv, CheckType, Token, Quiet, Signalled, Opening, Reported
<1>7. ASSUME NEW q \in Parties, NEW u \in Ids
      PROVE  Base(q, u)' = Base(q, u) /\ (Settled(q, u)' => checks'[q][u] > 0)
  <2>1. CASE q = p /\ u = t
    <3>1. Settled(q, u)' /\ ~Settled(q, u)
      BY <1>1, <1>6, <2>1 DEF Settled
    <3>2. checks'[q][u] - 1 = checks[q][u] /\ checks'[q][u] > 0
      <4>1. checks[p][t] \in Nat /\ checks'[p][t] = checks[p][t] + 1
        BY <1>4, <1>5
      <4> QED BY <2>1, <4>1
    <3> QED BY <3>1, <3>2 DEF Base
  <2>2. CASE q # p \/ u # t
    <3>1. (Settled(q, u)' <=> Settled(q, u)) /\ checks'[q][u] = checks[q][u]
      BY <1>1, <1>5, <1>6, <2>2 DEF Settled
    <3> QED BY <3>1 DEF Base, RoundInv, Counts
  <2> QED BY <2>1, <2>2
<1>8. Counts' /\ InOrder'
  BY <1>1, <1>7, CountsKept DEF RoundInv
<1>9. ASSUME NEW q \in Parties, NEW u \in Ids
      PROVE  /\ Queued(q, u) => tpc'[q][u] = "wait"
             /\ \/ (Announced(q, u)' <=> Announced(q, u)) /\ checks'[q][u] = checks[q][u]
                \/ Announced(q, u) /\ ~Announced(q, u)' /\ checks'[q][u] = checks[q][u] + 1
  <2>1. Queued(q, u) => tpc[q][u] = "wait"
    BY DEF RoundInv, Asked
  <2>2. Queued(q, u)' <=> Queued(q, u)
    BY <1>1 DEF Queued
  <2> QED BY <1>1, <1>3, <1>5, <2>1, <2>2 DEF Announced
<1>10. Asked'
  BY <1>1, <1>9, AskedKept DEF RoundInv
<1>11. Verified'
  <2>1. ASSUME NEW q \in Parties, NEW u \in Ids
        PROVE  /\ tpc'[q][u] = "open" => opened[q][u] = checks'[q][u] + 1
               /\ tpc'[q][u] # "open" => opened[q][u] = checks'[q][u]
    <3>1. /\ tpc[q][u] = "open" => opened[q][u] = checks[q][u] + 1
          /\ tpc[q][u] # "open" => opened[q][u] = checks[q][u]
      BY DEF RoundInv, Verified
    <3> QED BY <1>1, <1>3, <1>5, <3>1
  <2>2. ASSUME NEW q \in Parties, NEW r \in Parties, NEW u \in Ids
        PROVE  checks'[q][u] <= opened[r][u]
    <3>1. checks[q][u] <= opened[r][u] /\ opened[r][t] >= opened[p][t]
      BY <1>1 DEF RoundInv, Verified, Received
    <3>2. opened[p][t] = checks[p][t] + 1
      BY <1>1 DEF RoundInv, Verified
    <3> QED BY <1>4, <1>5, <3>1, <3>2
  <2> QED BY <1>1, <2>1, <2>2 DEF Verified
<1> QED BY <1>1, <1>5, <1>8, <1>10, <1>11 DEF RoundInv, RoundType

---------------------------------------------------------------------------
(* Steps of the coordinators.                                              *)
LEMMA CountsStay ==
  ASSUME RoundType, Counts, InOrder, UNCHANGED <<round, waiting, at, done, checks>>,
         \A p \in Parties : /\ Len(cids[p]) <= Len(cids'[p]) /\ Len(cids'[p]) \in Nat
                            /\ \A t \in Ids, k \in 0 .. Len(cids[p]) : Said(p, t, k)' = Said(p, t, k)
                            /\ cpc'[p] = cpc[p] \/ {cpc[p], cpc'[p]} \cap {"scan", "done"} = {}
  PROVE  Counts' /\ InOrder'
<1>1. \A p \in Parties : cpc'[p] = "done" <=> cpc[p] = "done"
  BY Zenon
<1>2. \A p \in Parties, t \in Ids : /\ Settled(p, t)' <=> Settled(p, t)
                                    /\ Passed(p, t)' <=> Passed(p, t)
  BY <1>1 DEF Settled, Passed
<1>3. \A p \in Parties, t \in Ids : Base(p, t)' = Base(p, t)
  BY <1>2 DEF Base
<1>4. \A p, q \in Parties : round[p] \in Nat /\ Len(cids[q]) \in Nat /\ round[p] <= Len(cids[q])
  BY DEF RoundType, Counts
<1>5. \A p, q \in Parties, t \in Ids : Said(q, t, round[p])' = Said(q, t, round[p])
  BY <1>4
<1>6. \A p \in Parties, t \in Ids : Heard(p, t)' = Heard(p, t)
  BY <1>3, <1>5 DEF Heard
<1>7. ASSUME NEW p \in Parties, NEW q \in Parties PROVE round'[p] <= Len(cids'[q])
  BY <1>4
<1>8. ASSUME NEW p \in Parties, NEW t \in Ids
      PROVE  /\ Settled(p, t)' => checks'[p][t] > 0
             /\ \A q \in Parties : Said(q, t, round[p])' \in {Base(p, t)', Base(p, t)' + 1}
             /\ waiting'[p][t] = Cardinality(Heard(p, t)')
  <2>1. /\ Settled(p, t) => checks[p][t] > 0
        /\ \A q \in Parties : Said(q, t, round[p]) \in {Base(p, t), Base(p, t) + 1}
        /\ waiting[p][t] = Cardinality(Heard(p, t))
    BY DEF Counts
  <2> QED BY <1>2, <1>3, <1>5, <1>6, <2>1
<1>9. Counts'
  BY <1>1, <1>7, <1>8 DEF Counts
<1>10. ASSUME NEW p \in Parties, NEW t \in Ids
       PROVE  /\ round[p] > 0 => \E q \in Parties : Said(q, t, round[p] - 1)' <= Base(p, t)'
              /\ Passed(p, t)' => \E q \in Parties : Said(q, t, round[p])' <= Base(p, t)'
  <2>1. /\ round[p] > 0 => \E q \in Parties : Said(q, t, round[p] - 1) <= Base(p, t)
        /\ Passed(p, t) => \E q \in Parties : Said(q, t, round[p]) <= Base(p, t)
    BY DEF InOrder
  <2>2. ASSUME NEW q \in Parties, round[p] > 0
        PROVE  Said(q, t, round[p] - 1)' = Said(q, t, round[p] - 1)
    <3>1. round[p] - 1 \in 0 .. Len(cids[q])
      BY <1>4, <2>2
    <3> QED BY <3>1
  <2> QED BY <1>2, <1>3, <1>5, <2>1, <2>2
<1>11. InOrder'
  BY <1>10 DEF InOrder
<1> QED BY <1>9, <1>11

LEMMA RoundAnnounce ==
  ASSUME CheckInv, RoundInv, NEW p \in Parties, Announce(p)
  PROVE  RoundInv'
<1> PICK h \in Ids, L \in Nat : h = Head(in[p]) /\ L = Len(cids[p])
  <2>1. in[p] \in Seq(Ids) /\ in[p] # <<>> /\ cids[p] \in Seq(Ids)
    BY DEF Announce, RoundInv, RoundType
  <2> QED BY <2>1
<1>1. /\ in[p] # <<>> /\ cpc[p] = "pop"
      /\ cids' = [cids EXCEPT ![p] = Append(@, h)] /\ in' = [in EXCEPT ![p] = Tail(@)]
      /\ cpc' = [cpc EXCEPT ![p] = "broadcast"]
      /\ UNCHANGED <<tpc, checks, opened, done, round, waiting, at>>
  BY DEF Announce, threadVars
<1>2. /\ in \in [Parties -> Seq(Ids)] /\ cids \in [Parties -> Seq(Ids)]
      /\ in[p] \in Seq(Ids) /\ cids[p] \in Seq(Ids)
  BY DEF RoundInv, RoundType
<1>3. \A n, m \in DOMAIN in[p] : in[p][n] = in[p][m] => n = m
  BY DEF RoundInv, Asked
<1>4. /\ \E n \in DOMAIN in[p] : in[p][n] = h
      /\ \A n, m \in DOMAIN Tail(in[p]) : Tail(in[p])[n] = Tail(in[p])[m] => n = m
      /\ \A u : (\E n \in DOMAIN Tail(in[p]) : Tail(in[p])[n] = u)
                  <=> u # h /\ \E n \in DOMAIN in[p] : in[p][n] = u
  BY <1>1, <1>2, <1>3, QueueTail
<1>5. /\ in' \in [Parties -> Seq(Ids)] /\ in'[p] = Tail(in[p])
      /\ \A q \in Parties : q # p => in'[q] = in[q]
  BY <1>1, <1>2
<1>6. /\ cids' \in [Parties -> Seq(Ids)] /\ cids'[p] = Append(cids[p], h) /\ Len(cids'[p]) = L + 1
      /\ \A q \in Parties : q # p => cids'[q] = cids[q]
  BY <1>1, <1>2, <1>4
<1>7. Queued(p, h)
  BY <1>4 DEF Queued
<1>8. ASSUME NEW q \in Parties, NEW u \in Ids
      PROVE  Queued(q, u)' <=> Queued(q, u) /\ (q # p \/ u # h)
  <2>1. CASE q = p
    <3>1. (\E n \in DOMAIN in'[p] : in'[p][n] = u) <=> u # h /\ \E n \in DOMAIN in[p] : in[p][n] = u
      BY <1>4, <1>5
    <3> QED BY <2>1, <3>1 DEF Queued
  <2>2. CASE q # p
    BY <1>5, <2>2 DEF Queued
  <2> QED BY <2>1, <2>2
<1>9. ASSUME NEW q \in Parties, NEW u \in Ids, NEW k \in 0 .. Len(cids[q])
      PROVE  Said(q, u, k)' = Said(q, u, k)
  <2>1. CASE q = p
    <3>1. ASSUME NEW n \in 1 .. k PROVE cids'[q][n] = cids[q][n]
      <4>1. n \in 1 .. Len(cids[p]) /\ cids[p] \in Seq(Ids)
        BY <1>2, <2>1
      <4>2. Append(cids[p], h)[n] = cids[p][n]
        BY <4>1
      <4> QED BY <1>6, <2>1, <4>2
    <3>2. RoundsOf(cids'[q], u, k) = RoundsOf(cids[q], u, k)
      BY <3>1 DEF RoundsOf
    <3> QED BY <3>2 DEF Said, Times
  <2>2. CASE q # p
    BY <1>6, <2>2 DEF Said
  <2> QED BY <2>1, <2>2
<1>10. ASSUME NEW u \in Ids
       PROVE  /\ u = h => Said(p, u, L + 1)' = Said(p, u, L) + 1
              /\ u # h => Said(p, u, L + 1)' = Said(p, u, L)
  <2>1. cids'[p][L + 1] = h
    BY <1>2, <1>6
  <2>2. /\ u = h => Times(cids'[p], u, L + 1) = Times(cids'[p], u, L) + 1
        /\ u # h => Times(cids'[p], u, L + 1) = Times(cids'[p], u, L)
    BY <1>2, <2>1, TimesNext
  <2>3. Said(p, u, L)' = Said(p, u, L)
    BY <1>2, <1>9
  <2> QED BY <2>2, <2>3 DEF Said
<1>11. Asked'
  <2>1. \A q \in Parties : \A n, m \in DOMAIN in'[q] : in'[q][n] = in'[q][m] => n = m
    BY <1>4, <1>5 DEF RoundInv, Asked
  <2>2. ASSUME NEW q \in Parties, NEW u \in Ids, Queued(q, u)' PROVE tpc'[q][u] = "wait"
    BY <1>1, <1>8, <2>2 DEF RoundInv, Asked
  <2>3. ASSUME NEW q \in Parties, NEW u \in Ids
        PROVE  /\ Announced(q, u)' => Said(q, u, Len(cids[q]))' = checks'[q][u] + 1
               /\ ~Announced(q, u)' => Said(q, u, Len(cids[q]))' = checks'[q][u]
    <3>1. /\ Announced(q, u) => Said(q, u, Len(cids[q])) = checks[q][u] + 1
          /\ ~Announced(q, u) => Said(q, u, Len(cids[q])) = checks[q][u]
      BY DEF RoundInv, Asked
    <3>2. CASE q = p /\ u = h
      <4>1. tpc[p][u] = "wait" /\ ~Announced(q, u) /\ Announced(q, u)'
        BY <1>1, <1>7, <1>8, <3>2 DEF RoundInv, Asked, Announced
      <4>2. Said(q, u, Len(cids[q]))' = Said(q, u, Len(cids[q])) + 1
        BY <1>6, <1>10, <3>2
      <4> QED BY <1>1, <3>1, <4>1, <4>2
    <3>3. CASE q = p /\ u # h
      <4>1. Announced(q, u)' <=> Announced(q, u)
        BY <1>1, <1>8, <3>3 DEF Announced
      <4>2. Said(q, u, Len(cids[q]))' = Said(q, u, Len(cids[q]))
        BY <1>6, <1>10, <3>3
      <4> QED BY <1>1, <3>1, <4>1, <4>2
    <3>4. CASE q # p
      <4>1. Announced(q, u)' <=> Announced(q, u)
        BY <1>1, <1>8, <3>4 DEF Announced
      <4>2. Said(q, u, Len(cids[q]))' = Said(q, u, Len(cids[q]))
        BY <1>6, <3>4 DEF Said
      <4> QED BY <1>1, <3>1, <4>1, <4>2
    <3> QED BY <3>2, <3>3, <3>4
  <2> QED BY <2>1, <2>2, <2>3 DEF Asked
<1>12. Counts' /\ InOrder'
  <2>1. ASSUME NEW q \in Parties
        PROVE  /\ Len(cids[q]) <= Len(cids'[q]) /\ Len(cids'[q]) \in Nat
               /\ cpc'[q] = cpc[q] \/ {cpc[q], cpc'[q]} \cap {"scan", "done"} = {}
    <3>1. CASE q = p
      BY <1>1, <1>2, <1>6, <3>1 DEF CheckInv, CheckType
    <3>2. CASE q # p
      BY <1>1, <1>6, <3>2 DEF CheckInv, CheckType
    <3> QED BY <3>1, <3>2
  <2> QED BY <1>1, <1>9, <2>1, CountsStay DEF RoundInv
<1>13. Verified'
  BY <1>1 DEF RoundInv, Verified
<1> QED BY <1>1, <1>5, <1>6, <1>11, <1>12, <1>13 DEF RoundInv, RoundType

(* The steps of a coordinator that do not send.                            *)
LEMMA SilentStep ==
  ASSUME RoundInv, UNCHANGED <<tpc, checks, opened, in, cids>>
  PROVE  Asked' /\ Verified'
<1>1. Asked'
  BY DEF RoundInv, Asked, Announced, Queued, Said
<1>2. Verified'
  BY DEF RoundInv, Verified
<1> QED BY <1>1, <1>2

LEMMA RoundTeardown ==
  ASSUME CheckInv, RoundInv, NEW p \in Parties, Teardown(p)
  PROVE  RoundInv'
<1>1. /\ cpc[p] = "pop" /\ cpc' = [cpc EXCEPT ![p] = "ended"]
      /\ UNCHANGED <<tpc, checks, opened, in, done, cids, round, waiting, at>>
  BY DEF Teardown, threadVars, queueVars
<1>2. ASSUME NEW q \in Parties
      PROVE  /\ Len(cids[q]) <= Len(cids'[q]) /\ Len(cids'[q]) \in Nat
             /\ \A t \in Ids, k \in 0 .. Len(cids[q]) : Said(q, t, k)' = Said(q, t, k)
             /\ cpc'[q] = cpc[q] \/ {cpc[q], cpc'[q]} \cap {"scan", "done"} = {}
  <2>1. Len(cids[q]) \in Nat /\ cids' = cids
    BY <1>1 DEF RoundInv, RoundType
  <2>2. cpc'[q] = cpc[q] \/ {cpc[q], cpc'[q]} \cap {"scan", "done"} = {}
    BY <1>1 DEF CheckInv, CheckType
  <2> QED BY <2>1, <2>2 DEF Said
<1> QED BY <1>1, <1>2, CountsStay, SilentStep DEF RoundInv, RoundType

---------------------------------------------------------------------------
(* An id whose count is not full has a party that has not asked again.     *)
LEMMA NotFull ==
  ASSUME RoundInv, NEW p \in Parties, NEW t \in Ids, waiting[p][t] # NParties
  PROVE  \E q \in Parties : Said(q, t, round[p]) <= Base(p, t)
<1>1. Heard(p, t) # Parties
  <2>1. Heard(p, t) \in SUBSET Parties /\ waiting[p][t] = Cardinality(Heard(p, t))
    BY DEF Heard, RoundInv, Counts
  <2> QED BY <2>1, FullCount
<1>2. PICK q \in Parties : Said(q, t, round[p]) # Base(p, t) + 1
  BY <1>1 DEF Heard
<1>3. Said(q, t, round[p]) = Base(p, t)
  BY <1>2 DEF RoundInv, Counts
<1>4. Base(p, t) \in Nat
  BY BaseNat DEF RoundInv
<1> QED BY <1>3, <1>4

(* The scan visits the full counts in the order of the ids.                *)
LEMMA ScanStep ==
  ASSUME RoundInv, NEW p \in Parties, cpc[p] = "scan",
         UNCHANGED <<cids, round, waiting, done, checks>>,
         \A q \in Parties \ {p} : cpc'[q] = cpc[q] /\ at'[q] = at[q],
         \A t \in Ids : ~Settled(p, t)' /\ (Passed(p, t)' => Passed(p, t) \/ waiting[p][t] # NParties),
         cpc'[p] = "done" => waiting[p][at'[p]] = NParties
  PROVE  Counts' /\ InOrder'
<1>1. \A q \in Parties, t \in Ids : Settled(q, t)' <=> Settled(q, t)
  BY DEF Settled
<1>2. \A q \in Parties, t \in Ids : Base(q, t)' = Base(q, t)
  BY <1>1 DEF Base
<1>3. \A q, t, k : Said(q, t, k)' = Said(q, t, k)
  BY DEF Said
<1>4. \A q \in Parties, t \in Ids : Heard(q, t)' = Heard(q, t)
  BY <1>2, <1>3 DEF Heard
<1>5. \A q \in Parties : cpc'[q] = "done" => waiting[q][at'[q]] = NParties
  BY DEF RoundInv, Counts
<1>6. Counts'
  BY <1>1, <1>2, <1>3, <1>4, <1>5 DEF RoundInv, Counts
<1>7. ASSUME NEW q \in Parties, NEW t \in Ids
      PROVE  /\ round[q] > 0 => \E r \in Parties : Said(r, t, round[q] - 1) <= Base(q, t)
             /\ Passed(q, t)' => \E r \in Parties : Said(r, t, round[q]) <= Base(q, t)
  <2>1. Passed(q, t)' => Passed(q, t) \/ waiting[q][t] # NParties
    BY DEF Passed
  <2> QED BY <2>1, NotFull DEF RoundInv, InOrder
<1>8. InOrder'
  BY <1>2, <1>3, <1>7 DEF InOrder
<1> QED BY <1>6, <1>8

LEMMA RoundEndScan ==
  ASSUME CheckInv, RoundInv, NEW p \in Parties, EndScan(p)
  PROVE  RoundInv'
<1>1. /\ cpc[p] = "scan" /\ Complete(p) = {} /\ cpc' = [cpc EXCEPT ![p] = "pop"]
      /\ UNCHANGED <<tpc, checks, opened, in, done, cids, round, waiting, at>>
  BY DEF EndScan, threadVars, queueVars
<1>2. cpc'[p] = "pop" /\ \A q \in Parties : q # p => cpc'[q] = cpc[q]
  BY <1>1 DEF CheckInv, CheckType
<1>3. ASSUME NEW t \in Ids
      PROVE  ~Settled(p, t)' /\ (Passed(p, t)' => Passed(p, t) \/ waiting[p][t] # NParties)
  <2>1. t \in Nat /\ at[p] \in Nat
    BY IdFacts DEF CheckInv, CheckType
  <2>2. t < at[p] \/ waiting[p][t] # NParties
    BY <1>1, <2>1 DEF Complete
  <2> QED BY <1>2, <2>2 DEF Settled, Passed
<1> QED BY <1>1, <1>2, <1>3, ScanStep, SilentStep DEF RoundInv, RoundType

LEMMA RoundGrant ==
  ASSUME CheckInv, RoundInv, NEW p \in Parties, Grant(p)
  PROVE  RoundInv'
<1>1. /\ cpc[p] = "scan" /\ cpc' = [cpc EXCEPT ![p] = "done"]
      /\ at' = [at EXCEPT ![p] = First(Complete(p))]
      /\ UNCHANGED <<tpc, checks, opened, in, done, cids, round, waiting>>
  BY DEF Grant, threadVars
<1>2. /\ First(Complete(p)) \in Complete(p)
      /\ \A u \in Complete(p) : First(Complete(p)) <= u
  <2>1. Complete(p) \in SUBSET Ids /\ Complete(p) # {}
    BY DEF Grant, Complete
  <2> QED BY <2>1, FirstIn
<1>3. /\ cpc'[p] = "done" /\ at'[p] = First(Complete(p))
      /\ \A q \in Parties \ {p} : cpc'[q] = cpc[q] /\ at'[q] = at[q]
  BY <1>1 DEF CheckInv, CheckType
<1>4. at'[p] \in Ids /\ waiting[p][at'[p]] = NParties
  BY <1>2, <1>3 DEF Complete
<1>5. ASSUME NEW t \in Ids
      PROVE  ~Settled(p, t)' /\ (Passed(p, t)' => Passed(p, t) \/ waiting[p][t] # NParties)
  <2>1. done[p] = 0
    BY <1>1 DEF CheckInv, Token
  <2>2. t \in Nat /\ at[p] \in Nat /\ at'[p] \in Nat
    BY <1>4, IdFacts DEF CheckInv, CheckType
  <2>3. t < at'[p] => t < at[p] \/ waiting[p][t] # NParties
    <3>1. t < at'[p] => t \notin Complete(p)
      BY <1>2, <1>3, <2>2
    <3> QED BY <2>2, <3>1 DEF Complete
  <2> QED BY <1>1, <1>3, <2>1, <2>3 DEF Settled, Passed
<1> QED BY <1>1, <1>3, <1>4, <1>5, ScanStep, SilentStep DEF RoundInv, RoundType

(* A check is taken off the counts when it is over.                        *)
LEMMA RoundTaken ==
  ASSUME CheckInv, RoundInv, NEW p \in Parties, Taken(p)
  PROVE  RoundInv'
<1> PICK t \in Ids : t = at[p]
  BY DEF Taken, CheckInv, Token
<1>1. /\ cpc[p] = "done" /\ done[p] = 1
      /\ done' = [done EXCEPT ![p] = @ - 1] /\ waiting' = Set(waiting, p, t, 0)
      /\ at' = [at EXCEPT ![p] = @ + 1] /\ cpc' = [cpc EXCEPT ![p] = "scan"]
      /\ UNCHANGED <<tpc, checks, opened, in, cids, round>>
  <2>1. done[p] = 1
    BY DEF Taken, CheckInv, CheckType, Token, Signalled, Opening, Reported
  <2> QED BY <2>1 DEF Taken, threadVars
<1>2. /\ cpc'[p] = "scan" /\ done'[p] = 0 /\ at'[p] = t + 1 /\ t \in Nat /\ t + 1 \in Nat
      /\ \A q \in Parties \ {p} : cpc'[q] = cpc[q] /\ at'[q] = at[q] /\ done'[q] = done[q]
  BY <1>1, IdFacts DEF CheckInv, CheckType
<1>3. /\ waiting' \in [Parties -> [Ids -> Nat]] /\ waiting'[p][t] = 0
      /\ \A q \in Parties, u \in Ids : (q # p \/ u # t) => waiting'[q][u] = waiting[q][u]
  <2>1. waiting \in [Parties -> [Ids -> Nat]] /\ 0 \in Nat
    BY DEF RoundInv, RoundType
  <2>2. waiting' = Set(waiting, p, t, 0)
    BY <1>1
  <2> QED BY <2>1, <2>2 DEF Set
<1>4. /\ Settled(p, t)
      /\ \A q \in Parties, u \in Ids : (q # p \/ u # t) => (Settled(q, u)' <=> Settled(q, u))
  BY <1>1, <1>2 DEF Settled
<1>5. ~Settled(p, t)'
  BY <1>2 DEF Settled
<1>6. /\ Base(p, t)' = Base(p, t) + 1 /\ Base(p, t) \in Nat
      /\ \A q \in Parties, u \in Ids : (q # p \/ u # t) => Base(q, u)' = Base(q, u)
  <2>1. Base(p, t) \in Nat /\ checks[p][t] = Base(p, t) + 1
    BY <1>4, BaseNat DEF RoundInv
  <2>2. Base(p, t)' = checks[p][t]
    BY <1>1, <1>5 DEF Base
  <2>3. \A q \in Parties, u \in Ids : (q # p \/ u # t) => Base(q, u)' = Base(q, u)
    BY <1>1, <1>4 DEF Base
  <2> QED BY <2>1, <2>2, <2>3
<1>7. \A q, u, k : Said(q, u, k)' = Said(q, u, k)
  BY <1>1 DEF Said
<1>8. \A q \in Parties : Said(q, t, round[p]) = Base(p, t) + 1
  BY <1>1, AllHeard DEF RoundInv
<1>9. ASSUME NEW q \in Parties, NEW u \in Ids
      PROVE  /\ Settled(q, u)' => checks'[q][u] > 0
             /\ \A r \in Parties : Said(r, u, round[q])' \in {Base(q, u)', Base(q, u)' + 1}
             /\ waiting'[q][u] = Cardinality(Heard(q, u)')
             /\ round[q] > 0 => \E r \in Parties : Said(r, u, round[q] - 1)' <= Base(q, u)'
             /\ Passed(q, u)' => \E r \in Parties : Said(r, u, round[q])' <= Base(q, u)'
  <2>1. CASE q = p /\ u = t
    <3>1. Heard(q, u)' = {}
      BY <1>1, <1>6, <1>7, <1>8, <2>1 DEF Heard
    <3>2. waiting'[q][u] = Cardinality(Heard(q, u)')
      BY <1>3, <2>1, <3>1, FS_EmptySet
    <3>3. \E r \in Parties : Said(r, u, round[q])' <= Base(q, u)'
      <4>1. Said(p, t, round[p])' <= Base(p, t)'
        BY <1>1, <1>6, <1>7, <1>8
      <4> QED BY <2>1, <4>1
    <3>4. ASSUME round[q] > 0
          PROVE  \E r \in Parties : Said(r, u, round[q] - 1)' <= Base(q, u)'
      <4>1. PICK r \in Parties : Said(r, t, round[p] - 1) <= Base(p, t)
        BY <2>1, <3>4 DEF RoundInv, InOrder
      <4>2. Said(r, t, round[p] - 1) \in Nat
        <5>1. round[p] - 1 \in Nat
          BY <2>1, <3>4 DEF RoundInv, RoundType
        <5> QED BY <5>1, TimesNat DEF Said
      <4>3. Said(r, t, round[p] - 1)' <= Base(p, t)'
        BY <1>1, <1>6, <1>7, <4>1, <4>2
      <4> QED BY <2>1, <4>3
    <3>5. \A r \in Parties : Said(r, u, round[q])' \in {Base(q, u)', Base(q, u)' + 1}
      BY <1>1, <1>6, <1>7, <1>8, <2>1
    <3> QED BY <1>5, <2>1, <3>2, <3>3, <3>4, <3>5
  <2>2. CASE q # p \/ u # t
    <3>1. /\ Base(q, u)' = Base(q, u) /\ waiting'[q][u] = waiting[q][u]
          /\ Settled(q, u)' <=> Settled(q, u)
      BY <1>3, <1>4, <1>6, <2>2
    <3>2. Heard(q, u)' = Heard(q, u)
      BY <1>1, <1>7, <3>1 DEF Heard
    <3>3. Passed(q, u)' => Passed(q, u)
      <4>1. CASE q = p
        <5>1. u < t + 1 => u < t
          BY <1>2, <2>2, <4>1, IdFacts
        <5> QED BY <1>1, <1>2, <4>1, <5>1 DEF Passed
      <4>2. CASE q # p
        BY <1>2, <4>2 DEF Passed
      <4> QED BY <4>1, <4>2
    <3>4. /\ Settled(q, u) => checks[q][u] > 0
          /\ \A r \in Parties : Said(r, u, round[q]) \in {Base(q, u), Base(q, u) + 1}
          /\ waiting[q][u] = Cardinality(Heard(q, u))
          /\ round[q] > 0 => \E r \in Parties : Said(r, u, round[q] - 1) <= Base(q, u)
          /\ Passed(q, u) => \E r \in Parties : Said(r, u, round[q]) <= Base(q, u)
      BY DEF RoundInv, Counts, InOrder
    <3> QED BY <1>1, <1>7, <3>1, <3>2, <3>3, <3>4
  <2> QED BY <2>1, <2>2
<1>10. ASSUME NEW q \in Parties
       PROVE  cpc'[q] = "done" => waiting'[q][at'[q]] = NParties
  <2>1. CASE q = p
    BY <1>2, <2>1
  <2>2. CASE q # p
    <3>1. cpc[q] = "done" => at[q] \in Ids /\ waiting[q][at[q]] = NParties
      BY DEF CheckInv, Token, RoundInv, Counts
    <3> QED BY <1>2, <1>3, <2>2, <3>1
  <2> QED BY <2>1, <2>2
<1>11. Counts'
  BY <1>1, <1>9, <1>10 DEF RoundInv, Counts
<1>12. InOrder'
  BY <1>1, <1>9 DEF InOrder
<1> QED BY <1>1, <1>3, <1>11, <1>12, SilentStep DEF RoundInv, RoundType

---------------------------------------------------------------------------
(* Nobody announces a check of t twice before p has opened it, and p opens *)
(* nothing while its coordinator broadcasts.                               *)
LEMMA NotTwice ==
  ASSUME CheckInv, RoundInv, NEW p \in Parties, NEW q \in Parties, NEW t \in Ids,
         cpc[p] = "broadcast", round[p] < Len(cids[q])
  PROVE  /\ Said(q, t, round[p] + 1) <= Base(p, t) + 1 /\ Base(p, t) \in Nat
         /\ round[p] \in Nat /\ Said(q, t, round[p] + 1) \in Nat
<1>1. /\ round[p] \in Nat /\ round[p] + 1 \in Nat /\ Len(cids[q]) \in Nat
      /\ checks[p][t] \in Nat /\ checks[q][t] \in Nat
  <2>1. RoundType
    BY DEF RoundInv
  <2>2. /\ round[p] \in Nat /\ Len(cids[q]) \in Nat
        /\ checks[p][t] \in Nat /\ checks[q][t] \in Nat
    BY <2>1 DEF RoundType
  <2> QED BY <2>2
<1>2. Base(p, t) = checks[p][t]
  BY DEF Base, Settled
<1>3. opened[p][t] = checks[p][t] /\ checks[q][t] <= opened[p][t]
  BY DEF CheckInv, Token, Quiet, RoundInv, Verified
<1>4. Said(q, t, Len(cids[q])) <= checks[q][t] + 1
  <2>1. \/ Said(q, t, Len(cids[q])) = checks[q][t] + 1
        \/ Said(q, t, Len(cids[q])) = checks[q][t]
    BY DEF RoundInv, Asked
  <2> QED BY <1>1, <2>1
<1>5. /\ Said(q, t, round[p] + 1) <= Said(q, t, Len(cids[q]))
      /\ Said(q, t, round[p] + 1) \in Nat /\ Said(q, t, Len(cids[q])) \in Nat
  BY <1>1, TimesGrows, TimesNat DEF Said
<1> QED BY <1>1, <1>2, <1>3, <1>4, <1>5

LEMMA RoundCount ==
  ASSUME CheckInv, RoundInv, NEW p \in Parties, Count(p)
  PROVE  RoundInv'
<1> PICK r \in Nat : r = round[p]
  BY DEF RoundInv, RoundType
<1> DEFINE Now(t) == {q \in Parties : cids[q][r + 1] = t}
<1>1. /\ cpc[p] = "broadcast" /\ \A q \in Parties : Len(cids[q]) > r
      /\ waiting' = [waiting EXCEPT ![p] = [t \in Ids |-> @[t] + Cardinality(Now(t))]]
      /\ round' = [round EXCEPT ![p] = @ + 1] /\ at' = [at EXCEPT ![p] = 1]
      /\ cpc' = [cpc EXCEPT ![p] = "scan"]
      /\ UNCHANGED <<tpc, checks, opened, in, done, cids>>
  BY DEF Count, threadVars, queueVars
<1> HIDE DEF Now
<1>2. /\ cpc'[p] = "scan" /\ at'[p] = 1 /\ round'[p] = r + 1 /\ r + 1 \in Nat
      /\ round' \in [Parties -> Nat]
      /\ \A q \in Parties \ {p} : cpc'[q] = cpc[q] /\ at'[q] = at[q] /\ round'[q] = round[q]
  <2>1. /\ cpc'[p] = "scan" /\ at'[p] = 1
        /\ \A q \in Parties \ {p} : cpc'[q] = cpc[q] /\ at'[q] = at[q]
    BY <1>1 DEF CheckInv, CheckType
  <2>2. /\ round'[p] = r + 1 /\ r + 1 \in Nat /\ round' \in [Parties -> Nat]
        /\ \A q \in Parties \ {p} : round'[q] = round[q]
    BY <1>1 DEF RoundInv, RoundType
  <2> QED BY <2>1, <2>2
<1>3. ASSUME NEW t \in Ids
      PROVE  Now(t) \in SUBSET Parties /\ Cardinality(Now(t)) \in Nat /\ IsFiniteSet(Now(t))
  BY FullCount DEF Now
<1>4. /\ waiting' \in [Parties -> [Ids -> Nat]]
      /\ \A t \in Ids : waiting'[p][t] = waiting[p][t] + Cardinality(Now(t))
      /\ \A q \in Parties \ {p} : waiting'[q] = waiting[q]
  <2>1. waiting \in [Parties -> [Ids -> Nat]]
    BY DEF RoundInv, RoundType
  <2>2. ASSUME NEW t \in Ids PROVE waiting[p][t] + Cardinality(Now(t)) \in Nat
    <3>1. waiting[p][t] \in Nat
      BY <2>1
    <3> QED BY <1>3, <3>1
  <2>3. PICK f \in [Ids -> Nat] : f = [t \in Ids |-> waiting[p][t] + Cardinality(Now(t))]
    BY <2>2
  <2>4. waiting' = [waiting EXCEPT ![p] = f]
    BY <1>1, <2>3
  <2> QED BY <2>1, <2>3, <2>4
<1>5. \A q, u, k : Said(q, u, k)' = Said(q, u, k)
  BY <1>1 DEF Said
<1>6. \A q \in Parties, t \in Ids : Settled(q, t)' <=> Settled(q, t)
  BY <1>1, <1>2 DEF Settled
<1>7. \A q \in Parties, t \in Ids : Base(q, t)' = Base(q, t)
  BY <1>1, <1>6 DEF Base
<1>8. ASSUME NEW q \in Parties, NEW t \in Ids
      PROVE  /\ q \in Now(t) => Said(q, t, r + 1) = Said(q, t, r) + 1
             /\ q \notin Now(t) => Said(q, t, r + 1) = Said(q, t, r)
             /\ Said(q, t, r) \in {Base(p, t), Base(p, t) + 1}
             /\ Said(q, t, r + 1) <= Base(p, t) + 1 /\ Base(p, t) \in Nat
  <2>1. Said(q, t, r + 1) <= Base(p, t) + 1 /\ Base(p, t) \in Nat
    <3>1. round[p] < Len(cids[q])
      BY <1>1 DEF RoundInv, RoundType
    <3> QED BY <1>1, <3>1, NotTwice
  <2>2. /\ cids[q][r + 1] = t => Said(q, t, r + 1) = Said(q, t, r) + 1
        /\ cids[q][r + 1] # t => Said(q, t, r + 1) = Said(q, t, r)
    BY TimesNext DEF Said
  <2>3. Said(q, t, r) \in {Base(p, t), Base(p, t) + 1}
    BY DEF RoundInv, Counts
  <2> QED BY <2>1, <2>2, <2>3 DEF Now
<1>9. ASSUME NEW t \in Ids
      PROVE  /\ \A q \in Parties : Said(q, t, r + 1) \in {Base(p, t), Base(p, t) + 1}
             /\ waiting'[p][t] = Cardinality(Heard(p, t)')
             /\ \E q \in Parties : Said(q, t, r) <= Base(p, t)
  <2>1. Heard(p, t)' = Heard(p, t) \cup Now(t)
    <3>1. Heard(p, t)' = {q \in Parties : Said(q, t, r + 1) = Base(p, t) + 1}
      BY <1>2, <1>5, <1>7 DEF Heard
    <3>2. Heard(p, t) = {q \in Parties : Said(q, t, r) = Base(p, t) + 1}
      BY DEF Heard
    <3>3. ASSUME NEW q \in Parties
          PROVE  Said(q, t, r + 1) = Base(p, t) + 1 <=> Said(q, t, r) = Base(p, t) + 1 \/ q \in Now(t)
      BY <1>8
    <3> QED BY <1>3, <3>1, <3>2, <3>3
  <2>2. Heard(p, t) \cap Now(t) = {}
    <3>1. ASSUME NEW q \in Parties, q \in Now(t) PROVE Said(q, t, r) # Base(p, t) + 1
      BY <1>8, <3>1
    <3> QED BY <3>1 DEF Heard
  <2>3. waiting[p][t] = Cardinality(Heard(p, t)) /\ Heard(p, t) \in SUBSET Parties
    BY DEF RoundInv, Counts, Heard
  <2>4. IsFiniteSet(Heard(p, t)) /\ Cardinality(Heard(p, t)) \in Nat
    BY <2>3, FullCount
  <2>5. Cardinality(Heard(p, t) \cup Now(t)) = Cardinality(Heard(p, t)) + Cardinality(Now(t))
    <3>1. Cardinality(Heard(p, t) \cup Now(t))
            = Cardinality(Heard(p, t)) + Cardinality(Now(t)) - Cardinality(Heard(p, t) \cap Now(t))
      BY <1>3, <2>4, FS_Union
    <3>2. Cardinality(Heard(p, t) \cap Now(t)) = 0
      BY <2>2, FS_EmptySet
    <3> QED BY <1>3, <2>4, <3>1, <3>2
  <2>6. waiting'[p][t] = Cardinality(Heard(p, t)')
    BY <1>4, <2>1, <2>3, <2>5
  <2>7. \E q \in Parties : Said(q, t, r) <= Base(p, t)
    BY <1>1 DEF RoundInv, InOrder, Passed
  <2> QED BY <1>8, <2>6, <2>7
<1>10. ASSUME NEW q \in Parties, NEW t \in Ids
       PROVE  /\ Settled(q, t)' => checks'[q][t] > 0
              /\ \A s \in Parties : Said(s, t, round[q])' \in {Base(q, t)', Base(q, t)' + 1}
              /\ waiting'[q][t] = Cardinality(Heard(q, t)')
              /\ round'[q] > 0 => \E s \in Parties : Said(s, t, round[q] - 1)' <= Base(q, t)'
              /\ Passed(q, t)' => \E s \in Parties : Said(s, t, round[q])' <= Base(q, t)'
  <2>1. CASE q = p
    <3>1. ~Passed(p, t)'
      <4>1. ~(t < 1)
        BY CoordinatorAssumption DEF Ids
      <4> QED BY <1>2, <4>1 DEF Passed
    <3>2. ~Settled(p, t)'
      BY <1>2 DEF Settled
    <3>3. \A s \in Parties : /\ Said(s, t, round[p])' = Said(s, t, r + 1)
                             /\ Said(s, t, round[p] - 1)' = Said(s, t, r)
      <4>1. r + 1 - 1 = r
        OBVIOUS
      <4> QED BY <1>2, <1>5, <4>1
    <3> QED BY <1>7, <1>9, <2>1, <3>1, <3>2, <3>3
  <2>2. CASE q # p
    <3>1. /\ round'[q] = round[q] /\ waiting'[q] = waiting[q]
          /\ Passed(q, t)' <=> Passed(q, t)
      BY <1>2, <1>4, <2>2 DEF Passed
    <3>2. Heard(q, t)' = Heard(q, t)
      BY <1>5, <1>7, <3>1 DEF Heard
    <3>3. /\ Settled(q, t) => checks[q][t] > 0
          /\ \A s \in Parties : Said(s, t, round[q]) \in {Base(q, t), Base(q, t) + 1}
          /\ waiting[q][t] = Cardinality(Heard(q, t))
          /\ round[q] > 0 => \E s \in Parties : Said(s, t, round[q] - 1) <= Base(q, t)
          /\ Passed(q, t) => \E s \in Parties : Said(s, t, round[q]) <= Base(q, t)
      BY DEF RoundInv, Counts, InOrder
    <3> QED BY <1>1, <1>5, <1>6, <1>7, <3>1, <3>2, <3>3
  <2> QED BY <2>1, <2>2
<1>11. ASSUME NEW q \in Parties
       PROVE  /\ cpc'[q] = "done" => waiting'[q][at'[q]] = NParties
              /\ \A s \in Parties : round'[q] <= Len(cids[s])
  <2>1. CASE q = p
    <3>1. \A s \in Parties : Len(cids[s]) \in Nat
      BY DEF RoundInv, RoundType
    <3> QED BY <1>1, <1>2, <2>1, <3>1
  <2>2. CASE q # p
    BY <1>2, <1>4, <2>2 DEF RoundInv, Counts
  <2> QED BY <2>1, <2>2
<1>12. Counts'
  BY <1>1, <1>10, <1>11 DEF Counts
<1>13. InOrder'
  BY <1>10 DEF InOrder
<1> QED BY <1>1, <1>2, <1>4, <1>12, <1>13, SilentStep DEF RoundInv, RoundType

LEMMA RoundInit == Init => RoundInv
<1> SUFFICES ASSUME Init PROVE RoundInv
  OBVIOUS
<1>1. /\ tpc = PerThread("work") /\ checks = PerThread(0) /\ opened = PerThread(0)
      /\ in = [p \in Parties |-> <<>>] /\ cpc = [p \in Parties |-> "pop"]
      /\ cids = [p \in Parties |-> <<>>] /\ round = [p \in Parties |-> 0]
      /\ waiting = PerThread(0)
  BY DEF Init
<1>2. \A q, t : Said(q, t, 0) = 0
  BY TimesZero DEF Said
<1>3. ASSUME NEW p \in Parties, NEW t \in Ids
      PROVE  ~Settled(p, t) /\ ~Queued(p, t) /\ ~Announced(p, t) /\ Base(p, t) = 0
  BY <1>1 DEF Settled, Queued, Announced, Base, PerThread
<1>4. \A p \in Parties, t \in Ids : Heard(p, t) = {}
  BY <1>1, <1>2, <1>3 DEF Heard
<1>5. RoundType
  BY <1>1 DEF RoundType, PerThread
<1>6. Asked /\ Verified
  BY <1>1, <1>2, <1>3 DEF Asked, Verified, PerThread
<1>7. Counts
  <2>1. ASSUME NEW p \in Parties, NEW t \in Ids
        PROVE  waiting[p][t] = Cardinality(Heard(p, t))
    BY <1>1, <1>4, FS_EmptySet DEF PerThread
  <2>2. ASSUME NEW p \in Parties, NEW q \in Parties
        PROVE  /\ round[p] = 0 /\ round[p] <= Len(cids[q]) /\ cpc[p] # "done"
               /\ \A t \in Ids : Said(q, t, round[p]) = Base(p, t)
    BY <1>1, <1>2, <1>3
  <2> QED BY <1>3, <2>1, <2>2 DEF Counts
<1>8. InOrder
  BY <1>1, <1>2, <1>3 DEF InOrder
<1> QED BY <1>5, <1>6, <1>7, <1>8 DEF RoundInv

LEMMA RoundNext == CheckInv /\ RoundInv /\ [Next]_vars => RoundInv'
<1> SUFFICES ASSUME CheckInv, RoundInv, [Next]_vars PROVE RoundInv'
  OBVIOUS
<1>1. ASSUME UNCHANGED <<threadVars, queueVars, coordVars>> PROVE RoundInv'
  <2>1. Counts' /\ InOrder'
    BY <1>1, BaseKept DEF RoundInv, threadVars, queueVars, coordVars
  <2>2. Asked' /\ Verified'
    BY <1>1, SilentStep DEF threadVars, queueVars, coordVars
  <2> QED BY <1>1, <2>1, <2>2 DEF RoundInv, RoundType, threadVars, queueVars, coordVars
<1>2. ASSUME NEW p \in Parties, NEW t \in Ids, Thread(p, t) PROVE RoundInv'
  <2>1. CASE Invalid(p, t)
    BY <1>1, <2>1 DEF Invalid
  <2> QED BY <1>2, <2>1, RoundCommit, RoundAsk, RoundOpen, RoundVerify DEF Thread
<1>3. ASSUME NEW p \in Parties, NEW q \in Parties, Closed(p, q) \/ Reset(p, q) PROVE RoundInv'
  BY <1>1, <1>3 DEF Closed, Reset
<1>4. ASSUME NEW p \in Parties, Run(p) PROVE RoundInv'
  BY <1>4, RoundAnnounce, RoundCount, RoundGrant, RoundTaken, RoundEndScan, RoundTeardown DEF Run
<1>5. CASE UNCHANGED vars
  BY <1>1, <1>5 DEF vars
<1> QED BY <1>2, <1>3, <1>4, <1>5 DEF Next, Finish

THEOREM Rounds == Spec => []RoundInv
BY RoundInit, RoundNext, CheckInvariant, PTL DEF Spec

(* A thread is let go only while every party has the same thread waiting,  *)
(* for the same check, or already opening it (Coordinator::run's count).   *)
THEOREM Together == Spec => []GrantedTogether
<1>1. CheckInv /\ RoundInv => GrantedTogether
  <2> SUFFICES ASSUME CheckInv, RoundInv, NEW p \in Parties, NEW q \in Parties, NEW t \in Ids,
                      signals[p][t] > 0
               PROVE  tpc[q][t] \in {"wait", "open"} /\ checks[q][t] = checks[p][t]
    BY DEF GrantedTogether
  <2> QED BY AllAnnounced DEF Announced
<1> QED BY <1>1, CheckInvariant, Rounds, PTL

---------------------------------------------------------------------------
(***************************************************************************)
(* The order of the openings.  Two parties have opened the same checks in  *)
(* the same order, except that one of them may be one check ahead; the     *)
(* other cannot then open anything but this check, as its coordinator      *)
(* finds it complete in the same round and at the same place of the scan.  *)
(***************************************************************************)
Level(p, q) == openings[p] = openings[q] /\ \A t \in Ids : opened[p][t] = opened[q][t]
OneMore(p, q) ==
  \E u \in Ids : /\ openings[q] = Append(openings[p], u)
                 /\ opened[q][u] = opened[p][u] + 1
                 /\ \A t \in Ids \ {u} : opened[q][t] = opened[p][t]
Abreast ==
  /\ openings \in [Parties -> Seq(Ids)]
  /\ \A p, q \in Parties : Level(p, q) \/ OneMore(p, q) \/ OneMore(q, p)

(* A party that may open a check is not ahead of anybody.                  *)
LEMMA NotAhead ==
  ASSUME CheckInv, RoundInv, NEW p \in Parties, NEW t \in Ids, signals[p][t] > 0, NEW q \in Parties
  PROVE  /\ cpc[p] = "done" /\ at[p] = t /\ done[p] = 0
         /\ \A u \in Ids : opened[p][u] = checks[p][u]
         /\ ~OneMore(q, p)
<1>1. /\ cpc[p] = "done" /\ at[p] = t /\ done[p] = 0
      /\ \A u \in Ids : tpc[p][u] # "open"
  BY DEF CheckInv, Token, Quiet, Signalled, Opening, Reported
<1>2. \A u \in Ids : /\ opened[p][u] = checks[p][u] /\ checks[p][u] <= opened[q][u]
                     /\ opened[p][u] \in Nat /\ opened[q][u] \in Nat
  BY <1>1 DEF RoundInv, Verified, CheckInv, CheckType
<1>3. \A u \in Ids : opened[p][u] # opened[q][u] + 1
  BY <1>2
<1> QED BY <1>1, <1>2, <1>3 DEF OneMore

(* What is opened has been announced by all parties, and is the next check *)
(* of that thread for whoever has not opened it.                           *)
LEMMA OpenHeard ==
  ASSUME CheckInv, RoundInv, NEW q \in Parties, NEW u \in Ids,
         cpc[q] = "done", at[q] = u, done[q] = 0
  PROVE  /\ \A r \in Parties : Said(r, u, round[q]) = checks[q][u] + 1
         /\ \A t \in Ids : Base(q, t) = checks[q][t]
<1>1. \A t \in Ids : Base(q, t) = checks[q][t]
  BY DEF Base, Settled
<1> QED BY <1>1, AllHeard DEF RoundInv

LEMMA SameTurn ==
  ASSUME CheckInv, RoundInv, NEW p \in Parties, NEW t \in Ids, signals[p][t] > 0,
         NEW q \in Parties, NEW u \in Ids, opened[q][u] = opened[p][u] + 1
  PROVE  u = t
<1>1. /\ cpc[p] = "done" /\ at[p] = t /\ done[p] = 0
      /\ opened[p][u] = checks[p][u] /\ checks[q][t] = checks[p][t]
  BY NotAhead, AllAnnounced
<1>2. /\ checks[p][u] \in Nat /\ checks[q][u] \in Nat /\ checks[p][t] \in Nat
      /\ round[p] \in Nat /\ round[q] \in Nat
  BY DEF RoundInv, RoundType
<1>3. tpc[q][u] = "open" /\ checks[q][u] = checks[p][u]
  <2>1. /\ tpc[q][u] = "open" => opened[q][u] = checks[q][u] + 1
        /\ tpc[q][u] # "open" => opened[q][u] = checks[q][u]
        /\ checks[q][u] <= opened[p][u]
    BY DEF RoundInv, Verified
  <2> QED BY <1>1, <1>2, <2>1
<1>4. cpc[q] = "done" /\ at[q] = u /\ done[q] = 0
  BY <1>3 DEF CheckInv, Token, Quiet, Signalled, Opening, Reported
<1>5. \A r \in Parties : /\ Said(r, t, round[p]) = checks[p][t] + 1
                         /\ Said(r, u, round[q]) = checks[p][u] + 1
  BY <1>1, <1>3, <1>4, OpenHeard
<1>6. Base(p, u) = checks[p][u] /\ Base(q, t) = checks[p][t]
  BY <1>1, <1>4, OpenHeard
<1>7. CASE round[p] < round[q]
  <2>1. round[q] > 0 /\ round[q] - 1 \in Nat /\ round[p] <= round[q] - 1
    BY <1>2, <1>7
  <2>2. PICK r \in Parties : Said(r, t, round[q] - 1) <= checks[p][t]
    BY <1>6, <2>1 DEF RoundInv, InOrder
  <2>3. /\ Said(r, t, round[p]) <= Said(r, t, round[q] - 1)
        /\ Said(r, t, round[q] - 1) \in Nat
    BY <1>2, <2>1, TimesGrows, TimesNat DEF Said
  <2> QED BY <1>2, <1>5, <2>2, <2>3
<1>8. CASE round[q] < round[p]
  <2>1. round[p] > 0 /\ round[p] - 1 \in Nat /\ round[q] <= round[p] - 1
    BY <1>2, <1>8
  <2>2. PICK r \in Parties : Said(r, u, round[p] - 1) <= checks[p][u]
    BY <1>6, <2>1 DEF RoundInv, InOrder
  <2>3. /\ Said(r, u, round[q]) <= Said(r, u, round[p] - 1)
        /\ Said(r, u, round[p] - 1) \in Nat
    BY <1>2, <2>1, TimesGrows, TimesNat DEF Said
  <2> QED BY <1>2, <1>5, <2>2, <2>3
<1>9. CASE round[p] = round[q]
  <2>1. ~(u < t)
    <3>1. SUFFICES ASSUME u < t PROVE FALSE
      OBVIOUS
    <3>2. PICK r \in Parties : Said(r, u, round[p]) <= checks[p][u]
      BY <1>1, <1>6, <3>1 DEF RoundInv, InOrder, Passed
    <3> QED BY <1>2, <1>5, <1>9, <3>2
  <2>2. ~(t < u)
    <3>1. SUFFICES ASSUME t < u PROVE FALSE
      OBVIOUS
    <3>2. PICK r \in Parties : Said(r, t, round[q]) <= checks[p][t]
      BY <1>4, <1>6, <3>1 DEF RoundInv, InOrder, Passed
    <3> QED BY <1>2, <1>5, <1>9, <3>2
  <2>3. t \in Nat /\ u \in Nat
    BY IdFacts
  <2> QED BY <2>1, <2>2, <2>3
<1> QED BY <1>2, <1>7, <1>8, <1>9

(* A party opens the check the others have opened, or is the first.        *)
LEMMA OpenTurn ==
  ASSUME CheckInv, RoundInv, Abreast, NEW p \in Parties, NEW t \in Ids, Open(p, t),
         NEW q \in Parties, q # p
  PROVE  \/ Level(p, q) /\ OneMore(q, p)'
         \/ OneMore(p, q) /\ Level(p, q)'
<1>1. /\ signals[p][t] > 0 /\ opened' = Set(opened, p, t, opened[p][t] + 1)
      /\ openings' = [openings EXCEPT ![p] = Append(@, t)]
  BY DEF Open
<1>2. /\ openings'[p] = Append(openings[p], t) /\ openings'[q] = openings[q]
  BY <1>1 DEF Abreast
<1>3. /\ opened'[p][t] = opened[p][t] + 1
      /\ \A u \in Ids \ {t} : opened'[p][u] = opened[p][u]
      /\ \A u \in Ids : opened'[q][u] = opened[q][u]
  <2>1. opened \in [Parties -> [Ids -> Nat]]
    BY DEF CheckInv, CheckType
  <2>2. opened[p][t] + 1 \in Nat /\ opened' = Set(opened, p, t, opened[p][t] + 1)
    BY <1>1, <2>1
  <2> QED BY <2>1, <2>2 DEF Set
<1>4. ~OneMore(q, p)
  BY <1>1, NotAhead
<1>5. CASE Level(p, q)
  BY <1>2, <1>3, <1>5 DEF Level, OneMore
<1>6. CASE OneMore(p, q)
  <2>1. PICK u \in Ids : /\ openings[q] = Append(openings[p], u)
                         /\ opened[q][u] = opened[p][u] + 1
                         /\ \A v \in Ids \ {u} : opened[q][v] = opened[p][v]
    BY <1>6 DEF OneMore
  <2>2. u = t
    BY <1>1, <2>1, SameTurn
  <2> QED BY <1>2, <1>3, <1>6, <2>1, <2>2 DEF Level
<1> QED BY <1>4, <1>5, <1>6 DEF Abreast

LEMMA AbreastInit == Init => Abreast
BY DEF Init, Abreast, Level, PerThread

LEMMA AbreastNext == CheckInv /\ RoundInv /\ Abreast /\ [Next]_vars => Abreast'
<1> SUFFICES ASSUME CheckInv, RoundInv, Abreast, [Next]_vars PROVE Abreast'
  OBVIOUS
<1>1. ASSUME UNCHANGED <<opened, openings>> PROVE Abreast'
  BY <1>1 DEF Abreast, Level, OneMore
<1>2. ASSUME NEW p \in Parties, NEW t \in Ids, Open(p, t) PROVE Abreast'
  <2>1. openings' \in [Parties -> Seq(Ids)]
    BY <1>2 DEF Open, Abreast
  <2>2. ASSUME NEW q \in Parties, q # p
        PROVE  (Level(p, q)' \/ OneMore(q, p)') /\ (Level(q, p)' \/ OneMore(q, p)')
    BY <1>2, <2>2, OpenTurn DEF Level
  <2>3. ASSUME NEW q \in Parties, NEW r \in Parties, q # p, r # p
        PROVE  Level(q, r)' \/ OneMore(q, r)' \/ OneMore(r, q)'
    <3>1. \A s \in {q, r} : openings'[s] = openings[s] /\ opened'[s] = opened[s]
      BY <1>2, <2>3 DEF Open, Abreast, Set, CheckInv, CheckType
    <3>2. /\ Level(q, r)' <=> Level(q, r)
          /\ OneMore(q, r)' <=> OneMore(q, r)
          /\ OneMore(r, q)' <=> OneMore(r, q)
      BY <3>1 DEF Level, OneMore
    <3> QED BY <3>2 DEF Abreast
  <2>4. Level(p, p)'
    BY DEF Level
  <2> QED BY <2>1, <2>2, <2>3, <2>4 DEF Abreast
<1>3. ASSUME NEW p \in Parties, NEW t \in Ids, Thread(p, t) PROVE Abreast'
  BY <1>1, <1>2, <1>3 DEF Thread, Commit, Ask, Verify, Invalid, threadVars
<1>4. ASSUME NEW p \in Parties, NEW q \in Parties, Closed(p, q) \/ Reset(p, q) PROVE Abreast'
  BY <1>1, <1>4 DEF Closed, Reset, threadVars
<1>5. ASSUME NEW p \in Parties, Run(p) PROVE Abreast'
  BY <1>1, <1>5 DEF Run, Announce, Count, Grant, Taken, EndScan, Teardown, threadVars
<1>6. CASE UNCHANGED vars
  BY <1>1, <1>6 DEF vars, threadVars
<1> QED BY <1>3, <1>4, <1>5, <1>6 DEF Next, Finish

---------------------------------------------------------------------------
(* The refinement of SerialOpenings.                                       *)
LongestOf(f) == CHOOSE p \in Parties : \A q \in Parties : Len(f[q]) <= Len(f[p])

(* The agreed sequence is that of any party nobody is ahead of.            *)
LEMMA AgreedOf ==
  ASSUME NEW f \in [Parties -> Seq(Ids)], NEW p \in Parties,
         \A q \in Parties : Len(f[q]) <= Len(f[p]),
         \A q \in Parties : Len(f[q]) = Len(f[p]) => f[q] = f[p]
  PROVE  f[LongestOf(f)] = f[p]
<1>1. LongestOf(f) \in Parties /\ \A q \in Parties : Len(f[q]) <= Len(f[LongestOf(f)])
  BY DEF LongestOf
<1>2. PICK q \in Parties : q = LongestOf(f)
  BY <1>1
<1>3. Len(f[p]) <= Len(f[q]) /\ Len(f[q]) <= Len(f[p]) /\ Len(f[p]) \in Nat /\ Len(f[q]) \in Nat
  BY <1>1, <1>2
<1> QED BY <1>2, <1>3

LEMMA Lengths ==
  ASSUME Abreast, NEW p \in Parties, NEW q \in Parties
  PROVE  /\ Len(openings[p]) \in Nat /\ Len(openings[q]) \in Nat
         /\ Level(p, q) => Len(openings[p]) = Len(openings[q])
         /\ OneMore(p, q) => Len(openings[q]) = Len(openings[p]) + 1
         /\ Len(openings[q]) <= Len(openings[p]) + 1
         /\ Len(openings[q]) = Len(openings[p]) => openings[q] = openings[p]
<1>1. openings[p] \in Seq(Ids) /\ openings[q] \in Seq(Ids)
  BY DEF Abreast
<1>2. Len(openings[p]) \in Nat /\ Len(openings[q]) \in Nat
  BY <1>1
<1>3. Level(p, q) => openings[p] = openings[q]
  BY DEF Level
<1>4. OneMore(p, q) => Len(openings[q]) = Len(openings[p]) + 1
  BY <1>1 DEF OneMore
<1>5. OneMore(q, p) => Len(openings[p]) = Len(openings[q]) + 1
  BY <1>1 DEF OneMore
<1>6. Level(p, q) \/ OneMore(p, q) \/ OneMore(q, p)
  BY DEF Abreast
<1> QED BY <1>2, <1>3, <1>4, <1>5, <1>6

LEMMA OpenRefines ==
  ASSUME CheckInv, RoundInv, Abreast, NEW p \in Parties, NEW t \in Ids, Open(p, t)
  PROVE  Openings!Next
<1> DEFINE count == [q \in Parties |-> Len(openings[q])]
<1>1. /\ signals[p][t] > 0 /\ openings' = [openings EXCEPT ![p] = Append(@, t)]
      /\ openings \in [Parties -> Seq(Ids)] /\ openings[p] \in Seq(Ids)
  BY DEF Open, Abreast
<1>2. /\ openings' \in [Parties -> Seq(Ids)] /\ openings'[p] = Append(openings[p], t)
      /\ Len(openings'[p]) = Len(openings[p]) + 1
      /\ \A q \in Parties \ {p} : openings'[q] = openings[q]
  BY <1>1
<1>3. count' = [count EXCEPT ![p] = @ + 1]
  BY <1>2
<1>4. Longest = LongestOf(openings) /\ Longest' = LongestOf(openings')
  BY DEF Longest, LongestOf
<1>5. \A q \in Parties : /\ Len(openings[q]) \in Nat /\ Len(openings[p]) \in Nat
                         /\ Len(openings[q]) <= Len(openings[p]) + 1
                         /\ Len(openings[q]) >= Len(openings[p])
  BY <1>1, NotAhead, Lengths DEF Abreast
<1>6. ASSUME NEW q \in Parties, Len(openings[q]) > Len(openings[p])
      PROVE  Openings!Follow(p)
  <2>1. Len(openings[q]) = Len(openings[p]) + 1 /\ q # p
    BY <1>5, <1>6
  <2>2. openings[Longest] = openings[q]
    <3>1. ASSUME NEW r \in Parties
          PROVE  /\ Len(openings[r]) <= Len(openings[q])
                 /\ Len(openings[r]) = Len(openings[q]) => openings[r] = openings[q]
      BY <1>5, <2>1, Lengths
    <3> QED BY <1>1, <1>4, <3>1, AgreedOf
  <2>3. Level(p, q)'
    BY <2>1, OpenTurn, Lengths
  <2>4. openings'[p] = openings'[q] /\ openings'[q] = openings[q]
    BY <1>2, <2>1, <2>3 DEF Level
  <2>5. openings'[Longest'] = openings'[q]
    <3>1. ASSUME NEW r \in Parties
          PROVE  /\ Len(openings'[r]) <= Len(openings'[q])
                 /\ Len(openings'[r]) = Len(openings'[q]) => openings'[r] = openings'[q]
      <4>1. CASE r = p
        BY <1>2, <2>4, <4>1
      <4>2. CASE r # p
        BY <1>2, <1>5, <2>1, <2>4, <4>2, Lengths
      <4> QED BY <4>1, <4>2
    <3> QED BY <1>2, <1>4, <3>1, AgreedOf
  <2> QED BY <1>3, <1>6, <2>2, <2>4, <2>5 DEF Openings!Follow
<1>7. ASSUME \A q \in Parties : ~(Len(openings[q]) > Len(openings[p]))
      PROVE  Openings!Lead(p, t)
  <2>1. \A q \in Parties : Len(openings[q]) = Len(openings[p])
    BY <1>5, <1>7
  <2>2. openings[Longest] = openings[p]
    BY <1>1, <1>4, <1>5, <2>1, Lengths, AgreedOf
  <2>3. openings'[Longest'] = openings'[p]
    <3>1. ASSUME NEW r \in Parties
          PROVE  /\ Len(openings'[r]) <= Len(openings'[p])
                 /\ Len(openings'[r]) = Len(openings'[p]) => openings'[r] = openings'[p]
      <4>1. CASE r = p
        BY <1>2, <1>5, <4>1
      <4>2. CASE r # p
        BY <1>2, <1>5, <2>1, <4>2
      <4> QED BY <4>1, <4>2
    <3> QED BY <1>2, <1>4, <3>1, AgreedOf
  <2> QED BY <1>2, <1>3, <2>1, <2>2, <2>3 DEF Openings!Lead
<1> QED BY <1>6, <1>7 DEF Openings!Next

(* The coordinators implement SerialOpenings: whatever order every party   *)
(* runs its threads in, all parties open the same checks in the same       *)
(* order, and nobody opens the next one before all have opened the last.   *)
THEOREM Serial == Spec => ImplementsSerialOpenings
<1>1. Init => Openings!Init
  <2> SUFFICES ASSUME Init PROVE Openings!Init
    OBVIOUS
  <2>1. openings = [p \in Parties |-> <<>>]
    BY DEF Init
  <2>2. PICK p \in Parties : TRUE
    BY CoordinatorAssumption DEF Parties
  <2>3. LongestOf(openings) = Longest
    BY DEF Longest, LongestOf
  <2>4. openings[Longest] = openings[p]
    <3>1. openings \in [Parties -> Seq(Ids)] /\ \A q \in Parties : openings[q] = openings[p]
      BY <2>1
    <3>2. \A q \in Parties : Len(openings[q]) <= Len(openings[p])
      BY <2>1
    <3> QED BY <2>3, <3>1, <3>2, AgreedOf
  <2> QED BY <2>1, <2>4 DEF Openings!Init
<1>2. CheckInv /\ RoundInv /\ Abreast /\ [Next]_vars => [Openings!Next]_Openings!vars
  <2> SUFFICES ASSUME CheckInv, RoundInv, Abreast, [Next]_vars
               PROVE  Openings!Next \/ UNCHANGED Openings!vars
    OBVIOUS
  <2>1. ASSUME UNCHANGED openings PROVE UNCHANGED Openings!vars
    BY <2>1 DEF Openings!vars, Longest
  <2>2. ASSUME NEW p \in Parties, NEW t \in Ids, Thread(p, t)
        PROVE  Openings!Next \/ UNCHANGED openings
    BY <2>2, OpenRefines DEF Thread, Commit, Ask, Verify, Invalid, threadVars
  <2>3. ASSUME NEW p \in Parties, NEW q \in Parties, Closed(p, q) \/ Reset(p, q)
        PROVE  UNCHANGED openings
    BY <2>3 DEF Closed, Reset, threadVars
  <2>4. ASSUME NEW p \in Parties, Run(p) PROVE UNCHANGED openings
    BY <2>4 DEF Run, Announce, Count, Grant, Taken, EndScan, Teardown, threadVars
  <2>5. UNCHANGED vars => UNCHANGED openings
    BY DEF vars, threadVars
  <2> QED BY <2>1, <2>2, <2>3, <2>4, <2>5 DEF Next, Finish
<1> QED BY <1>1, <1>2, AbreastInit, AbreastNext, CheckInvariant, Rounds, PTL
        DEF Spec, ImplementsSerialOpenings, Openings!Spec
===========================================================================
