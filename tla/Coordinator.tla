---------------------------- MODULE Coordinator ---------------------------
(***************************************************************************)
(* MAC checks in several threads and the coordinator that keeps their      *)
(* openings apart.  A check (Commit_And_Open_) broadcasts a commitment,    *)
(* asks the party's coordinator and waits (Coordinator::wait), broadcasts  *)
(* the opening, verifies those received and tells the coordinator          *)
(* (finished).  The coordinators of all parties broadcast in rounds the    *)
(* id of one waiting thread each, count per id who waits, and let a thread *)
(* go when every party has it waiting, one after the other.                *)
(*                                                                         *)
(* The players' broadcasts send without waiting for the other side (the    *)
(* rounds of Exchanger), over one FIFO stream per pair of parties and      *)
(* player; so the k-th broadcast of a player is received when every party  *)
(* has made its k-th, and counting them stands for the streams.  The       *)
(* WaitQueues are sequences and counters (see WaitQueue).  An exception in *)
(* any thread ends the process and closes its streams; a party that sends  *)
(* on a closed stream may lose what it has not read.                       *)
(***************************************************************************)
EXTENDS Naturals, Sequences, FiniteSets

CONSTANTS
  NParties,
  NThreads,     \* threads of every party that run MAC checks
  MaxChecks,    \* bound: checks every thread runs
  Faulty        \* parties that may open something else than they committed to

Parties == 0 .. NParties - 1
Ids == 1 .. NThreads         \* the threads' player ids, in the order of the map

ASSUME CoordinatorAssumption ==
  /\ NParties \in Nat \ {0, 1}
  /\ NThreads \in Nat \ {0}
  /\ MaxChecks \in Nat \ {0}
  /\ Faulty \subseteq Parties

VARIABLES
  up,           \* up[p]: the process has not been ended by an exception
  tpc,          \* tpc[p][t]: "work", "commit", "wait", "open" or "over"
  checks,       \* checks[p][t]: checks the thread has finished
  committed,    \* committed[p][t]: commitments broadcast
  opened,       \* opened[p][t]: openings broadcast
  in,           \* Coordinator::in
  signals,      \* signals[p][t]: values in the queue of that id
  done,         \* values in Coordinator::done
  cpc,          \* the coordinator: "pop", "broadcast", "scan", "done", "ended"
  cids,         \* cids[p]: ids broadcast by its coordinator, one a round
  round,        \* round[p]: rounds received
  waiting,      \* waiting[p][t]: parties known to wait for t
  at,           \* at[p]: iterator over waiting
  openings      \* history: openings[p] the ids in the order p opened them

processVars == <<up>>
threadVars == <<tpc, checks, committed, opened, openings>>
queueVars == <<in, signals, done>>
coordVars == <<cpc, cids, round, waiting, at>>
vars == <<processVars, threadVars, queueVars, coordVars>>

PerThread(v) == [p \in Parties |-> [t \in Ids |-> v]]

Init ==
  /\ up = [p \in Parties |-> TRUE]
  /\ tpc = PerThread("work") /\ checks = PerThread(0)
  /\ committed = PerThread(0) /\ opened = PerThread(0)
  /\ openings = [p \in Parties |-> <<>>]
  /\ in = [p \in Parties |-> <<>>]
  /\ signals = PerThread(0) /\ done = [p \in Parties |-> 0]
  /\ cpc = [p \in Parties |-> "pop"] /\ cids = [p \in Parties |-> <<>>]
  /\ round = [p \in Parties |-> 0] /\ waiting = PerThread(0)
  /\ at = [p \in Parties |-> 1]

Set(f, p, t, v) == [f EXCEPT ![p][t] = v]
Received(p, t, count) == \A q \in Parties : count[q][t] >= count[p][t]

---------------------------------------------------------------------------
(* Mutant: the commitment is made and not broadcast.                       *)
CommitSilent(p, t) ==
  /\ up[p] /\ tpc[p][t] = "work"
  /\ checks[p][t] < MaxChecks
  /\ tpc' = Set(tpc, p, t, "commit")
  /\ UNCHANGED <<processVars, checks, committed, opened, openings, queueVars, coordVars>>

(* A thread's check, Commit_And_Open_: the commitment is broadcast.        *)
Commit(p, t) ==
  /\ up[p] /\ tpc[p][t] = "work"
  /\ checks[p][t] < MaxChecks
  /\ committed' = Set(committed, p, t, committed[p][t] + 1)
  /\ tpc' = Set(tpc, p, t, "commit")
  /\ UNCHANGED <<processVars, checks, opened, openings, queueVars, coordVars>>

(* All commitments are received; Coordinator::wait pushes the id.          *)
Ask(p, t) ==
  /\ up[p] /\ tpc[p][t] = "commit"
  /\ Received(p, t, committed)
  /\ in' = [in EXCEPT ![p] = Append(@, t)]
  /\ tpc' = Set(tpc, p, t, "wait")
  /\ UNCHANGED <<processVars, checks, committed, opened, openings, signals, done, coordVars>>

(* wait returns, and the opening is broadcast.                             *)
Open(p, t) ==
  /\ up[p] /\ tpc[p][t] = "wait"
  /\ signals[p][t] > 0
  /\ signals' = Set(signals, p, t, signals[p][t] - 1)
  /\ opened' = Set(opened, p, t, opened[p][t] + 1)
  /\ openings' = [openings EXCEPT ![p] = Append(@, t)]
  /\ tpc' = Set(tpc, p, t, "open")
  /\ UNCHANGED <<processVars, checks, committed, in, done, coordVars>>

(* The openings are received and match; the coordinator is told.           *)
Verify(p, t) ==
  /\ up[p] /\ tpc[p][t] = "open"
  /\ Received(p, t, opened)
  /\ done' = [done EXCEPT ![p] = @ + 1]
  /\ checks' = Set(checks, p, t, checks[p][t] + 1)
  /\ tpc' = Set(tpc, p, t, IF checks[p][t] + 1 = MaxChecks THEN "over" ELSE "work")
  /\ UNCHANGED <<processVars, committed, opened, openings, in, signals, coordVars>>

(* Mutant: the exception of a wrong opening ends the thread only.          *)
InvalidThread(p, t) ==
  /\ up[p] /\ tpc[p][t] = "open"
  /\ Received(p, t, opened)
  /\ Faulty \ {p} # {}
  /\ tpc' = Set(tpc, p, t, "over")
  /\ UNCHANGED <<processVars, checks, committed, opened, openings, queueVars, coordVars>>

(* invalid_commitment is thrown: what another party opened does not match. *)
Invalid(p, t) ==
  /\ up[p] /\ tpc[p][t] = "open"
  /\ Received(p, t, opened)
  /\ Faulty \ {p} # {}
  /\ up' = [up EXCEPT ![p] = FALSE]
  /\ UNCHANGED <<threadVars, queueVars, coordVars>>

Thread(p, t) == Commit(p, t) \/ Ask(p, t) \/ Open(p, t) \/ Verify(p, t) \/ Invalid(p, t)

(* A broadcast waits for a party whose process has ended without sending:  *)
(* closed_connection is thrown.                                            *)
Missed(p, q, t) ==
  \/ tpc[p][t] = "commit" /\ committed[q][t] < committed[p][t]
  \/ tpc[p][t] = "open" /\ opened[q][t] < opened[p][t]

Closed(p, q) ==
  /\ up[p] /\ ~up[q]
  /\ \/ \E t \in Ids : Missed(p, q, t)
     \/ cpc[p] = "broadcast" /\ Len(cids[q]) <= round[p]
  /\ up' = [up EXCEPT ![p] = FALSE]
  /\ UNCHANGED <<threadVars, queueVars, coordVars>>

(* Its own sending may already have failed.                                *)
Reset(p, q) ==
  /\ up[p] /\ ~up[q]
  /\ cpc[p] = "broadcast" \/ \E t \in Ids : tpc[p][t] \in {"commit", "open"}
  /\ up' = [up EXCEPT ![p] = FALSE]
  /\ UNCHANGED <<threadVars, queueVars, coordVars>>

---------------------------------------------------------------------------
(* Coordinator::run pops an id and sends it to all.                        *)
Announce(p) ==
  /\ up[p] /\ cpc[p] = "pop"
  /\ in[p] # <<>>
  /\ cids' = [cids EXCEPT ![p] = Append(@, Head(in[p]))]
  /\ in' = [in EXCEPT ![p] = Tail(@)]
  /\ cpc' = [cpc EXCEPT ![p] = "broadcast"]
  /\ UNCHANGED <<processVars, threadVars, signals, done, round, waiting, at>>

(* It has received the ids of all and counts them.                         *)
Count(p) ==
  /\ up[p] /\ cpc[p] = "broadcast"
  /\ \A q \in Parties : Len(cids[q]) > round[p]
  /\ waiting' = [waiting EXCEPT ![p] = [t \in Ids |->
       @[t] + Cardinality({q \in Parties : cids[q][round[p] + 1] = t})]]
  /\ round' = [round EXCEPT ![p] = @ + 1]
  /\ at' = [at EXCEPT ![p] = 1]
  /\ cpc' = [cpc EXCEPT ![p] = "scan"]
  /\ UNCHANGED <<processVars, threadVars, queueVars, cids>>

Complete(p) == {t \in Ids : t >= at[p] /\ waiting[p][t] = NParties}
First(S) == CHOOSE t \in S : \A u \in S : t <= u

(* Mutant: a thread may go when any party waits for it.                    *)
GrantFirst(p) ==
  /\ up[p] /\ cpc[p] = "scan"
  /\ \E t \in Ids :
       /\ t >= at[p] /\ waiting[p][t] > 0 /\ tpc[p][t] = "wait"
       /\ at' = [at EXCEPT ![p] = t]
       /\ signals' = Set(signals, p, t, signals[p][t] + 1)
  /\ cpc' = [cpc EXCEPT ![p] = "done"]
  /\ UNCHANGED <<processVars, threadVars, in, done, cids, round, waiting>>

(* Mutant: the threads are visited in an order of the party's own.         *)
GrantAny(p) ==
  /\ up[p] /\ cpc[p] = "scan"
  /\ \E t \in Ids :
       /\ waiting[p][t] = NParties
       /\ at' = [at EXCEPT ![p] = t]
       /\ signals' = Set(signals, p, t, signals[p][t] + 1)
  /\ cpc' = [cpc EXCEPT ![p] = "done"]
  /\ UNCHANGED <<processVars, threadVars, in, done, cids, round, waiting>>

(* The next id all parties wait for gets a signal.                         *)
Grant(p) ==
  /\ up[p] /\ cpc[p] = "scan"
  /\ Complete(p) # {}
  /\ LET t == First(Complete(p)) IN
       /\ at' = [at EXCEPT ![p] = t]
       /\ signals' = Set(signals, p, t, signals[p][t] + 1)
  /\ cpc' = [cpc EXCEPT ![p] = "done"]
  /\ UNCHANGED <<processVars, threadVars, in, done, cids, round, waiting>>

(* Mutant: it does not wait for the check to finish.                       *)
TakenAtOnce(p) ==
  /\ up[p] /\ cpc[p] = "done"
  /\ waiting' = Set(waiting, p, at[p], 0)
  /\ at' = [at EXCEPT ![p] = @ + 1]
  /\ cpc' = [cpc EXCEPT ![p] = "scan"]
  /\ UNCHANGED <<processVars, threadVars, queueVars, cids, round>>

(* done.pop(): the check has finished, and the count starts again.         *)
Taken(p) ==
  /\ up[p] /\ cpc[p] = "done"
  /\ done[p] > 0
  /\ done' = [done EXCEPT ![p] = @ - 1]
  /\ waiting' = Set(waiting, p, at[p], 0)
  /\ at' = [at EXCEPT ![p] = @ + 1]
  /\ cpc' = [cpc EXCEPT ![p] = "scan"]
  /\ UNCHANGED <<processVars, threadVars, in, signals, cids, round>>

EndScan(p) ==
  /\ up[p] /\ cpc[p] = "scan"
  /\ Complete(p) = {}
  /\ cpc' = [cpc EXCEPT ![p] = "pop"]
  /\ UNCHANGED <<processVars, threadVars, queueVars, cids, round, waiting, at>>

(* teardown, after the threads: the queue is stopped, pop returns false    *)
(* and the coordinator is joined.                                          *)
Teardown(p) ==
  /\ up[p] /\ cpc[p] = "pop" /\ in[p] = <<>>
  /\ \A t \in Ids : tpc[p][t] = "over"
  /\ cpc' = [cpc EXCEPT ![p] = "ended"]
  /\ UNCHANGED <<processVars, threadVars, queueVars, cids, round, waiting, at>>

Run(p) == Announce(p) \/ Count(p) \/ Grant(p) \/ Taken(p) \/ EndScan(p) \/ Teardown(p)

AllOver == \A p \in Parties : ~up[p] \/ cpc[p] = "ended"
Finish == AllOver /\ UNCHANGED vars

Next ==
  \/ \E p \in Parties, t \in Ids : Thread(p, t)
  \/ \E p, q \in Parties : Closed(p, q) \/ Reset(p, q)
  \/ \E p \in Parties : Run(p)
  \/ Finish

(* Threads are scheduled, and a closed connection is noticed.              *)
Fairness ==
  /\ \A p \in Parties, t \in Ids : WF_vars(Thread(p, t))
  /\ \A p \in Parties : WF_vars(Run(p)) /\ WF_vars(\E q \in Parties : Closed(p, q))

Spec == Init /\ [][Next]_vars
FairSpec == Spec /\ Fairness

---------------------------------------------------------------------------
(* A value is opened only when every party is committed to it              *)
(* (Commit_And_Open_: Broadcast_Receive before Coordinator::wait).         *)
OpenedAfterCommitted ==
  \A p, q \in Parties, t \in Ids : opened[p][t] <= committed[q][t]

(* At any party at most one thread is between the coordinator's signal and *)
(* finished().                                                             *)
OneCheckAtATime ==
  \A p \in Parties : \A t, u \in Ids :
    /\ tpc[p][t] = "open" \/ signals[p][t] > 0
    /\ tpc[p][u] = "open" \/ signals[p][u] > 0
    => t = u

(* A thread is let go only while every party has the same thread waiting,  *)
(* for the same check, or already opening it (Coordinator::run's count).   *)
GrantedTogether ==
  \A p, q \in Parties, t \in Ids : signals[p][t] > 0 =>
    tpc[q][t] \in {"wait", "open"} /\ checks[q][t] = checks[p][t]

(* Every process ends, whatever order the threads of each party run in:    *)
(* if no opening was wrong with all checks made and the coordinators       *)
(* joined, otherwise with an exception in every process.                   *)
NobodyHangs == <>AllOver

Longest == CHOOSE p \in Parties : \A q \in Parties : Len(openings[q]) <= Len(openings[p])

(* The openings are serialised in one order on all parties.                *)
Openings == INSTANCE SerialOpenings WITH
  agreed <- openings[Longest],
  opened <- [p \in Parties |-> Len(openings[p])]
ImplementsSerialOpenings == Openings!Spec
===========================================================================
