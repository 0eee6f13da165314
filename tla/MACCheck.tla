----------------------------- MODULE MACCheck -----------------------------
(***************************************************************************)
(* Opening of shared values and the check of their MACs.  Indirectly       *)
(* (TreeSum, MAC_Check.h) the shares are summed along a tree of parties to *)
(* a base party, which sends the sum along another tree; or every party    *)
(* broadcasts its share (Direct_MAC_Check).  Opened values and their MACs  *)
(* wait for a check, made by all parties together: a common random seed,   *)
(* then commitments to and openings of the checking values.  A thread has  *)
(* several such objects (MCp, bit_MC of Spdz2kPrep) that share its player. *)
(*                                                                         *)
(* One thread per party runs the same program.  The values of one opening  *)
(* stay together: a value is the bag of the shares that were added and a   *)
(* deviation from what honest parties would have sent.  A faulty party may *)
(* deviate in what it sends and reject any check; it keeps to the order of *)
(* the protocol.  A check rejects values that are not what their MACs say, *)
(* for the party that has them and hence for all (but for a negligible     *)
(* probability).  Broadcasts are counted, as in Coordinator.               *)
(***************************************************************************)
EXTENDS Integers, Sequences, Bags, Functions

CONSTANTS
  N,          \* bound on the number of parties
  Setups,     \* parties, program, shape of each object's trees, faulty
              \* parties, and units a stream holds after a send has returned
  PopenMax    \* POPEN_MAX: waiting values that cause a check

ASSUME MACCheckAssumption == N \in Nat \ {0} /\ PopenMax \in Nat \ {0}

(* AddToCheck adds one value, and looks whether a check is needed each     *)
(* time; the values of an opening are counted together (exchange).         *)
ASSUME OneValueAssumption ==
  \A s \in Setups : \A k \in DOMAIN s.program :
    s.program[k].kind = "add" => s.program[k].n = 1

Parties == 0 .. N - 1

VARIABLES
  setup,      \* one of the setups (never changes)
  gone,       \* parties that ended by an exception
  at,         \* at[p]: operations p has begun
  todo,       \* todo[p]: steps left of p's operation
  link,       \* link[p][q]: messages from p to q
  value,      \* value[p]: the sum so far or the result of the opening
  vals, macs, \* of each object: values and MACs that wait for a check
  popenCnt,   \* popenCnt[p][m]: popen_cnt
  casts,      \* casts[p]: broadcasts p has made
  taus,       \* taus[p]: for each check, what p's checking value is made of
  shares,     \* shares[p]: deviations of p's broadcast shares, for each party
  passed      \* history: values that passed p's checks

mcVars == <<vals, macs, popenCnt>>
vars == <<setup, gone, at, todo, link, value, mcVars, casts, taus, shares, passed>>

Present == 0 .. setup.parties - 1
Honest == Present \ setup.faulty
Objects == DOMAIN setup.shape
Op(p) == setup.program[at[p]]

(***************************************************************************)
(* The trees.                                                              *)
(***************************************************************************)
Step(do, with) == [do |-> do, with |-> with]

(* opening_sum and max_broadcast below 2 stand for the number of parties.  *)
Width(w) == IF w < 2 THEN setup.parties ELSE w

Relative(p, shape) == (p - shape.base + setup.parties) % setup.parties
Absolute(r, shape) == (r + shape.base) % setup.parties

(* Mutant: rounded down.                                                   *)
SummersDown(last, sum) == (last - 1) \div sum

(* How many of last parties sum in the next phase.                         *)
Summers(last, sum) == (last - 2 + sum) \div sum

(* The phases of TreeSum::start: those beyond the summers send their sum   *)
(* to one of them and are done.                                            *)
Phase(r, last, summers, shape) ==
  IF r >= last THEN <<>>
  ELSE IF r >= summers THEN <<Step("send", Absolute(r % summers, shape))>>
  ELSE [i \in 1 .. (last - 1 - r) \div summers |->
          Step("add", Absolute(r + i * summers, shape))]

SumPlan(p, shape) ==
  LET phases[last \in 0 .. setup.parties] ==
        LET s == Summers(last, Width(shape.sum)) IN
        IF last = 0 \/ s = 0 THEN <<>>
        ELSE Phase(Relative(p, shape), last, s, shape) \o phases[s]
  IN  phases[setup.parties]

(* Mutant: the base party's loop, which leaves out itself, for all.        *)
ChildrenFromOne(r, bcast) ==
  {c \in 1 .. setup.parties - 1 : r * bcast < c /\ c < (r + 1) * bcast}

(* The sum goes from r to those behind r * max_broadcast.                  *)
Children(r, bcast) ==
  {c \in 1 .. setup.parties - 1 : r * bcast <= c /\ c < (r + 1) * bcast}

BroadcastPlan(p, shape) ==
  LET r == Relative(p, shape)
      b == Width(shape.bcast)
      below == SelectSeq([c \in 1 .. setup.parties |-> c], LAMBDA c : c \in Children(r, b))
      sends == [i \in 1 .. Len(below) |-> Step("send", Absolute(below[i], shape))]
      parent == IF r = 0 THEN <<>> ELSE <<Step("get", Absolute(r \div b, shape))>>
  IN  parent \o sends

(* Four broadcasts: seed committed and opened, checking value committed    *)
(* and opened.                                                             *)
CheckPlan ==
  LET round(s) == <<Step(s, 0), Step("heard", 0)>>
  IN  round("cast") \o round("cast") \o round("commit") \o round("cast")
      \o <<Step("verify", 0)>>

Plan(op, p) ==
  CASE op.kind = "open" ->
         (IF op.n = 0 THEN <<>>
          ELSE SumPlan(p, setup.shape[op.mc]) \o BroadcastPlan(p, setup.shape[op.mc]))
         \o <<Step("count", 0)>>
    [] op.kind = "direct" ->
         <<Step("share", 0), Step("heard", 0), Step("sum", 0), Step("count", 0)>>
    [] op.kind = "add" -> <<Step("count", 0)>>
    [] op.kind = "check" -> <<Step("check", 0)>>

(***************************************************************************)
(* Values.                                                                 *)
(***************************************************************************)
Copies(n, v) == [i \in 1 .. n |-> v]
Share(p, k) == [shares |-> SetToBag({<<k, p>>}), deviation |-> 0]
Plus(v, w) ==
  [shares |-> v.shares (+) w.shares, deviation |-> (v.deviation + w.deviation) % 2]

(* What the MACs of operation k belong to.                                 *)
Opened(k) ==
  [shares |-> SetToBag({<<k, q>> : q \in Present}), deviation |-> 0]

(* A faulty party may send anything in place of v.                         *)
Sendable(p, v) ==
  IF p \in setup.faulty THEN {[v EXCEPT !.deviation = d] : d \in 0 .. 1} ELSE {v}

Init ==
  /\ setup \in Setups
  /\ gone = {}
  /\ at = [p \in Parties |-> 0]
  /\ todo = [p \in Parties |-> <<>>]
  /\ link = [p \in Parties |-> [q \in Parties |-> <<>>]]
  /\ value = [p \in Parties |-> Share(p, 0)]
  /\ vals = [p \in Parties |-> [m \in Objects |-> <<>>]]
  /\ macs = [p \in Parties |-> [m \in Objects |-> <<>>]]
  /\ popenCnt = [p \in Parties |-> [m \in Objects |-> 0]]
  /\ casts = [p \in Parties |-> 0]
  /\ taus = [p \in Parties |-> <<>>]
  /\ shares = [p \in Parties |-> <<>>]
  /\ passed = [p \in Parties |-> <<>>]

Running(p) == p \in Present /\ p \notin gone
Doing(p, do) == Running(p) /\ todo[p] # <<>> /\ Head(todo[p]).do = do
With(p) == Head(todo[p]).with
Proceed(p) == todo' = [todo EXCEPT ![p] = Tail(@)]
Object(p) == Op(p).mc

(* init_open and prepare_open of the values to open, or AddToCheck, where  *)
(* the value is known.                                                     *)
Begin(p) ==
  LET k == at[p] + 1
      op == setup.program[k]
  IN
  /\ Running(p)
  /\ todo[p] = <<>>
  /\ at[p] < Len(setup.program)
  /\ at' = [at EXCEPT ![p] = k]
  /\ todo' = [todo EXCEPT ![p] = Plan(op, p)]
  /\ value' = [value EXCEPT ![p] = Share(p, k)]
  /\ macs' = [macs EXCEPT ![p][op.mc] = @ \o Copies(op.n, k)]
  /\ vals' = IF op.kind = "add"
             THEN [vals EXCEPT ![p][op.mc] = @ \o Copies(op.n, Opened(k))] ELSE vals
  /\ UNCHANGED <<setup, gone, link, popenCnt, casts, taus, shares, passed>>

(***************************************************************************)
(* Opening.                                                                *)
(***************************************************************************)
Send(p) ==
  /\ Doing(p, "send")
  /\ Len(link[p][With(p)]) <= setup.cap
  /\ \E v \in Sendable(p, value[p]) :
       link' = [link EXCEPT ![p][With(p)] = Append(@, v)]
  /\ todo' = [todo EXCEPT ![p] = <<Step("sent", With(p))>> \o Tail(@)]
  /\ UNCHANGED <<setup, gone, at, value, mcVars, casts, taus, shares, passed>>

(* A send returns when what is left fits into the buffers of the stream.   *)
Sent(p) ==
  /\ Doing(p, "sent")
  /\ Len(link[p][With(p)]) <= setup.cap
  /\ Proceed(p)
  /\ UNCHANGED <<setup, gone, at, link, value, mcVars, casts, taus, shares, passed>>

Take(p, q) == link' = [link EXCEPT ![q][p] = Tail(@)]
Message(p) == Head(link[With(p)][p])

(* One turn of the loop of add_openings.                                   *)
Add(p) ==
  /\ Doing(p, "add")
  /\ link[With(p)][p] # <<>>
  /\ value' = [value EXCEPT ![p] = Plus(@, Message(p))]
  /\ Take(p, With(p))
  /\ Proceed(p)
  /\ UNCHANGED <<setup, gone, at, mcVars, casts, taus, shares, passed>>

(* AddToValues *)
WaitForCheck(p, v) ==
  vals' = [vals EXCEPT ![p][Object(p)] = @ \o Copies(Op(p).n, v)]

(* ReceiveValues *)
Get(p) ==
  /\ Doing(p, "get")
  /\ link[With(p)][p] # <<>>
  /\ value' = [value EXCEPT ![p] = Message(p)]
  /\ WaitForCheck(p, Message(p))
  /\ Take(p, With(p))
  /\ Proceed(p)
  /\ UNCHANGED <<setup, gone, at, macs, popenCnt, casts, taus, shares, passed>>

(* pre_exchange and the party's part of the broadcast.                     *)
ShareOut(p) ==
  /\ Doing(p, "share")
  /\ \E d \in (IF p \in setup.faulty THEN [Present -> 0 .. 1] ELSE {[q \in Present |-> 0]}) :
       shares' = [shares EXCEPT ![p] = Append(@, [cast |-> casts[p] + 1, deviation |-> d])]
  /\ casts' = [casts EXCEPT ![p] = @ + 1]
  /\ Proceed(p)
  /\ UNCHANGED <<setup, gone, at, link, value, mcVars, taus, passed>>

Heard(p) ==
  /\ Doing(p, "heard")
  /\ \A q \in Present : casts[q] >= casts[p]
  /\ Proceed(p)
  /\ UNCHANGED <<setup, gone, at, link, value, mcVars, casts, taus, shares, passed>>

(* direct_add_openings and AddToValues.                                    *)
From(q, k) == CHOOSE s \in {shares[q][i] : i \in DOMAIN shares[q]} : s.cast = k
Sum(p) ==
  /\ Doing(p, "sum")
  /\ LET bad == \E q \in Present \ {p} : From(q, casts[p]).deviation[p] = 1
         v == [Opened(at[p]) EXCEPT !.deviation = IF bad THEN 1 ELSE 0]
     IN  /\ value' = [value EXCEPT ![p] = v]
         /\ WaitForCheck(p, v)
  /\ Proceed(p)
  /\ UNCHANGED <<setup, gone, at, link, macs, popenCnt, casts, taus, shares, passed>>

(***************************************************************************)
(* Checking.                                                               *)
(***************************************************************************)
Waiting(p, m) ==
  IF Len(macs[p][m]) > Len(vals[p][m]) THEN Len(macs[p][m]) ELSE Len(vals[p][m])

(* The base party has its values from the sum; popen_cnt; CheckIfNeeded.   *)
Count(p) ==
  LET m == Object(p)
      base == Op(p).kind = "open" /\ Relative(p, setup.shape[m]) = 0
      held == Len(vals[p][m]) + (IF base THEN Op(p).n ELSE 0)
      waiting == IF Len(macs[p][m]) > held THEN Len(macs[p][m]) ELSE held
  IN
  /\ Doing(p, "count")
  /\ IF base THEN WaitForCheck(p, value[p]) ELSE UNCHANGED vals
  /\ popenCnt' = [popenCnt EXCEPT ![p][m] = @ + Op(p).n]
  /\ todo' = [todo EXCEPT ![p] =
                IF waiting >= PopenMax THEN <<Step("check", 0)>> ELSE Tail(@)]
  /\ UNCHANGED <<setup, gone, at, link, value, macs, casts, taus, shares, passed>>

Check(p) ==
  /\ Doing(p, "check")
  /\ todo' = [todo EXCEPT ![p] = IF Waiting(p, Object(p)) = 0 THEN Tail(@) ELSE CheckPlan]
  /\ UNCHANGED <<setup, gone, at, link, value, mcVars, casts, taus, shares, passed>>

Cast(p) ==
  /\ Doing(p, "cast")
  /\ casts' = [casts EXCEPT ![p] = @ + 1]
  /\ Proceed(p)
  /\ UNCHANGED <<setup, gone, at, link, value, mcVars, taus, shares, passed>>

Checked(p, m) == SubSeq(vals[p][m], 1, popenCnt[p][m])

(* Whether the first popen_cnt values are what the first MACs belong to.   *)
Consistent(p, m) ==
  /\ popenCnt[p][m] <= Len(vals[p][m]) /\ popenCnt[p][m] <= Len(macs[p][m])
  /\ \A i \in 1 .. popenCnt[p][m] : vals[p][m][i] = Opened(macs[p][m][i])

(* Commit_And_Open: the checking value is fixed with the commitment.  (The *)
(* thread waits for the coordinator before the opening, see Coordinator.)  *)
Commit(p) ==
  /\ Doing(p, "commit")
  /\ taus' = [taus EXCEPT ![p] = Append(@,
                [good |-> Consistent(p, Object(p)), size |-> popenCnt[p][Object(p)]])]
  /\ casts' = [casts EXCEPT ![p] = @ + 1]
  /\ Proceed(p)
  /\ UNCHANGED <<setup, gone, at, link, value, mcVars, shares, passed>>

(* Mutant: the party's own values only.                                    *)
SumsToZeroOwn(p) == taus[p][Len(taus[p])].good

(* The checking values of all parties sum up to zero.                      *)
SumsToZero(p) ==
  \A q \in Honest \cup {p} :
    LET tau == taus[q][Len(taus[p])] IN
    tau.good /\ tau.size = taus[p][Len(taus[p])].size

Rest(s, k) == SubSeq(s, k + 1, Len(s))

(* A faulty party follows its own rule, and may make the others reject.    *)
Verify(p) ==
  LET m == Object(p) IN
  /\ Doing(p, "verify")
  /\ p \in setup.faulty \/ SumsToZero(p)
  /\ passed' = [passed EXCEPT ![p] = @ \o Checked(p, m)]
  /\ vals' = [vals EXCEPT ![p][m] = Rest(@, popenCnt[p][m])]
  /\ macs' = [macs EXCEPT ![p][m] = Rest(@, popenCnt[p][m])]
  /\ popenCnt' = [popenCnt EXCEPT ![p][m] = 0]
  /\ Proceed(p)
  /\ UNCHANGED <<setup, gone, at, link, value, casts, taus, shares>>

(* mac_fail ends the process.                                              *)
Reject(p) ==
  /\ Doing(p, "verify")
  /\ setup.faulty # {} \/ ~SumsToZero(p)
  /\ gone' = gone \cup {p}
  /\ UNCHANGED <<setup, at, todo, link, value, mcVars, casts, taus, shares, passed>>

(* Sending to or receiving from a party that is gone is an exception.      *)
Closed(p) ==
  /\ \/ \E do \in {"send", "sent"} : Doing(p, do) /\ With(p) \in gone
     \/ \E do \in {"add", "get"} : Doing(p, do) /\ With(p) \in gone /\ link[With(p)][p] = <<>>
     \/ Doing(p, "heard") /\ \E q \in gone : casts[q] < casts[p]
  /\ gone' = gone \cup {p}
  /\ UNCHANGED <<setup, at, todo, link, value, mcVars, casts, taus, shares, passed>>

Party(p) ==
  \/ Begin(p) \/ Send(p) \/ Sent(p) \/ Add(p) \/ Get(p) \/ Count(p)
  \/ ShareOut(p) \/ Heard(p) \/ Sum(p)
  \/ Check(p) \/ Cast(p) \/ Commit(p) \/ Verify(p) \/ Reject(p) \/ Closed(p)

Over(p) == todo[p] = <<>> /\ at[p] = Len(setup.program)
Settled == \A p \in Present : p \in gone \/ Over(p)
Done == Settled /\ UNCHANGED vars

Next == (\E p \in Parties : Party(p)) \/ Done

Spec == Init /\ [][Next]_vars /\ \A p \in Parties : WF_vars(Party(p))

-----------------------------------------------------------------------------
(* If nobody deviates, every value that waits for a check is the sum of    *)
(* one share of each party, all of the opening its MAC belongs to, for all *)
(* numbers of parties and widths of the trees, and also if some parties    *)
(* are already in the next opening (TreeSum::start and finish).            *)
OpenedIsSum ==
  setup.faulty = {} =>
    \A p \in Present, m \in Objects : \A i \in 1 .. Len(vals[p][m]) :
      i <= Len(macs[p][m]) /\ vals[p][m][i] = Opened(macs[p][m][i])

(* A value that passed an honest party's check is right, and no other      *)
(* honest party has got a different one, checked or not, although the base *)
(* party may send different sums and one party may reject where another    *)
(* does not (Check).                                                       *)
Held(p) == Range(passed[p]) \cup UNION {Range(vals[p][m]) : m \in Objects}
CheckedMeansRight ==
  \A p \in Honest : \A v \in Range(passed[p]) :
    /\ \E k \in 1 .. Len(setup.program) : v = Opened(k)
    /\ \A q \in Honest : \A w \in Held(q) : w.shares = v.shares => w = v

(* Nobody waits forever, with streams that hold less than a message: the   *)
(* parties agree on who sends to whom and on when to check, and if nobody  *)
(* deviates, all get through with no value unchecked (the destructor of    *)
(* Tree_MAC_Check terminates the program otherwise).                       *)
NothingUnchecked(p) == Over(p) /\ \A m \in Objects : Waiting(p, m) = 0
EveryoneEnds ==
  <>(Settled /\ (setup.faulty = {} => \A p \in Present : NothingUnchecked(p)))
=============================================================================
