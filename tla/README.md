# Verification of AlphaFL and FLAME on MP-SPDZ

TLA+ modules, TLC configurations and TLAPS proofs for the programs of this
repository: the AlphaFL input commitment (`Alpha/`) and the parts of the MP-SPDZ
virtual machine (`Processor/`, `Tools/`, `Networking/`, `Protocols/`) that the
AlphaFL and FLAME experiments run on. TLC checks small instances; the theorems
are proved for every value of the constants, from the named assumptions.

## 1. The system

A run of the experiments consists of parties, clients and threads:

    clients --(TCP)--> alpha servers 0 and 1           Alpha/
       |                 one thread per client, then a check between the servers
       v
    parties 0 .. n-1, one process each                 Processor/, Protocols/
       main thread, N worker threads, queues between them
       one player (a stream per peer) per thread       Networking/
       coordinator thread per process for MAC checks   Tools/Coordinator.cpp

### Inventory

For each part: its state, its operations, with whom it interacts, what is hard
about it, and what makes it correct. The last column names the module, existing
or planned. `PROJECT.json` lists also the parts that are outside of this
development, with the reason, and every hazard at its line.

| Part | State | Operations | Module |
|---|---|---|---|
| Input commitment: `alpha-server.cpp`, `alpha-client.cpp`, `alpha-pre.h` | shares `x`, `m` and sums `v`, `d`, `z` per client on each of two servers; vOLE outputs `a1`, `b1` | commit (honest, dishonest majority), vOLE rounds, spawn and join of the threads, consistency check | `AlphaInput` |
| Thread pool: `Machine.hpp`, `ThreadQueue*.cpp`, `Online-Thread.hpp` | two queues and a counter `left` per worker, `available`, usage and statistics per worker | prepare, run, stop_threads; the worker's loop; run and join of tapes; distribute, wrap_up, CHECK | `ThreadPool`, `TapePool` |
| Queues between threads: `WaitQueue.h`, `Worker.h` | deque, mutex, condition variable, `running` | push, pop, pop_dont_stop, stop | `WaitQueue`, `Handover` |
| MAC-check coordination: `Coordinator.cpp`, `Subroutines.cpp` | queues `in`, `signals`, `done`, the count `waiting` and an iterator over it | wait, finished, the coordinator's loop, Commit_And_Open_ | `Coordinator`, `SerialOpenings` |
| Connection set-up: `ServerSocket.cpp`, `Server.cpp`, `Player.cpp`, `sockets.cpp` | `clients`, `used`, pending connections, deferred accept threads, the coordination server's list of names | accept, process_connection, get_connection_socket, setup_sockets, Server::start, handshakes | `Connections` |
| External clients: `ExternalClients.cpp`, `AnonymousServerSocket`, `ExternalIO/Client.hpp` | `external_client_sockets`, `client_ports`, the server's `clients` and queue of arrivals | listen, accept a client, serve it, close; init a connection | `ExternalClients`, planned `ClientTable` |
| Exchange between players: `Sender.cpp`, `Receiver.cpp`, `CryptoPlayer.cpp`, `Exchanger.h` | two queues per peer, partial sends and receives | send and receive to all, pass around, exchange in place, wait | `Exchange`, `Rounds` |
| Preprocessing positions: `Data_Files.hpp`, `Machine.hpp` | position per type and thread, declared usage, files | run_tapes, skip, seekg, get_usage, prune | `PrepFiles` |
| MAC check and randomness: `MAC_Check.h`, `MAC_Check.hpp`, `Subroutines.cpp` | `vals`, `macs`, `popen_cnt` of each object | open through trees or directly, AddToCheck, CheckIfNeeded, Check, Create_Random_Seed | `MACCheck` |
| FLAME and AlphaFL programs: `Programs/Source/*.mpc` | arrays of shared integers | selection, clipping, aggregation | planned operators |

**Input commitment.** Two servers hold additive shares of every client's input
and of its MAC under a key that is itself shared. A server starts one thread per
client, joins them in order, and then compares with the other server: each sends
`v`, receives, sends `z`, receives. Hard: the interleaving of the threads of two
servers and all clients over bounded socket buffers; a client that dies between
two messages, which ends one server by an exception while the other may be far
ahead; three modes; rings of two widths in one product. Correct if the shares
add up, the MACs belong to them, honest clients pass the check, and a server
never accepts what it has not been given, or accepts alone.

**Thread pool.** The process's main thread creates workers, hands the main tape
to worker 0 and stops everybody at the end. Worker 0, running the main tape,
starts and joins tapes on the others and splits large computations over those
with nothing outstanding; both use the same queues. Hard: answers to different
kinds of job on one queue; a counter kept by one side only; sizes that do not
divide; deleting queues that threads may still use; statistics stored after the
answer. Correct if every answer is read by who asked, every item is computed
once, free threads are idle, and the machine comes to an end having counted all
usage.

**Queues between threads.** Users push from several threads and pop in one. Two
ways to pop differ in what they do when the queue is stopped. Hard: the wait is
an `if`, not a loop, and `running` is read again after the mutex was released.
Correct if the consumer never touches an empty deque, never sleeps beside a
value, gets everything once and in order, and ends.

**MAC-check coordination.** A thread must not reveal its checking value while
another thread of some party is in a check. Threads run in a different order on
every party; the coordinators agree, by broadcasting one waiting id each per
round, on a common order. Hard: three kinds of wait in a circle (thread for
coordinator, coordinator for thread, everybody for every party); counts that
have to start again; a failed check in the middle. Correct if openings come
after all commitments, one at a time, in one order everywhere, and nobody hangs.

**Connection set-up.** Parties start in any order, report to a coordination
server (a thread of party 0) and get each other's addresses. Each player of a
party, one per thread, connects to the parties up to its own and waits for the
others; a connection whose name has not yet arrived is deferred to a thread. A
player with TLS does so twice and then performs handshakes with one peer after
the other. Hard: arrivals before anyone waits, several players at a time, the
order of the handshakes, time-outs after 60 s, a process that dies. Correct if
every pair holds the two ends of one stream, or all processes end.

**External clients.** Programs such as `bankers_bonus.mpc` accept clients in the
order they arrive at each party until the one with the finish flag and all
before it are there, take an input from each, send the results and close; then
the next game begins. Hard: parties wait for clients that wait for other
parties; names processed by an accept thread and by deferred threads; clients
that die, are late, or come again before they were closed. Correct if every
party serves the clients of the same game, nobody waits for ever, and no process
ends without a fault. Operations of several threads on the table, and
connections in the other direction, are planned.

**Exchange.** All parties send before they receive, with messages larger than
the socket buffers. The plain player interleaves partial sends and receives of a
message per peer; the player with TLS hands all transfers to two threads per
peer and waits for them one after the other; an exchange in place sends and
receives in one buffer. Hard: everybody may fill everybody's buffers; requests
and waits are paired only by their order; the buffer may move. Correct if nobody
waits for ever for any buffer size, if the buffer a `wait` returns is that of
its request, and if everyone gets the messages of the same operation.

**Preprocessing positions.** All threads may read the same files. A tape is
started with a position, computed from the declared usage of the tapes before
it, and seeks there; the main tape skips them; the end of a run removes from the
files as much as all threads report to have used. Hard: elements come in blocks,
so a seek goes to a block and then forward; declared usage is a maximum, the
reported one is actual. Correct if no element is used twice, in this run or the
next, and none is lost but the rests of blocks.

**MAC check.** To open values, the parties sum their shares along a tree to a
base party, which sends the sums along another tree; every party computes its
place in both from its number and two widths. Opened values wait for a check, on
each party until its own count reaches a limit or somebody asks. A thread has
several objects with different trees on one player. Hard: divisions that round
differently in three places; parties that are already in the next opening; a
party that checks one opening earlier or later than the others; a base party
that sends different sums. Correct if everyone gets the sum of all shares, a
value that passed the check is the right one, the same for all honest parties,
and nobody waits for ever.

## 2. Modules and their relation to the code

| Module | Role |
|---|---|
| `AlphaInput` | clients, both servers with their threads, the streams between them |
| `MCAlphaInput` | keys, weights and vOLE generators for TLC |
| `AlphaInput_proofs` | delivery, the servers' exchange, no end without a crash; shares and MAC shares add up, the check passes |
| `ThreadPool` | main thread, workers, main tape |
| `MCThreadPool` | the computations the main tape distributes |
| `TapePool` | abstract: what a program may rely on when it starts and joins tapes |
| `ThreadPool_proofs` | types, counters, answers, items, usages, refinement of `TapePool` |
| `WaitQueue` | mutex and condition variable, both ways to pop |
| `Handover` | abstract: values handed over once, in order, all of them |
| `WaitQueue_proofs` | queue invariant, refinement of `Handover` |
| `Coordinator` | checks in several threads of several parties, their coordinators |
| `SerialOpenings` | abstract: one agreed sequence of openings |
| `Coordinator_proofs` | openings after commitments, one check at a time, of all parties together, refinement of `SerialOpenings` |
| `ExternalClients` | clients, the parties' accept threads and programs over several games |
| `ExternalClients_proofs` | where each name, stream and game stands; no end without a fault |
| `Connections` | coordination server, parties and their players until they are connected |
| `MCConnections` | the setups for TLC |
| `Connections_proofs` | which connection every socket is, no end without a fault, no circle of waits |
| `Exchange` | the parties' operations, sender and receiver threads, streams |
| `Rounds` | abstract: synchronous rounds, everyone hears the same operation |
| `MCExchange` | the programs of operations for TLC |
| `Exchange_proofs` | the plans of operations, a wait gets what was requested, refinement of `Rounds` |
| `PrepFiles` | threads that read one file of preprocessing, over several runs |
| `MCPrepFiles` | threads, usages and setups for TLC |
| `PrepFiles_proofs` | no element used twice, what a run used is removed and little else |
| `MACCheck` | one thread per party that opens and checks values of several objects |
| `MCMACCheck` | trees, programs and faulty parties for TLC |

The modules are layered like the code: `ThreadPool` and `Coordinator` use a
queue as a FIFO sequence because `WaitQueue` implements `Handover`.
`Coordinator` counts broadcasts instead of keeping streams: with one FIFO stream
per pair and player, the k-th message received is the k-th one sent. That the
rounds of the exchange let a broadcast be sent without waiting for the other
side is what `Exchange` shows: it implements `Rounds`, in which a party hears
every other one's message of the operation it is in, and never has to wait for
those it only sends to. `Exchange` in turn uses one stream per pair, direction
and set of connections, whose two ends match by `Connections`. `PrepFiles` takes
from `ThreadPool` that a helper runs one tape at a time and that the threads'
reports are summed when all tapes are joined (`UsageSummed`).

Actions follow the code's operations, with the program counter of each process
or thread as a variable (`cpc`, `spc`, `tpc` in `AlphaInput`; `mpc`, `wpc`,
`dpc` in `ThreadPool`; `pc` in `WaitQueue`; `tpc`, `cpc` in `Coordinator`). What
a thread does between two accesses to shared state or to a stream is one action.
In particular:

* `AlphaInput`: a client's message to server 1 (both vectors, sent by one thread
  to one receiver that needs both) is one message; a vOLE round is one message.
  `Put` blocks while the buffer holds `Cap` messages and loses what is sent to a
  process that is gone; `Closed` is what makes `receive` throw
  `closed_connection`: nothing left to read and the peer gone. `Spawn` and
  `Join` are one turn each of the loops in `main`.
* `ThreadPool`: `Schedule`, `Result`, `TakeJob` and `Finished` are the four
  methods of `ThreadQueue`, used by every action that schedules or answers;
  `left` is changed by the calling side only, as in the code. `Slice` is one
  turn of the loop of `distribute_no_setup`, `WrapUp` of `wrap_up`. A tape that
  runs on a helper uses one unit of preprocessing, so usage is the number of
  tapes.
* `WaitQueue`: everything under the mutex is one action; `pthread_cond_wait` is
  the end of one action and the beginning of another; the unprotected second
  look at `running` in `pop` is the action `Return`. `StopQueue` has the
  condition that the users of `pop` keep: they stop only when all answers are
  back.
* `Coordinator`: `Ask`, `Open`, `Verify` are the steps of `Commit_And_Open_`
  around `wait` and `finished`; `Announce` .. `EndScan` are the coordinator's
  loop. `Verify` or `Invalid` is chosen freely when some other party is in
  `Faulty`, because a wrong opening may be sent to one party and not to another.
* `Exchange`: the operations of a player are sets of channels with a message
  size per party, and `Plan` is the set of an operation's steps, numbered in the
  code's order: the exchangers that are constructed and run (`open`, `rounds`),
  or the waits for senders and receivers (`sent`, `received`); `NextStep` is the
  one with the least number. `Send` and `Receive` are
  the two halves of `Exchanger::round`; a call that transfers nothing is a
  stutter. With TLS they block (`ssl_sockets.h`), and `turn` keeps their order.
  A message is a length unit and data units; a data unit says from which
  operation, party and place it is, so that a wrong one shows. `moved` says that
  `data` points to memory that was freed, and what is then sent is the old unit
  or another.
* `Connections`: a connection is identified by who opened it, for which player
  and set, and to whom; `arriving` are those not yet processed, by whichever
  thread. `Connect` covers the repeated attempts, `Accept` a turn of the loop
  with its wait, `Handshake` both sides of the TLS handshake on both
  connections. A wait that ends after `CONNECTION_TIMEOUT`, an exception that
  nobody catches, and a crash make the process `Gone`. If a party dies in the
  middle of a name, a deferred thread catches the exception and the connection
  is dropped (`LoseConnection`), but the accept thread has no handler and its
  process ends (`AcceptFails`; with the coordination server, `ServerFails`).
* `PrepFiles`: a reader is the next position in the file and what was read but
  not used; `Seek` drops the latter for tuples and keeps it for edaBits, as the
  code does. A helper's whole tape is one step, since no other thread looks at
  its reader.
* `MACCheck`: `Plan` lists the steps of an operation in the code's order, from
  the loops of `TreeSum::start` and `finish`. The values of one opening stay
  together, so a value is the bag of the shares that were added, and whether it
  deviates from what honest parties would have sent. `Send` and `Sent` are the
  begin and the end of a blocking send: it returns when what is left fits into
  the stream (nothing, with `cap` 0). The base party has its own sums in `vals`
  when it sends them, the others when they receive them; the model lets the base
  party do it with `Count`, the next thing it does that anybody can see. A check
  that `Count` starts is part of the operation. Broadcasts are counted as in
  `Coordinator`; the wait for the coordinator between commitment and opening is
  left to that module. The players' receiver threads with TLS only take messages
  from the streams earlier, like larger buffers.
* `ExternalClients`: `Greet` is the handshake, in which both sides wait for each
  other, with the table entry and the specification. `ProcessConnection` stands
  for both ways to process a name, in the accept thread or in a deferred one, as
  they differ only in the order in which names are processed (any order) and in
  what happens if the client dies in the middle of its name (`DiesInName`).
  `Reveal` and `Open` are the one place in the program where a party waits for
  the others. One of the two `type_run`s is modelled, and a thread of the
  program per client (`n_threads`).

History variables (`sent`, `got`, `openings`, `ran`, `done`) change nothing;
they are what the properties compare. Operators introduced by "Mutant:" are
faulty versions of the operator that follows them; no specification uses them.

## 3. What TLC checks

| Run | Instance | Properties | Result |
|---|---|---|---|
| `alpha_input` | 2 clients, 1 input and the mask, `K`=1, `S`=2 (rings modulo 8 and 32), all modes, 3 inputs, 2 masks, 1 message per buffer, clients may die | `CommitmentCorrect` `HonestCheckPasses` `DoneMeansDelivered` `NoAbortWithoutCrash` `NeverAlone` `ServersEnd` | hold |
| `thread_pool` | 3 threads, 3 tapes, 2 computations (items, base, granularity) of (0,0,1), (1,0,1), (2,0,2), (5,0,2), (5,2,1) | `FreeThreadIdle` `JoinGetsTape` `WrapUpAsserts` `EveryItemOnce` `DeletedAfterExit` `UsageSummed` `RunEnds` `ImplementsTapePool` | hold |
| `wait_queue` | 3 producers with 2 values each, both ways to pop | `NeverFrontOfEmpty` `NoLostWakeup` `NothingDropped` `ConsumerEnds` `ImplementsHandover` | hold |
| `coordinator` | 3 parties, 2 threads, 2 checks each, one faulty party | `OpenedAfterCommitted` `OneCheckAtATime` `GrantedTogether` `NobodyHangs` `ImplementsSerialOpenings` | hold |
| `mac_check` | all pairs of widths 0, 2, 3 and another base with 5 parties; two objects with 1 to 3 parties; a faulty party in each of 4 places, and with direct openings | `OpenedIsSum` `CheckedMeansRight` `EveryoneEnds` | hold |
| `external_clients` | 2 parties, 3 clients, 2 games, clients may die or be late | `EveryoneAtTable` `NoExitWithoutFault` `EveryoneEnds` | hold |
| `clients_eager` | 2 parties, 2 clients that come again at once | `NoExitWithoutFault` | violated, see 5 |
| `connections` | 2 parties with 2 players (also TLS), 3 parties with and without TLS, own or shared socket; in the setups with faults one party may die, waits may time out | `MatchedEnds` `NoExitWithoutFault` `NobodyStuck` `EverySetupEnds` | hold |
| `exchange` | 3 parties, 5 programs of 2 or 3 operations, messages of 0 to 3 units, with and without TLS | `WaitGetsRequest` `EveryoneFinishes` `ImplementsRounds` | hold |
| `exchange_inplace` | the same, no spare room in the buffers | `Delivered` | violated, see 5 |
| `prep_files` | 2 helpers, blocks of 3, 5 elements reserved per run, 2 runs | `TapesApart` `NothingSpentAhead` `NothingWasted` | hold |
| `prep_reuse` | the same, tapes that use all they declare | `UsedAlwaysOnce` | violated, see 5 |

Why these bounds:

* `alpha_input`. Two clients give two threads per server, hence every order of
  finishing and joining and a death of the client that is joined first or last.
  One message per buffer makes senders block; larger buffers only remove
  blocking. Moduli 8 and 32 make products of the inputs and masks with the key 5
  wrap around in the narrow ring and most of them in the wide one; input 5 is
  more than half of the narrow ring. Server 0's key share 2 has the bits 0 and
  1, so its two vOLE rounds take both branches of the receiver. The code's own
  key shares are the placeholders 0 and 1 (`get_alpha`).
* `thread_pool`. Three tapes on two helpers need a thread to be used a second
  time; two computations can come before, between and after them, with zero, one
  or two free threads. Their sizes are none (the CHECK instruction), fewer than
  and more items than threads, with a remainder; granularity 2 reaches the case
  that the remaining threads are given back and that a slice rounds down; a base
  makes the slices start and end elsewhere than at multiples of their size.
* `wait_queue`. Three producers give two pushes in any state of the consumer
  while a third is outstanding; a second value per producer shows the order.
* `coordinator`. With two parties every disagreement is settled in the next
  round; with three there are rounds in which a majority waits for a thread and
  one party does not. Two checks per thread test that the counts start again.
* `external_clients`. With three clients the one with the finish flag can come
  first, last or in between; two parties are enough for a client to hold one
  party while it waits for the other; the second game uses what the first one
  left in the tables.

* `connections`. Three parties are the fewest for which handshakes can wait in a
  circle and for which a dead party can leave a waiting one behind another; two
  players show that connections of different players are kept apart. Four
  parties with TLS, where offsets larger than one and the wrap-around matter,
  are beyond this search; for every number of parties `SetupGoesOn` is proved
  (section 4).
* `exchange`. Plain streams hold one unit, so every message but an empty one
  exceeds them; streams with TLS hold two records (section 5 says why not one).
  Three parties allow circles of waits that no pair sees. The programs begin an
  operation while slower parties are in the one before, use sets of channels
  without symmetry, and give in-place exchanges with a longer message in either
  direction; buffers have a spare room of three units, so none moves.
* `prep_files`. Blocks of three and usages of one to three give positions at, in
  and across blocks; two helpers, tapes that are started together or one after
  the other, and a second run that starts in what the first one left.

* `mac_check`. Widths below 2 stand for the number of parties (one phase); with
  five parties, 2 gives three phases and a party that adds twice, 3 divisions
  with a remainder. The code's default, 10, is one phase up to ten parties. With
  `POPEN_MAX` 3 checks start by the count and on request, the former in the
  middle of a program on two objects. A faulty party is tried at the base, in
  the middle and at the leaves of the trees.

`CHECK_DEADLOCK FALSE` is set for `AlphaInput`, whose processes end: a state
without a step is then the normal end, and `ServersEnd` says that it is not
reached before both servers ended; and for `PrepFiles`, whose program may stop
anywhere and does at the bounds, and of which only safety is checked. The other
specifications have an explicit final step, and deadlock is checked.

### Fairness

Every fairness condition is weak fairness of one thread or process: the
operating system runs a thread that can run, and TCP delivers. A client's death
(`ClientCrash`), a wrong opening (`Invalid` rather than `Verify`) and an error
on sending (`Reset`) are never owed. That a process whose peer is gone notices
it (`ThreadClosed`, `CheckBroken`, `Closed`) is owed, because `receive` returns
0 on a closed stream (`Networking/sockets.h:87`). In `ThreadPool`,
`WF_vars(MainTape)` says that the program on the main tape goes on; that it is
finite comes from the bounds `MaxTapes` and `MaxBatches`, and it may leave tapes
unjoined. In `ExternalClients`, somebody starts the clients in the end, and a
wait of 60 seconds ends (`TimeOut`), early or late: a run in which a party times
out although all is well is allowed, and `NoExitWithoutFault` counts it as a
fault (`late`). In `Exchange` every party's main thread and every sender and
receiver thread is fair by itself. In `Connections` the server, each main
thread, each accept thread and each player are; a crash is never owed, and a
time-out is only in as much as a wait for something that does not come ends
after 60 seconds. In `MACCheck` each party's thread is fair, and a rejection by
a faulty party is never owed. `PrepFiles` states no fairness. In `WaitQueue` the
owner is assumed to stop the queue in the end, as all owners' destructors do.

## 4. What is proved

All theorems hold for every value of the constants that satisfies the module's
`ASSUME`s (sizes are natural numbers, most of them positive).

### Input commitment (`AlphaInput_proofs`)

**`DoneDelivered`** : `Spec => []DoneMeansDelivered`. The property itself is not
inductive. `DeliveryInv` adds: a message on a client's stream to server 1, and a
finished thread of server 1, exist only if the client has `sent` (`Delivery`);
threads from the loop index on are not started while a server spawns, those
below it are finished while it joins, all are finished afterwards (`Joined`);
and server 0 has a message from server 1, or has got past receiving one, only
when server 1's threads are finished (`Exchanged`), which is what carries the
fact from the server that hears from the clients to the one that does not.

**`AcceptTogether`** : `Spec => []NeverAlone`. `BalanceInv` keeps the accounts
of the exchange between the servers: the vectors a server has put on its stream
(none before `sendv`, one after it, two after `sendz`) are those pending on it
plus those the other server has heard, unless one of the two has died; a dead
server has sent at most the first. A server that is `done` has heard two, so the
other one has sent both and is at `recvz` or past it.

**`AbortNeedsCrash`** : `Spec => []NoAbortWithoutCrash`. As long as no client
dies and the mode is 0 or 1 (`Calm`), nobody has aborted (`NoneAborted`), every
thread that will be joined was started (`Spawned`), a commitment sent and not
received is still on its stream (`InFlight`), and the rounds of the vOLE the
client is ahead of the server are those on the stream (`Ahead`). With
`BalanceInv`, a stream that its sender has closed is never read empty, which is
the one thing that ends a server.

These three need no arithmetic of the rings.

**`CommitmentAdds`** : `Spec => []CommitmentCorrect`, and **`HonestPasses`** :
`Spec => []HonestCheckPasses`: the shares of the two servers add up to the
inputs and their MAC shares to the inputs times the key, also when the vector
OLE has made them, and the check of the masked sums passes for every client, for
any number of clients and inputs, any width of the rings, and all inputs, keys,
weights and generators. The assumption `DataAssumption` says only that key
shares and weights have `SBits` bits and that the generators yield ring
elements.

`ValueInv` gives every value in the state as a function of the inputs and of how
far its owner is. After `i` rounds of the vOLE the client's sum is `BVal(c,j,i)`
and the server's `AVal(c,j,i)`, and their difference is the input times the
lowest `i` bits of the key (`VoleInv`; lemma `NextBit` takes the next bit). What
is on a stream depends on its sender alone (`StreamInv`, `WordInv`), so that it
does not matter when it is received; of the words between the servers the
counts of `BalanceInv` say which comes next. Shares and sums of a finished
thread are those of the protocol (`ShareInv`, `SumInv`), which leaves the
algebra: `ShareFacts`, `MaskedFacts` and `CheckZero`.

`BVal` and `AVal` are closed forms, in powers of two that are a recursive
function of a natural number. The masked sum is a fold; its linearity
(`SumCong`) is shown with a table that holds the sums over all subsets of the
indices (`TableExists`, `SumTable`), by well-foundedness of the subsets'
cardinalities: a smallest counterexample is taken. Congruence modulo a ring's
size is stated with a quotient (`Cong`), so that no step needs `%` of a product.

### Thread pool (`ThreadPool_proofs`)

`TypeCorrect` (`Spec => []TypeOK`) is inductive only together with the counting
invariant, because `left` is decremented: `Counted` relates `left` to what is
queued, in hand and unread (`LeftCorrect`). On top of it, `Shape` says what the
two queues and the worker of each thread hold in every phase: the stand-in job
of prepare, its tape if `run` is not zero, a slice of the present computation if
it is among the threads in `avail` that were given one, and nothing otherwise
(`Outstanding`); and that a computation is spread only by the main tape, the
first thread getting a slice (`Spread`), so that the caller waits if there is
anybody to wait for. It gives `FreeThreads`, `JoinsMatch` and `WrapUpsMatch`,
the assertions of `wrap_up`.

**`DeletedLast`** : `stop_threads` goes on to the next thread only after
`pthread_join` (`Reaped`), and a thread that has ended has stored the statistics
of all it ran (`Recorded`).

**`ItemsOnce`** : `Spec => []EveryItemOnce`, for every size, base, granularity
and set of free threads. `Items` says of each index that it is *covered*, once
`distribute` has given out its slice or the caller has computed it, or not; a
covered one is pending at exactly one thread and not computed, or pending
nowhere and computed once. The slices given out so far reach from `base` to
`start`, and `start` does not pass `size` when anything was given out. That the
slices do not reach too far is the inequality about `PerThread`, rounded down to
the granularity, on which the lemmas before it are.

**`TapePoolSteps`** : `Spec => Tapes!Spec`, the safety part of
`ImplementsTapePool`. `TapesInv` says that every tape started so far has run or
is with exactly one thread, first in its queue or in hand, and that an answer to
a tape is there only after the tape ran; each action is then a start, a run, a
join or the end of `TapePool`, or leaves its state alone.

**`UsageTotal`** : `Spec => []UsageSummed`. If all tapes were joined, each
thread is idle until it is told to stop, and then its own report is the only
result it gives (`Quitting`); no tape ran on two threads and a thread's usage is
the number of tapes it ran (`Apart`); the position summed so far is the number
of tapes that ran on the threads collected (`Summed`). With `TapesInv`, at the
end these are all that were started.

### Queues (`WaitQueue_proofs`)

`QueueInv` says that `sent` is what was returned, what is in hand and what is
queued, in this order (`InOrder`), that a woken consumer finds either a value or
a stopped queue, and that with `pop` the queue is stopped only when everything
was returned (`Awake`). Hence the consumer never takes the front of an empty
deque, no wakeup is lost, nothing is dropped, and every step is a step of
`Handover` or leaves its state alone (`Refinement`). The theorems assume
`~Spurious`: with `pop` they would be wrong otherwise (section 5).

### Coordinator (`Coordinator_proofs`)

`CheckInv` passes a token: while the coordinator waits for `finished`, the
thread it stands at has been signalled, or is opening, or has reported, exactly
one of the three, and every other thread is quiet; at all other times all are
quiet (`Token`). It gives `OneCheck` for any number of parties and threads, also
when another party is faulty. `OpenedAfterCommit` follows from `Committed`: a
thread has made one commitment more than openings exactly between the two, and
one that waits for the coordinator has everybody's commitment.

**`Together`** : `Spec => []GrantedTogether`. `RoundInv` follows the counts of
the coordinators: a party has announced thread `t` once more than it has
finished checks of `t` exactly if `t` is waiting, and not among those still
queued (`Asked`); a thread has finished no more checks than any party has opened
(`Verified`); in the round a coordinator is in, every party's announcements of
`t` are as many as its own finished checks or one more, and `waiting[t]` is the
number of those that are one more (`Counts`). A full count therefore means that
everybody is at the same check of `t`, waiting for it or opening it.

**`Serial`** : `Spec => ImplementsSerialOpenings`. Two more invariants are
needed: a coordinator lets a check go in the first round, and at the first place
in the scan, that makes its count full (`InOrder`); and the sequences of
openings of any two parties are equal or one is the other with one opening more
(`Abreast`). When a party that is behind opens a check, its coordinator found it
complete in the same round and place as that of the party ahead, so that it is
the same check (lemma `SameTurn`): the step is `Follow`. When nobody is ahead it
is `Lead`.

### Connection set-up (`Connections_proofs`)

**`EndsMatch`** : `Spec => []MatchedEnds`, for any number of parties and
players, with and without TLS, and with a crash or time-outs. A player's loop
index runs over the parties below its own number while it connects and from it
on while it accepts (`IndexInv`); a second set is for TLS only and complete
before the handshakes (`SetsInv`); and what the loop has passed is, towards
lower parties, the connection the player opened itself, towards higher ones the
one it was asked for by name, the rest being unset (`SocketInv`). Both ends
therefore name the same connection.

**`SetupWithoutExit`** : `Spec => []NoExitWithoutFault`. `HereInv`: parties
outside the setup do nothing, so that the coordination server's table is filled
only by those it waits for; `UsedInv`: a name is in the set of names asked for
only when the loop has asked for it, so that no name is asked for twice.

**`SetupGoesOn`** : `Spec => []NobodyStuck`, for any number of parties and
players: without faults, until everybody is connected, some thread is not
waiting or what it waits for is there. `StuckInv` has three parts. `ServerInv`
is what the coordination server and the main threads know of each other;
`AskInv` says that a connection a player has opened is on its way or in the
other party's table until that party asks for it; `ShakeInv` says that the two
sides of a handshake agree on whether it is over. Suppose nothing can go on.
Then the server has closed and all parties listen, so nobody is at `connect`,
hence nobody waits in a first set and hence nobody in a second one: all players
of a number are in their handshakes or connected. `Player.cpp` pairs the parties
by their offset `d`, and a party has the neighbour above it first or the one
below by its number divided by `2 * d`. Take a party at the least offset. It
waits for a neighbour that is not at that turn, so that neighbour is itself at
its first turn of the offset and waits for the party beyond. Parties `d` apart
take turns in who begins with whom (lemma `BelowAlternates`), so three in a row
do not all wait in the same direction, also not across the wrap-around, where
the number of parties need not be a multiple of `2 * d` (lemma `NoCircle`). That
the setup also ends, under fairness, is left to TLC (`EverySetupEnds`).

### External clients (`ExternalClients_proofs`)

**`EveryoneServed`** : `Spec => []EveryoneAtTable`, for any number of parties,
clients and games, with and without clients that start their next game early or
die. `TableInv` follows one client at one party: a name is sent once per game
and entered once (`Names`); the client's game is the party's, or one ahead of
it, by whether the client has met the party and been greeted (`Count`); a name
under way is of the game after the last greeting (`Coming`); a stream of the
next game is in the accept thread's table only while the party closes, and only
for clients it is past (`Entry`, `Closing`); the two tables agree (`Seat`), and
a client counted as seen has its entry (`Seated`). `Place` adds where the
program's loop stands. The loop over `accept_client` ends when as many clients
were seen as there are, so that all have their entry, of this game.

**`ExitWithoutEagerness`** : `~Eager => (Spec => []NoExitWithoutFault)`. Without
an early start no client is more than one game ahead of any party (`OneAhead`),
so the name it sends is not in the table; a party that has revealed its share
waits only for parties that do so too or are dead (`ShareInv`). With `Eager` it
is false (section 5, run `clients_eager`).

### Exchange (`Exchange_proofs`)

**`WaitsMatch`** : `Spec => []WaitGetsRequest`, for any number of parties,
programs of operations and sizes of messages and buffers. What is left of a
party's operation is always a part of the operation's plan (`PlanInv`), whose
waits are one for each peer that was asked for something (lemma `WaitsFacts`).
`QueueInv` adds that a wait still to come has either its request on the one
queue or its answer on the other, and that a peer that is not waited for has
neither. An answer is therefore the one to the present request. That the plan's
first step exists is the well-foundedness of the natural numbers, by which the
steps are numbered.

**`RoundsSteps`** : `Roomy => (Spec => R!Spec)`, for any number of parties,
programs, sizes of messages and capacities of streams, with and without TLS:
every step of `Exchange` is one of `Rounds` or leaves its state alone. `Begin`
maps to `Enter`, `WaitReceived` to hearing one party and `EndRounds` to hearing
all parties of the Exchangers that are done; fairness is left to TLC. The
inductive invariant is `TransferInv`. For each party and peer it says how many
parts of the present message have been sent (`SendPair`) and which have been
received (`ReceivePair`), where `Owing` and `Expecting` say that the transfer is
not over. `FlowPair` joins the two ends: the parts of all messages of the
program have an order, by operation and by position, and the stream holds
exactly those that one end has sent and the other has not got, in this order
(`Carries`). The stream's next part is therefore the one the receiver expects
(lemma `NextPart`), whatever operation each of the two is in. CryptoPlayer's
two sockets per pair are two such streams with the operations split between
them, because an operation in place uses the other one in one direction.

`Roomy` says that the length of either side of an exchange in place stays below
the receiver's length plus its spare allocation, so that the buffer does not
move while it is being sent (`octetStream::resize`). It holds of all programs
without such exchanges; without it the theorem is false, which is the finding of
section 5 (run `exchange_inplace`). `PlaceParty` is the part of the invariant
that it serves: with `to_receive` no more of a buffer in place is overwritten
than has been sent.

**`RoomEnough`** : `Roomy => (Spec => []Delivered)`. By `HeardPair`, a message
that is handed over is the one that the sender's buffer held at its call of the
same operation, even if the buffer was received into while it was sent.

### Preprocessing positions (`PrepFiles_proofs`)

**`SharesApart`** : `Spec => []TapesApart`, **`SpentRemoved`** : `Spec =>
[]NothingSpentAhead` and **`LittleWasted`** : `Spec => []NothingWasted`, for any
number of threads, size of blocks, declared usages, bounds and runs. The one
assumption on the threads is that they are finitely many, since the usages are
added up over them.

None of the three is inductive. `PrepInv` gives each tape that was started and
has not run its `Share`, the elements from its position on that it declared:
shares are disjoint and before the position of the main tape (`JobInv`). Readers
stand where their position says, also in the middle of a block (`ReaderInv`,
`At`). An element that was used was used once, lies between the start and the
main tape's position, and is in no share that is still waiting (`UsedInv`), so a
tape that runs meets only unused elements. If tapes use what they declare,
`ExactInv` adds the converse, that everything reserved and not waiting is used,
and that the position of the main tape without its own usage is the sum of what
the helpers have used and are going to use (`Promised`). At the end nothing is
waiting, hence what `prune` removes is what was used, up to the rest of one
block of edaBits.

The lemmas are about the readers (`Reading`, `Seeking`, `Pruned`, `Using`: which
elements a read yields after which seek), about the positions of tapes started
together, which follow each other without gaps (`PositionFacts`), and about the
fold `Total` over a set of threads (`TotalRemove`, `TotalAdd`, `TotalZero`,
...), with tables as above.

### Only model-checked

* All liveness properties (`ServersEnd`, `RunEnds`, `ConsumerEnds`,
  `NobodyHangs`, `EveryoneEnds` of two modules, `EverySetupEnds`,
  `EveryoneFinishes`) and the fairness conditions of the refinements, which the
  proof system does not support.
* `OpenedIsSum` and `CheckedMeansRight`. They rest on the trees of `SumPlan` and
  `BroadcastPlan` reaching every party exactly once for every number of parties
  and width, and on each message being of the operation its receiver is in while
  other parties are ahead; TLC tries all trees of its widths with five parties.
  Section 7 says what a proof needs.

## 5. Where the code and its comments differ

* **Clients that come again** (run `clients_eager`). `bankers_bonus.mpc` says
  that a game resets and the program runs on. A client has finished when it has
  read the result of every party. If it is started again before some party has
  closed its connection, that party finds its id in the table and exits
  ("already connected").
* **Buffers exchanged in place** (run `exchange_inplace`). An `Exchanger` keeps
  a pointer to the data to send. In place, the arrival of the other side's
  length resizes the same buffer, which frees the memory unless the allocation
  is large enough; the rest of the message is then sent from there. The run has
  no spare room; `exchange` shows that with room everything arrives.
* **edaBits used twice** (run `prep_reuse`). `seekg` goes to the start of the
  block and then leaves out elements one by one, but takes them from the rest of
  the block it had read before, if there is one. A main tape that uses one
  edaBit, starts a tape that declares one, and uses another gets its first one
  again. `TapesApart` says that nothing else makes threads of a run use the same
  element (`stale`).

Observed while modelling, without a run:

* `main` of the alpha server accepts mode 2, which a comment calls dishonest
  majority with vOLE pre-processing, but the loop that starts threads handles
  modes 0 and 1 only; the join that follows throws `std::system_error` on the
  first thread (`JoinNone`), and `NoAbortWithoutCrash` leaves this mode out.
* If a program called `AddToCheck` or `Check` between `prepare_open` and
  `exchange` of the same object, `vals` and `macs` would no longer belong
  together. No caller does; the operations of `MACCheck` are whole openings, or
  one value of `AddToCheck`, which checks after each (`OneValueAssumption`).
* `stop_threads` reads one result per thread as its usage ("sum actual usage",
  `Machine.hpp:422`). If the program did not join a tape, which the compiler
  does not demand, that result is the tape's, with the position it was started
  at, and the thread's report stays on the queue: what the thread used, in
  earlier tapes too, is left out of the sum that decides what is removed from
  the files. `UsageSummed` is therefore about programs that join every tape.
* With TLS an exchange in place blocks in each half of a round. If streams held
  only one record (`TlsCap` = 1), two parties that send could wait for each
  other: the code relies on socket buffers of at least two records. Both parties
  must also agree on doing it in place, as the other way uses other connections.
* `prune` removes the sum of actual usages. If tapes use less than they declare
  (branches), used elements behind the gaps stay in the files of the next run;
  `NothingSpentAhead` has `exact` as its condition. A run that ends by an
  exception removes nothing.
* `get_connection_socket` throws for a name that was asked for before with the
  server's lock held. The names of a party's players differ, so it does not
  happen (`NoExitWithoutFault`).
* With a base, `distribute` compares the end of a slice, base included, with the
  number of items, and so gives back threads it could use; every item is still
  computed once.
* `WaitQueue::pop` tests the deque with `if` before the wait and only `running`
  after it. With wakeups that no signal caused (POSIX permits them;
  `futex`-based waits in this use do not produce them) or two consumers it would
  call `front()` on an empty deque (set `Spurious` in `WaitQueue.cfg` to see
  it); `pop_dont_stop` does not.
* The alpha server's threads all receive through one player and update its
  statistics without a lock (`Networking/Player.cpp:419`).

## 6. What is not modelled

* Values: inputs are small rings; `R` and the vOLE's generators are fixed
  constants, as all their seeds are fixed in the code. Server 0's shares are
  zero as in `get_x0`, `get_m0`; variants of these functions with other seeds
  are not covered.
* A client and a server started with different modes; several runs in sequence.
* In `ThreadPool`, the contents of computations and the communication of a tape;
  a thread that throws (which ends the process).
* In `ExternalClients`, values, certificates, ids that no game expects, and the
  data race of `remove_client`, which erases from the server's table without the
  lock the accept thread takes; with the next game's clients starting after the
  last one was closed the two do not overlap.
* In `Exchange`, `ThreadPlayer`, `partial_broadcast`, calls between two parties
  that the others do not take part in, statistics and hashes; a party's messages
  of one operation are of one size.
* In `Connections`, host names, certificates and socket options; the ids under
  which parties report, which stay in the table of party 0's socket if it is
  shared and are other names than the players'; more than one crash.
* In `PrepFiles`, files per thread (option -f), `purge`, the end of a file and
  tapes of unknown usage, which end the process, builds that reuse data
  (`INSECURE`), inputs and extended types, and tapes started by helpers, which
  the compiler does not produce.
* In `Coordinator`, commitments and MACs as data.
* In `MACCheck`, MACs, keys and random combinations as numbers: a check rejects
  values that are not what their MACs say, leaving out the negligible chance
  that it does not. A faulty party lies in what it sends and may reject; it
  keeps to the order of the protocol. Also not: the masks of `prepare_open` in
  Z2k, lengths, other protocols' checks, and `MAC_Check_` with
  fewer than ten values, which has no seed rounds (its program is `Check` with
  two broadcasts less).
* The compiler, arithmetic of rings and fields, homomorphic encryption,
  oblivious transfer, garbled circuits and the other security models: their
  concurrency is that of the queues and players above, and their correctness is
  algebra or, for the compiler, another system.
* Logs, notebooks and baselines under `Alpha/`.

## 7. Plan

In this order, each with its abstract specification, runs and theorems:

1. **`ClientTable`**: the operations of the class `ExternalClients` called by
   several threads of a party in any order, with `init_client_connection`.
   Abstract: a table from handles to streams; a handle names one stream until it
   is closed. Two connections opened by `init_client_connection` get the same
   handle, which its documentation ("returns: connection id") does not suggest.
2. The integer steps of FLAME's selection as operators against reference
   definitions.

The proof that is left, with what it needs:

* `OpenedIsSum` and `CheckedMeansRight` of `MACCheck`: that the summers of each
  phase divide the others among them, by induction over the phases; the sum of a
  party in a phase as the bag of the shares below it; and, as in `TransferInv`,
  an order of all messages of a program by which a stream holds what one end has
  sent and the other has not got.
