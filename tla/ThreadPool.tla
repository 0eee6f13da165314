---------------------------- MODULE ThreadPool ----------------------------
(***************************************************************************)
(* The virtual machine's threads during Machine::run: the process's main   *)
(* thread, which creates N workers, hands the main tape to worker 0, and   *)
(* stops them; and the workers, each with a queue of jobs to it (in) and   *)
(* of results from it (out).  Worker 0 is itself a client of the other     *)
(* queues: the main tape starts tapes on free threads and joins them       *)
(* (RUN_TAPE, JOIN_TAPE), and splits large computations over the threads   *)
(* that have nothing outstanding (ThreadQueues::distribute, wrap_up).      *)
(*                                                                         *)
(* A queue is a FIFO sequence here; WaitQueue models its mutex and         *)
(* condition variable.  A tape run on a worker uses one unit of            *)
(* preprocessing, the main tape none: a worker's usage is the number of    *)
(* tapes it ran, and the position handed to the k-th tape is k - 1.  The   *)
(* computation inside a job and the communication with the other parties   *)
(* are left out.                                                           *)
(***************************************************************************)
EXTENDS Integers, Sequences, FiniteSets

CONSTANTS
  N,           \* number of threads (nthreads)
  MaxTapes,    \* bound: tapes the main tape starts
  MaxBatches,  \* bound: computations the main tape distributes
  Calls        \* arguments of distribute: the number of items, the base they
               \* start at, and the granularity of the slices

Threads == 0 .. N - 1
Helpers == 1 .. N - 1       \* the threads the main tape may use

ASSUME SizeAssumption ==
  /\ N \in Nat \ {0}
  /\ MaxTapes \in Nat
  /\ MaxBatches \in Nat

(* Only the CHECK instruction distributes a job of no items.               *)
ASSUME CallsAssumption ==
  /\ Calls \subseteq [items : Nat, base : Nat, grain : Nat \ {0}]
  /\ \A c \in Calls : c.items = 0 => c.base = 0

(* ThreadJob: id is the tape's number, the batch, or the reported usage.   *)
Job(kind, id, begin, end) == [kind |-> kind, id |-> id, begin |-> begin, end |-> end]
Empty == Job("empty", 0, 0, 0)
Stop == Job("stop", 0, 0, 0)
Tape(k) == Job("tape", k, 0, 0)
Work(k, begin, end) == Job("work", k, begin, end)
Report(u) == Job("report", u, 0, 0)

(* What a result adds to the sum of positions in stop_threads: a report    *)
(* carries the actual usage, a tape the position it was started at.        *)
Pos(job) == IF job.kind = "tape" THEN job.id - 1 ELSE job.id

ItemIdx == UNION {c.base .. c.base + c.items - 1 : c \in Calls}

VARIABLES
  mpc,       \* control state of the main thread
  mi,        \* its loop index
  pos,       \* sum of the positions collected by stop_threads
  wpc,       \* wpc[i]: control state of worker i
  cur,       \* cur[i]: job worker i works on
  in, out,   \* the two WaitQueues of every ThreadQueue
  left,      \* left[i]: jobs scheduled and not yet taken back
  ran,       \* ran[i]: the tapes worker i has run, in order
  stats,     \* stats[i]: its usage at the last set_comm_stats
  started,   \* number of tapes the main tape has started
  run,       \* run[i]: the tape started on i and not joined, 0 if none
  dpc,       \* state of the main tape within a distributed computation
  avail,     \* ThreadQueues::available
  todo,      \* what a loop over available has still to visit
  batch,     \* number of computations distributed so far
  size,      \* n_items of the last one
  base,      \* its first item
  grain,     \* its granularity
  start,     \* first item of the last one that is left to worker 0
  done       \* done[j]: how often item j of the last one was computed

mainVars == <<mpc, mi, pos>>
workerVars == <<wpc, cur, ran, stats>>
queueVars == <<in, out, left>>
tapeVars == <<started, run>>
callVars == <<batch, size, base, grain>>
distVars == <<dpc, avail, todo, start, callVars>>
vars == <<mainVars, workerVars, queueVars, tapeVars, distVars, done>>

Init ==
  /\ mpc = "create" /\ mi = 0 /\ pos = 0
  /\ wpc = [i \in Threads |-> "none"]
  /\ cur = [i \in Threads |-> Empty]
  /\ in = [i \in Threads |-> <<>>]
  /\ out = [i \in Threads |-> <<>>]
  /\ left = [i \in Threads |-> 0]
  /\ ran = [i \in Threads |-> <<>>]
  /\ stats = [i \in Threads |-> 0]
  /\ started = 0
  /\ run = [i \in Threads |-> 0]
  /\ dpc = "none" /\ avail = {} /\ todo = {} /\ start = 0
  /\ batch = 0 /\ size = 0 /\ base = 0 /\ grain = 1
  /\ done = [j \in ItemIdx |-> 0]

(* The preprocessing used by worker i (proc.DataF usage).                  *)
Usage(i) == Len(ran[i])

(* ThreadQueue::schedule and ThreadQueue::result.                          *)
Schedule(i, job) ==
  /\ in' = [in EXCEPT ![i] = Append(@, job)]
  /\ left' = [left EXCEPT ![i] = @ + 1]
  /\ out' = out

Result(i) ==
  /\ out[i] # <<>>
  /\ out' = [out EXCEPT ![i] = Tail(@)]
  /\ left' = [left EXCEPT ![i] = @ - 1]
  /\ in' = in

(* ThreadQueue::next and ThreadQueue::finished, called by the worker.      *)
TakeJob(i) ==
  /\ in[i] # <<>>
  /\ in' = [in EXCEPT ![i] = Tail(@)]
  /\ UNCHANGED <<out, left>>

Finished(i, job) ==
  /\ out' = [out EXCEPT ![i] = Append(@, job)]
  /\ UNCHANGED <<in, left>>

---------------------------------------------------------------------------
(* The main thread: Machine::prepare, run and stop_threads.                *)

(* One turn of a loop over all threads, then the next control state.       *)
Loop(here, next) ==
  IF mi + 1 < N THEN mi' = mi + 1 /\ mpc' = here ELSE mi' = 0 /\ mpc' = next

(* prepare: queue a stand-in job and create the thread.                    *)
CreateThread ==
  /\ mpc = "create"
  /\ Schedule(mi, Empty)
  /\ wpc' = [wpc EXCEPT ![mi] = "init"]
  /\ Loop("create", "sync")
  /\ UNCHANGED <<pos, cur, ran, stats, tapeVars, distVars, done>>

(* prepare: wait until the thread has set up its connections.              *)
SyncThread ==
  /\ mpc = "sync"
  /\ Result(mi)
  /\ Loop("sync", "run")
  /\ UNCHANGED <<pos, workerVars, tapeVars, distVars, done>>

RunMain ==
  /\ mpc = "run"
  /\ Schedule(0, Tape(0))
  /\ mpc' = "join"
  /\ UNCHANGED <<mi, pos, workerVars, tapeVars, distVars, done>>

JoinMain ==
  /\ mpc = "join"
  /\ Result(0)
  /\ mpc' = "stop"
  /\ UNCHANGED <<mi, pos, workerVars, tapeVars, distVars, done>>

(* Mutant: the stop job overtakes what is queued.                          *)
StopThreadFirst ==
  /\ mpc = "stop"
  /\ in' = [in EXCEPT ![mi] = <<Stop>> \o @]
  /\ left' = [left EXCEPT ![mi] = @ + 1]
  /\ Loop("stop", "release")
  /\ UNCHANGED <<pos, out, workerVars, tapeVars, distVars, done>>

(* stop_threads: first tell all threads to stop ...                        *)
StopThread ==
  /\ mpc = "stop"
  /\ Schedule(mi, Stop)
  /\ Loop("stop", "release")
  /\ UNCHANGED <<pos, workerVars, tapeVars, distVars, done>>

(* ... then, thread by thread, let it sign out, add what it reports, and   *)
(* wait for the thread to end.                                             *)
ReleaseThread ==
  /\ mpc = "release"
  /\ Schedule(mi, Empty)
  /\ mpc' = "collect"
  /\ UNCHANGED <<mi, pos, workerVars, tapeVars, distVars, done>>

CollectThread ==
  /\ mpc = "collect"
  /\ Result(mi)
  /\ pos' = pos + Pos(Head(out[mi]))
  /\ mpc' = "reap"
  /\ UNCHANGED <<mi, workerVars, tapeVars, distVars, done>>

(* Mutant: the thread is not waited for.                                   *)
ReapThreadNoWait ==
  /\ mpc = "reap"
  /\ Loop("release", "deleted")
  /\ UNCHANGED <<pos, workerVars, queueVars, tapeVars, distVars, done>>

ReapThread ==
  /\ mpc = "reap"
  /\ wpc[mi] = "exited"
  /\ Loop("release", "deleted")
  /\ UNCHANGED <<pos, workerVars, queueVars, tapeVars, distVars, done>>

Main ==
  \/ CreateThread \/ SyncThread \/ RunMain \/ JoinMain
  \/ StopThread \/ ReleaseThread \/ CollectThread \/ ReapThread

---------------------------------------------------------------------------
(* The workers: thread_info::Sub_Main_Func.                                *)

StartWorker(i) ==
  /\ wpc[i] = "init"
  /\ TakeJob(i)
  /\ wpc' = [wpc EXCEPT ![i] = "setup"]
  /\ UNCHANGED <<mainVars, cur, ran, stats, tapeVars, distVars, done>>

(* The connections and the processor exist: synchronize.                   *)
FinishSetup(i) ==
  /\ wpc[i] = "setup"
  /\ Finished(i, Empty)
  /\ wpc' = [wpc EXCEPT ![i] = "idle"]
  /\ UNCHANGED <<mainVars, cur, ran, stats, tapeVars, distVars, done>>

(* Mutant: the stop job stays on the queue and the loop goes round again.  *)
NextJobPeeks(i) ==
  /\ wpc[i] = "idle" /\ in[i] # <<>>
  /\ IF Head(in[i]).kind = "stop"
     THEN UNCHANGED vars
     ELSE /\ TakeJob(i)
          /\ cur' = [cur EXCEPT ![i] = Head(in[i])]
          /\ wpc' = [wpc EXCEPT ![i] = "busy"]
          /\ UNCHANGED <<mainVars, ran, stats, tapeVars, distVars, done>>

NextJob(i) ==
  /\ wpc[i] = "idle"
  /\ TakeJob(i)
  /\ cur' = [cur EXCEPT ![i] = Head(in[i])]
  /\ wpc' = [wpc EXCEPT ![i] = IF Head(in[i]).kind = "stop" THEN "final" ELSE "busy"]
  /\ UNCHANGED <<mainVars, ran, stats, tapeVars, distVars, done>>

(* A slice of a distributed computation.                                   *)
FinishWork(i) ==
  /\ wpc[i] = "busy" /\ cur[i].kind = "work"
  /\ Finished(i, cur[i])
  /\ done' = [j \in ItemIdx |->
                IF cur[i].begin <= j /\ j < cur[i].end THEN done[j] + 1 ELSE done[j]]
  /\ wpc' = [wpc EXCEPT ![i] = "idle"]
  /\ UNCHANGED <<mainVars, cur, ran, stats, tapeVars, distVars>>

(* Mutant: a tape's usage replaces that of the tapes before it.            *)
FinishTapeReset(i) ==
  /\ wpc[i] = "busy" /\ cur[i].kind = "tape" /\ cur[i].id > 0
  /\ Finished(i, cur[i])
  /\ ran' = [ran EXCEPT ![i] = <<cur[i].id>>]
  /\ wpc' = [wpc EXCEPT ![i] = "stats"]
  /\ UNCHANGED <<mainVars, cur, stats, tapeVars, distVars, done>>

(* The result of a tape is out before its communication is recorded.       *)
FinishTape(i) ==
  /\ wpc[i] = "busy" /\ cur[i].kind = "tape" /\ cur[i].id > 0
  /\ Finished(i, cur[i])
  /\ ran' = [ran EXCEPT ![i] = Append(@, cur[i].id)]
  /\ wpc' = [wpc EXCEPT ![i] = "stats"]
  /\ UNCHANGED <<mainVars, cur, stats, tapeVars, distVars, done>>

SetStats(i) ==
  /\ wpc[i] = "stats"
  /\ stats' = [stats EXCEPT ![i] = Usage(i)]
  /\ wpc' = [wpc EXCEPT ![i] = "idle"]
  /\ UNCHANGED <<mainVars, cur, ran, queueVars, tapeVars, distVars, done>>

(* After the loop: the final check, then wait to be released.              *)
FinalCheck(i) ==
  /\ wpc[i] = "final"
  /\ TakeJob(i)
  /\ wpc' = [wpc EXCEPT ![i] = "report"]
  /\ UNCHANGED <<mainVars, cur, ran, stats, tapeVars, distVars, done>>

ReportUsage(i) ==
  /\ wpc[i] = "report"
  /\ Finished(i, Report(Usage(i)))
  /\ wpc' = [wpc EXCEPT ![i] = "bye"]
  /\ UNCHANGED <<mainVars, cur, ran, stats, tapeVars, distVars, done>>

(* Still uses the queue: set_comm_stats, and the statistics after it.      *)
Exit(i) ==
  /\ wpc[i] = "bye"
  /\ stats' = [stats EXCEPT ![i] = Usage(i)]
  /\ wpc' = [wpc EXCEPT ![i] = "exited"]
  /\ UNCHANGED <<mainVars, cur, ran, queueVars, tapeVars, distVars, done>>

Worker(i) ==
  \/ StartWorker(i) \/ FinishSetup(i) \/ NextJob(i) \/ FinishWork(i) \/ FinishTape(i)
  \/ SetStats(i) \/ FinalCheck(i) \/ ReportUsage(i) \/ Exit(i)

---------------------------------------------------------------------------
(* The main tape, run by worker 0.                                         *)

InMainTape == wpc[0] = "busy" /\ cur[0] = Tape(0)

(* Mutant: a thread is used again before its tape is joined.               *)
RunTapeAgain(i) ==
  /\ InMainTape /\ dpc = "none"
  /\ started < MaxTapes
  /\ Schedule(i, Tape(started + 1))
  /\ started' = started + 1
  /\ run' = [run EXCEPT ![i] = started + 1]
  /\ UNCHANGED <<mainVars, workerVars, distVars, done>>

(* RUN_TAPE; the compiler uses a thread again only after joining it.       *)
RunTape(i) ==
  /\ InMainTape /\ dpc = "none"
  /\ started < MaxTapes
  /\ run[i] = 0
  /\ Schedule(i, Tape(started + 1))
  /\ started' = started + 1
  /\ run' = [run EXCEPT ![i] = started + 1]
  /\ UNCHANGED <<mainVars, workerVars, distVars, done>>

(* Mutant: the result is not waited for.                                   *)
JoinTapeNoWait(i) ==
  /\ InMainTape /\ dpc = "none"
  /\ run[i] # 0
  /\ run' = [run EXCEPT ![i] = 0]
  /\ UNCHANGED <<mainVars, workerVars, queueVars, started, distVars, done>>

JoinTape(i) ==
  /\ InMainTape /\ dpc = "none"
  /\ run[i] # 0
  /\ Result(i)
  /\ run' = [run EXCEPT ![i] = 0]
  /\ UNCHANGED <<mainVars, workerVars, started, distVars, done>>

(* Mutant: the threads whose queues are empty count as free.               *)
AvailableByQueue == {i \in Helpers : in[i] = <<>> /\ out[i] = <<>>}

(* find_available: the threads with nothing outstanding.                   *)
Available == {i \in Helpers : left[i] = 0}

(* get_n_per_thread: the caller takes a share as well.                     *)
PerThread(n, a, g) == (((n + a) \div (a + 1)) \div g) * g

(* distribute: without a free thread, or when a slice would be empty or    *)
(* too large, the caller does everything itself.                           *)
Distribute(n, b, g) ==
  LET per == PerThread(n, Cardinality(Available), g)
      alone == Available = {} \/ (n # 0 /\ (per = 0 \/ b + per > n))
  IN
  /\ InMainTape /\ dpc = "none"
  /\ batch < MaxBatches
  /\ batch' = batch + 1
  /\ size' = n /\ base' = b /\ grain' = g
  /\ done' = [j \in ItemIdx |-> 0]
  /\ avail' = IF alone THEN {} ELSE Available
  /\ todo' = avail'
  /\ start' = b
  /\ dpc' = IF alone THEN "own" ELSE "slices"
  /\ UNCHANGED <<mainVars, workerVars, queueVars, tapeVars>>

(* Both loops over available go through it in order.                       *)
IsNext(i) == i \in todo /\ \A j \in todo : i <= j

(* One turn of the loop of distribute_no_setup: start becomes the first    *)
(* item that is left to the caller, threads without a slice are given back. *)
Slice(i) ==
  LET per == PerThread(size, Cardinality(avail), grain) IN
  /\ dpc = "slices"
  /\ IsNext(i)
  /\ IF start + per > size
     THEN /\ avail' = avail \ todo
          /\ todo' = {}
          /\ dpc' = "own"
          /\ UNCHANGED <<queueVars, start>>
     ELSE /\ Schedule(i, Work(batch, start, start + per))
          /\ start' = start + per
          /\ todo' = todo \ {i}
          /\ dpc' = IF todo' = {} THEN "own" ELSE dpc
          /\ UNCHANGED avail
  /\ UNCHANGED <<mainVars, workerVars, tapeVars, callVars, done>>

(* Mutant: the caller stops at size although the items start at base.      *)
OwnPartToSize ==
  /\ dpc = "own"
  /\ done' = [j \in ItemIdx |->
                IF start <= j /\ j < size THEN done[j] + 1 ELSE done[j]]
  /\ dpc' = IF start > base \/ size = 0 THEN "wrap" ELSE "none"
  /\ todo' = avail
  /\ UNCHANGED <<mainVars, workerVars, queueVars, tapeVars, avail, start, callVars>>

(* The caller computes the rest.  It waits for the others if they got a    *)
(* slice; the CHECK instruction does so in any case.                       *)
OwnPart ==
  /\ dpc = "own"
  /\ done' = [j \in ItemIdx |->
                IF start <= j /\ j < base + size THEN done[j] + 1 ELSE done[j]]
  /\ dpc' = IF start > base \/ size = 0 THEN "wrap" ELSE "none"
  /\ todo' = avail
  /\ UNCHANGED <<mainVars, workerVars, queueVars, tapeVars, avail, start, callVars>>

(* wrap_up: take back one result per thread, then forget the threads.      *)
WrapUp(i) ==
  /\ dpc = "wrap"
  /\ IsNext(i)
  /\ Result(i)
  /\ todo' = todo \ {i}
  /\ UNCHANGED <<mainVars, workerVars, tapeVars, dpc, avail, start, callVars, done>>

EndWrapUp ==
  /\ dpc = "wrap"
  /\ todo = {}
  /\ avail' = {}
  /\ dpc' = "none"
  /\ UNCHANGED <<mainVars, workerVars, queueVars, tapeVars, todo, start, callVars, done>>

(* The end of the main tape: worker 0 is finished like any other tape.     *)
(* The program need not have joined all tapes it started.                  *)
EndMainTape ==
  /\ InMainTape /\ dpc = "none"
  /\ Finished(0, cur[0])
  /\ wpc' = [wpc EXCEPT ![0] = "stats"]
  /\ UNCHANGED <<mainVars, cur, ran, stats, tapeVars, distVars, done>>

MainTape ==
  \/ \E i \in Helpers : RunTape(i) \/ JoinTape(i) \/ Slice(i) \/ WrapUp(i)
  \/ \E c \in Calls : Distribute(c.items, c.base, c.grain)
  \/ OwnPart \/ EndWrapUp \/ EndMainTape

---------------------------------------------------------------------------
(* The process has deleted the queues: nothing is left to do.              *)
Finish == mpc = "deleted" /\ UNCHANGED vars

Next ==
  \/ Main
  \/ \E i \in Threads : Worker(i)
  \/ MainTape
  \/ Finish

(* Threads are scheduled, and a tape's program is finite.                  *)
Fairness ==
  /\ WF_vars(Main)
  /\ \A i \in Threads : WF_vars(Worker(i))
  /\ WF_vars(MainTape)

Spec == Init /\ [][Next]_vars
FairSpec == Spec /\ Fairness

---------------------------------------------------------------------------
(* Every variable has its type.                                            *)
Jobs == [kind : {"empty", "stop", "tape", "work", "report"}, id : Nat,
         begin : Nat, end : Nat]
TypeOK ==
  /\ mpc \in {"create", "sync", "run", "join", "stop", "release", "collect", "reap",
              "deleted"}
  /\ mi \in Threads /\ pos \in Int
  /\ wpc \in [Threads -> {"none", "init", "setup", "idle", "busy", "stats", "final",
                          "report", "bye", "exited"}]
  /\ cur \in [Threads -> Jobs]
  /\ in \in [Threads -> Seq(Jobs)] /\ out \in [Threads -> Seq(Jobs)]
  /\ left \in [Threads -> Nat]
  /\ ran \in [Threads -> Seq(Nat)] /\ stats \in [Threads -> Nat]
  /\ started \in 0 .. MaxTapes /\ run \in [Threads -> 0 .. MaxTapes]
  /\ dpc \in {"none", "slices", "own", "wrap"}
  /\ avail \subseteq Helpers /\ todo \subseteq avail
  /\ batch \in 0 .. MaxBatches
  /\ start \in Nat /\ size \in Nat /\ base \in Nat /\ grain \in Nat \ {0}
  /\ done \in [ItemIdx -> Nat]

(* A thread without a tape to join and outside a distributed computation   *)
(* has nothing queued, running or unread: RUN_TAPE and fill_buffers may    *)
(* touch its processor (Machine::run_tapes).                               *)
FreeThreadIdle ==
  \A i \in Helpers :
    InMainTape /\ dpc = "none" /\ run[i] = 0 =>
      in[i] = <<>> /\ out[i] = <<>> /\ wpc[i] \in {"idle", "stats"}

(* JOIN_TAPE returns the result of the tape it joins, never that of a      *)
(* slice or of an earlier tape (Machine::join_tape).                       *)
JoinGetsTape ==
  \A i \in Helpers :
    InMainTape /\ run[i] # 0 /\ out[i] # <<>> => Head(out[i]) = Tape(run[i])

(* The assertions of ThreadQueues::wrap_up: the result taken belongs to    *)
(* the computation being wrapped up.                                       *)
WrapUpAsserts ==
  \A i \in todo : dpc = "wrap" /\ out[i] # <<>> =>
    Head(out[i]).kind = "work" /\ Head(out[i]).id = batch

(* After a distributed computation every item was computed exactly once,   *)
(* for every size, base, granularity and number of free threads            *)
(* (distribute, get_n_per_thread and the caller's part).                   *)
EveryItemOnce ==
  dpc = "none" /\ batch > 0 =>
    \A j \in ItemIdx : done[j] = IF base <= j /\ j < base + size THEN 1 ELSE 0

(* Jobs a worker has taken and not answered; the stop job never is.        *)
InHand(i) ==
  IF wpc[i] \in {"none", "init", "idle", "stats"} THEN 0
  ELSE IF wpc[i] = "report" THEN 2 ELSE 1

(* find_available counts correctly: left is what is queued, in hand or     *)
(* unread (ThreadQueue::schedule, ThreadQueue::result).                    *)
LeftCounts == \A i \in Threads : left[i] = Len(in[i]) + InHand(i) + Len(out[i])

(* The queues are deleted only when no thread uses them any more, and the  *)
(* statistics summed before that are those of the whole run                *)
(* (Machine::stop_threads).                                                *)
DeletedAfterExit ==
  mpc = "deleted" => \A i \in Threads : wpc[i] = "exited" /\ stats[i] = Usage(i)

(* stop_threads sums the actual usage of the tapes that were run, if the   *)
(* program joined all of them: each result it reads is a thread's report.  *)
UsageSummed ==
  mpc = "deleted" /\ (\A i \in Helpers : run[i] = 0) => pos = started

(* The run comes to its end: no thread waits for another for ever.         *)
RunEnds == <>(mpc = "deleted")

---------------------------------------------------------------------------
(* The tapes' view of the machine: a tape has finished when its job is     *)
(* answered, whether or not the main tape has read the answer.             *)
Ran == UNION {{ran[i][n] : n \in DOMAIN ran[i]} : i \in Helpers}

MainTapePhase ==
  CASE InMainTape -> "tape"
    [] mpc = "deleted" -> "stopped"
    [] mpc \in {"create", "sync", "run"} -> "before"
    [] mpc = "join" /\ in[0] # <<>> -> "before"
    [] OTHER -> "over"

Tapes == INSTANCE TapePool WITH
  phase <- MainTapePhase,
  finished <- Ran,
  run <- [i \in Helpers |-> run[i]]

(* The queues and worker loops implement the tape pool: tapes run once,    *)
(* are joined after they finish, and the machine stops after all of them.  *)
ImplementsTapePool == Tapes!FairSpec
===========================================================================
