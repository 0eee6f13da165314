------------------------- MODULE ThreadPool_proofs -------------------------
(***************************************************************************)
(* Proofs about ThreadPool, for every number of threads, tapes, batches    *)
(* and sizes.  The inductive invariant says what the two queues of every   *)
(* thread and its worker hold in every phase of Machine::run.  Four more   *)
(* rest on it: the end of the threads, the items of a computation, the     *)
(* tapes, and the usage; the refinement of TapePool follows from the tapes.*)
(***************************************************************************)
EXTENDS ThreadPool, FiniteSetTheorems, SequenceTheorems, TLAPS

(* What thread i holds: nothing; one job, queued, in hand or answered; the *)
(* stand-in job of its creation; or it does not exist yet.                 *)
Resting(i) == wpc[i] \in {"idle", "stats"}

Idle(i) == in[i] = <<>> /\ out[i] = <<>> /\ Resting(i)

Holds(i, job) ==
  \/ in[i] = <<job>> /\ out[i] = <<>> /\ Resting(i)
  \/ in[i] = <<>> /\ out[i] = <<>> /\ wpc[i] = "busy" /\ cur[i] = job
  \/ in[i] = <<>> /\ out[i] = <<job>> /\ Resting(i)

Starting(i) ==
  \/ in[i] = <<Empty>> /\ out[i] = <<>> /\ wpc[i] = "init"
  \/ in[i] = <<>> /\ out[i] = <<>> /\ wpc[i] = "setup"
  \/ in[i] = <<>> /\ out[i] = <<Empty>> /\ Resting(i)

Absent(i) == in[i] = <<>> /\ out[i] = <<>> /\ wpc[i] = "none"

(* Thread i was given a slice that the main tape has not taken back.       *)
HasSlice(i) ==
  /\ i \in avail
  /\ \/ dpc = "slices" /\ i \notin todo
     \/ dpc = "own"
     \/ dpc = "wrap" /\ i \in todo

(* While the main tape may run, a thread holds its tape or its slice.      *)
HoldsTape(i) == run[i] # 0 => Holds(i, Tape(run[i])) /\ i \notin avail
HoldsSlice(i) == HasSlice(i) => \E b, e \in Nat : Holds(i, Work(batch, b, e))
HoldsNothing(i) == run[i] = 0 /\ ~HasSlice(i) => Idle(i)
Outstanding == \A i \in Helpers : HoldsTape(i) /\ HoldsSlice(i) /\ HoldsNothing(i)

InCreate == mpc = "create" => \A i \in Threads : IF i < mi THEN Starting(i) ELSE Absent(i)
InSync == mpc = "sync" => \A i \in Threads : IF i < mi THEN Idle(i) ELSE Starting(i)
InRun == mpc = "run" => \A i \in Threads : Idle(i)
InJoin == mpc = "join" => Holds(0, Tape(0)) /\ Outstanding

Early == mpc \in {"create", "sync", "run"}
NothingYet == Early => dpc = "none" /\ \A i \in Helpers : run[i] = 0

(* Once the main tape is joined it never comes back.                       *)
MainTapeOver ==
  ~Early /\ mpc # "join" => ~InMainTape /\ \A n \in DOMAIN in[0] : in[0][n] # Tape(0)

FitsSlice(b, per, n) == per > 0 /\ b + per <= n

(* A computation is spread only by the main tape; the first thread gets a  *)
(* slice, so that the caller waits for the others if there are any.        *)
Spread ==
  /\ dpc # "none" => InMainTape
  /\ dpc = "none" => avail = {}
  /\ dpc = "slices" => todo # {}
  /\ base <= start
  /\ dpc = "slices" /\ start = base /\ size # 0 =>
       todo = avail /\ FitsSlice(base, PerThread(size, Cardinality(avail), grain), size)
  /\ dpc = "own" /\ start = base /\ size # 0 => avail = {}

Shape ==
  /\ InCreate /\ InSync /\ InRun /\ InJoin
  /\ NothingYet /\ MainTapeOver /\ Spread


---------------------------------------------------------------------------
(* Facts about the constants and the jobs.                                 *)

LEMMA ThreadFacts ==
  /\ N \in Nat /\ N > 0
  /\ Threads \subseteq Nat /\ 0 \in Threads
  /\ Helpers \subseteq Threads /\ 0 \notin Helpers
  /\ \A i \in Threads : i + 1 < N => i + 1 \in Threads
  /\ \A i \in Threads : ~(i + 1 < N) => \A k \in Threads : k <= i
BY SizeAssumption DEF Threads, Helpers

LEMMA JobTypes ==
  /\ Empty \in Jobs /\ Stop \in Jobs
  /\ \A k \in Nat : Tape(k) \in Jobs /\ Report(k) \in Jobs
  /\ \A k, b, e \in Nat : Work(k, b, e) \in Jobs
  /\ \A job \in Jobs : Pos(job) \in Int
BY DEF Empty, Stop, Tape, Report, Work, Job, Jobs, Pos

LEMMA CountNat ==
  ASSUME NEW S, S \subseteq Helpers
  PROVE  Cardinality(S) \in Nat
<1>1. IsFiniteSet(Helpers)
  BY FS_Interval, SizeAssumption DEF Helpers
<1>2. IsFiniteSet(S)
  BY <1>1, FS_Subset
<1> QED BY <1>2, FS_CardinalityType

LEMMA PerThreadNat ==
  ASSUME NEW n \in Nat, NEW k \in Nat, NEW g \in Nat \ {0}
  PROVE  PerThread(n, k, g) \in Nat
<1>1. (n + k) \div (k + 1) \in Nat
  OBVIOUS
<1>2. \A q \in Nat : q \div g \in Nat
  OBVIOUS
<1>3. \A q \in Nat : q * g \in Nat
  OBVIOUS
<1> QED BY <1>1, <1>2, <1>3 DEF PerThread

---------------------------------------------------------------------------
(* The types, together with the count of every queue, which keeps left     *)
(* from going below zero.                                                  *)
Created == mpc = "create" => \A i \in Threads : mi <= i => wpc[i] = "none"

Counted == TypeOK /\ LeftCounts /\ Created

LEMMA HandFacts ==
  ASSUME TypeOK, NEW i \in Threads
  PROVE  InHand(i) \in 0 .. 2
BY DEF TypeOK, InHand

THEOREM CountedInit == Init => Counted
<1> SUFFICES ASSUME Init PROVE Counted
  OBVIOUS
<1>1. TypeOK
  BY ThreadFacts, JobTypes, SizeAssumption DEF Init, TypeOK
<1>2. LeftCounts
  BY DEF Init, LeftCounts, InHand
<1>3. Created
  BY DEF Init, Created
<1> QED BY <1>1, <1>2, <1>3 DEF Counted

(* What the four queue operations do to the types and to the difference    *)
(* between left and what is queued or unread.                              *)
Queues == /\ in \in [Threads -> Seq(Jobs)] /\ out \in [Threads -> Seq(Jobs)]
          /\ left \in [Threads -> Nat]

Missing(i) == left[i] - Len(in[i]) - Len(out[i])

LEMMA ScheduleEffect ==
  ASSUME Queues, NEW i \in Threads, NEW job \in Jobs, Schedule(i, job)
  PROVE  Queues' /\ \A k \in Threads : Missing(k)' = Missing(k)
BY DEF Queues, Missing, Schedule

LEMMA ResultEffect ==
  ASSUME Queues, NEW i \in Threads, Result(i), left[i] > 0
  PROVE  Queues' /\ \A k \in Threads : Missing(k)' = Missing(k)
BY DEF Queues, Missing, Result

LEMMA TakeEffect ==
  ASSUME Queues, NEW i \in Threads, TakeJob(i)
  PROVE  /\ Queues' /\ Missing(i)' = Missing(i) + 1
         /\ \A k \in Threads \ {i} : Missing(k)' = Missing(k)
         /\ Head(in[i]) \in Jobs
BY DEF Queues, Missing, TakeJob

LEMMA FinishEffect ==
  ASSUME Queues, NEW i \in Threads, NEW job \in Jobs, Finished(i, job)
  PROVE  /\ Queues' /\ Missing(i)' = Missing(i) - 1
         /\ \A k \in Threads \ {i} : Missing(k)' = Missing(k)
<1>1. /\ Queues' /\ Len(out[i]) \in Nat /\ Len(in[i]) \in Nat /\ left[i] \in Nat
      /\ \A k \in Threads \ {i} : Missing(k)' = Missing(k)
  BY DEF Queues, Missing, Finished
<1>2. Len(out[i])' = Len(out[i]) + 1 /\ in'[i] = in[i] /\ left'[i] = left[i]
  BY DEF Queues, Finished
<1> QED BY <1>1, <1>2 DEF Missing

LEMMA CountedQueues ==
  ASSUME Counted
  PROVE  Queues /\ \A i \in Threads : Missing(i) = InHand(i)
<1>1. Queues
  BY DEF Counted, TypeOK, Queues
<1>2. \A i \in Threads : InHand(i) \in Int
  BY DEF InHand
<1> QED BY <1>1, <1>2 DEF Counted, Queues, LeftCounts, Missing

LEMMA UsageNat ==
  ASSUME TypeOK, NEW i \in Threads
  PROVE  Usage(i) \in Nat
<1>1. ran[i] \in Seq(Nat)
  BY DEF TypeOK
<1> QED BY <1>1 DEF Usage

LEMMA CountsNext ==
  ASSUME Queues', \A i \in Threads : Missing(i)' = InHand(i)'
  PROVE  LeftCounts'
<1>1. \A i \in Threads : InHand(i)' \in Int
  BY DEF InHand
<1> QED BY <1>1 DEF Queues, LeftCounts, Missing

LEMMA Readable ==
  ASSUME Counted, NEW i \in Threads, Result(i)
  PROVE  left[i] > 0 /\ Head(out[i]) \in Jobs
<1>1. out[i] \in Seq(Jobs) /\ out[i] # <<>>
  BY DEF Counted, TypeOK, Result
<1>2. Len(out[i]) > 0 /\ Head(out[i]) \in Jobs
  BY <1>1
<1>3. Len(in[i]) \in Nat /\ InHand(i) \in 0 .. 2
  <2>1. TypeOK /\ in[i] \in Seq(Jobs)
    BY DEF Counted, TypeOK
  <2> QED BY <2>1, HandFacts
<1>4. left[i] = Len(in[i]) + InHand(i) + Len(out[i])
  BY DEF Counted, LeftCounts
<1>5. left[i] > 0
  BY <1>1, <1>2, <1>3, <1>4
<1> QED BY <1>2, <1>5

(* Types and counts are kept by the main thread ...                        *)
LEMMA MainCounted ==
  ASSUME Counted, Main
  PROVE  Counted'
<1> USE ThreadFacts, JobTypes
<1>0. TypeOK /\ Queues /\ \A i \in Threads : Missing(i) = InHand(i)
  BY CountedQueues DEF Counted
<1>1. CASE CreateThread
  <2>1. Queues' /\ \A k \in Threads : Missing(k)' = Missing(k)
    BY <1>0, <1>1, ScheduleEffect DEF TypeOK, CreateThread
  <2>2. TypeOK'
    BY <1>0, <1>1, <2>1 DEF TypeOK, CreateThread, Loop, Queues, tapeVars, distVars, callVars
  <2>3. wpc[mi] = "none" /\ mi \in Threads
    BY <1>0, <1>1 DEF Counted, Created, TypeOK, CreateThread
  <2>4. \A k \in Threads : InHand(k)' = InHand(k)
    BY <1>0, <1>1, <2>3 DEF TypeOK, CreateThread, InHand
  <2>5. Created'
    BY <1>0, <1>1 DEF Counted, Created, TypeOK, CreateThread, Loop
  <2> QED BY <1>0, <2>1, <2>2, <2>4, <2>5, CountsNext DEF Counted
<1>2. CASE SyncThread
  <2>1. mi \in Threads /\ left[mi] > 0
    BY <1>0, <1>2, ThreadFacts, Readable DEF SyncThread, TypeOK
  <2>2. Queues' /\ \A k \in Threads : Missing(k)' = Missing(k)
    BY <1>0, <1>2, <2>1, ResultEffect DEF TypeOK, SyncThread
  <2>3. TypeOK'
    BY <1>0, <1>2, <2>1, <2>2 DEF TypeOK, SyncThread, Loop, Queues, workerVars, queueVars, tapeVars, distVars, callVars
  <2>4. Created' /\ \A k \in Threads : InHand(k)' = InHand(k)
    BY <1>0, <1>2 DEF Created, SyncThread, Loop, InHand, workerVars
  <2> QED BY <1>0, <2>2, <2>3, <2>4, CountsNext DEF Counted
<1>3. CASE RunMain
  <2>1. Queues' /\ \A k \in Threads : Missing(k)' = Missing(k)
    BY <1>0, <1>3, ScheduleEffect DEF TypeOK, RunMain
  <2>2. TypeOK'
    BY <1>0, <1>3, <2>1 DEF TypeOK, RunMain, Loop, Queues, workerVars, queueVars, tapeVars, distVars, callVars
  <2>3. Created' /\ \A k \in Threads : InHand(k)' = InHand(k)
    BY <1>0, <1>3 DEF Created, RunMain, Loop, InHand, workerVars
  <2> QED BY <1>0, <2>1, <2>2, <2>3, CountsNext DEF Counted
<1>4. CASE JoinMain
  <2>1. left[0] > 0
    BY <1>0, <1>4, ThreadFacts, Readable DEF JoinMain, TypeOK
  <2>2. Queues' /\ \A k \in Threads : Missing(k)' = Missing(k)
    BY <1>0, <1>4, <2>1, ResultEffect DEF TypeOK, JoinMain
  <2>3. TypeOK'
    BY <1>0, <1>4, <2>1, <2>2 DEF TypeOK, JoinMain, Loop, Queues, workerVars, queueVars, tapeVars, distVars, callVars
  <2>4. Created' /\ \A k \in Threads : InHand(k)' = InHand(k)
    BY <1>0, <1>4 DEF Created, JoinMain, Loop, InHand, workerVars
  <2> QED BY <1>0, <2>2, <2>3, <2>4, CountsNext DEF Counted
<1>5. CASE StopThread
  <2>1. Queues' /\ \A k \in Threads : Missing(k)' = Missing(k)
    BY <1>0, <1>5, ScheduleEffect DEF TypeOK, StopThread
  <2>2. TypeOK'
    BY <1>0, <1>5, <2>1 DEF TypeOK, StopThread, Loop, Queues, workerVars, queueVars, tapeVars, distVars, callVars
  <2>3. Created' /\ \A k \in Threads : InHand(k)' = InHand(k)
    BY <1>0, <1>5 DEF Created, StopThread, Loop, InHand, workerVars
  <2> QED BY <1>0, <2>1, <2>2, <2>3, CountsNext DEF Counted
<1>6. CASE ReleaseThread
  <2>1. Queues' /\ \A k \in Threads : Missing(k)' = Missing(k)
    BY <1>0, <1>6, ScheduleEffect DEF TypeOK, ReleaseThread
  <2>2. TypeOK'
    BY <1>0, <1>6, <2>1 DEF TypeOK, ReleaseThread, Loop, Queues, workerVars, queueVars, tapeVars, distVars, callVars
  <2>3. Created' /\ \A k \in Threads : InHand(k)' = InHand(k)
    BY <1>0, <1>6 DEF Created, ReleaseThread, Loop, InHand, workerVars
  <2> QED BY <1>0, <2>1, <2>2, <2>3, CountsNext DEF Counted
<1>7. CASE CollectThread
  <2>1. mi \in Threads /\ left[mi] > 0 /\ Head(out[mi]) \in Jobs
    BY <1>0, <1>7, ThreadFacts, Readable DEF CollectThread, TypeOK
  <2>2. Queues' /\ \A k \in Threads : Missing(k)' = Missing(k)
    BY <1>0, <1>7, <2>1, ResultEffect DEF TypeOK, CollectThread
  <2>3. pos' \in Int
    BY <1>0, <1>7, <2>1, JobTypes DEF TypeOK, CollectThread
  <2>4. TypeOK'
    BY <1>0, <1>7, <2>1, <2>2, <2>3 DEF TypeOK, CollectThread, Loop, Queues, workerVars, queueVars, tapeVars, distVars, callVars
  <2>5. Created' /\ \A k \in Threads : InHand(k)' = InHand(k)
    BY <1>0, <1>7 DEF Created, CollectThread, Loop, InHand, workerVars
  <2> QED BY <1>0, <2>2, <2>4, <2>5, CountsNext DEF Counted
<1>8. CASE ReapThread
  <2>1. Queues' /\ \A k \in Threads : Missing(k)' = Missing(k)
    BY <1>0, <1>8 DEF Queues, Missing, ReapThread, queueVars
  <2>2. TypeOK'
    BY <1>0, <1>8, <2>1 DEF TypeOK, ReapThread, Loop, Queues, workerVars, queueVars, tapeVars, distVars, callVars
  <2>3. Created' /\ \A k \in Threads : InHand(k)' = InHand(k)
    BY <1>0, <1>8 DEF Created, ReapThread, Loop, InHand, workerVars
  <2> QED BY <1>0, <2>1, <2>2, <2>3, CountsNext DEF Counted
<1> QED BY <1>1, <1>2, <1>3, <1>4, <1>5, <1>6, <1>7, <1>8 DEF Main

(* ... by the workers ...                                                  *)
LEMMA WorkerCounted ==
  ASSUME Counted, NEW i \in Threads, Worker(i)
  PROVE  Counted'
<1> USE ThreadFacts, JobTypes
<1>0. TypeOK /\ Queues /\ \A k \in Threads : Missing(k) = InHand(k)
  BY CountedQueues DEF Counted
<1>1. CASE StartWorker(i)
  <2>1. /\ Queues' /\ Missing(i)' = Missing(i) + 1 /\ Head(in[i]) \in Jobs
        /\ \A k \in Threads \ {i} : Missing(k)' = Missing(k)
    BY <1>0, <1>1, TakeEffect DEF TypeOK, StartWorker
  <2>2. TypeOK'
    BY <1>0, <1>1, <2>1 DEF TypeOK, StartWorker, Usage, Queues, mainVars, workerVars,
       queueVars, tapeVars, distVars, callVars
  <2>3. /\ Created' /\ InHand(i)' = InHand(i) + 1
        /\ \A k \in Threads \ {i} : InHand(k)' = InHand(k)
    BY <1>0, <1>1 DEF Counted, Created, TypeOK, StartWorker, InHand, mainVars
  <2>4. \A k \in Threads : Missing(k)' = InHand(k)'
    BY <1>0, <2>1, <2>3
  <2> QED BY <2>1, <2>2, <2>3, <2>4, CountsNext DEF Counted
<1>2. CASE FinishSetup(i)
  <2>1. /\ Queues' /\ Missing(i)' = Missing(i) - 1
        /\ \A k \in Threads \ {i} : Missing(k)' = Missing(k)
    BY <1>0, <1>2, FinishEffect DEF TypeOK, FinishSetup
  <2>2. TypeOK'
    BY <1>0, <1>2, <2>1 DEF TypeOK, FinishSetup, Usage, Queues, mainVars, workerVars,
       queueVars, tapeVars, distVars, callVars
  <2>3. /\ Created' /\ InHand(i)' = InHand(i) - 1
        /\ \A k \in Threads \ {i} : InHand(k)' = InHand(k)
    BY <1>0, <1>2 DEF Counted, Created, TypeOK, FinishSetup, InHand, mainVars
  <2>4. \A k \in Threads : Missing(k)' = InHand(k)'
    BY <1>0, <2>1, <2>3
  <2> QED BY <2>1, <2>2, <2>3, <2>4, CountsNext DEF Counted
<1>3. CASE NextJob(i)
  <2>1. /\ Queues' /\ Missing(i)' = Missing(i) + 1 /\ Head(in[i]) \in Jobs
        /\ \A k \in Threads \ {i} : Missing(k)' = Missing(k)
    BY <1>0, <1>3, TakeEffect DEF TypeOK, NextJob
  <2>2. TypeOK'
    BY <1>0, <1>3, <2>1 DEF TypeOK, NextJob, Usage, Queues, mainVars, workerVars,
       queueVars, tapeVars, distVars, callVars
  <2>3. /\ Created' /\ InHand(i)' = InHand(i) + 1
        /\ \A k \in Threads \ {i} : InHand(k)' = InHand(k)
    BY <1>0, <1>3 DEF Counted, Created, TypeOK, NextJob, InHand, mainVars
  <2>4. \A k \in Threads : Missing(k)' = InHand(k)'
    BY <1>0, <2>1, <2>3
  <2> QED BY <2>1, <2>2, <2>3, <2>4, CountsNext DEF Counted
<1>4. CASE FinishWork(i)
  <2>1. /\ Queues' /\ Missing(i)' = Missing(i) - 1
        /\ \A k \in Threads \ {i} : Missing(k)' = Missing(k)
    BY <1>0, <1>4, FinishEffect DEF TypeOK, FinishWork
  <2>a. done' \in [ItemIdx -> Nat]
    <3>0. done \in [ItemIdx -> Nat]
      BY <1>0 DEF TypeOK
    <3>1. \A j \in ItemIdx : done[j] \in Nat /\ done[j] + 1 \in Nat
      BY <3>0
    <3>2. \A j \in ItemIdx :
            (IF cur[i].begin <= j /\ j < cur[i].end THEN done[j] + 1 ELSE done[j]) \in Nat
      BY <3>1
    <3> QED BY <1>4, <3>2, Zenon DEF FinishWork
  <2>2. TypeOK'
    BY <1>0, <1>4, <2>1, <2>a DEF TypeOK, FinishWork, Usage, Queues, mainVars, workerVars,
       queueVars, tapeVars, distVars, callVars
  <2>3. /\ Created' /\ InHand(i)' = InHand(i) - 1
        /\ \A k \in Threads \ {i} : InHand(k)' = InHand(k)
    BY <1>0, <1>4 DEF Counted, Created, TypeOK, FinishWork, InHand, mainVars
  <2>4. \A k \in Threads : Missing(k)' = InHand(k)'
    BY <1>0, <2>1, <2>3
  <2> QED BY <2>1, <2>2, <2>3, <2>4, CountsNext DEF Counted
<1>5. CASE FinishTape(i)
  <2>1. /\ Queues' /\ Missing(i)' = Missing(i) - 1
        /\ \A k \in Threads \ {i} : Missing(k)' = Missing(k)
    BY <1>0, <1>5, FinishEffect DEF TypeOK, FinishTape
  <2>a. ran' \in [Threads -> Seq(Nat)]
    <3>1. cur[i].id \in Nat
      BY <1>0 DEF TypeOK, Jobs
    <3> QED BY <1>0, <1>5, <3>1 DEF TypeOK, FinishTape
  <2>2. TypeOK'
    BY <1>0, <1>5, <2>1, <2>a DEF TypeOK, FinishTape, Usage, Queues, mainVars, workerVars,
       queueVars, tapeVars, distVars, callVars
  <2>3. /\ Created' /\ InHand(i)' = InHand(i) - 1
        /\ \A k \in Threads \ {i} : InHand(k)' = InHand(k)
    BY <1>0, <1>5 DEF Counted, Created, TypeOK, FinishTape, InHand, mainVars
  <2>4. \A k \in Threads : Missing(k)' = InHand(k)'
    BY <1>0, <2>1, <2>3
  <2> QED BY <2>1, <2>2, <2>3, <2>4, CountsNext DEF Counted
<1>6. CASE SetStats(i)
  <2>1. Queues' /\ \A k \in Threads : Missing(k)' = Missing(k)
    BY <1>0, <1>6 DEF Queues, Missing, SetStats, queueVars
  <2>a. stats' \in [Threads -> Nat]
    BY <1>0, <1>6, UsageNat DEF TypeOK, SetStats
  <2>2. TypeOK'
    BY <1>0, <1>6, <2>1, <2>a DEF TypeOK, SetStats, Usage, Queues, mainVars, workerVars,
       queueVars, tapeVars, distVars, callVars
  <2>3. /\ Created' /\ InHand(i)' = InHand(i)
        /\ \A k \in Threads \ {i} : InHand(k)' = InHand(k)
    BY <1>0, <1>6 DEF Counted, Created, TypeOK, SetStats, InHand, mainVars
  <2>4. \A k \in Threads : Missing(k)' = InHand(k)'
    BY <1>0, <2>1, <2>3
  <2> QED BY <2>1, <2>2, <2>3, <2>4, CountsNext DEF Counted
<1>7. CASE FinalCheck(i)
  <2>1. /\ Queues' /\ Missing(i)' = Missing(i) + 1 /\ Head(in[i]) \in Jobs
        /\ \A k \in Threads \ {i} : Missing(k)' = Missing(k)
    BY <1>0, <1>7, TakeEffect DEF TypeOK, FinalCheck
  <2>2. TypeOK'
    BY <1>0, <1>7, <2>1 DEF TypeOK, FinalCheck, Usage, Queues, mainVars, workerVars,
       queueVars, tapeVars, distVars, callVars
  <2>3. /\ Created' /\ InHand(i)' = InHand(i) + 1
        /\ \A k \in Threads \ {i} : InHand(k)' = InHand(k)
    BY <1>0, <1>7 DEF Counted, Created, TypeOK, FinalCheck, InHand, mainVars
  <2>4. \A k \in Threads : Missing(k)' = InHand(k)'
    BY <1>0, <2>1, <2>3
  <2> QED BY <2>1, <2>2, <2>3, <2>4, CountsNext DEF Counted
<1>8. CASE ReportUsage(i)
  <2>1. /\ Queues' /\ Missing(i)' = Missing(i) - 1
        /\ \A k \in Threads \ {i} : Missing(k)' = Missing(k)
    BY <1>0, <1>8, FinishEffect DEF TypeOK, ReportUsage, Usage
  <2>2. TypeOK'
    BY <1>0, <1>8, <2>1 DEF TypeOK, ReportUsage, Usage, Queues, mainVars, workerVars,
       queueVars, tapeVars, distVars, callVars
  <2>3. /\ Created' /\ InHand(i)' = InHand(i) - 1
        /\ \A k \in Threads \ {i} : InHand(k)' = InHand(k)
    BY <1>0, <1>8 DEF Counted, Created, TypeOK, ReportUsage, InHand, mainVars
  <2>4. \A k \in Threads : Missing(k)' = InHand(k)'
    BY <1>0, <2>1, <2>3
  <2> QED BY <2>1, <2>2, <2>3, <2>4, CountsNext DEF Counted
<1>9. CASE Exit(i)
  <2>1. Queues' /\ \A k \in Threads : Missing(k)' = Missing(k)
    BY <1>0, <1>9 DEF Queues, Missing, Exit, queueVars
  <2>a. stats' \in [Threads -> Nat]
    BY <1>0, <1>9, UsageNat DEF TypeOK, Exit
  <2>2. TypeOK'
    BY <1>0, <1>9, <2>1, <2>a DEF TypeOK, Exit, Usage, Queues, mainVars, workerVars,
       queueVars, tapeVars, distVars, callVars
  <2>3. /\ Created' /\ InHand(i)' = InHand(i)
        /\ \A k \in Threads \ {i} : InHand(k)' = InHand(k)
    BY <1>0, <1>9 DEF Counted, Created, TypeOK, Exit, InHand, mainVars
  <2>4. \A k \in Threads : Missing(k)' = InHand(k)'
    BY <1>0, <2>1, <2>3
  <2> QED BY <2>1, <2>2, <2>3, <2>4, CountsNext DEF Counted
<1> QED BY <1>1, <1>2, <1>3, <1>4, <1>5, <1>6, <1>7, <1>8, <1>9 DEF Worker

(* ... and by the main tape.                                               *)
LEMMA TapeCounted ==
  ASSUME Counted, MainTape
  PROVE  Counted'
<1> USE ThreadFacts, JobTypes
<1>0. TypeOK /\ Queues /\ \A k \in Threads : Missing(k) = InHand(k)
  BY CountedQueues DEF Counted
<1>1. CASE \E i \in Helpers : RunTape(i)
  <2> PICK i \in Helpers : RunTape(i)
    BY <1>1
  <2>1. Queues' /\ \A k \in Threads : Missing(k)' = Missing(k)
    BY <1>0, ScheduleEffect DEF TypeOK, RunTape
  <2>2. started + 1 \in 0 .. MaxTapes
    BY <1>0, SizeAssumption DEF TypeOK, RunTape
  <2>3. TypeOK'
    BY <1>0, <2>1, <2>2 DEF TypeOK, RunTape, Queues, mainVars, workerVars, distVars, callVars
  <2>4. Created' /\ \A k \in Threads : InHand(k)' = InHand(k)
    BY DEF Counted, Created, RunTape, InHand, mainVars, workerVars
  <2> QED BY <1>0, <2>1, <2>3, <2>4, CountsNext DEF Counted
<1>2. CASE \E i \in Helpers : JoinTape(i)
  <2> PICK i \in Helpers : JoinTape(i)
    BY <1>2
  <2>1. Queues' /\ \A k \in Threads : Missing(k)' = Missing(k)
    BY <1>0, ResultEffect, Readable DEF JoinTape
  <2>a. run' \in [Threads -> 0 .. MaxTapes]
    BY <1>0, SizeAssumption DEF TypeOK, JoinTape
  <2>2. TypeOK'
    BY <1>0, <2>1, <2>a DEF TypeOK, JoinTape, Queues, mainVars, workerVars, distVars, callVars
  <2>3. Created' /\ \A k \in Threads : InHand(k)' = InHand(k)
    BY DEF Counted, Created, JoinTape, InHand, mainVars, workerVars
  <2> QED BY <1>0, <2>1, <2>2, <2>3, CountsNext DEF Counted
<1>3. CASE \E c \in Calls : Distribute(c.items, c.base, c.grain)
  <2> PICK n \in Nat, b \in Nat, g \in Nat \ {0} : Distribute(n, b, g)
    BY <1>3, CallsAssumption
  <2>1. Queues' /\ \A k \in Threads : Missing(k)' = Missing(k)
    BY <1>0 DEF Distribute, Queues, Missing, queueVars
  <2>2. Available \subseteq Helpers /\ batch + 1 \in 0 .. MaxBatches
    BY <1>0, SizeAssumption DEF TypeOK, Distribute, Available
  <2>3. TypeOK'
    BY <1>0, <2>1, <2>2 DEF TypeOK, Distribute, Queues, mainVars, workerVars, queueVars, tapeVars
  <2>4. Created' /\ \A k \in Threads : InHand(k)' = InHand(k)
    BY DEF Counted, Created, Distribute, InHand, mainVars, workerVars
  <2> QED BY <1>0, <2>1, <2>3, <2>4, CountsNext DEF Counted
<1>4. CASE \E i \in Helpers : Slice(i)
  <2> PICK i \in Helpers : Slice(i)
    BY <1>4
  <2> DEFINE per == PerThread(size, Cardinality(avail), grain)
  <2>1. per \in Nat /\ start + per \in Nat
    <3>1. size \in Nat /\ start \in Nat /\ grain \in Nat \ {0} /\ avail \subseteq Helpers
      BY <1>0 DEF TypeOK
    <3>2. Cardinality(avail) \in Nat
      BY <3>1, CountNat
    <3>3. per \in Nat
      BY <3>1, <3>2, PerThreadNat
    <3> QED BY <3>1, <3>3
  <2>2. Work(batch, start, start + per) \in Jobs
    BY <1>0, <2>1 DEF TypeOK
  <2>3. Queues' /\ \A k \in Threads : Missing(k)' = Missing(k)
    <3>1. CASE UNCHANGED queueVars
      BY <1>0, <3>1 DEF Queues, Missing, queueVars
    <3>2. CASE Schedule(i, Work(batch, start, start + per))
      BY <1>0, <2>2, <3>2, ScheduleEffect
    <3> QED BY <3>1, <3>2 DEF Slice
  <2>4. TypeOK'
    BY <1>0, <2>1, <2>3 DEF TypeOK, Slice, Queues, mainVars, workerVars, tapeVars, callVars
  <2>5. Created' /\ \A k \in Threads : InHand(k)' = InHand(k)
    BY DEF Counted, Created, Slice, InHand, mainVars, workerVars
  <2> QED BY <1>0, <2>3, <2>4, <2>5, CountsNext DEF Counted
<1>5. CASE OwnPart
  <2>1. Queues' /\ \A k \in Threads : Missing(k)' = Missing(k)
    BY <1>0, <1>5 DEF OwnPart, Queues, Missing, queueVars
  <2>2. done' \in [ItemIdx -> Nat]
    <3>1. done \in [ItemIdx -> Nat]
      BY <1>0 DEF TypeOK
    <3>2. \A j \in ItemIdx :
            (IF start <= j /\ j < base + size THEN done[j] + 1 ELSE done[j]) \in Nat
      BY <3>1
    <3> QED BY <1>5, <3>2, Zenon DEF OwnPart
  <2>3. TypeOK'
    BY <1>0, <1>5, <2>1, <2>2
       DEF TypeOK, OwnPart, Queues, mainVars, workerVars, queueVars, tapeVars, callVars
  <2>4. Created' /\ \A k \in Threads : InHand(k)' = InHand(k)
    BY <1>5 DEF Counted, Created, OwnPart, InHand, mainVars, workerVars
  <2> QED BY <1>0, <2>1, <2>3, <2>4, CountsNext DEF Counted
<1>6. CASE \E i \in Helpers : WrapUp(i)
  <2> PICK i \in Helpers : WrapUp(i)
    BY <1>6
  <2>1. Queues' /\ \A k \in Threads : Missing(k)' = Missing(k)
    BY <1>0, ResultEffect, Readable DEF WrapUp
  <2>2. TypeOK'
    BY <1>0, <2>1 DEF TypeOK, WrapUp, Queues, mainVars, workerVars, tapeVars, callVars
  <2>3. Created' /\ \A k \in Threads : InHand(k)' = InHand(k)
    BY DEF Counted, Created, WrapUp, InHand, mainVars, workerVars
  <2> QED BY <1>0, <2>1, <2>2, <2>3, CountsNext DEF Counted
<1>7. CASE EndWrapUp
  <2>1. Queues' /\ \A k \in Threads : Missing(k)' = Missing(k)
    BY <1>0, <1>7 DEF EndWrapUp, Queues, Missing, queueVars
  <2>2. TypeOK'
    BY <1>0, <1>7, <2>1
       DEF TypeOK, EndWrapUp, Queues, mainVars, workerVars, queueVars, tapeVars, callVars
  <2>3. Created' /\ \A k \in Threads : InHand(k)' = InHand(k)
    BY <1>7 DEF Counted, Created, EndWrapUp, InHand, mainVars, workerVars
  <2> QED BY <1>0, <2>1, <2>2, <2>3, CountsNext DEF Counted
<1>8. CASE EndMainTape
  <2>1. /\ Queues' /\ Missing(0)' = Missing(0) - 1
        /\ \A k \in Threads \ {0} : Missing(k)' = Missing(k)
    BY <1>0, <1>8, FinishEffect DEF TypeOK, EndMainTape
  <2>2. TypeOK'
    BY <1>0, <1>8, <2>1 DEF TypeOK, EndMainTape, Queues, mainVars, tapeVars, distVars, callVars
  <2>3. /\ Created' /\ InHand(0)' = InHand(0) - 1
        /\ \A k \in Threads \ {0} : InHand(k)' = InHand(k)
    BY <1>0, <1>8 DEF Counted, Created, TypeOK, EndMainTape, InMainTape, InHand, mainVars
  <2>4. \A k \in Threads : Missing(k)' = InHand(k)'
    BY <1>0, <2>1, <2>3
  <2> QED BY <2>1, <2>2, <2>3, <2>4, CountsNext DEF Counted
<1> QED BY <1>1, <1>2, <1>3, <1>4, <1>5, <1>6, <1>7, <1>8 DEF MainTape

LEMMA CountedNext == Counted /\ [Next]_vars => Counted'
<1> SUFFICES ASSUME Counted, [Next]_vars PROVE Counted'
  OBVIOUS
<1>1. CASE UNCHANGED vars
  BY <1>1 DEF Counted, TypeOK, LeftCounts, Created, InHand, vars, mainVars, workerVars,
     queueVars, tapeVars, distVars, callVars
<1> QED BY <1>1, MainCounted, WorkerCounted, TapeCounted DEF Next, Finish

(* The model is well typed, and left counts what find_available takes it   *)
(* to count, for every number of threads and every program.                *)
THEOREM TypeCorrect == Spec => []TypeOK
<1>1. Counted => TypeOK
  BY DEF Counted
<1> QED BY <1>1, CountedInit, CountedNext, PTL DEF Spec

THEOREM LeftCorrect == Spec => []LeftCounts
<1>1. Counted => LeftCounts
  BY DEF Counted
<1> QED BY <1>1, CountedInit, CountedNext, PTL DEF Spec

---------------------------------------------------------------------------
(* The shape of the queues.                                                *)
Same(k) == in'[k] = in[k] /\ out'[k] = out[k] /\ wpc'[k] = wpc[k] /\ cur'[k] = cur[k]

LEMMA SameShape ==
  ASSUME NEW k \in Threads, Same(k)
  PROVE  /\ Idle(k)' <=> Idle(k)
         /\ Starting(k)' <=> Starting(k)
         /\ Absent(k)' <=> Absent(k)
         /\ \A job \in Jobs : Holds(k, job)' <=> Holds(k, job)
BY DEF Same, Idle, Starting, Absent, Holds, Resting

(* Queues of one job.                                                      *)
LEMMA OneJob ==
  ASSUME NEW job \in Jobs
  PROVE  /\ Tail(<<job>>) = <<>> /\ Head(<<job>>) = job /\ <<job>> # <<>>
         /\ Append(<<>>, job) = <<job>> /\ Len(<<job>>) = 1
OBVIOUS

(* A step of a worker keeps what its thread holds.                         *)
LEMMA WorkerShape ==
  ASSUME TypeOK, NEW i \in Threads, Worker(i)
  PROVE  /\ \A k \in Threads \ {i} : Same(k)
         /\ ~Absent(i)
         /\ Idle(i) => Idle(i)'
         /\ Starting(i) => Starting(i)'
         /\ \A job \in Jobs : job.kind \in {"tape", "work"} /\ Holds(i, job) => Holds(i, job)'
         /\ InMainTape => i # 0
<1>1. CASE StartWorker(i)
  <2>1. /\ wpc[i] = "init" /\ in'[i] = Tail(in[i]) /\ out'[i] = out[i] /\ wpc'[i] = "setup"
        /\ \A k \in Threads \ {i} : Same(k)
    BY <1>1 DEF TypeOK, StartWorker, TakeJob, Same
  <2>2. InMainTape => i # 0
    BY <2>1 DEF InMainTape, Tape, Job
  <2>3. Starting(i) => Starting(i)'
    BY <2>1, OneJob, JobTypes DEF Starting, Resting
  <2> QED BY <2>1, <2>2, <2>3 DEF Absent, Idle, Holds, Resting
<1>2. CASE FinishSetup(i)
  <2>1. /\ wpc[i] = "setup" /\ in'[i] = in[i] /\ out'[i] = Append(out[i], Empty)
        /\ wpc'[i] = "idle"
        /\ \A k \in Threads \ {i} : Same(k)
    BY <1>2 DEF TypeOK, FinishSetup, Finished, Same
  <2>2. InMainTape => i # 0
    BY <2>1 DEF InMainTape, Tape, Job
  <2>3. Starting(i) => Starting(i)'
    BY <2>1, OneJob, JobTypes DEF Starting, Resting
  <2> QED BY <2>1, <2>2, <2>3 DEF Absent, Idle, Holds, Resting
<1>3. CASE NextJob(i)
  <2>1. /\ wpc[i] = "idle" /\ in[i] # <<>> /\ in'[i] = Tail(in[i]) /\ out'[i] = out[i]
        /\ cur'[i] = Head(in[i])
        /\ wpc'[i] = IF Head(in[i]).kind = "stop" THEN "final" ELSE "busy"
        /\ \A k \in Threads \ {i} : Same(k)
    BY <1>3 DEF TypeOK, NextJob, TakeJob, Same
  <2>2. InMainTape => i # 0
    BY <2>1 DEF InMainTape, Tape, Job
  <2>3. ASSUME NEW job \in Jobs, job.kind \in {"tape", "work"}, Holds(i, job)
        PROVE  Holds(i, job)'
    BY <2>1, <2>3, OneJob DEF Holds, Resting
  <2> QED BY <2>1, <2>2, <2>3 DEF Absent, Idle, Starting, Resting
<1>4. CASE FinishWork(i)
  <2>1. /\ wpc[i] = "busy" /\ cur[i].kind = "work" /\ in'[i] = in[i]
        /\ out'[i] = Append(out[i], cur[i]) /\ wpc'[i] = "idle"
        /\ \A k \in Threads \ {i} : Same(k)
    BY <1>4 DEF TypeOK, FinishWork, Finished, Same
  <2>2. InMainTape => i # 0
    BY <2>1 DEF InMainTape, Tape, Job
  <2>3. ASSUME NEW job \in Jobs, Holds(i, job)
        PROVE  Holds(i, job)'
    BY <2>1, <2>3, OneJob DEF Holds, Resting
  <2> QED BY <2>1, <2>2, <2>3 DEF Absent, Idle, Starting, Resting
<1>5. CASE FinishTape(i)
  <2>1. /\ wpc[i] = "busy" /\ cur[i].id > 0 /\ in'[i] = in[i]
        /\ out'[i] = Append(out[i], cur[i]) /\ wpc'[i] = "stats"
        /\ \A k \in Threads \ {i} : Same(k)
    BY <1>5 DEF TypeOK, FinishTape, Finished, Same
  <2>2. InMainTape => i # 0
    BY <2>1 DEF InMainTape, Tape, Job
  <2>3. ASSUME NEW job \in Jobs, Holds(i, job)
        PROVE  Holds(i, job)'
    BY <2>1, <2>3, OneJob DEF Holds, Resting
  <2> QED BY <2>1, <2>2, <2>3 DEF Absent, Idle, Starting, Resting
<1>6. CASE SetStats(i)
  BY <1>6 DEF TypeOK, SetStats, queueVars, Same, Absent, Idle, Starting, Holds, Resting,
     InMainTape
<1>7. CASE FinalCheck(i)
  BY <1>7 DEF TypeOK, FinalCheck, TakeJob, Same, Absent, Idle, Starting, Holds, Resting,
     InMainTape
<1>8. CASE ReportUsage(i)
  BY <1>8 DEF TypeOK, ReportUsage, Finished, Same, Absent, Idle, Starting, Holds, Resting,
     InMainTape
<1>9. CASE Exit(i)
  BY <1>9 DEF TypeOK, Exit, queueVars, Same, Absent, Idle, Starting, Holds, Resting,
     InMainTape
<1> QED BY <1>1, <1>2, <1>3, <1>4, <1>5, <1>6, <1>7, <1>8, <1>9 DEF Worker

LEMMA WorkerOver ==
  ASSUME TypeOK, Worker(0), ~InMainTape, \A n \in DOMAIN in[0] : in[0][n] # Tape(0)
  PROVE  ~InMainTape' /\ \A n \in DOMAIN in[0]' : in[0]'[n] # Tape(0)
<1>0. 0 \in Threads /\ in[0] \in Seq(Jobs)
  BY ThreadFacts DEF TypeOK
<1>1. CASE UNCHANGED in
  <2>1. ~InMainTape'
    BY <1>0, <1>1 DEF TypeOK, InMainTape, Worker, StartWorker, FinishSetup, NextJob, FinishWork,
       FinishTape, SetStats, FinalCheck, ReportUsage, Exit, TakeJob
  <2> QED BY <1>1, <2>1
<1>2. CASE TakeJob(0)
  <2>1. in[0] # <<>> /\ in'[0] = Tail(in[0])
    BY <1>0, <1>2 DEF TypeOK, TakeJob
  <2>2. Head(in[0]) # Tape(0) /\ \A n \in DOMAIN Tail(in[0]) : Tail(in[0])[n] # Tape(0)
    BY <1>0, <2>1
  <2>3. ~InMainTape'
    BY <1>0, <1>2, <2>2 DEF TypeOK, InMainTape, Worker, StartWorker, FinishSetup, NextJob,
       FinishWork, FinishTape, SetStats, FinalCheck, ReportUsage, Exit, TakeJob, Finished
  <2> QED BY <2>1, <2>2, <2>3
<1> QED BY <1>1, <1>2 DEF Worker, StartWorker, FinishSetup, NextJob, FinishWork, FinishTape,
   SetStats, FinalCheck, ReportUsage, Exit, Finished, queueVars

LEMMA WorkerKeepsShape ==
  ASSUME TypeOK, Shape, NEW i \in Threads, Worker(i)
  PROVE  Shape'
<1>1. UNCHANGED <<mainVars, tapeVars, distVars>>
  BY DEF Worker, StartWorker, FinishSetup, NextJob, FinishWork, FinishTape, SetStats,
     FinalCheck, ReportUsage, Exit
<1>2. /\ \A k \in Threads : Idle(k) => Idle(k)'
      /\ \A k \in Threads : Starting(k) => Starting(k)'
      /\ \A k \in Threads : Absent(k) => Absent(k)'
      /\ \A k \in Threads, job \in Jobs :
           job.kind \in {"tape", "work"} /\ Holds(k, job) => Holds(k, job)'
      /\ InMainTape => i # 0
  BY WorkerShape, SameShape
<1>3. InCreate' /\ InSync' /\ InRun'
  BY <1>1, <1>2 DEF Shape, InCreate, InSync, InRun, mainVars
<1>4. InJoin'
  <2> SUFFICES ASSUME mpc = "join" PROVE Holds(0, Tape(0))' /\ Outstanding'
    BY <1>1 DEF InJoin, mainVars
  <2>1. Holds(0, Tape(0)) /\ Outstanding
    BY DEF Shape, InJoin
  <2>2. \A k \in Nat : Tape(k) \in Jobs /\ Tape(k).kind = "tape"
    BY DEF Tape, Job, Jobs
  <2>3. \A b, e \in Nat : Work(batch, b, e) \in Jobs /\ Work(batch, b, e).kind = "work"
    BY DEF TypeOK, Work, Job, Jobs
  <2>4. \A k \in Helpers : k \in Threads /\ run[k] \in Nat
    BY ThreadFacts, SizeAssumption DEF TypeOK
  <2>5. Holds(0, Tape(0))'
    BY <1>2, <2>1, <2>2, ThreadFacts
  <2>6. ASSUME NEW k \in Helpers PROVE HoldsTape(k)' /\ HoldsSlice(k)' /\ HoldsNothing(k)'
    <3>1. HoldsTape(k) /\ HoldsSlice(k) /\ HoldsNothing(k)
      BY <2>1 DEF Outstanding
    <3>2. /\ HasSlice(k)' <=> HasSlice(k)
          /\ run'[k] = run[k] /\ batch' = batch /\ avail' = avail
      BY <1>1 DEF HasSlice, distVars, callVars, tapeVars
    <3>3. HoldsTape(k)'
      BY <1>2, <2>2, <2>4, <3>1, <3>2 DEF HoldsTape
    <3>4. HoldsSlice(k)'
      BY <1>2, <2>3, <2>4, <3>1, <3>2 DEF HoldsSlice
    <3>5. HoldsNothing(k)'
      BY <1>2, <2>4, <3>1, <3>2 DEF HoldsNothing
    <3> QED BY <3>3, <3>4, <3>5
  <2> QED BY <2>5, <2>6 DEF Outstanding
<1>5. NothingYet'
  BY <1>1 DEF Shape, NothingYet, Early, mainVars, tapeVars, distVars, callVars
<1>6. MainTapeOver'
  <2>1. CASE i = 0
    BY <1>1, <2>1, WorkerOver DEF Shape, MainTapeOver, Early, mainVars
  <2>2. CASE i # 0
    BY <1>1, <2>2, WorkerShape, ThreadFacts
       DEF Shape, MainTapeOver, Early, mainVars, Same, InMainTape
  <2> QED BY <2>1, <2>2
<1>7. Spread'
  <2>1. InMainTape => InMainTape'
    BY <1>2, WorkerShape, ThreadFacts DEF Same, InMainTape
  <2> QED BY <1>1, <2>1 DEF Shape, Spread, distVars, callVars
<1> QED BY <1>3, <1>4, <1>5, <1>6, <1>7 DEF Shape

LEMMA MainKeepsShape ==
  ASSUME TypeOK, Shape, Main
  PROVE  Shape'
<1> USE ThreadFacts
<1>0. /\ in \in [Threads -> Seq(Jobs)] /\ out \in [Threads -> Seq(Jobs)]
      /\ wpc \in [Threads -> {"none", "init", "setup", "idle", "busy", "stats", "final",
                              "report", "bye", "exited"}]
      /\ mi \in Threads
  BY DEF TypeOK
<1>1. CASE CreateThread
  <2> PICK t \in Threads : t = mi
    BY <1>0
  <2>1. Absent(t) /\ \A k \in Threads : IF k < t THEN Starting(k) ELSE Absent(k)
    BY <1>1 DEF Shape, InCreate, CreateThread
  <2>2. /\ in'[t] = Append(in[t], Empty) /\ out'[t] = out[t] /\ wpc'[t] = "init"
        /\ \A k \in Threads \ {t} : Same(k)
    BY <1>0, <1>1 DEF CreateThread, Schedule, Same
  <2>3. Starting(t)'
    BY <2>1, <2>2, OneJob, JobTypes DEF Absent, Starting
  <2>4. ASSUME NEW k \in Threads PROVE IF k <= t THEN Starting(k)' ELSE Absent(k)'
    <3>1. k \in Nat /\ t \in Nat
      OBVIOUS
    <3>2. CASE k = t
      BY <2>3, <3>1, <3>2
    <3>3. CASE k # t
      BY <2>1, <2>2, <3>1, <3>3, SameShape
    <3> QED BY <3>2, <3>3
  <2>5. IF t + 1 < N THEN mi' = t + 1 /\ mpc' = "create" ELSE mi' = 0 /\ mpc' = "sync"
    BY <1>1 DEF CreateThread, Loop
  <2>6. InCreate' /\ InSync'
    BY <2>4, <2>5 DEF InCreate, InSync
  <2>7. InRun' /\ InJoin' /\ NothingYet' /\ MainTapeOver' /\ Spread'
    BY <1>1, <2>5 DEF Shape, CreateThread, InRun, InJoin, NothingYet, MainTapeOver, Spread,
       Early, tapeVars, distVars, callVars
  <2> QED BY <2>6, <2>7 DEF Shape
<1>2. CASE SyncThread
  <2> PICK t \in Threads : t = mi
    BY <1>0
  <2>1. Starting(t) /\ \A k \in Threads : IF k < t THEN Idle(k) ELSE Starting(k)
    BY <1>2 DEF Shape, InSync, SyncThread
  <2>2. /\ out[t] # <<>> /\ in'[t] = in[t] /\ out'[t] = Tail(out[t]) /\ wpc'[t] = wpc[t]
        /\ \A k \in Threads \ {t} : Same(k)
    BY <1>0, <1>2 DEF SyncThread, Result, workerVars, Same
  <2>3. Idle(t)'
    BY <2>1, <2>2, OneJob, JobTypes DEF Idle, Starting, Resting
  <2>4. ASSUME NEW k \in Threads PROVE IF k <= t THEN Idle(k)' ELSE Starting(k)'
    <3>1. k \in Nat /\ t \in Nat
      OBVIOUS
    <3>2. CASE k = t
      BY <2>3, <3>1, <3>2
    <3>3. CASE k # t
      BY <2>1, <2>2, <3>1, <3>3, SameShape
    <3> QED BY <3>2, <3>3
  <2>5. IF t + 1 < N THEN mi' = t + 1 /\ mpc' = "sync" ELSE mi' = 0 /\ mpc' = "run"
    BY <1>2 DEF SyncThread, Loop
  <2>6. InSync' /\ InRun'
    BY <2>4, <2>5 DEF InSync, InRun
  <2>7. InCreate' /\ InJoin' /\ NothingYet' /\ MainTapeOver' /\ Spread'
    BY <1>2, <2>5 DEF Shape, SyncThread, InCreate, InJoin, NothingYet, MainTapeOver, Spread,
       Early, tapeVars, distVars, callVars
  <2> QED BY <2>6, <2>7 DEF Shape
<1>3. CASE RunMain
  <2>1. /\ \A k \in Threads \ {0} : Same(k)
        /\ Idle(0) => Holds(0, Tape(0))'
    BY <1>0, <1>3, OneJob, JobTypes
       DEF RunMain, Schedule, workerVars, Same, Idle, Holds, Resting
  <2>2. \A k \in Threads : Idle(k)
    BY <1>3 DEF Shape, InRun, RunMain
  <2>3. \A k \in Helpers : Idle(k)' /\ run'[k] = 0 /\ ~HasSlice(k)'
    BY <1>3, <2>1, <2>2, SameShape
       DEF Shape, NothingYet, Early, RunMain, tapeVars, distVars, callVars, HasSlice
  <2>4. InJoin'
    BY <2>1, <2>2, <2>3 DEF InJoin, Outstanding, HoldsTape, HoldsSlice, HoldsNothing
  <2>5. InCreate' /\ InSync' /\ InRun' /\ NothingYet' /\ MainTapeOver'
    BY <1>3 DEF RunMain, InCreate, InSync, InRun, NothingYet, MainTapeOver, Early
  <2>6. Spread'
    BY <1>3 DEF Shape, NothingYet, Early, RunMain, Spread, distVars, callVars
  <2> QED BY <2>4, <2>5, <2>6 DEF Shape
<1>4. CASE JoinMain
  <2>1. Holds(0, Tape(0)) /\ out[0] # <<>>
    BY <1>4 DEF Shape, InJoin, JoinMain, Result
  <2>2. in[0] = <<>> /\ Resting(0)
    BY <2>1 DEF Holds
  <2>3. ~InMainTape' /\ in'[0] = <<>>
    BY <1>4, <2>2 DEF JoinMain, Result, workerVars, InMainTape, Resting
  <2>4. MainTapeOver'
    BY <2>3 DEF MainTapeOver
  <2>5. InCreate' /\ InSync' /\ InRun' /\ InJoin' /\ NothingYet'
    BY <1>4 DEF JoinMain, InCreate, InSync, InRun, InJoin, NothingYet, Early
  <2>6. Spread'
    BY <1>4, <2>2 DEF Shape, JoinMain, Spread, InMainTape, Resting, distVars, callVars
  <2> QED BY <2>4, <2>5, <2>6 DEF Shape
<1>5. CASE StopThread \/ ReleaseThread \/ CollectThread \/ ReapThread
  <2>1. mpc \in {"stop", "release", "collect", "reap"} /\ UNCHANGED <<workerVars, tapeVars, distVars>>
    BY <1>5 DEF StopThread, ReleaseThread, CollectThread, ReapThread
  <2>2. mpc' \in {"stop", "release", "collect", "reap", "deleted"}
    BY <1>5 DEF StopThread, ReleaseThread, CollectThread, ReapThread, Loop
  <2>3. ~InMainTape /\ \A n \in DOMAIN in[0] : in[0][n] # Tape(0)
    BY <2>1 DEF Shape, MainTapeOver, Early
  <2>4. in'[0] = in[0] \/ \E job \in {Stop, Empty} : in'[0] = Append(in[0], job)
    BY <1>0, <1>5 DEF StopThread, ReleaseThread, CollectThread, ReapThread, Schedule, Result,
       queueVars
  <2>5. Stop # Tape(0) /\ Empty # Tape(0)
    BY DEF Stop, Empty, Tape, Job
  <2>6. \A n \in DOMAIN in'[0] : in'[0][n] # Tape(0)
    <3>1. in[0] \in Seq(Jobs)
      BY <1>0
    <3>2. ASSUME NEW job \in {Stop, Empty}, in'[0] = Append(in[0], job)
          PROVE  \A n \in DOMAIN in'[0] : in'[0][n] # Tape(0)
      <4>1. job \in Jobs /\ job # Tape(0)
        BY <2>5, JobTypes
      <4>2. ASSUME NEW n \in DOMAIN Append(in[0], job)
            PROVE  Append(in[0], job)[n] # Tape(0)
        <5>1. n = Len(in[0]) + 1 \/ n \in DOMAIN in[0]
          BY <3>1, <4>1
        <5>2. Append(in[0], job)[n] = IF n = Len(in[0]) + 1 THEN job ELSE in[0][n]
          BY <3>1, <4>1
        <5> QED BY <2>3, <4>1, <5>1, <5>2
      <4> QED BY <3>2, <4>2
    <3> QED BY <2>3, <2>4, <3>2
  <2>7. MainTapeOver'
    BY <2>1, <2>3, <2>6 DEF MainTapeOver, InMainTape, workerVars
  <2>8. InCreate' /\ InSync' /\ InRun' /\ InJoin' /\ NothingYet'
    BY <2>2 DEF InCreate, InSync, InRun, InJoin, NothingYet, Early
  <2>9. Spread'
    BY <2>1, <2>3 DEF Shape, Spread, InMainTape, workerVars, distVars, callVars
  <2> QED BY <2>7, <2>8, <2>9 DEF Shape
<1> QED BY <1>1, <1>2, <1>3, <1>4, <1>5 DEF Main

(* The main tape: only in the phase in which the main thread joins it.     *)
LEMMA OnlyInJoin ==
  ASSUME TypeOK, Shape, InMainTape
  PROVE  mpc = "join" /\ in[0] = <<>> /\ out[0] = <<>>
<1>1. mpc = "join"
  <2>1. mpc # "create"
    BY ThreadFacts DEF Shape, InCreate, Starting, Absent, Resting, InMainTape
  <2>2. mpc # "sync" /\ mpc # "run"
    BY ThreadFacts DEF Shape, InSync, InRun, Idle, Starting, Resting, InMainTape
  <2> QED BY <2>1, <2>2 DEF Shape, MainTapeOver, Early
<1> QED BY <1>1 DEF Shape, InJoin, Holds, Resting, InMainTape

LEMMA HoldsCounts ==
  ASSUME NEW k \in Threads, NEW job \in Jobs, Holds(k, job)
  PROVE  Len(in[k]) + InHand(k) + Len(out[k]) = 1
<1>1. Len(<<job>>) = 1
  BY OneJob
<1>2. CASE in[k] = <<job>> /\ out[k] = <<>> /\ Resting(k)
  BY <1>1, <1>2 DEF Resting, InHand
<1>3. CASE in[k] = <<>> /\ out[k] = <<>> /\ wpc[k] = "busy"
  BY <1>3 DEF InHand
<1>4. CASE in[k] = <<>> /\ out[k] = <<job>> /\ Resting(k)
  BY <1>1, <1>4 DEF Resting, InHand
<1> QED BY <1>2, <1>3, <1>4 DEF Holds

LEMMA OtherHelper ==
  ASSUME TypeOK, NEW k \in Helpers, Same(k), run'[k] = run[k], batch' = batch,
         HasSlice(k)' <=> HasSlice(k), k \in avail' => k \in avail,
         HoldsTape(k), HoldsSlice(k), HoldsNothing(k)
  PROVE  HoldsTape(k)' /\ HoldsSlice(k)' /\ HoldsNothing(k)'
<1>1. k \in Threads /\ run[k] \in Nat /\ batch \in Nat
  BY ThreadFacts, SizeAssumption DEF TypeOK
<1>2. (Idle(k)' <=> Idle(k)) /\ \A job \in Jobs : Holds(k, job)' <=> Holds(k, job)
  BY <1>1, SameShape
<1>3. HoldsTape(k)'
  BY <1>1, <1>2, JobTypes DEF HoldsTape
<1>4. HoldsSlice(k)'
  BY <1>1, <1>2, JobTypes DEF HoldsSlice
<1>5. HoldsNothing(k)'
  BY <1>2 DEF HoldsNothing
<1> QED BY <1>3, <1>4, <1>5

LEMMA TapeKeepsShape ==
  ASSUME Counted, Shape, MainTape
  PROVE  Shape'
<1>0. TypeOK /\ LeftCounts
  BY DEF Counted
<1>1. InMainTape /\ mpc = "join" /\ in[0] = <<>> /\ out[0] = <<>>
  <2>1. InMainTape
    BY DEF Shape, Spread, MainTape, RunTape, JoinTape, Slice, WrapUp, Distribute, OwnPart,
       EndWrapUp, EndMainTape
  <2> QED BY <1>0, <2>1, OnlyInJoin
<1>2. Holds(0, Tape(0)) /\ Outstanding /\ Spread
  BY <1>1 DEF Shape, InJoin
<1>3. mpc' = "join"
  BY <1>1 DEF MainTape, RunTape, JoinTape, Slice, WrapUp, Distribute, OwnPart,
     EndWrapUp, EndMainTape, mainVars
<1> SUFFICES Holds(0, Tape(0))' /\ Outstanding' /\ Spread'
  BY <1>3 DEF Shape, InCreate, InSync, InRun, InJoin, NothingYet, MainTapeOver, Early
<1> USE ThreadFacts
<1>4. ASSUME Same(0) PROVE Holds(0, Tape(0))' /\ InMainTape'
  BY <1>1, <1>2, <1>4, SameShape, JobTypes DEF Same, InMainTape
<1>5. /\ in \in [Threads -> Seq(Jobs)] /\ out \in [Threads -> Seq(Jobs)]
      /\ run \in [Threads -> Nat] /\ started \in Nat /\ batch \in Nat
      /\ start \in Nat /\ size \in Nat /\ base \in Nat /\ grain \in Nat \ {0}
      /\ todo \subseteq avail /\ avail \subseteq Helpers
  BY <1>0, SizeAssumption DEF TypeOK
<1>a. ASSUME dpc' = "none", avail' = {}, UNCHANGED <<start, base>> PROVE Spread'
  BY <1>2, <1>a DEF Spread
<1>6. CASE \E i \in Helpers : RunTape(i)
  <2> PICK i \in Helpers : RunTape(i)
    BY <1>6
  <2> PICK t \in Nat : t = started + 1
    BY <1>5
  <2>1. /\ \A k \in Threads \ {i} : Same(k) /\ run'[k] = run[k]
        /\ in'[i] = Append(in[i], Tape(t)) /\ out'[i] = out[i] /\ wpc'[i] = wpc[i]
        /\ run[i] = 0 /\ run'[i] = t /\ t # 0 /\ dpc = "none"
        /\ UNCHANGED distVars
    BY <1>5 DEF RunTape, Schedule, workerVars, Same
  <2>2. avail = {} /\ Idle(i) /\ \A k \in Helpers : ~HasSlice(k) /\ ~HasSlice(k)'
    BY <1>2, <2>1 DEF Spread, Outstanding, HoldsNothing, HasSlice, distVars, callVars
  <2>3. Holds(i, Tape(t))'
    BY <1>5, <2>1, <2>2, OneJob, JobTypes DEF Idle, Holds, Resting
  <2>4. HoldsTape(i)' /\ HoldsSlice(i)' /\ HoldsNothing(i)'
    BY <1>5, <2>1, <2>2, <2>3 DEF HoldsTape, HoldsSlice, HoldsNothing, distVars, callVars
  <2>5. \A k \in Helpers \ {i} : HoldsTape(k)' /\ HoldsSlice(k)' /\ HoldsNothing(k)'
    BY <1>0, <1>2, <2>1, <2>2, OtherHelper DEF Outstanding, distVars, callVars
  <2>6. Spread'
    <3>1. dpc' = "none" /\ UNCHANGED <<avail, start, base>>
      BY <2>1 DEF distVars, callVars
    <3> QED BY <1>a, <2>2, <3>1
  <2> QED BY <1>4, <2>1, <2>4, <2>5, <2>6 DEF Outstanding
<1>7. CASE \E i \in Helpers : JoinTape(i)
  <2> PICK i \in Helpers : JoinTape(i)
    BY <1>7
  <2>1. /\ \A k \in Threads \ {i} : Same(k) /\ run'[k] = run[k]
        /\ in'[i] = in[i] /\ out[i] # <<>> /\ out'[i] = Tail(out[i]) /\ wpc'[i] = wpc[i]
        /\ run[i] # 0 /\ run'[i] = 0 /\ dpc = "none"
        /\ UNCHANGED distVars
    BY <1>5 DEF JoinTape, Result, workerVars, Same
  <2>2. avail = {} /\ Holds(i, Tape(run[i])) /\ \A k \in Helpers : ~HasSlice(k) /\ ~HasSlice(k)'
    BY <1>2, <2>1 DEF Spread, Outstanding, HoldsTape, HasSlice, distVars, callVars
  <2>3. Idle(i)'
    <3>1. PICK job \in Jobs : job = Tape(run[i])
      BY <1>5, JobTypes
    <3>2. in[i] = <<>> /\ out[i] = <<job>> /\ Resting(i)
      BY <2>1, <2>2, <3>1 DEF Holds
    <3>3. Tail(out[i]) = <<>>
      BY <3>2, OneJob
    <3> QED BY <2>1, <3>2, <3>3 DEF Idle, Resting
  <2>4. HoldsTape(i)' /\ HoldsSlice(i)' /\ HoldsNothing(i)'
    BY <2>1, <2>2, <2>3 DEF HoldsTape, HoldsSlice, HoldsNothing
  <2>5. \A k \in Helpers \ {i} : HoldsTape(k)' /\ HoldsSlice(k)' /\ HoldsNothing(k)'
    BY <1>0, <1>2, <2>1, <2>2, OtherHelper DEF Outstanding, distVars, callVars
  <2>6. Spread'
    <3>1. dpc' = "none" /\ UNCHANGED <<avail, start, base>>
      BY <2>1 DEF distVars, callVars
    <3> QED BY <1>a, <2>2, <3>1
  <2> QED BY <1>4, <2>1, <2>4, <2>5, <2>6 DEF Outstanding
<1>8. CASE \E c \in Calls : Distribute(c.items, c.base, c.grain)
  <2> PICK n \in Nat, b \in Nat, g \in Nat \ {0} : Distribute(n, b, g)
    BY <1>8, CallsAssumption
  <2>1. /\ dpc = "none" /\ size' = n /\ base' = b /\ grain' = g
        /\ todo' = avail' /\ start' = b
        /\ dpc' \in {"own", "slices"}
        /\ UNCHANGED <<mainVars, workerVars, queueVars, tapeVars>>
    BY DEF Distribute
  <2>2. \A k \in Threads : Same(k)
    BY <2>1 DEF Same, workerVars, queueVars
  <2>3. \A k \in Helpers : ~HasSlice(k) /\ run'[k] = run[k]
    BY <2>1 DEF HasSlice, tapeVars
  <2>4. /\ avail' \subseteq Available /\ (dpc' = "own" => avail' = {})
        /\ dpc' = "slices" => avail' # {}
        /\ dpc' = "slices" /\ n # 0 => FitsSlice(b, PerThread(n, Cardinality(avail'), g), n)
    <3>1. Cardinality(Available) \in Nat
      BY CountNat DEF Available
    <3>2. PICK p \in Nat : p = PerThread(n, Cardinality(Available), g)
      BY <3>1, PerThreadNat
    <3>3. ~(p = 0 \/ b + p > n) => FitsSlice(b, p, n)
      BY <3>2 DEF FitsSlice
    <3> QED BY <3>2, <3>3 DEF Distribute
  <2>5. \A k \in Helpers : ~HasSlice(k)'
    BY <2>1, <2>4 DEF HasSlice
  <2>6. ASSUME NEW k \in Helpers, run[k] # 0 PROVE k \notin Available
    <3>1. Holds(k, Tape(run[k])) /\ Tape(run[k]) \in Jobs
      BY <1>2, <1>5, <2>6, JobTypes DEF Outstanding, HoldsTape
    <3>2. Len(in[k]) + InHand(k) + Len(out[k]) = 1
      BY <3>1, HoldsCounts
    <3>3. left[k] = Len(in[k]) + InHand(k) + Len(out[k])
      BY <1>0 DEF LeftCounts
    <3> QED BY <3>2, <3>3 DEF Available
  <2>7. ASSUME NEW k \in Helpers PROVE HoldsTape(k)' /\ HoldsSlice(k)' /\ HoldsNothing(k)'
    <3>1. HoldsTape(k) /\ HoldsNothing(k)
      BY <1>2 DEF Outstanding
    <3>2. (Idle(k)' <=> Idle(k)) /\ \A job \in Jobs : Holds(k, job)' <=> Holds(k, job)
      BY <2>2, SameShape
    <3>3. HoldsTape(k)'
      BY <1>5, <2>3, <2>4, <2>6, <3>1, <3>2, JobTypes DEF HoldsTape
    <3>4. HoldsSlice(k)' /\ HoldsNothing(k)'
      BY <2>3, <2>5, <3>1, <3>2 DEF HoldsSlice, HoldsNothing
    <3> QED BY <3>3, <3>4
  <2>8. Holds(0, Tape(0))' /\ InMainTape'
    BY <1>4, <2>2
  <2>9. Spread'
    <3>1. PerThread(size, Cardinality(avail), grain)' = PerThread(n, Cardinality(avail'), g)
      BY <2>1 DEF PerThread
    <3>2. dpc' # "none" /\ InMainTape' /\ base' <= start'
      BY <2>1, <2>8
    <3>3. dpc' = "slices" => todo' # {}
      BY <2>1, <2>4
    <3>4. dpc' = "slices" /\ size' # 0 =>
            FitsSlice(base, PerThread(size, Cardinality(avail), grain), size)'
      BY <2>1, <2>4, <3>1 DEF FitsSlice
    <3>5. dpc' = "own" => avail' = {}
      BY <2>4
    <3> QED BY <2>1, <3>2, <3>3, <3>4, <3>5 DEF Spread
  <2> QED BY <2>7, <2>8, <2>9 DEF Outstanding
<1>9. CASE \E i \in Helpers : Slice(i)
  <2> PICK i \in Helpers : Slice(i)
    BY <1>9
  <2> PICK per \in Nat : per = PerThread(size, Cardinality(avail), grain)
    BY <1>5, PerThreadNat, CountNat
  <2>0. /\ i \in todo /\ dpc = "slices" /\ UNCHANGED <<batch, size, base, grain, run>>
        /\ wpc' = wpc /\ cur' = cur
    BY DEF Slice, IsNext, workerVars, tapeVars, callVars
  <2>1. /\ base <= start
        /\ start = base /\ size # 0 => todo = avail /\ per > 0 /\ base + per <= size
    BY <1>2, <2>0 DEF Spread, FitsSlice
  <2>a. InMainTape'
    BY <1>1, <2>0 DEF InMainTape
  <2>2. CASE start + per > size
    <3>1. /\ avail' = avail \ todo /\ dpc' = "own" /\ start' = start
          /\ \A k \in Threads : Same(k)
      BY <2>0, <2>2 DEF Slice, queueVars, Same
    <3>2. \A k \in Helpers : (HasSlice(k)' <=> HasSlice(k)) /\ (k \in avail' => k \in avail)
      BY <2>0, <3>1 DEF HasSlice
    <3>3. Outstanding'
      BY <1>0, <1>2, <2>0, <3>1, <3>2, OtherHelper DEF Outstanding
    <3>4. ~(start = base /\ size # 0)
      BY <1>5, <2>1, <2>2
    <3>5. Spread'
      BY <2>0, <2>1, <2>a, <3>1, <3>4 DEF Spread
    <3> QED BY <1>4, <3>1, <3>3, <3>5
  <2>3. CASE ~(start + per > size)
    <3> PICK first \in Nat : first = start
      BY <1>5
    <3>1. /\ Schedule(i, Work(batch, first, first + per))
          /\ start' = start + per /\ todo' = todo \ {i} /\ avail' = avail
          /\ dpc' = IF todo' = {} THEN "own" ELSE "slices"
      BY <2>0, <2>3 DEF Slice
    <3>2. /\ \A k \in Threads \ {i} : Same(k)
          /\ in'[i] = Append(in[i], Work(batch, first, first + per)) /\ out'[i] = out[i]
      BY <1>5, <2>0, <3>1 DEF Schedule, Same
    <3>3. Idle(i) /\ run[i] = 0
      BY <1>2, <1>5, <2>0 DEF Outstanding, HoldsTape, HoldsNothing, HasSlice
    <3>4. HasSlice(i)' /\ \A k \in Helpers \ {i} : HasSlice(k)' <=> HasSlice(k)
      BY <1>5, <2>0, <3>1 DEF HasSlice
    <3>5. ASSUME NEW job \in Jobs, job = Work(batch, first, first + per)
          PROVE  Holds(i, job)'
      BY <2>0, <3>2, <3>3, <3>5, OneJob DEF Idle, Holds, Resting
    <3>6. HoldsSlice(i)'
      <4>1. Work(batch, first, first + per) \in Jobs
        BY <1>5, JobTypes
      <4> QED BY <2>0, <3>5, <4>1 DEF HoldsSlice
    <3>7. HoldsTape(i)' /\ HoldsNothing(i)'
      BY <2>0, <3>3, <3>4 DEF HoldsTape, HoldsNothing
    <3>8. \A k \in Helpers \ {i} : HoldsTape(k)' /\ HoldsSlice(k)' /\ HoldsNothing(k)'
      BY <1>0, <1>2, <2>0, <3>1, <3>2, <3>4, OtherHelper DEF Outstanding
    <3>9. Spread'
      <4>1. dpc' # "none" /\ (dpc' = "slices" => todo' # {})
        BY <3>1
      <4>2. base' <= start' /\ (size' # 0 => start' # base')
        <5>1. base <= first + per /\ (size # 0 => first + per # base)
          BY <1>5, <2>1
        <5> QED BY <2>0, <3>1, <5>1
      <4> QED BY <2>a, <4>1, <4>2 DEF Spread
    <3> QED BY <1>4, <3>2, <3>6, <3>7, <3>8, <3>9 DEF Outstanding
  <2> QED BY <2>2, <2>3
<1>10. CASE OwnPart
  <2>1. /\ dpc = "own" /\ todo' = avail /\ UNCHANGED <<avail, start, batch, size, base, grain, run>>
        /\ dpc' = IF start > base \/ size = 0 THEN "wrap" ELSE "none"
        /\ \A k \in Threads : Same(k)
    BY <1>10 DEF OwnPart, Same, workerVars, queueVars, tapeVars, callVars
  <2>2. base <= start /\ (dpc' = "none" => avail = {})
    BY <1>2, <1>5, <2>1 DEF Spread
  <2>3. \A k \in Helpers : HasSlice(k)' <=> HasSlice(k)
    BY <2>1, <2>2 DEF HasSlice
  <2>4. Outstanding'
    BY <1>0, <1>2, <2>1, <2>3, OtherHelper DEF Outstanding
  <2>5. Spread'
    BY <1>4, <2>1, <2>2 DEF Spread
  <2> QED BY <1>4, <2>1, <2>4, <2>5
<1>11. CASE \E i \in Helpers : WrapUp(i)
  <2> PICK i \in Helpers : WrapUp(i)
    BY <1>11
  <2>1. /\ dpc = "wrap" /\ i \in todo /\ todo' = todo \ {i}
        /\ UNCHANGED <<dpc, avail, start, batch, size, base, grain, run>>
        /\ \A k \in Threads \ {i} : Same(k)
        /\ out[i] # <<>> /\ in'[i] = in[i] /\ out'[i] = Tail(out[i]) /\ wpc'[i] = wpc[i]
    BY <1>5 DEF WrapUp, IsNext, Result, Same, workerVars, tapeVars, callVars
  <2>2. HasSlice(i) /\ i \in avail /\ ~HasSlice(i)' /\ \A k \in Helpers \ {i} : HasSlice(k)' <=> HasSlice(k)
    BY <1>5, <2>1 DEF HasSlice
  <2>3. PICK b \in Nat, e \in Nat : Holds(i, Work(batch, b, e))
    BY <1>2, <2>2 DEF Outstanding, HoldsSlice
  <2>4. Idle(i)'
    BY <1>5, <2>1, <2>3, OneJob, JobTypes DEF Idle, Holds, Resting
  <2>5. HoldsTape(i)' /\ HoldsSlice(i)' /\ HoldsNothing(i)'
    BY <1>2, <2>1, <2>2, <2>4 DEF Outstanding, HoldsTape, HoldsSlice, HoldsNothing
  <2>6. \A k \in Helpers \ {i} : HoldsTape(k)' /\ HoldsSlice(k)' /\ HoldsNothing(k)'
    BY <1>0, <1>2, <2>1, <2>2, OtherHelper DEF Outstanding
  <2>7. Spread'
    BY <1>2, <1>4, <2>1 DEF Spread
  <2> QED BY <1>4, <2>1, <2>5, <2>6, <2>7 DEF Outstanding
<1>12. CASE EndWrapUp
  <2>1. /\ dpc = "wrap" /\ todo = {} /\ avail' = {} /\ dpc' = "none"
        /\ UNCHANGED <<start, batch, size, base, grain, run>>
        /\ \A k \in Threads : Same(k)
    BY <1>12 DEF EndWrapUp, Same, workerVars, queueVars, tapeVars, callVars
  <2>2. \A k \in Helpers : HasSlice(k)' <=> HasSlice(k)
    BY <2>1 DEF HasSlice
  <2>3. Outstanding'
    BY <1>0, <1>2, <2>1, <2>2, OtherHelper DEF Outstanding
  <2>4. Spread'
    BY <1>a, <2>1
  <2> QED BY <1>4, <2>1, <2>3, <2>4
<1>13. CASE EndMainTape
  <2>1. /\ \A k \in Threads \ {0} : Same(k)
        /\ out'[0] = Append(out[0], Tape(0)) /\ in'[0] = in[0] /\ wpc'[0] = "stats"
        /\ dpc = "none" /\ UNCHANGED <<tapeVars, distVars>>
    BY <1>0, <1>1, <1>5, <1>13 DEF TypeOK, EndMainTape, Finished, InMainTape, Same
  <2>2. Holds(0, Tape(0))'
    BY <1>1, <2>1, OneJob, JobTypes DEF Holds, Resting
  <2>3. \A k \in Helpers : (HasSlice(k)' <=> HasSlice(k)) /\ (k \in avail' => k \in avail)
    BY <2>1 DEF HasSlice, distVars, callVars
  <2>4. Outstanding'
    BY <1>0, <1>2, <2>1, <2>3, OtherHelper DEF Outstanding, tapeVars, distVars, callVars
  <2>5. Spread'
    <3>1. dpc' = "none" /\ UNCHANGED <<avail, start, base>>
      BY <2>1 DEF distVars, callVars
    <3> QED BY <1>2, <1>a, <2>1, <3>1 DEF Spread
  <2> QED BY <2>2, <2>4, <2>5
<1> QED BY <1>6, <1>7, <1>8, <1>9, <1>10, <1>11, <1>12, <1>13 DEF MainTape

LEMMA ShapeInit == Init => Shape
<1> SUFFICES ASSUME Init PROVE Shape
  OBVIOUS
<1>1. InCreate
  BY ThreadFacts DEF Init, InCreate, Absent
<1> QED BY <1>1 DEF Init, Shape, InSync, InRun, InJoin, NothingYet, MainTapeOver, Spread, Early,
   Helpers, Threads

LEMMA ShapeNext == Counted /\ Shape /\ [Next]_vars => Shape'
<1> SUFFICES ASSUME Counted, Shape, [Next]_vars PROVE Shape'
  OBVIOUS
<1>1. CASE UNCHANGED vars
  <2>1. \A k \in Threads : Same(k)
    BY <1>1 DEF vars, workerVars, queueVars, Same
  <2>2. UNCHANGED <<mainVars, tapeVars, distVars>> /\ UNCHANGED InMainTape
    BY <1>1 DEF vars, workerVars, queueVars, InMainTape
  <2>3. InCreate' /\ InSync' /\ InRun'
    BY <2>1, <2>2, SameShape DEF Shape, InCreate, InSync, InRun, mainVars
  <2>4. InJoin'
    <3>1. \A k \in Helpers : /\ HasSlice(k)' <=> HasSlice(k)
                            /\ run'[k] = run[k] /\ batch' = batch /\ avail' = avail
      BY <2>2 DEF HasSlice, tapeVars, distVars, callVars
    <3>2. Outstanding => Outstanding'
      BY <2>1, <3>1, ThreadFacts, OtherHelper DEF Counted, Outstanding
    <3> QED BY <2>1, <2>2, <3>2, ThreadFacts, JobTypes, SameShape DEF Shape, InJoin, mainVars
  <2>5. NothingYet' /\ MainTapeOver' /\ Spread'
    BY <1>1, <2>2 DEF Shape, NothingYet, MainTapeOver, Spread, Early, vars, mainVars, tapeVars,
       distVars, callVars, queueVars
  <2> QED BY <2>3, <2>4, <2>5 DEF Shape
<1> QED BY <1>1, MainKeepsShape, WorkerKeepsShape, TapeKeepsShape DEF Counted, Next, Finish

---------------------------------------------------------------------------
(* The theorems.                                                           *)
LEMMA Inductive == Spec => [](Counted /\ Shape)
BY CountedInit, CountedNext, ShapeInit, ShapeNext, PTL DEF Spec

(* While the main tape runs and computes nothing on the other threads, a   *)
(* thread without a tape to join has nothing queued, in hand or unread.    *)
THEOREM FreeThreads == Spec => []FreeThreadIdle
<1>1. ASSUME Counted, Shape PROVE FreeThreadIdle
  <2> SUFFICES ASSUME NEW i \in Helpers, InMainTape, dpc = "none", run[i] = 0
               PROVE  Idle(i)
    BY DEF FreeThreadIdle, Idle, Resting
  <2>1. mpc = "join"
    BY <1>1, OnlyInJoin DEF Counted
  <2> QED BY <1>1, <2>1 DEF Shape, InJoin, Outstanding, HoldsNothing, HasSlice
<1> QED BY <1>1, Inductive, PTL

(* The first result to be read from a thread whose tape is not joined is   *)
(* that tape's.                                                            *)
THEOREM JoinsMatch == Spec => []JoinGetsTape
<1>1. ASSUME Counted, Shape PROVE JoinGetsTape
  <2> SUFFICES ASSUME NEW i \in Helpers, InMainTape, run[i] # 0, out[i] # <<>>
               PROVE  Head(out[i]) = Tape(run[i])
    BY DEF JoinGetsTape
  <2>1. mpc = "join"
    BY <1>1, OnlyInJoin DEF Counted
  <2>2. Holds(i, Tape(run[i]))
    BY <1>1, <2>1 DEF Shape, InJoin, Outstanding, HoldsTape
  <2> QED BY <2>2 DEF Holds
<1> QED BY <1>1, Inductive, PTL

(* The assertions of wrap_up never fail.                                   *)
THEOREM WrapUpsMatch == Spec => []WrapUpAsserts
<1>1. ASSUME Counted, Shape PROVE WrapUpAsserts
  <2> SUFFICES ASSUME NEW i \in todo, dpc = "wrap", out[i] # <<>>
               PROVE  Head(out[i]).kind = "work" /\ Head(out[i]).id = batch
    BY DEF WrapUpAsserts
  <2>1. mpc = "join"
    BY <1>1, OnlyInJoin DEF Counted, Shape, Spread
  <2>2. i \in Helpers /\ HasSlice(i)
    BY <1>1 DEF Counted, TypeOK, HasSlice
  <2>3. PICK b \in Nat, e \in Nat : Holds(i, Work(batch, b, e))
    BY <1>1, <2>1, <2>2 DEF Shape, InJoin, Outstanding, HoldsSlice
  <2> QED BY <2>3 DEF Holds, Work, Job
<1> QED BY <1>1, Inductive, PTL

---------------------------------------------------------------------------
(***************************************************************************)
(* The end of the threads.  A thread that has ended uses nothing any more, *)
(* and stop_threads goes on to the next one only after waiting for it.     *)
(***************************************************************************)
Recorded == \A i \in Threads : wpc[i] = "exited" => stats[i] = Usage(i)
Reaped ==
  /\ mpc \in {"release", "collect", "reap"} =>
       \A i \in Threads : i < mi => wpc[i] = "exited"
  /\ mpc = "deleted" => \A i \in Threads : wpc[i] = "exited"
Ended == Recorded /\ Reaped

LEMMA EndedInit == Init => Ended
BY DEF Init, Ended, Recorded, Reaped

LEMMA EndedNext == Counted /\ Ended /\ [Next]_vars => Ended'
<1> SUFFICES ASSUME Counted, Ended, [Next]_vars PROVE Ended'
  OBVIOUS
<1> USE ThreadFacts
<1>0. /\ mi \in Threads /\ wpc \in [Threads -> {"none", "init", "setup", "idle", "busy", "stats",
                                               "final", "report", "bye", "exited"}]
      /\ stats \in [Threads -> Nat] /\ ran \in [Threads -> Seq(Nat)]
  BY DEF Counted, TypeOK
<1>1. CASE Main
  <2>1. ran' = ran /\ stats' = stats
    BY <1>1 DEF Main, CreateThread, SyncThread, RunMain, JoinMain, StopThread, ReleaseThread,
       CollectThread, ReapThread, workerVars
  <2>2. CASE CreateThread
    <3>1. mpc' \in {"create", "sync"} /\ wpc' = [wpc EXCEPT ![mi] = "init"]
      BY <2>2 DEF CreateThread, Loop
    <3> QED BY <1>0, <2>1, <3>1 DEF Ended, Recorded, Reaped, Usage
  <2>3. CASE ReapThread
    <3>1. /\ mpc = "reap" /\ wpc[mi] = "exited" /\ wpc' = wpc
          /\ \/ mi + 1 < N /\ mi' = mi + 1 /\ mpc' = "release"
             \/ ~(mi + 1 < N) /\ mpc' = "deleted"
      BY <2>3 DEF ReapThread, Loop, workerVars
    <3>2. \A i \in Threads : i < mi + 1 => wpc[i] = "exited"
      <4> SUFFICES ASSUME NEW i \in Threads, i < mi + 1 PROVE wpc[i] = "exited"
        OBVIOUS
      <4>1. i \in Nat /\ mi \in Nat /\ (i < mi \/ i = mi)
        BY <1>0
      <4> QED BY <3>1, <4>1 DEF Ended, Reaped
    <3>3. Reaped'
      BY <1>0, <3>1, <3>2 DEF Reaped
    <3> QED BY <2>1, <3>1, <3>3 DEF Ended, Recorded, Usage
  <2>4. CASE ~CreateThread /\ ~ReapThread
    <3>1. wpc' = wpc
      BY <1>1, <2>4 DEF Main, SyncThread, RunMain, JoinMain, StopThread, ReleaseThread,
         CollectThread, workerVars
    <3>2. \/ mpc' \notin {"release", "collect", "reap", "deleted"}
          \/ mpc \in {"release", "collect"} /\ mpc' \in {"collect", "reap"} /\ mi' = mi
          \/ mpc = "stop" /\ mpc' = "release" /\ mi' = 0
      BY <1>1, <2>4 DEF Main, SyncThread, RunMain, JoinMain, StopThread, ReleaseThread,
         CollectThread, Loop
    <3>3. Reaped'
      BY <3>1, <3>2 DEF Ended, Reaped
    <3> QED BY <2>1, <3>1, <3>3 DEF Ended, Recorded, Usage
  <2> QED BY <2>2, <2>3, <2>4
<1>2. ASSUME NEW i \in Threads, Worker(i) PROVE Ended'
  <2>1. /\ mpc' = mpc /\ mi' = mi /\ wpc[i] # "exited"
        /\ \A k \in Threads : k # i => /\ wpc'[k] = wpc[k] /\ stats'[k] = stats[k]
                                       /\ ran'[k] = ran[k]
    BY <1>0, <1>2 DEF Worker, StartWorker, FinishSetup, NextJob, FinishWork, FinishTape, SetStats,
       FinalCheck, ReportUsage, Exit, mainVars
  <2>2. wpc'[i] = "exited" => Exit(i)
    BY <1>0, <1>2 DEF Worker, StartWorker, FinishSetup, NextJob, FinishWork, FinishTape, SetStats,
       FinalCheck, ReportUsage
  <2>3. wpc'[i] = "exited" => stats'[i] = Usage(i)'
    BY <1>0, <2>2 DEF Exit, Usage
  <2> QED BY <2>1, <2>3 DEF Ended, Recorded, Reaped, Usage
<1>3. CASE MainTape
  <2>1. mpc' = mpc /\ mi' = mi /\ ran' = ran /\ stats' = stats
    BY <1>3 DEF MainTape, RunTape, JoinTape, Slice, WrapUp, Distribute, OwnPart, EndWrapUp,
       EndMainTape, mainVars, workerVars
  <2>2. wpc' = wpc \/ (EndMainTape /\ wpc' = [wpc EXCEPT ![0] = "stats"])
    BY <1>3 DEF MainTape, RunTape, JoinTape, Slice, WrapUp, Distribute, OwnPart, EndWrapUp,
       EndMainTape, workerVars
  <2>3. EndMainTape => wpc[0] = "busy"
    BY DEF EndMainTape, InMainTape
  <2>4. \A k \in Threads : wpc[k] = "exited" <=> wpc'[k] = "exited"
    BY <1>0, <2>2, <2>3
  <2> QED BY <2>1, <2>4 DEF Ended, Recorded, Reaped, Usage
<1>4. CASE Finish \/ UNCHANGED vars
  <2>1. UNCHANGED <<mpc, mi, wpc, stats, ran>>
    BY <1>4 DEF Finish, vars, mainVars, workerVars
  <2> QED BY <2>1 DEF Ended, Recorded, Reaped, Usage
<1> QED BY <1>1, <1>2, <1>3, <1>4 DEF Next

(* When the main thread deletes the queues, every worker has ended, and    *)
(* its statistics are those of its whole run.                              *)
THEOREM DeletedLast == Spec => []DeletedAfterExit
<1>1. Ended => DeletedAfterExit
  BY DEF Ended, Recorded, Reaped, DeletedAfterExit
<1>2. Spec => []Counted
  BY CountedInit, CountedNext, PTL DEF Spec
<1> QED BY <1>1, <1>2, EndedInit, EndedNext, PTL DEF Spec

---------------------------------------------------------------------------
(***************************************************************************)
(* The items of a distributed computation.  An item pends at a thread that *)
(* has been asked for it and has not answered; the slices given out so far *)
(* cover the items from base to start, the caller does the rest.           *)
(***************************************************************************)
NoWork(i) ==
  /\ \A n \in DOMAIN in[i] : in[i][n].kind # "work"
  /\ wpc[i] = "busy" => cur[i].kind # "work"

Asked(i) == in[i] # <<>> \/ wpc[i] = "busy"
Task(i) == IF in[i] # <<>> THEN Head(in[i]) ELSE cur[i]
Pends(i, j) == HasSlice(i) /\ Asked(i) /\ Task(i).begin <= j /\ j < Task(i).end

Covered(j) ==
  /\ base <= j
  /\ dpc \in {"slices", "own"} => j < start
  /\ dpc \notin {"slices", "own"} => j < base + size

Item(j) ==
  /\ ~Covered(j) => done[j] = 0 /\ \A i \in Helpers : ~Pends(i, j)
  /\ Covered(j) =>
       /\ \A i \in Helpers : Pends(i, j) => done[j] = 0
       /\ (\A i \in Helpers : ~Pends(i, j)) => done[j] = 1
       /\ \A i, k \in Helpers : Pends(i, j) /\ Pends(k, j) => i = k

Items ==
  /\ \A i \in Threads : (i \in Helpers /\ HasSlice(i)) \/ NoWork(i)
  /\ dpc \in {"slices", "own"} => start = base \/ start <= size
  /\ \A j \in ItemIdx : Item(j)

LEMMA ItemNat == ItemIdx \subseteq Nat
<1> SUFFICES ASSUME NEW c \in Calls, NEW j \in c.base .. c.base + c.items - 1 PROVE j \in Nat
  BY DEF ItemIdx
<1>1. c.base \in Nat /\ c.items \in Nat
  BY CallsAssumption
<1> QED BY <1>1

(* What a thread with a slice holds.                                       *)
LEMMA SliceHeld ==
  ASSUME TypeOK, Shape, NEW i \in Helpers, HasSlice(i)
  PROVE  /\ InMainTape
         /\ \E b, e \in Nat : Work(batch, b, e) \in Jobs /\ Holds(i, Work(batch, b, e))
<1>1. InMainTape
  BY DEF HasSlice, Shape, Spread
<1>2. Outstanding
  BY <1>1, OnlyInJoin DEF Shape, InJoin
<1> QED BY <1>1, <1>2, JobTypes DEF Outstanding, HoldsSlice, TypeOK

LEMMA TaskHeld ==
  ASSUME NEW i \in Threads, NEW job \in Jobs, Holds(i, job)
  PROVE  /\ Asked(i) => Task(i) = job
         /\ ~Asked(i) <=> out[i] # <<>>
         /\ wpc[i] = "busy" => cur[i] = job /\ in[i] = <<>>
BY OneJob DEF Holds, Asked, Task, Resting

(* Nothing is added to the queues but other jobs.                          *)
LEMMA AppendNoWork ==
  ASSUME TypeOK, NEW i \in Threads, NoWork(i), NEW job \in Jobs, job.kind # "work",
         in'[i] = Append(in[i], job), wpc'[i] = wpc[i] \/ wpc'[i] # "busy", cur'[i] = cur[i]
  PROVE  NoWork(i)'
<1>1. in[i] \in Seq(Jobs)
  BY DEF TypeOK
<1>2. \A n \in DOMAIN Append(in[i], job) : Append(in[i], job)[n].kind # "work"
  <2> SUFFICES ASSUME NEW n \in DOMAIN Append(in[i], job)
               PROVE  Append(in[i], job)[n].kind # "work"
    OBVIOUS
  <2>1. \/ n \in DOMAIN in[i] /\ Append(in[i], job)[n] = in[i][n]
        \/ Append(in[i], job)[n] = job
    BY <1>1
  <2> QED BY <2>1 DEF NoWork
<1> QED BY <1>2 DEF NoWork

LEMMA ItemsKept ==
  ASSUME Items, UNCHANGED <<done, distVars>>,
         \A i \in Threads : NoWork(i) => NoWork(i)',
         \A i \in Helpers : HasSlice(i) =>
           (Asked(i)' <=> Asked(i)) /\ (Asked(i) => Task(i)' = Task(i))
  PROVE  Items'
<1>1. \A i \in Helpers : HasSlice(i)' <=> HasSlice(i)
  BY DEF HasSlice, distVars
<1>2. \A i \in Helpers, j \in ItemIdx : Pends(i, j)' <=> Pends(i, j)
  BY <1>1 DEF Pends
<1>3. \A j \in ItemIdx : (Covered(j)' <=> Covered(j)) /\ done'[j] = done[j]
  BY DEF Covered, distVars, callVars
<1>4. \A j \in ItemIdx : Item(j)'
  BY <1>2, <1>3 DEF Items, Item
<1> QED BY <1>1, <1>4 DEF Items, distVars, callVars

LEMMA ItemsInit == Init => Items
<1> SUFFICES ASSUME Init PROVE Items
  OBVIOUS
<1>1. \A i \in Threads : NoWork(i)
  BY DEF Init, NoWork
<1>2. \A i \in Helpers : ~HasSlice(i)
  BY DEF Init, HasSlice
<1>3. \A j \in ItemIdx : Item(j)
  BY <1>2 DEF Init, Item, Covered, Pends
<1> QED BY <1>1, <1>3 DEF Init, Items

LEMMA MainKeepsItems ==
  ASSUME Counted, Shape, Items, Main
  PROVE  Items'
<1>0. TypeOK /\ mi \in Threads /\ 0 \in Threads
  BY ThreadFacts DEF Counted, TypeOK
<1>1. UNCHANGED <<done, distVars, cur>>
  BY DEF Main, CreateThread, SyncThread, RunMain, JoinMain, StopThread, ReleaseThread,
     CollectThread, ReapThread, workerVars
<1>2. CASE UNCHANGED <<in, wpc>>
  BY <1>1, <1>2, ItemsKept DEF NoWork, Asked, Task
<1>3. ASSUME NEW t \in Threads, NEW job \in {Empty, Stop, Tape(0)}, Schedule(t, job),
             mpc # "join", wpc' = wpc \/ wpc' = [wpc EXCEPT ![t] = "init"]
      PROVE  Items'
  <2>1. \A i \in Helpers : ~HasSlice(i)
    BY <1>0, <1>3, SliceHeld, OnlyInJoin DEF HasSlice, Shape, Spread
  <2>2. job \in Jobs /\ job.kind # "work"
    BY JobTypes DEF Empty, Stop, Tape, Job
  <2>3. ASSUME NEW i \in Threads, NoWork(i) PROVE NoWork(i)'
    <3>1. CASE i = t
      <4>1. in'[i] = Append(in[i], job) /\ (wpc'[i] = wpc[i] \/ wpc'[i] # "busy")
        BY <1>0, <1>3, <3>1 DEF Schedule, TypeOK
      <4> QED BY <1>0, <1>1, <2>2, <2>3, <4>1, AppendNoWork
    <3>2. CASE i # t
      <4>1. in'[i] = in[i] /\ wpc'[i] = wpc[i]
        BY <1>0, <1>3, <3>2 DEF Schedule, TypeOK
      <4> QED BY <1>1, <2>3, <4>1 DEF NoWork
    <3> QED BY <3>1, <3>2
  <2> QED BY <1>1, <2>1, <2>3, ItemsKept
<1> QED BY <1>0, <1>2, <1>3 DEF Main, CreateThread, SyncThread, RunMain, JoinMain, StopThread,
   ReleaseThread, CollectThread, ReapThread, Result, workerVars, queueVars

(* A worker computes the items of its slice.                               *)
LEMMA WorkStep ==
  ASSUME Counted, Shape, Items, NEW i \in Threads, FinishWork(i)
  PROVE  Items'
<1>0. TypeOK /\ ItemIdx \subseteq Nat
  BY ItemNat DEF Counted
<1>1. /\ wpc[i] = "busy" /\ cur[i].kind = "work" /\ wpc' = [wpc EXCEPT ![i] = "idle"]
      /\ UNCHANGED <<in, cur, distVars>>
      /\ done' = [j \in ItemIdx |->
                    IF cur[i].begin <= j /\ j < cur[i].end THEN done[j] + 1 ELSE done[j]]
  BY DEF FinishWork, Finished
<1>2. i \in Helpers /\ HasSlice(i)
  BY <1>1 DEF Items, NoWork
<1>3. PICK job \in Jobs : Holds(i, job)
  BY <1>0, <1>2, SliceHeld
<1>4. in[i] = <<>> /\ Asked(i) /\ Task(i) = cur[i]
  BY <1>1, <1>3, TaskHeld DEF Asked, Task
<1>5. ~Asked(i)' /\ \A k \in Threads : k # i => wpc'[k] = wpc[k]
  BY <1>0, <1>1, <1>4 DEF Asked, TypeOK
<1>6. \A k \in Helpers : HasSlice(k)' <=> HasSlice(k)
  BY <1>1 DEF HasSlice, distVars
<1>7. \A k \in Helpers, j \in ItemIdx : Pends(k, j)' <=> Pends(k, j) /\ k # i
  BY <1>1, <1>5, <1>6, ThreadFacts DEF Pends, Asked, Task
<1>8. \A j \in ItemIdx : done'[j] = IF Pends(i, j) THEN done[j] + 1 ELSE done[j]
  BY <1>1, <1>2, <1>4 DEF Pends
<1>9. ASSUME NEW j \in ItemIdx PROVE Item(j)'
  <2>1. Covered(j)' <=> Covered(j)
    BY <1>1 DEF Covered, distVars, callVars
  <2>2. Item(j)
    BY DEF Items
  <2> QED BY <1>2, <1>7, <1>8, <2>1, <2>2 DEF Item
<1>10. ASSUME NEW k \in Threads, NoWork(k) PROVE NoWork(k)'
  BY <1>1, <1>5, <1>10 DEF NoWork
<1> QED BY <1>1, <1>6, <1>9, <1>10 DEF Items, distVars, callVars

LEMMA WorkerKeepsItems ==
  ASSUME Counted, Shape, Items, NEW i \in Threads, Worker(i)
  PROVE  Items'
<1>0. TypeOK
  BY DEF Counted
<1>1. CASE FinishWork(i)
  BY <1>1, WorkStep
<1>2. CASE ~FinishWork(i)
  <2>1. UNCHANGED <<done, distVars>>
    BY <1>2 DEF Worker, StartWorker, FinishSetup, NextJob, FinishTape, SetStats, FinalCheck,
       ReportUsage, Exit
  <2>2. \A k \in Threads \ {i} : Same(k)
    BY <1>0, WorkerShape
  <2>3. ASSUME NoWork(i) PROVE NoWork(i)'
    <3>1. CASE TakeJob(i)
      <4>1. in[i] \in Seq(Jobs) /\ in[i] # <<>> /\ in'[i] = Tail(in[i])
        BY <1>0, <3>1 DEF TakeJob, TypeOK
      <4>2. Head(in[i]).kind # "work" /\ \A n \in DOMAIN Tail(in[i]) : Tail(in[i])[n].kind # "work"
        BY <2>3, <4>1 DEF NoWork
      <4>3. wpc'[i] = "busy" => cur'[i] = Head(in[i])
        BY <1>0, <1>2, <3>1 DEF Worker, StartWorker, FinishSetup, NextJob, FinishTape, SetStats,
           FinalCheck, ReportUsage, Exit, TypeOK
      <4> QED BY <4>1, <4>2, <4>3 DEF NoWork
    <3>2. CASE UNCHANGED in
      <4>1. wpc'[i] # "busy"
        BY <1>0, <1>2, <3>2 DEF Worker, StartWorker, FinishSetup, NextJob, FinishTape, SetStats,
           FinalCheck, ReportUsage, Exit, TypeOK, TakeJob
      <4> QED BY <2>3, <3>2, <4>1 DEF NoWork
    <3> QED BY <1>2, <3>1, <3>2 DEF Worker, StartWorker, FinishSetup, NextJob, FinishTape,
       SetStats, FinalCheck, ReportUsage, Exit, Finished, queueVars
  <2>4. ASSUME i \in Helpers, HasSlice(i)
        PROVE  (Asked(i)' <=> Asked(i)) /\ (Asked(i) => Task(i)' = Task(i))
    <3>1. PICK job \in Jobs : Holds(i, job) /\ job.kind = "work"
      BY <1>0, <2>4, SliceHeld DEF Work, Job
    <3>2. CASE NextJob(i)
      <4>1. /\ in[i] = <<job>> /\ in'[i] = <<>> /\ cur'[i] = job /\ wpc'[i] = "busy"
        BY <1>0, <3>1, <3>2, OneJob DEF NextJob, TakeJob, Holds, TypeOK
      <4> QED BY <4>1, OneJob DEF Asked, Task
    <3>3. CASE SetStats(i)
      <4>1. in' = in /\ cur' = cur /\ wpc[i] = "stats" /\ wpc'[i] = "idle"
        BY <1>0, <3>3 DEF SetStats, queueVars, TypeOK
      <4> QED BY <4>1 DEF Asked, Task
    <3>4. wpc[i] \in {"idle", "stats", "busy"} /\ (wpc[i] = "busy" => cur[i].kind = "work")
      BY <3>1 DEF Holds, Resting
    <3>5. NextJob(i) \/ SetStats(i)
      BY <1>2, <3>4 DEF Worker, StartWorker, FinishSetup, FinishTape, FinalCheck, ReportUsage, Exit
    <3> QED BY <3>2, <3>3, <3>5
  <2>5. \A k \in Threads : NoWork(k) => NoWork(k)'
    BY <2>2, <2>3 DEF NoWork, Same
  <2>6. \A k \in Helpers : HasSlice(k) =>
           (Asked(k)' <=> Asked(k)) /\ (Asked(k) => Task(k)' = Task(k))
    BY <2>2, <2>4, ThreadFacts DEF Asked, Task, Same
  <2> QED BY <2>1, <2>5, <2>6, ItemsKept
<1> QED BY <1>1, <1>2

(* The main tape's other jobs.                                             *)
LEMMA TapesKeepItems ==
  ASSUME Counted, Shape, Items, NEW i \in Threads,
         (i \in Helpers /\ (RunTape(i) \/ JoinTape(i))) \/ EndMainTape
  PROVE  Items'
<1>0. TypeOK /\ 0 \in Threads /\ Helpers \subseteq Threads
  BY ThreadFacts DEF Counted
<1>1. dpc = "none" /\ UNCHANGED <<done, distVars, cur>>
  BY DEF RunTape, JoinTape, EndMainTape, workerVars
<1>2. \A k \in Helpers : ~HasSlice(k)
  BY <1>1 DEF HasSlice
<1>3. ASSUME NEW k \in Threads, NoWork(k) PROVE NoWork(k)'
  <2>1. CASE k = i /\ RunTape(i)
    <3>1. Tape(started + 1) \in Jobs /\ Tape(started + 1).kind # "work"
      BY <1>0, JobTypes, SizeAssumption DEF TypeOK, Tape, Job
    <3>2. in'[i] = Append(in[i], Tape(started + 1)) /\ wpc' = wpc
      BY <1>0, <2>1 DEF RunTape, Schedule, TypeOK, workerVars
    <3> QED BY <1>0, <1>1, <1>3, <2>1, <3>1, <3>2, AppendNoWork
  <2>2. CASE ~(k = i /\ RunTape(i))
    <3>1. in'[k] = in[k] /\ (wpc'[k] = wpc[k] \/ wpc'[k] # "busy")
      BY <1>0, <2>2 DEF RunTape, JoinTape, EndMainTape, Schedule, Result, Finished, TypeOK,
         workerVars
    <3> QED BY <1>1, <1>3, <3>1 DEF NoWork
  <2> QED BY <2>1, <2>2
<1> QED BY <1>1, <1>2, <1>3, ItemsKept

(* A computation begins when no thread has a slice.                        *)
LEMMA DistributeItems ==
  ASSUME Counted, Shape, Items, NEW n \in Nat, NEW b \in Nat, NEW g \in Nat, Distribute(n, b, g)
  PROVE  Items'
<1>0. TypeOK
  BY DEF Counted
<1>1. /\ dpc = "none" /\ dpc' \in {"own", "slices"} /\ start' = b /\ base' = b
      /\ todo' = avail' /\ (dpc' = "own" => avail' = {}) /\ UNCHANGED <<in, wpc, cur>>
      /\ done' = [j \in ItemIdx |-> 0]
  BY DEF Distribute, workerVars, queueVars
<1>2. \A i \in Helpers : ~HasSlice(i) /\ ~HasSlice(i)'
  BY <1>1 DEF HasSlice
<1>3. \A i \in Threads : NoWork(i)'
  BY <1>1, <1>2 DEF Items, NoWork
<1>4. ASSUME NEW j \in ItemIdx PROVE Item(j)'
  <2>1. ~Covered(j)'
    BY <1>1, ItemNat DEF Covered
  <2> QED BY <1>1, <1>2, <2>1 DEF Item, Pends
<1> QED BY <1>1, <1>3, <1>4 DEF Items

(* A slice covers the items that follow those given out.                   *)
LEMMA SliceItems ==
  ASSUME Counted, Shape, Items, NEW i \in Helpers, Slice(i)
  PROVE  Items'
<1>0. /\ TypeOK /\ ItemIdx \subseteq Nat /\ i \in Threads
      /\ size \in Nat /\ base \in Nat /\ start \in Nat
  BY ItemNat, ThreadFacts DEF Counted, TypeOK
<1>b. batch \in Nat
  BY SizeAssumption DEF Counted, TypeOK
<1> PICK per \in Nat : per = PerThread(size, Cardinality(avail), grain)
  BY PerThreadNat, CountNat DEF Counted, TypeOK
<1>1. /\ dpc = "slices" /\ i \in todo /\ todo \subseteq avail
      /\ UNCHANGED <<done, batch, size, base, grain, wpc, cur>>
  BY <1>0 DEF Slice, IsNext, TypeOK, workerVars, callVars
<1>2. CASE start + per > size
  <2>1. avail' = avail \ todo /\ dpc' = "own" /\ start' = start /\ in' = in
    BY <1>2 DEF Slice, queueVars
  <2>2. \A k \in Helpers : HasSlice(k)' <=> HasSlice(k)
    BY <1>1, <2>1 DEF HasSlice
  <2>3. \A k \in Helpers, j \in ItemIdx : Pends(k, j)' <=> Pends(k, j)
    BY <1>1, <2>1, <2>2 DEF Pends, Asked, Task
  <2>4. \A j \in ItemIdx : (Covered(j)' <=> Covered(j)) /\ done'[j] = done[j]
    BY <1>1, <2>1 DEF Covered
  <2>5. \A j \in ItemIdx : Item(j)'
    BY <2>3, <2>4 DEF Items, Item
  <2>6. \A k \in Threads : NoWork(k) => NoWork(k)'
    BY <1>1, <2>1 DEF NoWork
  <2> QED BY <1>1, <2>1, <2>2, <2>5, <2>6 DEF Items
<1>3. CASE ~(start + per > size)
  <2> PICK job \in Jobs : job = Work(batch, start, start + per)
    BY <1>0, <1>b, JobTypes
  <2>1. /\ Schedule(i, job) /\ start' = start + per /\ todo' = todo \ {i} /\ avail' = avail
        /\ dpc' = IF todo' = {} THEN "own" ELSE "slices"
    BY <1>1, <1>3 DEF Slice
  <2>2. /\ in[i] = <<>> /\ wpc[i] # "busy" /\ ~HasSlice(i)
    <3>1. InMainTape /\ Outstanding
      BY <1>0, <1>1, OnlyInJoin DEF Shape, Spread, InJoin
    <3>2. ~HasSlice(i)
      BY <1>1 DEF HasSlice
    <3>3. run[i] = 0
      BY <1>1, <3>1 DEF Outstanding, HoldsTape
    <3> QED BY <3>1, <3>2, <3>3 DEF Outstanding, HoldsNothing, Idle, Resting
  <2>3. in'[i] = <<job>> /\ \A k \in Threads : k # i => in'[k] = in[k]
    BY <1>0, <2>1, <2>2, OneJob DEF Schedule, TypeOK
  <2>4. HasSlice(i)' /\ \A k \in Helpers : k # i => (HasSlice(k)' <=> HasSlice(k))
    BY <1>1, <2>1 DEF HasSlice
  <2>5. Asked(i)' /\ Task(i)' = job /\ job.begin = start /\ job.end = start + per
    BY <2>3, OneJob DEF Asked, Task, Work, Job
  <2>6. ASSUME NEW j \in ItemIdx
        PROVE  /\ Pends(i, j)' <=> start <= j /\ j < start + per
               /\ ~Pends(i, j)
               /\ \A k \in Helpers : k # i => (Pends(k, j)' <=> Pends(k, j))
    BY <1>1, <2>2, <2>3, <2>4, <2>5, ThreadFacts DEF Pends, Asked, Task
  <2>7. ASSUME NEW j \in ItemIdx
        PROVE  Covered(j)' <=> Covered(j) \/ (start <= j /\ j < start + per)
    <3>1. j \in Nat /\ base <= start
      BY <1>0 DEF Shape, Spread
    <3> QED BY <1>0, <1>1, <2>1, <3>1 DEF Covered
  <2>9. ASSUME NEW j \in ItemIdx PROVE Item(j)'
    <3>1. Item(j) /\ done'[j] = done[j] /\ i \in Helpers
      BY <1>1 DEF Items
    <3>2. CASE start <= j /\ j < start + per
      <4>1. ~Covered(j)
        BY <1>0, <1>1, <3>2 DEF Covered
      <4> QED BY <2>6, <2>7, <3>1, <3>2, <4>1 DEF Item
    <3>3. CASE ~(start <= j /\ j < start + per)
      <4>1. \A k \in Helpers : Pends(k, j)' <=> Pends(k, j)
        BY <2>6, <3>3
      <4> QED BY <2>7, <3>1, <3>3, <4>1 DEF Item
    <3> QED BY <3>2, <3>3
  <2>10. \A k \in Threads : k # i /\ NoWork(k) => NoWork(k)'
    BY <1>1, <2>3 DEF NoWork
  <2>11. start' <= size'
    BY <1>0, <1>1, <1>3, <2>1
  <2> QED BY <1>1, <2>4, <2>9, <2>10, <2>11 DEF Items
<1> QED BY <1>2, <1>3

(* The caller's part is what is left.                                      *)
LEMMA OwnItems ==
  ASSUME Counted, Shape, Items, OwnPart
  PROVE  Items'
<1>0. /\ TypeOK /\ ItemIdx \subseteq Nat
      /\ size \in Nat /\ base \in Nat /\ start \in Nat
  BY ItemNat DEF Counted, TypeOK
<1>1. /\ dpc = "own" /\ todo' = avail /\ UNCHANGED <<in, wpc, cur, avail, start, size, base>>
      /\ dpc' = IF start > base \/ size = 0 THEN "wrap" ELSE "none"
      /\ done' = [j \in ItemIdx |->
                    IF start <= j /\ j < base + size THEN done[j] + 1 ELSE done[j]]
  BY DEF OwnPart, workerVars, queueVars, callVars
<1>2. base <= start /\ (start = base \/ start <= size) /\ (dpc' = "none" => avail = {})
  BY <1>0, <1>1 DEF Shape, Spread, Items
<1>3. \A k \in Helpers : HasSlice(k)' <=> HasSlice(k)
  BY <1>1, <1>2 DEF HasSlice
<1>4. \A k \in Helpers, j \in ItemIdx : Pends(k, j)' <=> Pends(k, j)
  BY <1>1, <1>3 DEF Pends, Asked, Task
<1>5. ASSUME NEW j \in ItemIdx PROVE Item(j)'
  <2>1. /\ Covered(j) <=> base <= j /\ j < start
        /\ Covered(j)' <=> base <= j /\ j < base + size
        /\ j \in Nat
    BY <1>0, <1>1 DEF Covered
  <2>2. Item(j)
    BY DEF Items
  <2>3. CASE start <= j /\ j < base + size
    <3>1. ~Covered(j) /\ Covered(j)'
      BY <1>0, <1>2, <2>1, <2>3
    <3> QED BY <1>1, <1>4, <2>2, <2>3, <3>1 DEF Item
  <2>4. CASE ~(start <= j /\ j < base + size)
    <3>1. Covered(j)' <=> Covered(j)
      BY <1>0, <1>2, <2>1, <2>4
    <3> QED BY <1>1, <1>4, <2>2, <2>4, <3>1 DEF Item
  <2> QED BY <2>3, <2>4
<1>6. \A k \in Threads : NoWork(k) => NoWork(k)'
  BY <1>1 DEF NoWork
<1> QED BY <1>1, <1>3, <1>5, <1>6 DEF Items

(* Only what is answered is taken back.                                    *)
LEMMA WrapItems ==
  ASSUME Counted, Shape, Items, NEW i \in Helpers, WrapUp(i)
  PROVE  Items'
<1>0. TypeOK /\ i \in Threads
  BY ThreadFacts DEF Counted
<1>1. /\ dpc = "wrap" /\ i \in todo /\ out[i] # <<>> /\ todo' = todo \ {i}
      /\ UNCHANGED <<in, wpc, cur, dpc, avail, start, size, base, done>>
  BY DEF WrapUp, IsNext, Result, workerVars, callVars
<1>2. HasSlice(i) /\ ~HasSlice(i)' /\ \A k \in Helpers : k # i => (HasSlice(k)' <=> HasSlice(k))
  BY <1>0, <1>1 DEF HasSlice, TypeOK
<1>3. PICK job \in Jobs : Holds(i, job)
  BY <1>0, <1>2, SliceHeld
<1>4. ~Asked(i)
  BY <1>0, <1>1, <1>3, TaskHeld
<1>5. in[i] = <<>> /\ wpc[i] # "busy"
  BY <1>4 DEF Asked
<1>6. \A k \in Helpers, j \in ItemIdx : Pends(k, j)' <=> Pends(k, j)
  BY <1>1, <1>2, <1>4 DEF Pends, Asked, Task
<1>7. ASSUME NEW j \in ItemIdx PROVE Item(j)'
  <2>1. (Covered(j)' <=> Covered(j)) /\ done'[j] = done[j]
    BY <1>1 DEF Covered
  <2> QED BY <1>6, <2>1 DEF Items, Item
<1>8. \A k \in Threads : (NoWork(k) => NoWork(k)') /\ NoWork(i)'
  BY <1>0, <1>1, <1>5 DEF NoWork, TypeOK
<1> QED BY <1>0, <1>1, <1>2, <1>7, <1>8 DEF Items

LEMMA EndItems ==
  ASSUME Items, EndWrapUp
  PROVE  Items'
<1>1. /\ dpc = "wrap" /\ todo = {} /\ dpc' = "none"
      /\ UNCHANGED <<in, wpc, cur, start, size, base, done>>
  BY DEF EndWrapUp, workerVars, queueVars, callVars
<1>2. \A k \in Helpers : ~HasSlice(k) /\ ~HasSlice(k)'
  BY <1>1 DEF HasSlice
<1>3. ASSUME NEW j \in ItemIdx PROVE Item(j)'
  <2>1. (Covered(j)' <=> Covered(j)) /\ done'[j] = done[j]
    BY <1>1 DEF Covered
  <2> QED BY <1>2, <2>1 DEF Items, Item, Pends
<1>4. \A k \in Threads : NoWork(k) => NoWork(k)'
  BY <1>1 DEF NoWork
<1> QED BY <1>1, <1>2, <1>3, <1>4 DEF Items

LEMMA ItemsNext == Counted /\ Shape /\ Items /\ [Next]_vars => Items'
<1> SUFFICES ASSUME Counted, Shape, Items, [Next]_vars PROVE Items'
  OBVIOUS
<1>1. CASE MainTape
  <2>1. ASSUME NEW c \in Calls, Distribute(c.items, c.base, c.grain) PROVE Items'
    <3>1. c.items \in Nat /\ c.base \in Nat /\ c.grain \in Nat
      BY CallsAssumption
    <3> QED BY <2>1, <3>1, DistributeItems
  <2> QED BY <1>1, <2>1, ThreadFacts, TapesKeepItems, SliceItems, WrapItems, OwnItems, EndItems
          DEF MainTape
<1>2. CASE Finish \/ UNCHANGED vars
  <2>1. UNCHANGED <<in, wpc, cur, done, distVars>>
    BY <1>2 DEF Finish, vars, workerVars, queueVars
  <2> QED BY <2>1, ItemsKept DEF NoWork, Asked, Task
<1> QED BY <1>1, <1>2, MainKeepsItems, WorkerKeepsItems DEF Next

(* A distributed computation computes every item exactly once, for every   *)
(* number of items, base, granularity and set of free threads.             *)
THEOREM ItemsOnce == Spec => []EveryItemOnce
<1>1. Counted /\ Items => EveryItemOnce
  <2> SUFFICES ASSUME Counted, Items, dpc = "none", NEW j \in ItemIdx
               PROVE  done[j] = IF base <= j /\ j < base + size THEN 1 ELSE 0
    BY DEF EveryItemOnce
  <2>1. \A k \in Helpers : ~Pends(k, j)
    BY DEF Pends, HasSlice
  <2>2. Covered(j) <=> base <= j /\ j < base + size
    BY DEF Covered
  <2> QED BY <2>1, <2>2 DEF Items, Item
<1> QED BY <1>1, CountedInit, CountedNext, ShapeInit, ShapeNext, ItemsInit, ItemsNext, PTL DEF Spec

---------------------------------------------------------------------------
(***************************************************************************)
(* The tapes.  A tape waits at the head of a thread's queue, runs, or has  *)
(* run; behind the head there is none, so that a stop job never comes      *)
(* before a tape.                                                          *)
(***************************************************************************)
Waits(i, k) == in[i] # <<>> /\ Head(in[i]).kind = "tape" /\ Head(in[i]).id = k
Runs(i, k) == wpc[i] = "busy" /\ cur[i].kind = "tape" /\ cur[i].id = k
Has(i, k) == Waits(i, k) \/ Runs(i, k)

OnlyFirst(i) ==
  /\ \A n \in DOMAIN in[i] : n > 1 => in[i][n].kind # "tape"
  /\ in[i] # <<>> /\ Head(in[i]).kind = "tape" => Resting(i)

Answered(i) == \A n \in DOMAIN out[i] : out[i][n].kind = "tape" => out[i][n].id \in Ran

TapesInv ==
  /\ \A i \in Threads : OnlyFirst(i)
  /\ \A k \in Nat : Has(0, k) => k = 0
  /\ \A i \in Helpers, k \in Nat : Has(i, k) => k \in 1 .. started /\ k \notin Ran
  /\ \A i, h \in Helpers, k \in Nat : Has(i, k) /\ Has(h, k) => i = h
  /\ \A k \in 1 .. started : k \in Ran \/ \E i \in Helpers : Has(i, k)
  /\ Ran \subseteq 1 .. started
  /\ \A i \in Helpers : Answered(i)

(* What one thread has run.                                                *)
RanOn(i) == {ran[i][n] : n \in DOMAIN ran[i]}

LEMMA RanFacts ==
  /\ Ran = UNION {RanOn(i) : i \in Helpers}
  /\ Ran' = UNION {RanOn(i)' : i \in Helpers}
BY DEF Ran, RanOn

LEMMA SameTapes ==
  ASSUME NEW i \in Threads, in'[i] = in[i], wpc'[i] = wpc[i], cur'[i] = cur[i]
  PROVE  /\ OnlyFirst(i)' <=> OnlyFirst(i)
         /\ \A k \in Nat : Has(i, k)' <=> Has(i, k)
BY DEF OnlyFirst, Resting, Has, Waits, Runs

(* The queue of a thread after a job was put in it, or taken from it.      *)
LEMMA AppendFirst ==
  ASSUME NEW i \in Threads, in[i] \in Seq(Jobs), OnlyFirst(i), NEW job \in Jobs,
         in'[i] = Append(in[i], job), wpc'[i] = wpc[i] \/ ~Resting(i),
         job.kind # "tape" \/ (in[i] = <<>> /\ Resting(i)')
  PROVE  /\ OnlyFirst(i)' /\ in'[i] # <<>>
         /\ in[i] # <<>> => Head(in'[i]) = Head(in[i])
         /\ in[i] = <<>> => Head(in'[i]) = job
<1>1. CASE in[i] = <<>>
  <2>1. in'[i] = <<job>>
    BY <1>1, OneJob
  <2>2. \A n \in DOMAIN <<job>> : ~(n > 1)
    OBVIOUS
  <2> QED BY <1>1, <2>1, <2>2, OneJob DEF OnlyFirst, Resting
<1>2. CASE in[i] # <<>>
  <2>1. /\ Head(Append(in[i], job)) = Head(in[i]) /\ Append(in[i], job) # <<>>
        /\ \A n \in DOMAIN Append(in[i], job) :
             \/ n \in DOMAIN in[i] /\ Append(in[i], job)[n] = in[i][n]
             \/ Append(in[i], job)[n] = job
    BY <1>2
  <2> QED BY <1>2, <2>1 DEF OnlyFirst, Resting
<1> QED BY <1>1, <1>2

LEMMA TakeFirst ==
  ASSUME NEW i \in Threads, in[i] \in Seq(Jobs), OnlyFirst(i), in[i] # <<>>,
         in'[i] = Tail(in[i])
  PROVE  OnlyFirst(i)' /\ \A k \in Nat : ~Waits(i, k)'
<1>1. \A n \in DOMAIN Tail(in[i]) : /\ n + 1 \in DOMAIN in[i] /\ n + 1 > 1
                                    /\ Tail(in[i])[n] = in[i][n + 1]
  OBVIOUS
<1>2. \A n \in DOMAIN Tail(in[i]) : Tail(in[i])[n].kind # "tape"
  BY <1>1 DEF OnlyFirst
<1>3. Tail(in[i]) # <<>> => 1 \in DOMAIN Tail(in[i]) /\ Head(Tail(in[i])) = Tail(in[i])[1]
  OBVIOUS
<1> QED BY <1>2, <1>3 DEF OnlyFirst, Waits

(* Steps that move no tape.                                                *)
LEMMA TapesKept ==
  ASSUME TapesInv, UNCHANGED <<started, ran>>,
         \A i \in Threads : OnlyFirst(i)' /\ \A k \in Nat : Has(i, k)' <=> Has(i, k),
         \A i \in Helpers : Answered(i)'
  PROVE  TapesInv'
<1>1. Ran' = Ran
  BY DEF Ran
<1>2. Helpers \subseteq Threads /\ 0 \in Threads /\ \A k \in 1 .. started : k \in Nat
  BY ThreadFacts
<1> QED BY <1>1, <1>2 DEF TapesInv

LEMMA AnsweredAppend ==
  ASSUME NEW i \in Threads, out[i] \in Seq(Jobs), Answered(i), NEW job \in Jobs,
         out'[i] = Append(out[i], job), Ran \subseteq Ran',
         job.kind = "tape" => job.id \in Ran'
  PROVE  Answered(i)'
<1>1. \A n \in DOMAIN Append(out[i], job) :
        \/ n \in DOMAIN out[i] /\ Append(out[i], job)[n] = out[i][n]
        \/ Append(out[i], job)[n] = job
  OBVIOUS
<1> QED BY <1>1 DEF Answered

(* A job other than a tape is scheduled, and a thread may begin.           *)
LEMMA ScheduleTapes ==
  ASSUME TypeOK, TapesInv, NEW i \in Threads, NEW job \in Jobs, Schedule(i, job),
         job.kind # "tape", UNCHANGED <<started, ran, cur>>,
         wpc' = wpc \/ (wpc[i] = "none" /\ wpc' = [wpc EXCEPT ![i] = "init"])
  PROVE  TapesInv'
<1>1. /\ in[i] \in Seq(Jobs) /\ in'[i] = Append(in[i], job) /\ out' = out
      /\ \A k \in Threads \ {i} : in'[k] = in[k] /\ wpc'[k] = wpc[k]
      /\ wpc'[i] = wpc[i] \/ (~Resting(i) /\ wpc[i] # "busy" /\ wpc'[i] # "busy")
  BY DEF TypeOK, Schedule, Resting
<1>2. Ran' = Ran
  BY DEF Ran
<1>3. \A k \in Helpers : Answered(k)'
  BY <1>1, <1>2 DEF TapesInv, Answered
<1>4. OnlyFirst(i)
  BY DEF TapesInv
<1>5. /\ OnlyFirst(i)' /\ in'[i] # <<>>
      /\ in[i] # <<>> => Head(in'[i]) = Head(in[i])
      /\ in[i] = <<>> => Head(in'[i]) = job
  BY <1>1, <1>4, AppendFirst
<1>6. \A k \in Nat : Has(i, k)' <=> Has(i, k)
  BY <1>1, <1>5 DEF Has, Waits, Runs
<1>7. ASSUME NEW h \in Threads \ {i}
      PROVE  OnlyFirst(h)' /\ \A k \in Nat : Has(h, k)' <=> Has(h, k)
  BY <1>1, SameTapes DEF TapesInv
<1> QED BY <1>3, <1>5, <1>6, <1>7, TapesKept

(* A result is read.                                                       *)
LEMMA ResultTapes ==
  ASSUME TypeOK, TapesInv, NEW i \in Threads, Result(i), UNCHANGED <<started, ran, cur, wpc>>
  PROVE  TapesInv'
<1>1. /\ out[i] \in Seq(Jobs) /\ out[i] # <<>> /\ out'[i] = Tail(out[i]) /\ in' = in
      /\ \A k \in Threads \ {i} : out'[k] = out[k]
  BY DEF TypeOK, Result
<1>2. Ran' = Ran
  BY DEF Ran
<1>3. \A n \in DOMAIN Tail(out[i]) : n + 1 \in DOMAIN out[i] /\ Tail(out[i])[n] = out[i][n + 1]
  BY <1>1
<1>4. ASSUME NEW k \in Helpers PROVE Answered(k)'
  <2>1. Answered(k) /\ k \in Threads
    BY ThreadFacts DEF TapesInv
  <2>2. CASE k = i
    <3> SUFFICES ASSUME NEW n \in DOMAIN Tail(out[i]), Tail(out[i])[n].kind = "tape"
                 PROVE  Tail(out[i])[n].id \in Ran
      BY <1>1, <1>2, <2>2 DEF Answered
    <3> QED BY <1>3, <2>1, <2>2 DEF Answered
  <2>3. CASE k # i
    BY <1>1, <1>2, <2>1, <2>3 DEF Answered
  <2> QED BY <2>2, <2>3
<1>5. \A h \in Threads : OnlyFirst(h)' /\ \A k \in Nat : Has(h, k)' <=> Has(h, k)
  BY <1>1, SameTapes DEF TapesInv
<1> QED BY <1>4, <1>5, TapesKept

(* Nothing happens to the queues.                                          *)
LEMMA StillTapes ==
  ASSUME TypeOK, TapesInv, UNCHANGED <<in, out, started, ran, cur, wpc>>
  PROVE  TapesInv'
<1>1. Ran' = Ran
  BY DEF Ran
<1>2. \A k \in Helpers : Answered(k)'
  BY <1>1 DEF TapesInv, Answered
<1>3. \A h \in Threads : OnlyFirst(h)' /\ \A k \in Nat : Has(h, k)' <=> Has(h, k)
  BY SameTapes DEF TapesInv
<1> QED BY <1>2, <1>3, TapesKept

(* A tape runs for the first time, and on no other thread.                 *)
LEMMA RunsTape ==
  ASSUME TypeOK, TapesInv, NEW i \in Threads, FinishTape(i)
  PROVE  /\ i \in Helpers /\ cur[i].id \in 1 .. started /\ cur[i].id \notin Ran
         /\ RanOn(i)' = RanOn(i) \cup {cur[i].id}
         /\ Ran' = Ran \cup {cur[i].id}
<1> PICK k \in Nat : k = cur[i].id
  BY DEF TypeOK, Jobs
<1>1. /\ ran[i] \in Seq(Nat) /\ cur[i].kind = "tape" /\ k # 0 /\ wpc[i] = "busy"
      /\ ran'[i] = Append(ran[i], k) /\ \A h \in Threads \ {i} : ran'[h] = ran[h]
  BY DEF TypeOK, FinishTape
<1>2. Has(i, k)
  BY <1>1 DEF Has, Runs
<1>3. i \in Helpers
  <2>1. i # 0
    BY <1>1, <1>2 DEF TapesInv
  <2> QED BY <2>1, SizeAssumption DEF Threads, Helpers
<1>4. k \in 1 .. started /\ k \notin Ran
  BY <1>2, <1>3 DEF TapesInv
<1>5. RanOn(i)' = RanOn(i) \cup {k}
  <2>1. DOMAIN Append(ran[i], k) = DOMAIN ran[i] \cup {Len(ran[i]) + 1}
    BY <1>1
  <2>2. \A n \in DOMAIN ran[i] : Append(ran[i], k)[n] = ran[i][n]
    BY <1>1
  <2>3. Append(ran[i], k)[Len(ran[i]) + 1] = k
    BY <1>1
  <2>4. {ran[i][n] : n \in DOMAIN ran[i]} \cup {k}
          = {Append(ran[i], k)[n] : n \in DOMAIN Append(ran[i], k)}
    BY <2>1, <2>2, <2>3
  <2>5. RanOn(i)' = {Append(ran[i], k)[n] : n \in DOMAIN Append(ran[i], k)}
    BY <1>1 DEF RanOn
  <2> QED BY <2>4, <2>5 DEF RanOn
<1>6. \A h \in Helpers \ {i} : RanOn(h)' = RanOn(h)
  BY <1>1, ThreadFacts DEF RanOn
<1> QED BY <1>3, <1>4, <1>5, <1>6, RanFacts

(* The workers.                                                            *)
LEMMA WorkerTapes ==
  ASSUME TypeOK, TapesInv, NEW i \in Threads, Worker(i)
  PROVE  TapesInv'
<1>0. /\ in \in [Threads -> Seq(Jobs)] /\ out \in [Threads -> Seq(Jobs)]
      /\ wpc \in [Threads -> {"none", "init", "setup", "idle", "busy", "stats", "final",
                             "report", "bye", "exited"}]
      /\ cur \in [Threads -> Jobs] /\ ran \in [Threads -> Seq(Nat)]
  BY DEF TypeOK
<1>1. /\ UNCHANGED started
      /\ \A h \in Threads \ {i} : in'[h] = in[h] /\ wpc'[h] = wpc[h] /\ cur'[h] = cur[h]
                                  /\ out'[h] = out[h]
  BY <1>0 DEF Worker, StartWorker, FinishSetup, NextJob, FinishWork, FinishTape, SetStats,
     FinalCheck, ReportUsage, Exit, TakeJob, Finished, queueVars, tapeVars
<1>2. \A h \in Threads \ {i} : OnlyFirst(h)' /\ \A k \in Nat : Has(h, k)' <=> Has(h, k)
  BY <1>1, SameTapes DEF TapesInv
<1>3. OnlyFirst(i)
  BY DEF TapesInv
<1>4. ASSUME StartWorker(i) \/ FinalCheck(i) PROVE TapesInv'
  <2>1. /\ in[i] # <<>> /\ in'[i] = Tail(in[i]) /\ out' = out /\ ran' = ran
        /\ wpc[i] \in {"init", "final"} /\ wpc'[i] \in {"setup", "report"}
    BY <1>0, <1>4 DEF StartWorker, FinalCheck, TakeJob
  <2>2. OnlyFirst(i)' /\ \A k \in Nat : ~Waits(i, k)'
    BY <1>0, <1>3, <2>1, TakeFirst
  <2>3. \A k \in Nat : Has(i, k)' <=> Has(i, k)
    BY <1>3, <2>1, <2>2 DEF OnlyFirst, Resting, Has, Waits, Runs
  <2>4. \A h \in Helpers : Answered(h)'
    BY <2>1 DEF TapesInv, Answered, Ran
  <2> QED BY <1>1, <1>2, <2>1, <2>2, <2>3, <2>4, TapesKept
<1>5. ASSUME NextJob(i) PROVE TapesInv'
  <2>1. /\ in[i] # <<>> /\ in'[i] = Tail(in[i]) /\ out' = out /\ ran' = ran
        /\ wpc[i] = "idle" /\ cur'[i] = Head(in[i])
        /\ wpc'[i] = IF Head(in[i]).kind = "stop" THEN "final" ELSE "busy"
    BY <1>0, <1>5 DEF NextJob, TakeJob
  <2>2. OnlyFirst(i)' /\ \A k \in Nat : ~Waits(i, k)'
    BY <1>0, <1>3, <2>1, TakeFirst
  <2>3. \A k \in Nat : Has(i, k)' <=> Has(i, k)
    BY <2>1, <2>2 DEF Has, Waits, Runs
  <2>4. \A h \in Helpers : Answered(h)'
    BY <2>1 DEF TapesInv, Answered, Ran
  <2> QED BY <1>1, <1>2, <2>1, <2>2, <2>3, <2>4, TapesKept
<1>6. ASSUME FinishSetup(i) \/ FinishWork(i) \/ ReportUsage(i) PROVE TapesInv'
  <2>1. PICK job \in Jobs : /\ job.kind # "tape" /\ out'[i] = Append(out[i], job)
                            /\ in' = in /\ ran' = ran
                            /\ ~Resting(i) /\ (wpc[i] = "busy" => cur[i].kind # "tape")
                            /\ wpc'[i] # "busy"
    <3>1. CASE FinishSetup(i)
      <4>1. Empty \in Jobs /\ Empty.kind # "tape"
        BY JobTypes DEF Empty, Job
      <4> QED BY <1>0, <3>1, <4>1 DEF FinishSetup, Finished, Resting
    <3>2. CASE FinishWork(i)
      <4>1. cur[i] \in Jobs
        BY <1>0
      <4> QED BY <1>0, <3>2, <4>1 DEF FinishWork, Finished, Resting
    <3>3. CASE ReportUsage(i)
      <4>1. Report(Usage(i)) \in Jobs /\ Report(Usage(i)).kind # "tape"
        BY UsageNat, JobTypes DEF Report, Job
      <4> QED BY <1>0, <3>3, <4>1 DEF ReportUsage, Finished, Resting
    <3> QED BY <1>6, <3>1, <3>2, <3>3
  <2>2. OnlyFirst(i)' /\ \A k \in Nat : Has(i, k)' <=> Has(i, k)
    BY <1>3, <2>1 DEF OnlyFirst, Has, Waits, Runs
  <2>3. Ran' = Ran
    BY <2>1 DEF Ran
  <2>4. i \in Helpers => Answered(i)'
    BY <1>0, <2>1, <2>3, AnsweredAppend DEF TapesInv
  <2>5. \A h \in Helpers \ {i} : Answered(h)'
    BY <1>1, <2>3, ThreadFacts DEF TapesInv, Answered
  <2> QED BY <1>1, <1>2, <2>1, <2>2, <2>4, <2>5, TapesKept
<1>7. ASSUME FinishTape(i) PROVE TapesInv'
  <2> PICK k \in Nat : k = cur[i].id
    BY <1>0 DEF Jobs
  <2>1. /\ in' = in /\ out'[i] = Append(out[i], cur[i]) /\ cur[i].kind = "tape" /\ k # 0
        /\ wpc[i] = "busy" /\ wpc'[i] = "stats"
        /\ ran'[i] = Append(ran[i], k) /\ \A h \in Threads \ {i} : ran'[h] = ran[h]
    BY <1>0, <1>7 DEF FinishTape, Finished
  <2>2. Has(i, k)
    BY <2>1 DEF Has, Runs
  <2>3. i \in Helpers /\ k \in 1 .. started /\ k \notin Ran /\ Ran' = Ran \cup {k}
    BY <1>7, RunsTape
  <2>4. OnlyFirst(i)' /\ \A h \in Nat : Has(i, h) => h = k
    BY <1>3, <2>1 DEF OnlyFirst, Resting, Has, Waits, Runs
  <2>5. \A h \in Nat : ~Has(i, h)'
    BY <1>3, <2>1 DEF OnlyFirst, Resting, Has, Waits, Runs
  <2>6. Ran' = Ran \cup {k}
    BY <2>3
  <2>7. \A h \in Helpers : Answered(h)'
    <3>1. Answered(i)'
      BY <1>0, <2>1, <2>3, <2>6, AnsweredAppend DEF TapesInv
    <3>2. \A h \in Helpers \ {i} : Answered(h)'
      BY <1>1, <2>6, ThreadFacts DEF TapesInv, Answered
    <3> QED BY <3>1, <3>2
  <2>8. \A h \in Threads : OnlyFirst(h)'
    BY <1>2, <2>4
  <2>9. \A h \in Nat : Has(0, h)' => h = 0
    BY <1>2, <2>3, ThreadFacts DEF TapesInv
  <2>10. ASSUME NEW h \in Helpers, NEW m \in Nat, Has(h, m)'
         PROVE  h # i /\ Has(h, m) /\ m # k
    BY <1>2, <2>2, <2>3, <2>5, <2>10, ThreadFacts DEF TapesInv
  <2>11. \A h \in Helpers, m \in Nat : Has(h, m)' => m \in 1 .. started' /\ m \notin Ran'
    BY <1>1, <2>6, <2>10 DEF TapesInv
  <2>12. \A h, g \in Helpers, m \in Nat : Has(h, m)' /\ Has(g, m)' => h = g
    BY <2>10 DEF TapesInv
  <2>13. \A m \in 1 .. started' : m \in Ran' \/ \E h \in Helpers : Has(h, m)'
    <3> SUFFICES ASSUME NEW m \in 1 .. started, m \notin Ran, m # k
                 PROVE  \E h \in Helpers : Has(h, m)'
      BY <1>1, <2>6
    <3>1. PICK h \in Helpers : Has(h, m)
      BY DEF TapesInv
    <3>2. m \in Nat /\ h \in Threads /\ h # i
      BY <2>4, <3>1, ThreadFacts
    <3> QED BY <1>2, <3>1, <3>2
  <2>14. Ran' \subseteq 1 .. started'
    BY <1>1, <2>3, <2>6 DEF TapesInv
  <2> QED BY <2>7, <2>8, <2>9, <2>11, <2>12, <2>13, <2>14 DEF TapesInv
<1>8. ASSUME SetStats(i) \/ Exit(i) PROVE TapesInv'
  <2>1. /\ in' = in /\ out' = out /\ ran' = ran /\ cur' = cur
        /\ wpc[i] # "busy" /\ wpc'[i] # "busy" /\ (Resting(i)' <=> Resting(i))
    BY <1>0, <1>8 DEF SetStats, Exit, Resting, queueVars
  <2>2. OnlyFirst(i)' /\ \A k \in Nat : Has(i, k)' <=> Has(i, k)
    BY <1>3, <2>1 DEF OnlyFirst, Has, Waits, Runs
  <2>3. \A h \in Helpers : Answered(h)'
    BY <2>1 DEF TapesInv, Answered, Ran
  <2> QED BY <1>1, <1>2, <2>1, <2>2, <2>3, TapesKept
<1> QED BY <1>4, <1>5, <1>6, <1>7, <1>8 DEF Worker

(* The main thread; worker 0 is idle when it is given the main tape.       *)
LEMMA MainTapes ==
  ASSUME Counted, Shape, TapesInv, Main
  PROVE  TapesInv'
<1>0. /\ TypeOK /\ mi \in Threads /\ 0 \in Threads
      /\ Empty \in Jobs /\ Empty.kind # "tape" /\ Stop \in Jobs /\ Stop.kind # "tape"
  BY ThreadFacts, JobTypes DEF Counted, TypeOK, Empty, Stop, Job
<1>1. CASE CreateThread
  <2>1. wpc[mi] = "none"
    BY <1>0, <1>1, ThreadFacts DEF Counted, Created, CreateThread
  <2> QED BY <1>0, <1>1, <2>1, ScheduleTapes DEF CreateThread, tapeVars
<1>2. CASE SyncThread \/ JoinMain \/ CollectThread
  <2>1. UNCHANGED <<started, ran, cur, wpc>> /\ (Result(mi) \/ Result(0))
    BY <1>2 DEF SyncThread, JoinMain, CollectThread, workerVars, tapeVars
  <2> QED BY <1>0, <2>1, ResultTapes
<1>3. CASE StopThread \/ ReleaseThread
  <2>1. UNCHANGED <<started, ran, cur, wpc>> /\ (Schedule(mi, Stop) \/ Schedule(mi, Empty))
    BY <1>3 DEF StopThread, ReleaseThread, workerVars, tapeVars
  <2> QED BY <1>0, <2>1, ScheduleTapes
<1>4. CASE ReapThread
  BY <1>0, <1>4, StillTapes DEF ReapThread, workerVars, queueVars, tapeVars
<1>5. CASE RunMain
  <2>1. /\ UNCHANGED <<started, ran, cur, wpc, out>>
        /\ in'[0] = Append(in[0], Tape(0)) /\ \A h \in Helpers : in'[h] = in[h]
    BY <1>0, <1>5, ThreadFacts DEF TypeOK, RunMain, Schedule, workerVars, tapeVars
  <2>2. Idle(0) /\ Resting(0)'
    BY <1>0, <1>5, <2>1 DEF Shape, InRun, RunMain, Idle, Resting
  <2>3. Tape(0) \in Jobs /\ Tape(0).id = 0 /\ in[0] \in Seq(Jobs)
    BY <1>0, JobTypes DEF TypeOK, Tape, Job
  <2>4. OnlyFirst(0)' /\ Head(in'[0]) = Tape(0)
    BY <1>0, <2>1, <2>2, <2>3, AppendFirst DEF Idle, TapesInv
  <2>5. \A k \in Nat : Has(0, k)' => k = 0
    BY <2>2, <2>1, <2>3, <2>4 DEF Has, Waits, Runs, Idle, Resting
  <2>6. \A h \in Helpers : OnlyFirst(h)' /\ \A k \in Nat : Has(h, k)' <=> Has(h, k)
    BY <2>1, SameTapes, ThreadFacts DEF TapesInv
  <2>7. Ran' = Ran /\ \A h \in Helpers : Answered(h)'
    BY <2>1 DEF TapesInv, Answered, Ran
  <2>8. \A h \in Threads : OnlyFirst(h)'
    BY <2>4, <2>6, SizeAssumption DEF Threads, Helpers
  <2>9. \A k \in 1 .. started : k \in Nat
    BY <1>0 DEF TypeOK
  <2> QED BY <2>1, <2>5, <2>6, <2>7, <2>8, <2>9 DEF TapesInv
<1> QED BY <1>1, <1>2, <1>3, <1>4, <1>5 DEF Main

(* The main tape; a thread it starts a tape on is free.                    *)
LEMMA MainTapeTapes ==
  ASSUME Counted, Shape, TapesInv, MainTape
  PROVE  TapesInv'
<1>0. /\ TypeOK /\ 0 \in Threads /\ Helpers \subseteq Threads /\ 0 \notin Helpers
      /\ in \in [Threads -> Seq(Jobs)] /\ started \in Nat /\ batch \in Nat /\ start \in Nat
      /\ wpc \in [Threads -> {"none", "init", "setup", "idle", "busy", "stats", "final",
                             "report", "bye", "exited"}]
      /\ out \in [Threads -> Seq(Jobs)]
  <2>1. started \in 0 .. MaxTapes /\ batch \in 0 .. MaxBatches
    BY DEF Counted, TypeOK
  <2>2. started \in Nat /\ batch \in Nat
    BY <2>1, SizeAssumption
  <2> QED BY <2>2, ThreadFacts DEF Counted, TypeOK
<1>1. CASE \E i \in Helpers : JoinTape(i) \/ WrapUp(i)
  BY <1>0, <1>1, ResultTapes DEF JoinTape, WrapUp, workerVars, tapeVars
<1>2. CASE \E i \in Helpers : Slice(i)
  <2> PICK i \in Helpers : Slice(i)
    BY <1>2
  <2> PICK p \in Nat : p = PerThread(size, Cardinality(avail), grain)
    BY <1>0, PerThreadNat, CountNat DEF TypeOK
  <2>1. CASE start + p > size
    BY <1>0, <2>1, StillTapes DEF Slice, queueVars, workerVars, tapeVars
  <2>2. CASE ~(start + p > size)
    <3>0. start + p \in Nat
      BY <1>0
    <3>1. Work(batch, start, start + p) \in Jobs
      BY <1>0, <3>0, JobTypes
    <3>2. Schedule(i, Work(batch, start, start + p)) /\ UNCHANGED <<started, ran, cur, wpc>>
      BY <2>2 DEF Slice, workerVars, tapeVars
    <3>3. Work(batch, start, start + p).kind # "tape"
      BY DEF Work, Job
    <3> QED BY <1>0, <3>1, <3>2, <3>3, ScheduleTapes
  <2> QED BY <2>1, <2>2
<1>3. CASE \/ \E c \in Calls : Distribute(c.items, c.base, c.grain)
           \/ OwnPart \/ EndWrapUp
  BY <1>0, <1>3, StillTapes DEF Distribute, OwnPart, EndWrapUp, queueVars, workerVars, tapeVars
<1>4. CASE EndMainTape
  <2>1. /\ UNCHANGED <<started, ran, cur, in>> /\ wpc[0] = "busy" /\ wpc'[0] = "stats"
        /\ \A h \in Helpers : wpc'[h] = wpc[h] /\ out'[h] = out[h]
    BY <1>0, <1>4 DEF EndMainTape, Finished, InMainTape, tapeVars
  <2>2. OnlyFirst(0)' /\ \A k \in Nat : ~Has(0, k)'
    BY <1>0, <2>1 DEF TapesInv, OnlyFirst, Resting, Has, Waits, Runs
  <2>3. \A h \in Helpers : OnlyFirst(h)' /\ \A k \in Nat : Has(h, k)' <=> Has(h, k)
    BY <1>0, <2>1, SameTapes DEF TapesInv
  <2>4. Ran' = Ran
    BY <2>1 DEF Ran
  <2>5. \A h \in Helpers : Answered(h)'
    BY <2>1, <2>4 DEF TapesInv, Answered
  <2>6. \A h \in Threads : OnlyFirst(h)'
    BY <2>2, <2>3, SizeAssumption DEF Threads, Helpers
  <2> QED BY <1>0, <2>1, <2>2, <2>3, <2>4, <2>5, <2>6 DEF TapesInv
<1>5. CASE \E i \in Helpers : RunTape(i)
  <2> PICK i \in Helpers : RunTape(i)
    BY <1>5
  <2> PICK k \in Nat : k = started + 1
    BY <1>0
  <2>0. k # 0 /\ k \notin 1 .. started /\ 1 .. k = (1 .. started) \cup {k}
    BY <1>0
  <2>1. /\ UNCHANGED <<ran, cur, wpc, out>> /\ started' = k
        /\ in'[i] = Append(in[i], Tape(k)) /\ \A h \in Threads \ {i} : in'[h] = in[h]
    BY <1>0 DEF RunTape, Schedule, workerVars
  <2>2. Idle(i)
    <3>1. mpc = "join"
      BY <1>0, OnlyInJoin DEF RunTape
    <3> QED BY <3>1 DEF RunTape, Shape, InJoin, Outstanding, HoldsNothing, HasSlice
  <2>3. Tape(k) \in Jobs /\ Tape(k).id = k /\ Tape(k).kind = "tape" /\ in[i] \in Seq(Jobs)
    BY <1>0, JobTypes DEF Tape, Job
  <2>4. OnlyFirst(i)' /\ Head(in'[i]) = Tape(k) /\ in'[i] # <<>>
    BY <1>0, <2>1, <2>2, <2>3, AppendFirst DEF Idle, Resting, TapesInv
  <2>5. \A m \in Nat : Has(i, m)' <=> m = k
    BY <2>1, <2>2, <2>3, <2>4 DEF Has, Waits, Runs, Idle, Resting
  <2>6. \A m \in Nat : ~Has(i, m)
    BY <2>2 DEF Has, Waits, Runs, Idle, Resting
  <2>7. \A h \in Threads \ {i} : OnlyFirst(h)' /\ \A m \in Nat : Has(h, m)' <=> Has(h, m)
    BY <2>1, SameTapes DEF TapesInv
  <2>8. Ran' = Ran /\ k \notin Ran
    BY <2>0, <2>1 DEF TapesInv, Ran
  <2>9. \A h \in Helpers : Answered(h)'
    BY <2>1, <2>8 DEF TapesInv, Answered
  <2>10. \A h \in Threads : OnlyFirst(h)'
    BY <2>4, <2>7
  <2>11. \A m \in Nat : Has(0, m)' => m = 0
    BY <1>0, <2>7 DEF TapesInv
  <2>12. ASSUME NEW h \in Helpers, NEW m \in Nat, Has(h, m)'
         PROVE  IF h = i THEN m = k ELSE Has(h, m) /\ m \in 1 .. started /\ m \notin Ran
    BY <1>0, <2>5, <2>7, <2>12 DEF TapesInv
  <2>13. \A h \in Helpers, m \in Nat : Has(h, m)' => m \in 1 .. started' /\ m \notin Ran'
    BY <2>0, <2>1, <2>8, <2>12
  <2>14. \A h, g \in Helpers, m \in Nat : Has(h, m)' /\ Has(g, m)' => h = g
    BY <2>0, <2>12 DEF TapesInv
  <2>15. \A m \in 1 .. started' : m \in Ran' \/ \E h \in Helpers : Has(h, m)'
    <3> SUFFICES ASSUME NEW m \in 1 .. started, m \notin Ran
                 PROVE  \E h \in Helpers : Has(h, m)'
      BY <2>0, <2>1, <2>5, <2>8
    <3>1. PICK h \in Helpers : Has(h, m)
      BY DEF TapesInv
    <3>2. m \in Nat /\ h \in Threads /\ h # i
      BY <1>0, <2>6, <3>1
    <3> QED BY <2>7, <3>1, <3>2
  <2>16. Ran' \subseteq 1 .. started'
    BY <2>0, <2>1, <2>8 DEF TapesInv
  <2> QED BY <2>9, <2>10, <2>11, <2>13, <2>14, <2>15, <2>16 DEF TapesInv
<1> QED BY <1>1, <1>2, <1>3, <1>4, <1>5 DEF MainTape

LEMMA TapesInit == Init => TapesInv
<1> SUFFICES ASSUME Init PROVE TapesInv
  OBVIOUS
<1>1. \A i \in Threads : in[i] = <<>> /\ out[i] = <<>> /\ ran[i] = <<>> /\ wpc[i] = "none"
  BY DEF Init
<1>2. Ran = {} /\ started = 0
  BY <1>1, ThreadFacts DEF Ran, Init
<1>3. \A i \in Threads : OnlyFirst(i) /\ Answered(i) /\ \A k \in Nat : ~Has(i, k)
  BY <1>1 DEF OnlyFirst, Answered, Has, Waits, Runs
<1> QED BY <1>2, <1>3, ThreadFacts DEF TapesInv

LEMMA TapesNext == Counted /\ Shape /\ TapesInv /\ [Next]_vars => TapesInv'
<1> SUFFICES ASSUME Counted, Shape, TapesInv, [Next]_vars PROVE TapesInv'
  OBVIOUS
<1>1. TypeOK
  BY DEF Counted
<1>2. CASE UNCHANGED vars
  BY <1>1, <1>2, StillTapes DEF vars, workerVars, queueVars, tapeVars
<1> QED BY <1>1, <1>2, MainTapes, WorkerTapes, MainTapeTapes DEF Next, Finish
(* When all threads have ended, all tapes have run.                        *)
LEMMA AllRun ==
  ASSUME TapesInv, \A i \in Threads : wpc[i] = "exited"
  PROVE  Ran = 1 .. started
<1>1. \A i \in Helpers, k \in Nat : ~Has(i, k)
  BY ThreadFacts DEF TapesInv, OnlyFirst, Resting, Has, Waits, Runs
<1>2. \A k \in 1 .. started : k \in Nat
  OBVIOUS
<1> QED BY <1>1, <1>2 DEF TapesInv

---------------------------------------------------------------------------
(***************************************************************************)
(* The refinement: every step of the machine is one of the tape pool or    *)
(* leaves the tapes' view as it is.                                        *)
(***************************************************************************)
JoinOnly == InMainTape => mpc = "join" /\ in[0] = <<>>

LEMMA PoolInductive == Spec => [](Counted /\ Shape /\ TapesInv /\ Ended /\ JoinOnly)
<1>1. Counted /\ Shape => JoinOnly
  BY OnlyInJoin DEF Counted, JoinOnly
<1>2. Spec => [](Counted /\ Shape /\ TapesInv /\ Ended)
  BY CountedInit, CountedNext, ShapeInit, ShapeNext, TapesInit, TapesNext, EndedInit, EndedNext,
     PTL DEF Spec
<1> QED BY <1>1, <1>2, PTL

(* The phase of the main tape.                                             *)
ToCome == Early \/ (mpc = "join" /\ in[0] # <<>>)

LEMMA Phases ==
  ASSUME JoinOnly
  PROVE  /\ InMainTape => MainTapePhase = "tape"
         /\ ~InMainTape /\ ToCome => MainTapePhase = "before"
         /\ ~InMainTape /\ mpc = "deleted" => MainTapePhase = "stopped"
         /\ ~InMainTape /\ ~ToCome /\ mpc # "deleted" => MainTapePhase = "over"
BY DEF JoinOnly, MainTapePhase, ToCome, Early

LEMMA NextPhases ==
  ASSUME JoinOnly'
  PROVE  /\ InMainTape' => MainTapePhase' = "tape"
         /\ ~InMainTape' /\ ToCome' => MainTapePhase' = "before"
         /\ ~InMainTape' /\ mpc' = "deleted" => MainTapePhase' = "stopped"
         /\ ~InMainTape' /\ ~ToCome' /\ mpc' # "deleted" => MainTapePhase' = "over"
BY DEF JoinOnly, MainTapePhase, ToCome, Early

LEMMA SamePhase ==
  ASSUME mpc' = mpc, in'[0] = in[0], wpc'[0] = wpc[0], cur'[0] = cur[0]
  PROVE  MainTapePhase' = MainTapePhase
BY DEF MainTapePhase, InMainTape

LEMMA PoolStill ==
  ASSUME MainTapePhase' = MainTapePhase, UNCHANGED <<started, run>>, Ran' = Ran
  PROVE  UNCHANGED Tapes!vars
BY DEF Tapes!vars

LEMMA PoolMain ==
  ASSUME Counted, Shape, TapesInv, Ended, JoinOnly, Ended', JoinOnly', Main
  PROVE  Tapes!Stop \/ UNCHANGED Tapes!vars
<1>0. /\ UNCHANGED <<started, run>> /\ Ran' = Ran
      /\ in \in [Threads -> Seq(Jobs)] /\ 0 \in Threads
  <2>1. UNCHANGED <<started, run, ran>>
    BY DEF Main, CreateThread, SyncThread, RunMain, JoinMain, StopThread, ReleaseThread,
       CollectThread, ReapThread, workerVars, tapeVars
  <2> QED BY <2>1, ThreadFacts DEF Counted, TypeOK, Ran
<1>1. CASE CreateThread \/ SyncThread
  <2>1. Early /\ Early'
    BY <1>1 DEF CreateThread, SyncThread, Loop, Early
  <2> QED BY <1>0, <2>1, Phases, NextPhases, PoolStill DEF JoinOnly, ToCome, Early
<1>2. CASE RunMain
  <2>1. in'[0] = Append(in[0], Tape(0)) /\ mpc = "run" /\ mpc' = "join"
    BY <1>0, <1>2 DEF RunMain, Schedule
  <2>2. in'[0] # <<>>
    <3>1. in[0] \in Seq(Jobs) /\ Tape(0) \in Jobs
      BY <1>0, JobTypes
    <3>2. Append(in[0], Tape(0)) # <<>>
      BY <3>1
    <3> QED BY <2>1, <3>2
  <2> QED BY <1>0, <2>1, <2>2, Phases, NextPhases, PoolStill DEF JoinOnly, ToCome, Early
<1>3. CASE JoinMain
  <2>1. mpc = "join" /\ mpc' = "stop" /\ out[0] # <<>>
    BY <1>3 DEF JoinMain, Result
  <2>2. in[0] = <<>> /\ ~InMainTape
    BY <2>1 DEF Shape, InJoin, Holds, Resting, InMainTape
  <2> QED BY <1>0, <2>1, <2>2, Phases, NextPhases, PoolStill DEF JoinOnly, ToCome, Early
<1>4. CASE StopThread \/ ReleaseThread \/ CollectThread
  <2>1. /\ mpc \in {"stop", "release", "collect"}
        /\ mpc' \in {"stop", "release", "collect", "reap"}
    BY <1>4 DEF StopThread, ReleaseThread, CollectThread, Loop
  <2> QED BY <1>0, <2>1, Phases, NextPhases, PoolStill DEF JoinOnly, ToCome, Early
<1>5. CASE ReapThread
  <2>1. mpc = "reap" /\ mpc' \in {"release", "deleted"} /\ UNCHANGED <<wpc, cur>>
    BY <1>5 DEF ReapThread, Loop, workerVars
  <2>2. MainTapePhase = "over"
    BY <2>1, Phases DEF JoinOnly, ToCome, Early
  <2>3. CASE mpc' = "release"
    BY <1>0, <2>2, <2>3, NextPhases, PoolStill DEF JoinOnly, ToCome, Early
  <2>4. CASE mpc' = "deleted"
    <3>1. MainTapePhase' = "stopped"
      BY <2>4, NextPhases DEF JoinOnly
    <3>2. \A i \in Threads : wpc[i] = "exited"
      BY <2>1, <2>4 DEF Ended, Reaped
    <3>5. Ran = 1 .. started
      BY <3>2, AllRun
    <3> QED BY <1>0, <2>2, <3>1, <3>5 DEF Tapes!Stop
  <2> QED BY <2>1, <2>3, <2>4
<1> QED BY <1>1, <1>2, <1>3, <1>4, <1>5 DEF Main

LEMMA PoolWorker ==
  ASSUME Counted, Shape, TapesInv, JoinOnly, JoinOnly', NEW i \in Threads, Worker(i)
  PROVE  Tapes!Begin \/ (\E k \in 1 .. started : Tapes!FinishTape(k)) \/ UNCHANGED Tapes!vars
<1>0. /\ in \in [Threads -> Seq(Jobs)] /\ out \in [Threads -> Seq(Jobs)]
      /\ wpc \in [Threads -> {"none", "init", "setup", "idle", "busy", "stats", "final",
                             "report", "bye", "exited"}]
      /\ cur \in [Threads -> Jobs] /\ ran \in [Threads -> Seq(Nat)] /\ 0 \in Threads
      /\ mpc \in {"create", "sync", "run", "join", "stop", "release", "collect", "reap",
                  "deleted"}
  BY ThreadFacts DEF Counted, TypeOK
<1>1. /\ UNCHANGED <<started, run, mpc>>
      /\ \A h \in Threads \ {i} : in'[h] = in[h] /\ wpc'[h] = wpc[h] /\ cur'[h] = cur[h]
  BY <1>0 DEF Worker, StartWorker, FinishSetup, NextJob, FinishWork, FinishTape, SetStats,
     FinalCheck, ReportUsage, Exit, TakeJob, Finished, queueVars, tapeVars, mainVars
<1>2. CASE FinishTape(i)
  <2>1. /\ i \in Helpers /\ cur[i].id \in 1 .. started /\ cur[i].id \notin Ran
        /\ Ran' = Ran \cup {cur[i].id}
    BY <1>2, RunsTape DEF Counted
  <2>3. MainTapePhase' = MainTapePhase
    BY <1>0, <1>1, <2>1, ThreadFacts, SamePhase
  <2>4. Tapes!FinishTape(cur[i].id)
    BY <1>1, <2>1, <2>3 DEF Tapes!FinishTape
  <2> QED BY <2>1, <2>4
<1>3. CASE ~FinishTape(i)
  <2>0. Ran' = Ran
    BY <1>3 DEF Worker, StartWorker, FinishSetup, NextJob, FinishWork, SetStats,
       FinalCheck, ReportUsage, Exit, Ran
  <2>1. CASE i # 0
    BY <1>0, <1>1, <2>0, <2>1, SamePhase, PoolStill
  <2>2. CASE i = 0 /\ ~InMainTape' /\ ~InMainTape /\ (mpc # "join" \/ in'[0] = in[0])
    <3>1. ToCome' = ToCome
      BY <1>1, <2>2 DEF ToCome, Early
    <3>2. MainTapePhase' = MainTapePhase
      BY <1>1, <2>2, <3>1, Phases, NextPhases
    <3> QED BY <1>1, <2>0, <3>2, PoolStill
  <2>3. CASE i = 0 /\ NextJob(0) /\ mpc = "join"
    <3>1. in[0] # <<>> /\ wpc[0] = "idle" /\ cur'[0] = Head(in[0]) /\ in'[0] = Tail(in[0])
          /\ (Head(in[0]).kind # "stop" => wpc'[0] = "busy")
      BY <1>0, <2>3 DEF NextJob, TakeJob
    <3>2. in[0] = <<Tape(0)>>
      BY <2>3, <3>1 DEF Shape, InJoin, Holds, Resting
    <3>3. InMainTape' /\ ToCome /\ ~InMainTape
      BY <2>3, <3>1, <3>2, JobTypes, OneJob DEF InMainTape, ToCome, Tape, Job
    <3> QED BY <1>1, <2>0, <3>3, Phases, NextPhases DEF Tapes!Begin
  <2>4. i = 0 /\ ~(NextJob(0) /\ mpc = "join") =>
          ~InMainTape' /\ ~InMainTape /\ (mpc # "join" \/ in'[0] = in[0])
    <3> SUFFICES ASSUME i = 0, ~(NextJob(0) /\ mpc = "join")
                 PROVE  ~InMainTape' /\ ~InMainTape /\ (mpc # "join" \/ in'[0] = in[0])
      OBVIOUS
    <3>1. CASE NextJob(0)
      <4>1. mpc # "join"
        BY <3>1
      <4> QED BY <1>1, <4>1 DEF JoinOnly
    <3>2. CASE StartWorker(0) \/ FinalCheck(0)
      <4>1. wpc[0] \in {"init", "final"} /\ wpc'[0] \in {"setup", "report"}
        BY <1>0, <3>2 DEF StartWorker, FinalCheck
      <4>2. mpc # "join"
        BY <4>1 DEF Shape, InJoin, Holds, Resting
      <4> QED BY <4>1, <4>2 DEF InMainTape
    <3>3. CASE FinishSetup(0) \/ FinishWork(0) \/ SetStats(0) \/ ReportUsage(0) \/ Exit(0)
      <4>1. in' = in /\ wpc'[0] # "busy" /\ (wpc[0] = "busy" => cur[0].kind = "work")
        BY <1>0, <3>3 DEF FinishSetup, FinishWork, SetStats, ReportUsage, Exit, Finished,
           queueVars
      <4>2. cur[0].kind = "work" => cur[0] # Tape(0)
        BY DEF Tape, Job
      <4> QED BY <4>1, <4>2 DEF InMainTape
    <3> QED BY <1>3, <3>1, <3>2, <3>3 DEF Worker
  <2> QED BY <2>1, <2>2, <2>3, <2>4
<1> QED BY <1>2, <1>3

LEMMA PoolTapes ==
  ASSUME Counted, Shape, TapesInv, JoinOnly, JoinOnly', MainTape
  PROVE  \/ Tapes!End
         \/ \E i \in Helpers : Tapes!RunTape(i) \/ Tapes!JoinTape(i)
         \/ UNCHANGED Tapes!vars
<1>0. /\ in \in [Threads -> Seq(Jobs)] /\ run \in [Threads -> 0 .. MaxTapes]
      /\ wpc \in [Threads -> {"none", "init", "setup", "idle", "busy", "stats", "final",
                             "report", "bye", "exited"}]
      /\ 0 \in Threads /\ Helpers \subseteq Threads /\ 0 \notin Helpers
  BY ThreadFacts DEF Counted, TypeOK
<1>1. UNCHANGED <<mpc, cur>> /\ Ran' = Ran
  BY DEF MainTape, RunTape, JoinTape, Slice, WrapUp, Distribute, OwnPart, EndWrapUp,
     EndMainTape, mainVars, workerVars, Ran
<1>2. CASE \E i \in Helpers : RunTape(i)
  <2> PICK i \in Helpers : RunTape(i)
    BY <1>2
  <2>1. wpc' = wpc /\ MainTapePhase = "tape" /\ started < MaxTapes /\ run[i] = 0
        /\ started' = started + 1 /\ run' = [run EXCEPT ![i] = started + 1]
    BY Phases DEF RunTape, workerVars
  <2>2. MainTapePhase' = "tape"
    BY <1>1, <2>1, NextPhases DEF RunTape, InMainTape
  <2>3. [h \in Helpers |-> run[h]]' = [[h \in Helpers |-> run[h]] EXCEPT ![i] = started + 1]
    BY <1>0, <2>1
  <2>4. Tapes!RunTape(i)
    BY <1>1, <2>1, <2>2, <2>3 DEF Tapes!RunTape
  <2> QED BY <2>4
<1>3. CASE \E i \in Helpers : JoinTape(i)
  <2> PICK i \in Helpers : JoinTape(i)
    BY <1>3
  <2>1. wpc' = wpc /\ MainTapePhase = "tape" /\ run[i] # 0 /\ out[i] # <<>>
        /\ started' = started /\ run' = [run EXCEPT ![i] = 0]
    BY Phases DEF JoinTape, Result, workerVars
  <2>2. MainTapePhase' = "tape"
    BY <1>1, <2>1, NextPhases DEF JoinTape, InMainTape
  <2>3. [h \in Helpers |-> run[h]]' = [[h \in Helpers |-> run[h]] EXCEPT ![i] = 0]
    BY <1>0, <2>1
  <2>4. run[i] \in Ran
    <3> PICK k \in Nat : k = run[i]
      BY <1>0
    <3>1. mpc = "join"
      BY DEF JoinTape, JoinOnly
    <3>2. out[i] = <<Tape(k)>>
      BY <2>1, <3>1 DEF Shape, InJoin, Outstanding, HoldsTape, Holds
    <3>3. 1 \in DOMAIN out[i] /\ out[i][1] = Tape(k)
      BY <3>2
    <3>4. Answered(i)
      BY DEF TapesInv
    <3> QED BY <3>3, <3>4 DEF Answered, Tape, Job
  <2>5. Tapes!JoinTape(i)
    BY <1>1, <2>1, <2>2, <2>3, <2>4 DEF Tapes!JoinTape
  <2> QED BY <2>5
<1>4. CASE \/ \E i \in Helpers : Slice(i) \/ WrapUp(i)
           \/ \E c \in Calls : Distribute(c.items, c.base, c.grain)
           \/ OwnPart \/ EndWrapUp
  <2>1. UNCHANGED <<wpc, started, run>> /\ in'[0] = in[0]
    BY <1>0, <1>4 DEF Slice, WrapUp, Distribute, OwnPart, EndWrapUp, Schedule, Result,
       workerVars, queueVars, tapeVars
  <2>2. MainTapePhase' = MainTapePhase
    BY <1>1, <2>1, SamePhase
  <2> QED BY <1>1, <2>1, <2>2, PoolStill
<1>5. CASE EndMainTape
  <2>1. /\ MainTapePhase = "tape" /\ mpc = "join" /\ in'[0] = <<>> /\ wpc'[0] = "stats"
        /\ UNCHANGED <<started, run>>
    BY <1>0, <1>5, Phases DEF EndMainTape, Finished, JoinOnly, tapeVars
  <2>2. MainTapePhase' = "over"
    BY <1>1, <2>1, NextPhases DEF ToCome, Early, InMainTape
  <2> QED BY <1>1, <2>1, <2>2 DEF Tapes!End
<1> QED BY <1>2, <1>3, <1>4, <1>5 DEF MainTape

(* The machine implements the tape pool: every tape started runs exactly   *)
(* once, is joined only after it has run, and the queues are deleted only  *)
(* after the main tape and all tapes are over.                             *)
THEOREM TapePoolSteps == Spec => Tapes!Spec
<1>1. Init => Tapes!Init
  <2> SUFFICES ASSUME Init PROVE Tapes!Init
    OBVIOUS
  <2>1. MainTapePhase = "before" /\ started = 0
    BY ThreadFacts DEF Init, MainTapePhase, InMainTape
  <2>2. \A i \in Helpers : ran[i] = <<>> /\ run[i] = 0
    BY ThreadFacts DEF Init
  <2> QED BY <2>1, <2>2 DEF Tapes!Init, Ran
<1>2. ASSUME Counted, Shape, TapesInv, Ended, JoinOnly, Ended', JoinOnly', [Next]_vars
      PROVE  [Tapes!Next]_(Tapes!vars)
  <2>1. CASE Main
    BY <1>2, <2>1, PoolMain DEF Tapes!Next
  <2>2. CASE \E i \in Threads : Worker(i)
    BY <1>2, <2>2, PoolWorker DEF Tapes!Next
  <2>3. CASE MainTape
    BY <1>2, <2>3, PoolTapes DEF Tapes!Next
  <2>4. CASE UNCHANGED vars
    <3>1. /\ UNCHANGED <<mpc, in, wpc, cur, started, run, ran>>
      BY <2>4 DEF vars, mainVars, workerVars, queueVars, tapeVars
    <3> QED BY <3>1, SamePhase, PoolStill DEF Ran
  <2> QED BY <1>2, <2>1, <2>2, <2>3, <2>4 DEF Next, Finish
<1> QED BY <1>1, <1>2, PoolInductive, PTL DEF Spec, Tapes!Spec

---------------------------------------------------------------------------
(***************************************************************************)
(* The sum of the usages.  After the main tape is joined, a thread without *)
(* a tape left to join is told to stop, released, and has reported; and    *)
(* the sum is the number of tapes run by the threads that have.            *)
(***************************************************************************)
Over == mpc \in {"stop", "release", "collect", "reap", "deleted"}
Told(i) == mpc # "stop" \/ i < mi
Released(i) ==
  \/ mpc = "release" /\ i < mi
  \/ mpc \in {"collect", "reap"} /\ i <= mi
  \/ mpc = "deleted"
Collected(i) ==
  \/ mpc \in {"release", "collect"} /\ i < mi
  \/ mpc = "reap" /\ i <= mi
  \/ mpc = "deleted"

Stopping(i) ==
  \/ in[i] = <<Stop>> /\ out[i] = <<>> /\ Resting(i)
  \/ in[i] = <<>> /\ out[i] = <<>> /\ wpc[i] = "final"
Leaving(i) ==
  \/ in[i] = <<Stop, Empty>> /\ out[i] = <<>> /\ Resting(i)
  \/ in[i] = <<Empty>> /\ out[i] = <<>> /\ wpc[i] = "final"
  \/ in[i] = <<>> /\ out[i] = <<>> /\ wpc[i] = "report"
  \/ in[i] = <<>> /\ out[i] = <<Report(Usage(i))>> /\ wpc[i] \in {"bye", "exited"}
Gone(i) == in[i] = <<>> /\ out[i] = <<>> /\ wpc[i] \in {"bye", "exited"}

AllJoined == \A i \in Helpers : run[i] = 0
Quits(i) ==
  /\ ~Told(i) => Idle(i)
  /\ Told(i) /\ ~Released(i) => Stopping(i)
  /\ Released(i) /\ ~Collected(i) => Leaving(i)
  /\ Collected(i) => Gone(i)
Quitting == Over /\ AllJoined => \A i \in Threads : Quits(i)

(* Each tape is counted once.                                              *)
Apart ==
  /\ ran[0] = <<>>
  /\ \A i, h \in Threads : i # h => RanOn(i) \cap RanOn(h) = {}
  /\ \A i \in Threads : IsFiniteSet(RanOn(i)) /\ Cardinality(RanOn(i)) = Usage(i)

CollectedTapes == UNION {RanOn(i) : i \in {h \in Threads : Collected(h)}}
Summed ==
  /\ mpc \in {"run", "join"} => mi = 0
  /\ ~Over => pos = 0
  /\ Over /\ AllJoined => pos = Cardinality(CollectedTapes)
UsageInv == Quitting /\ Apart /\ Summed
LEMMA TwoJobs ==
  ASSUME NEW a \in Jobs, NEW b \in Jobs
  PROVE  /\ <<a, b>> # <<>> /\ Head(<<a, b>>) = a /\ Tail(<<a, b>>) = <<b>>
         /\ Append(<<a>>, b) = <<a, b>>
<1>1. <<a>> \in Seq(Jobs) /\ Len(<<a>>) = 1 /\ <<a>>[1] = a
  OBVIOUS
<1>2. /\ Append(<<a>>, b) \in Seq(Jobs) /\ Len(Append(<<a>>, b)) = 2
      /\ Append(<<a>>, b)[1] = a /\ Append(<<a>>, b)[2] = b
  BY <1>1
<1>3. /\ <<a, b>> \in Seq(Jobs) /\ Len(<<a, b>>) = 2 /\ <<a, b>>[1] = a /\ <<a, b>>[2] = b
  OBVIOUS
<1>4. Append(<<a>>, b) = <<a, b>>
  <2>1. \A i \in 1 .. 2 : Append(<<a>>, b)[i] = <<a, b>>[i]
    BY <1>2, <1>3
  <2> QED BY <1>2, <1>3, <2>1, SeqEqual
<1> QED BY <1>4

LEMMA LastJobs ==
  /\ <<Stop>> # <<>> /\ Head(<<Stop>>) = Stop /\ Tail(<<Stop>>) = <<>>
  /\ <<Empty>> # <<>> /\ Head(<<Empty>>) = Empty /\ Tail(<<Empty>>) = <<>>
  /\ <<Stop, Empty>> # <<>> /\ Head(<<Stop, Empty>>) = Stop
  /\ Tail(<<Stop, Empty>>) = <<Empty>>
  /\ Append(<<Stop>>, Empty) = <<Stop, Empty>>
  /\ Append(<<>>, Empty) = <<Empty>> /\ Append(<<>>, Stop) = <<Stop>>
  /\ Stop.kind = "stop"
<1>1. Stop \in Jobs /\ Empty \in Jobs
  BY JobTypes
<1>2. Stop.kind = "stop"
  BY DEF Stop, Job
<1> QED BY <1>1, <1>2, OneJob, TwoJobs

(* A worker keeps what it was told.                                        *)
LEMMA SameQuits ==
  ASSUME NEW i \in Threads, Same(i), ran'[i] = ran[i]
  PROVE  /\ Idle(i)' <=> Idle(i)
         /\ Stopping(i)' <=> Stopping(i)
         /\ Leaving(i)' <=> Leaving(i)
         /\ Gone(i)' <=> Gone(i)
<1>1. Usage(i)' = Usage(i)
  BY DEF Usage
<1> QED BY <1>1 DEF Same, Idle, Stopping, Leaving, Gone, Resting

LEMMA WorkerQuits ==
  ASSUME TypeOK, NEW i \in Threads, Worker(i)
  PROVE  /\ Stopping(i) => Stopping(i)'
         /\ Leaving(i) => Leaving(i)'
         /\ Gone(i) => Gone(i)'
<1>0. /\ in \in [Threads -> Seq(Jobs)] /\ out \in [Threads -> Seq(Jobs)]
      /\ wpc \in [Threads -> {"none", "init", "setup", "idle", "busy", "stats", "final",
                             "report", "bye", "exited"}]
  BY DEF TypeOK
<1>1. CASE NextJob(i)
  <2>1. /\ in[i] # <<>> /\ in'[i] = Tail(in[i]) /\ out' = out /\ wpc[i] = "idle"
        /\ Head(in[i]).kind = "stop" => wpc'[i] = "final"
    BY <1>0, <1>1 DEF NextJob, TakeJob
  <2> QED BY <2>1, LastJobs DEF Stopping, Leaving, Gone
<1>2. CASE FinalCheck(i)
  <2>1. /\ in[i] # <<>> /\ in'[i] = Tail(in[i]) /\ out' = out /\ wpc[i] = "final"
        /\ wpc'[i] = "report"
    BY <1>0, <1>2 DEF FinalCheck, TakeJob
  <2> QED BY <2>1, LastJobs DEF Stopping, Leaving, Gone, Resting
<1>3. CASE ReportUsage(i)
  <2>1. /\ out'[i] = Append(out[i], Report(Usage(i))) /\ in' = in /\ wpc[i] = "report"
        /\ wpc'[i] = "bye" /\ Usage(i)' = Usage(i)
    BY <1>0, <1>3 DEF ReportUsage, Finished, Usage
  <2>2. Append(<<>>, Report(Usage(i))) = <<Report(Usage(i))>>
    OBVIOUS
  <2> QED BY <2>1, <2>2 DEF Stopping, Leaving, Gone, Resting
<1>4. CASE SetStats(i) \/ Exit(i)
  <2>1. /\ in' = in /\ out' = out /\ Usage(i)' = Usage(i)
        /\ \/ wpc[i] = "stats" /\ wpc'[i] = "idle"
           \/ wpc[i] = "bye" /\ wpc'[i] = "exited"
    BY <1>0, <1>4 DEF SetStats, Exit, queueVars, Usage
  <2> QED BY <2>1 DEF Stopping, Leaving, Gone, Resting
<1>5. CASE StartWorker(i) \/ FinishSetup(i) \/ FinishWork(i) \/ FinishTape(i)
  <2>1. wpc[i] \in {"init", "setup", "busy"}
    BY <1>5 DEF StartWorker, FinishSetup, FinishWork, FinishTape
  <2> QED BY <2>1 DEF Stopping, Leaving, Gone, Resting
<1> QED BY <1>1, <1>2, <1>3, <1>4, <1>5 DEF Worker

LEMMA WorkerQuitting ==
  ASSUME TypeOK, Quitting, NEW i \in Threads, Worker(i)
  PROVE  Quitting'
<1>1. /\ UNCHANGED <<mpc, mi, run>>
      /\ \A h \in Threads \ {i} : Same(h) /\ ran'[h] = ran[h]
  <2>1. \A h \in Threads \ {i} : ran'[h] = ran[h]
    BY DEF TypeOK, Worker, StartWorker, FinishSetup, NextJob, FinishWork, FinishTape,
       SetStats, FinalCheck, ReportUsage, Exit
  <2> QED BY <2>1, WorkerShape DEF Worker, StartWorker, FinishSetup, NextJob, FinishWork,
          FinishTape, SetStats, FinalCheck, ReportUsage, Exit, tapeVars, mainVars
<1>2. ASSUME NEW h \in Threads
      PROVE  /\ Idle(h) => Idle(h)'
             /\ Stopping(h) => Stopping(h)'
             /\ Leaving(h) => Leaving(h)'
             /\ Gone(h) => Gone(h)'
  BY <1>1, SameQuits, WorkerQuits, WorkerShape
<1>3. \A h \in Threads : /\ Told(h)' <=> Told(h)
                         /\ Released(h)' <=> Released(h)
                         /\ Collected(h)' <=> Collected(h)
  BY <1>1 DEF Told, Released, Collected
<1>4. ASSUME NEW h \in Threads, Quits(h) PROVE Quits(h)'
  <2>1. /\ Told(h)' <=> Told(h)
        /\ Released(h)' <=> Released(h)
        /\ Collected(h)' <=> Collected(h)
    BY <1>3
  <2> QED BY <1>2, <1>4, <2>1 DEF Quits
<1> QED BY <1>1, <1>4 DEF Quitting, Over, AllJoined
(* The main thread tells, releases and collects the threads one by one.    *)
LEMMA MainQuitting ==
  ASSUME Counted, Shape, Quitting, Summed, Main
  PROVE  Quitting'
<1>0. /\ in \in [Threads -> Seq(Jobs)] /\ out \in [Threads -> Seq(Jobs)]
      /\ mi \in Threads /\ Threads \subseteq Nat
      /\ \A i \in Threads : mi + 1 < N \/ i <= mi
      /\ TypeOK
  BY ThreadFacts DEF Counted, TypeOK
<1> SUFFICES ASSUME Over', AllJoined' PROVE \A i \in Threads : Quits(i)'
  BY DEF Quitting
<1>1. AllJoined /\ UNCHANGED <<run, ran>>
  BY DEF Main, CreateThread, SyncThread, RunMain, JoinMain, StopThread, ReleaseThread,
     CollectThread, ReapThread, workerVars, tapeVars, AllJoined
<1>2. ASSUME NEW i \in Threads, Same(i),
             Told(i)' <=> Told(i), Released(i)' <=> Released(i), Collected(i)' <=> Collected(i),
             Quits(i)
      PROVE  Quits(i)'
  BY <1>1, <1>2, SameQuits DEF Quits
<1>3. CASE CreateThread \/ SyncThread \/ RunMain
  BY <1>3 DEF CreateThread, SyncThread, RunMain, Loop, Over
<1>4. CASE JoinMain
  <2>1. /\ mpc = "join" /\ mpc' = "stop" /\ mi' = mi /\ wpc' = wpc /\ cur' = cur /\ in' = in
        /\ out[0] # <<>> /\ out'[0] = Tail(out[0])
        /\ \A i \in Threads \ {0} : out'[i] = out[i]
    BY <1>0, <1>4, ThreadFacts DEF JoinMain, Result, workerVars
  <2>2. in[0] = <<>> /\ out[0] = <<Tape(0)>> /\ Resting(0)
    BY <2>1 DEF Shape, InJoin, Holds
  <2>3. Idle(0)'
    BY <2>1, <2>2, JobTypes, OneJob DEF Idle, Resting
  <2>4. \A i \in Helpers : ~HasSlice(i)
    BY <2>2 DEF Shape, Spread, HasSlice, InMainTape, Resting
  <2>5. \A i \in Helpers : Idle(i)
    BY <1>1, <2>1, <2>4 DEF Shape, InJoin, Outstanding, HoldsNothing, AllJoined
  <2>6. \A i \in Helpers : Idle(i)'
    BY <2>1, <2>5, ThreadFacts DEF Idle, Resting
  <2>7. \A i \in Threads : Idle(i)'
    BY <2>3, <2>6, SizeAssumption DEF Threads, Helpers
  <2>8. \A i \in Threads : ~Told(i)' /\ ~Released(i)' /\ ~Collected(i)'
    <3>1. mi' = 0
      BY <2>1 DEF Summed
    <3>2. \A i \in Threads : ~(i < 0)
      BY <1>0
    <3> QED BY <2>1, <3>1, <3>2 DEF Told, Released, Collected
  <2> QED BY <2>7, <2>8 DEF Quits
<1>5. CASE StopThread
  <2> PICK m \in Threads : m = mi
    BY <1>0
  <2>1. /\ mi = m /\ mpc = "stop" /\ in'[m] = Append(in[m], Stop) /\ out' = out
        /\ UNCHANGED <<wpc, cur>> /\ \A i \in Threads \ {m} : in'[i] = in[i]
        /\ \/ m + 1 < N /\ mi' = m + 1 /\ mpc' = "stop"
           \/ ~(m + 1 < N) /\ mi' = 0 /\ mpc' = "release"
    BY <1>0, <1>5 DEF StopThread, Schedule, Loop, workerVars
  <2>2. \A i \in Threads : Quits(i)
    BY <1>1, <2>1 DEF Quitting, Over
  <2>3. ~Told(m) /\ Told(m)' /\ ~Released(m)' /\ ~Collected(m)'
    <3>1. ~(m < m) /\ ~(m < 0) /\ m < m + 1
      BY <1>0
    <3> QED BY <2>1, <3>1 DEF Told, Released, Collected
  <2>4. Stopping(m)'
    BY <1>0, <2>1, <2>2, <2>3, LastJobs DEF Quits, Idle, Stopping, Resting
  <2>5. ASSUME NEW i \in Threads \ {m}
        PROVE  /\ Told(i)' <=> Told(i)
               /\ Released(i)' <=> Released(i)
               /\ Collected(i)' <=> Collected(i)
    <3>1. i \in Nat /\ m \in Nat /\ i # m
      BY <1>0
    <3>2. ~(i < 0) /\ (i < m + 1 <=> i < m)
      BY <3>1
    <3>3. ~(m + 1 < N) => i < m
      BY <1>0, <3>1
    <3> QED BY <2>1, <3>2, <3>3 DEF Told, Released, Collected
  <2>6. \A i \in Threads \ {m} : Quits(i)'
    BY <1>2, <2>1, <2>2, <2>5 DEF Same
  <2>7. Quits(m)'
    BY <2>3, <2>4 DEF Quits
  <2> QED BY <2>6, <2>7
<1>6. CASE ReleaseThread
  <2> PICK m \in Threads : m = mi
    BY <1>0
  <2>1. /\ mi = m /\ mpc = "release" /\ in'[m] = Append(in[m], Empty) /\ out' = out
        /\ UNCHANGED <<wpc, cur, mi>> /\ \A i \in Threads \ {m} : in'[i] = in[i]
        /\ mpc' = "collect"
    BY <1>0, <1>6 DEF ReleaseThread, Schedule, workerVars
  <2>2. \A i \in Threads : Quits(i)
    BY <1>1, <2>1 DEF Quitting, Over
  <2>3. /\ Told(m) /\ ~Released(m) /\ Told(m)' /\ Released(m)' /\ ~Collected(m)'
    <3>1. ~(m < m) /\ m <= m
      BY <1>0
    <3> QED BY <2>1, <3>1 DEF Told, Released, Collected
  <2>4. Leaving(m)'
    BY <1>0, <2>1, <2>2, <2>3, LastJobs DEF Quits, Stopping, Leaving, Resting
  <2>5. ASSUME NEW i \in Threads \ {m}
        PROVE  /\ Told(i)' <=> Told(i)
               /\ Released(i)' <=> Released(i)
               /\ Collected(i)' <=> Collected(i)
    <3>1. i < m <=> i <= m
      BY <1>0
    <3> QED BY <2>1, <3>1 DEF Told, Released, Collected
  <2>6. \A i \in Threads \ {m} : Quits(i)'
    BY <1>2, <2>1, <2>2, <2>5 DEF Same
  <2>7. Quits(m)'
    BY <2>3, <2>4 DEF Quits
  <2> QED BY <2>6, <2>7
<1>7. CASE CollectThread
  <2> PICK m \in Threads : m = mi
    BY <1>0
  <2>1. /\ mi = m /\ mpc = "collect" /\ out[m] # <<>> /\ out'[m] = Tail(out[m]) /\ in' = in
        /\ UNCHANGED <<wpc, cur, mi>> /\ \A i \in Threads \ {m} : out'[i] = out[i]
        /\ mpc' = "reap"
    BY <1>0, <1>7 DEF CollectThread, Result, workerVars
  <2>2. \A i \in Threads : Quits(i)
    BY <1>1, <2>1 DEF Quitting, Over
  <2>3. /\ Released(m) /\ ~Collected(m) /\ Told(m)' /\ Released(m)' /\ Collected(m)'
    <3>1. ~(m < m) /\ m <= m
      BY <1>0
    <3> QED BY <2>1, <3>1 DEF Told, Released, Collected
  <2>4. Gone(m)'
    <3>1. Tail(<<Report(Usage(m))>>) = <<>>
      OBVIOUS
    <3> QED BY <2>1, <2>2, <2>3, <3>1 DEF Quits, Leaving, Gone
  <2>5. ASSUME NEW i \in Threads \ {m}
        PROVE  /\ Told(i)' <=> Told(i)
               /\ Released(i)' <=> Released(i)
               /\ Collected(i)' <=> Collected(i)
    <3>1. i < m <=> i <= m
      BY <1>0
    <3> QED BY <2>1, <3>1 DEF Told, Released, Collected
  <2>6. \A i \in Threads \ {m} : Quits(i)'
    BY <1>2, <2>1, <2>2, <2>5 DEF Same
  <2>7. Quits(m)'
    BY <2>3, <2>4 DEF Quits
  <2> QED BY <2>6, <2>7
<1>8. CASE ReapThread
  <2>1. /\ mpc = "reap" /\ UNCHANGED <<in, out, wpc, cur>>
        /\ \/ mi + 1 < N /\ mi' = mi + 1 /\ mpc' = "release"
           \/ ~(mi + 1 < N) /\ mpc' = "deleted"
    BY <1>8 DEF ReapThread, Loop, workerVars, queueVars
  <2>2. \A i \in Threads : Quits(i)
    BY <1>1, <2>1 DEF Quitting, Over
  <2>3. ASSUME NEW i \in Threads
        PROVE  /\ Told(i)' <=> Told(i)
               /\ Released(i)' <=> Released(i)
               /\ Collected(i)' <=> Collected(i)
    <3>1. i < mi + 1 <=> i <= mi
      BY <1>0
    <3> QED BY <1>0, <2>1, <3>1 DEF Told, Released, Collected
  <2> QED BY <1>2, <2>1, <2>2, <2>3 DEF Same
<1> QED BY <1>3, <1>4, <1>5, <1>6, <1>7, <1>8 DEF Main
(* The tapes a thread has run: one more, or the same.                      *)
LEMMA ApartSame == ASSUME Apart, ran' = ran PROVE Apart'
<1>1. \A i \in Threads : RanOn(i)' = RanOn(i) /\ Usage(i)' = Usage(i)
  BY DEF RanOn, Usage
<1> QED BY <1>1 DEF Apart

LEMMA ApartNext ==
  ASSUME TypeOK, TapesInv, Apart, [Next]_vars
  PROVE  Apart'
<1>1. CASE \E i \in Threads : FinishTape(i)
  <2> PICK i \in Threads : FinishTape(i)
    BY <1>1
  <2> PICK k \in Nat : k = cur[i].id
    BY DEF TypeOK, Jobs
  <2>1. /\ i \in Helpers /\ k \notin Ran /\ i # 0
        /\ RanOn(i)' = RanOn(i) \cup {k}
    BY RunsTape, ThreadFacts
  <2>2. /\ ran[i] \in Seq(Nat) /\ ran'[i] = Append(ran[i], k)
        /\ \A h \in Threads \ {i} : ran'[h] = ran[h]
    BY DEF TypeOK, FinishTape
  <2>3. \A h \in Threads \ {i} : RanOn(h)' = RanOn(h) /\ Usage(h)' = Usage(h)
    BY <2>2 DEF RanOn, Usage
  <2>4. \A h \in Threads : k \notin RanOn(h)
    <3>1. RanOn(0) = {}
      BY DEF Apart, RanOn
    <3>2. \A h \in Helpers : k \notin RanOn(h)
      BY <2>1, RanFacts
    <3> QED BY <3>1, <3>2, SizeAssumption DEF Threads, Helpers
  <2>5. \A h, g \in Threads : h # g => RanOn(h)' \cap RanOn(g)' = {}
    BY <2>1, <2>3, <2>4 DEF Apart
  <2>6. IsFiniteSet(RanOn(i)') /\ Cardinality(RanOn(i)') = Usage(i)'
    <3>1. IsFiniteSet(RanOn(i)) /\ Cardinality(RanOn(i)) = Usage(i) /\ k \notin RanOn(i)
      BY <2>4 DEF Apart
    <3>2. IsFiniteSet(RanOn(i) \cup {k}) /\ Cardinality(RanOn(i) \cup {k}) = Usage(i) + 1
      BY <3>1, FS_AddElement
    <3>3. Usage(i)' = Usage(i) + 1
      BY <2>2 DEF Usage
    <3> QED BY <2>1, <3>2, <3>3
  <2>7. ran'[0] = <<>>
    BY <2>1, <2>2, ThreadFacts DEF Apart
  <2> QED BY <2>3, <2>5, <2>6, <2>7 DEF Apart
<1>2. CASE ~\E i \in Threads : FinishTape(i)
  <2>1. ran' = ran
    BY <1>2 DEF Next, Main, CreateThread, SyncThread, RunMain, JoinMain, StopThread,
       ReleaseThread, CollectThread, ReapThread, Worker, StartWorker, FinishSetup, NextJob,
       FinishWork, SetStats, FinalCheck, ReportUsage, Exit, MainTape, RunTape, JoinTape, Slice,
       WrapUp, Distribute, OwnPart, EndWrapUp, EndMainTape, Finish, vars, workerVars
  <2> QED BY <2>1, ApartSame
<1> QED BY <1>1, <1>2

(* A thread that has reported runs no tape any more; the next one's tapes  *)
(* are none of those counted.                                              *)
LEMMA FiniteTapes ==
  ASSUME TypeOK, TapesInv, Apart
  PROVE  /\ CollectedTapes \subseteq Ran
         /\ IsFiniteSet(CollectedTapes)
<1>1. RanOn(0) = {}
  BY DEF Apart, RanOn
<1>2. CollectedTapes \subseteq Ran
  BY <1>1, RanFacts, SizeAssumption DEF CollectedTapes, Threads, Helpers
<1>3. started \in Int
  BY DEF TypeOK
<1>4. IsFiniteSet(1 .. started)
  BY <1>3, FS_Interval
<1>5. CollectedTapes \in SUBSET (1 .. started)
  BY <1>2 DEF TapesInv
<1> QED BY <1>2, <1>4, <1>5, FS_Subset

LEMMA SummedWorker ==
  ASSUME TypeOK, TapesInv, Quitting, Summed, NEW i \in Threads, Worker(i)
  PROVE  Summed'
<1>1. /\ UNCHANGED <<mpc, mi, pos, run>>
      /\ \A h \in Threads \ {i} : ran'[h] = ran[h]
      /\ wpc[i] # "busy" => ran' = ran
  BY DEF TypeOK, Worker, StartWorker, FinishSetup, NextJob, FinishWork, FinishTape,
     SetStats, FinalCheck, ReportUsage, Exit, tapeVars, mainVars
<1>2. \A h \in Threads : Collected(h)' <=> Collected(h)
  BY <1>1 DEF Collected
<1>3. ASSUME Over, AllJoined PROVE CollectedTapes' = CollectedTapes
  <2>1. \A h \in Threads : Collected(h) => wpc[h] # "busy"
    BY <1>3 DEF Quitting, Quits, Gone
  <2>2. \A h \in Threads : Collected(h) => ran'[h] = ran[h]
    BY <1>1, <2>1
  <2>3. \A h \in Threads : Collected(h) => RanOn(h)' = RanOn(h)
    BY <2>2 DEF RanOn
  <2> QED BY <1>2, <2>3 DEF CollectedTapes
<1> QED BY <1>1, <1>3 DEF Summed, Over, AllJoined

LEMMA SummedMain ==
  ASSUME Counted, Shape, TapesInv, Apart, Quitting, Summed, Main
  PROVE  Summed'
<1>0. mi \in Threads /\ Threads \subseteq Nat /\ TypeOK
  BY ThreadFacts DEF Counted, TypeOK
<1>1. UNCHANGED <<run, ran>> /\ (AllJoined' <=> AllJoined)
  BY DEF Main, CreateThread, SyncThread, RunMain, JoinMain, StopThread, ReleaseThread,
     CollectThread, ReapThread, workerVars, tapeVars, AllJoined
<1>2. \A h : RanOn(h)' = RanOn(h)
  BY <1>1 DEF RanOn
<1>3. ASSUME \A h \in Threads : Collected(h)' <=> Collected(h)
      PROVE  CollectedTapes' = CollectedTapes
  BY <1>2, <1>3 DEF CollectedTapes
<1>4. CASE CreateThread \/ SyncThread \/ RunMain
  BY <1>4 DEF CreateThread, SyncThread, RunMain, Loop, Over, Summed
<1>5. CASE JoinMain
  <2>1. mpc = "join" /\ mpc' = "stop" /\ pos' = pos
    BY <1>5 DEF JoinMain
  <2>2. pos = 0
    BY <2>1 DEF Summed, Over
  <2>3. CollectedTapes' = {}
    BY <2>1 DEF CollectedTapes, Collected
  <2> QED BY <2>1, <2>2, <2>3, FS_EmptySet DEF Summed, Over
<1>6. CASE StopThread \/ ReleaseThread \/ ReapThread
  <2>1. Over /\ Over' /\ pos' = pos /\ mpc' \notin {"run", "join"}
    BY <1>6 DEF StopThread, ReleaseThread, ReapThread, Loop, Over
  <2>2. ASSUME NEW h \in Threads PROVE Collected(h)' <=> Collected(h)
    <3>1. /\ h \in Nat /\ mi \in Nat /\ ~(h < 0) /\ (h < mi + 1 <=> h <= mi)
          /\ (mi + 1 < N \/ h <= mi)
      BY <1>0, ThreadFacts
    <3> QED BY <1>6, <3>1 DEF StopThread, ReleaseThread, ReapThread, Loop, Collected
  <2> QED BY <1>1, <1>3, <2>1, <2>2 DEF Summed
<1>7. CASE CollectThread
  <2> PICK m \in Threads : m = mi
    BY <1>0
  <2>1. /\ mpc = "collect" /\ mpc' = "reap" /\ mi' = m /\ out[m] # <<>>
        /\ pos' = pos + Pos(Head(out[m]))
    BY <1>7 DEF CollectThread, Result
  <2> SUFFICES ASSUME AllJoined PROVE pos' = Cardinality(CollectedTapes')
    BY <1>1, <2>1 DEF Summed, Over
  <2>2. pos = Cardinality(CollectedTapes) /\ Quits(m)
    BY <2>1 DEF Summed, Over, Quitting
  <2>3. Released(m) /\ ~Collected(m)
    BY <1>0, <2>1 DEF Released, Collected
  <2>4. Head(out[m]) = Report(Usage(m))
    BY <2>1, <2>2, <2>3 DEF Quits, Leaving
  <2>5. pos' = pos + Usage(m)
    BY <2>1, <2>4 DEF Report, Pos, Job
  <2>6. \A h \in Threads : Collected(h)' <=> Collected(h) \/ h = m
    <3>1. \A h \in Threads : h <= m <=> h < m \/ h = m
      BY <1>0
    <3> QED BY <2>1, <3>1 DEF Collected
  <2>7. CollectedTapes' = CollectedTapes \cup RanOn(m)
    BY <1>2, <2>6 DEF CollectedTapes
  <2>8. CollectedTapes \cap RanOn(m) = {}
    BY <2>3 DEF CollectedTapes, Apart
  <2>9. IsFiniteSet(CollectedTapes) /\ IsFiniteSet(RanOn(m)) /\ Cardinality(RanOn(m)) = Usage(m)
    BY <1>0, FiniteTapes DEF Apart
  <2>10. Cardinality(CollectedTapes \cup RanOn(m))
           = Cardinality(CollectedTapes) + Cardinality(RanOn(m)) - Cardinality({})
    BY <2>8, <2>9, FS_Union
  <2>11. Cardinality(CollectedTapes) \in Nat /\ Usage(m) \in Nat /\ Cardinality({}) = 0
    BY <1>0, <2>9, FS_CardinalityType, FS_EmptySet, UsageNat
  <2>12. Cardinality(CollectedTapes \cup RanOn(m)) = Cardinality(CollectedTapes) + Usage(m)
    BY <2>9, <2>10, <2>11
  <2> QED BY <2>2, <2>5, <2>7, <2>12
<1> QED BY <1>4, <1>5, <1>6, <1>7 DEF Main

LEMMA UsageInit == Init => UsageInv
<1> SUFFICES ASSUME Init PROVE UsageInv
  OBVIOUS
<1>1. \A i \in Threads : ran[i] = <<>> /\ RanOn(i) = {} /\ Usage(i) = 0
  BY DEF Init, RanOn, Usage
<1> QED BY <1>1, FS_EmptySet, ThreadFacts DEF Init, UsageInv, Quitting, Apart, Summed, Over

LEMMA UsageNext ==
  Counted /\ Shape /\ TapesInv /\ JoinOnly /\ UsageInv /\ [Next]_vars => UsageInv'
<1> SUFFICES ASSUME Counted, Shape, TapesInv, JoinOnly, UsageInv, [Next]_vars PROVE UsageInv'
  OBVIOUS
<1>0. TypeOK /\ Quitting /\ Apart /\ Summed
  BY DEF Counted, UsageInv
<1>1. Apart'
  BY <1>0, ApartNext
<1>2. CASE Main
  BY <1>0, <1>1, <1>2, MainQuitting, SummedMain DEF UsageInv
<1>3. CASE \E i \in Threads : Worker(i)
  BY <1>0, <1>1, <1>3, WorkerQuitting, SummedWorker DEF UsageInv
<1>4. CASE MainTape
  <2>1. UNCHANGED <<mpc, mi, pos>>
    BY <1>4 DEF MainTape, RunTape, JoinTape, Slice, WrapUp, Distribute, OwnPart, EndWrapUp,
       EndMainTape, mainVars
  <2>2. dpc # "none" => InMainTape
    BY DEF Shape, Spread
  <2>3. mpc = "join"
    BY <1>4, <2>2 DEF MainTape, RunTape, JoinTape, Slice, WrapUp, Distribute, OwnPart,
       EndWrapUp, EndMainTape, JoinOnly
  <2> QED BY <1>0, <1>1, <2>1, <2>3 DEF UsageInv, Quitting, Summed, Over
<1>5. CASE UNCHANGED vars
  <2>1. UNCHANGED <<mpc, mi, pos, run, ran>> /\ \A h \in Threads : Same(h) /\ ran'[h] = ran[h]
    BY <1>5 DEF vars, mainVars, workerVars, queueVars, tapeVars, Same
  <2>2. ASSUME NEW h \in Threads, Quits(h) PROVE Quits(h)'
    BY <2>1, <2>2, SameQuits DEF Quits, Told, Released, Collected
  <2>3. Quitting'
    BY <1>0, <2>1, <2>2 DEF Quitting, Over, AllJoined
  <2>4. CollectedTapes' = CollectedTapes
    BY <2>1 DEF CollectedTapes, Collected, RanOn
  <2>5. Summed'
    BY <1>0, <2>1, <2>4 DEF Summed, Over, AllJoined
  <2> QED BY <1>1, <2>3, <2>5 DEF UsageInv
<1> QED BY <1>2, <1>3, <1>4, <1>5 DEF Next, Finish

(* stop_threads adds up every tape that was run, once, if the program      *)
(* joined all it started.                                                  *)
THEOREM UsageTotal == Spec => []UsageSummed
<1>1. ASSUME Counted, TapesInv, Ended, UsageInv PROVE UsageSummed
  <2> SUFFICES ASSUME mpc = "deleted", AllJoined PROVE pos = started
    BY DEF UsageSummed, AllJoined
  <2>1. pos = Cardinality(CollectedTapes)
    BY <1>1 DEF UsageInv, Summed, Over
  <2>2. \A i \in Threads : Collected(i) /\ wpc[i] = "exited"
    BY <1>1 DEF Collected, Ended, Reaped
  <2>3. CollectedTapes = Ran
    <3>1. RanOn(0) = {}
      BY <1>1 DEF UsageInv, Apart, RanOn
    <3> QED BY <2>2, <3>1, RanFacts, SizeAssumption DEF CollectedTapes, Threads, Helpers
  <2>4. Ran = 1 .. started
    BY <1>1, <2>2, AllRun
  <2>5. started \in Nat
    <3>1. started \in 0 .. MaxTapes
      BY <1>1 DEF Counted, TypeOK
    <3> QED BY <3>1, SizeAssumption
  <2>6. Cardinality(1 .. started) = started
    BY <2>5, FS_Interval
  <2> QED BY <2>1, <2>3, <2>4, <2>6
<1>2. Spec => []UsageInv
  BY UsageInit, UsageNext, PoolInductive, PTL DEF Spec
<1> QED BY <1>1, <1>2, PoolInductive, PTL
============================================================================
