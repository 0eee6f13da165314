----------------------------- MODULE PrepFiles -----------------------------
(***************************************************************************)
(* Preprocessing read from files shared by all threads (option -F).  Every *)
(* thread has its own Data_Files, which reads a file from a position that  *)
(* counts elements: the main tape from 0 on, and the tapes it starts from  *)
(* where those before them end by their declared usage.  The main tape     *)
(* then goes on behind them (Data_Files::skip).  At its end a run removes  *)
(* from the file as much as was used (prune), and the next run begins      *)
(* there.  Runs over the same files follow each other.                     *)
(*                                                                         *)
(* One file stands for all, as they are independent: tuples are read       *)
(* BUFFER_SIZE at once and seeking drops what is left of them, edaBits in  *)
(* blocks of edabitvec::MAX_SIZE, the rest of a block being used first     *)
(* (my_edabits), also after seeking.  Elements are numbered in the order   *)
(* in which a single reader would use them (it uses a block of edaBits     *)
(* from its end).  A tape does nothing but use elements, and as threads    *)
(* share no reader it does so in one step.                                 *)
(***************************************************************************)
EXTENDS Integers, Sequences, FiniteSets, Functions

CONSTANTS
  Helpers,    \* threads other than the main one, numbers from 1 on
  Block,      \* elements read at once
  Declared,   \* declared usages of tapes
  Setups,     \* what is in the file, and whether tapes use all they declare
  MaxUse,     \* bound: elements reserved in a run
  MaxRuns     \* bound: runs over the same file

ASSUME PrepFilesAssumption ==
  /\ Helpers \subseteq Nat \ {0} /\ IsFiniteSet(Helpers)
  /\ Block \in Nat \ {0}
  /\ Declared \subseteq Nat
  /\ Setups \subseteq [edabits : BOOLEAN, exact : BOOLEAN]
  /\ MaxUse \in Nat /\ MaxRuns \in Nat

Threads == {0} \cup Helpers

VARIABLES
  setup,      \* one of the setups (never changes)
  run,        \* number of the run
  start,      \* first element in the file
  reader,     \* reader[t]: next position in the file of t, elements left
  usage,      \* Data_Files of the main tape: its position
  skipped,    \* and the part of it that other tapes use
  job,        \* job[t]: the tape that helper t has to run, or None
  actual,     \* actual[t]: actual_usage of helper t
  used,       \* history: how often each element was used in this run
  spent,      \* history: elements used in earlier runs
  stale       \* history: seeking met the rest of a block in this or a
              \* former run

vars == <<setup, run, start, reader, usage, skipped, job, actual, used, spent, stale>>

Elements == 0 .. MaxRuns * (MaxUse + 2 * Block)
None == [pos |-> -1, declared |-> 0]
AtFront == [next |-> 0, rest |-> <<>>]
Unused == [e \in Elements |-> 0]

Total(f, S) == FoldFunctionOnSet(+, 0, f, S)

Init ==
  /\ setup \in Setups
  /\ run = 1 /\ start = 0
  /\ reader = [t \in Threads |-> AtFront]
  /\ usage = 0 /\ skipped = 0
  /\ job = [t \in Helpers |-> None]
  /\ actual = [t \in Helpers |-> 0]
  /\ used = Unused /\ spent = {} /\ stale = FALSE

(***************************************************************************)
(* Readers.                                                                *)
(***************************************************************************)

(* The next n elements: those left, then from the file, a block at a time. *)
Blocks(r, n) == IF n <= Len(r.rest) THEN 0 ELSE (n - Len(r.rest) + Block - 1) \div Block
Ahead(r, n) == r.rest \o [i \in 1 .. Blocks(r, n) * Block |-> start + r.next + i - 1]
Got(r, n) == SubSeq(Ahead(r, n), 1, n)
After(r, n) ==
  [next |-> r.next + Blocks(r, n) * Block,
   rest |-> SubSeq(Ahead(r, n), n + 1, Len(Ahead(r, n)))]

Use(elements) ==
  used' = [e \in Elements |-> used[e] + Cardinality({i \in DOMAIN elements : elements[i] = e})]

(* Mutant: seeking goes to the block only.                                 *)
SeekBlock(r, n) ==
  IF setup.edabits
  THEN [r EXCEPT !.next = n - (n % Block)]
  ELSE [next |-> n, rest |-> <<>>]

(* Sub_Data_Files::seekg.  For edaBits it goes to the block and then       *)
(* leaves out those before the position, one after the other.              *)
Seek(r, n) ==
  IF setup.edabits
  THEN After([r EXCEPT !.next = n - (n % Block)], n % Block)
  ELSE [next |-> n, rest |-> <<>>]

MeetsRest(r) == setup.edabits /\ r.rest # <<>>

(***************************************************************************)
(* The main tape.                                                          *)
(***************************************************************************)
UseOne ==
  /\ usage < MaxUse
  /\ Use(Got(reader[0], 1))
  /\ reader' = [reader EXCEPT ![0] = After(@, 1)]
  /\ usage' = usage + 1
  /\ UNCHANGED <<setup, run, start, skipped, job, actual, spent, stale>>

(* Mutant: every tape is started at the position of the main tape.         *)
PositionHere(S, decl, t) == usage

(* tellg() + res in the loop of run_tapes: threads in ascending order.     *)
Position(S, decl, t) == usage + Total(decl, {u \in S : u < t})

(* run_tapes: the tapes of S, and skip for the main tape.  A tape that     *)
(* does not declare its usage ends the process (insecure).                 *)
RunTapes(S, decl) ==
  LET res == Total(decl, S) IN
  /\ S # {}
  /\ \A t \in S : job[t] = None
  /\ usage + res <= MaxUse
  /\ job' = [t \in Helpers |->
               IF t \in S THEN [pos |-> Position(S, decl, t), declared |-> decl[t]] ELSE job[t]]
  /\ usage' = usage + res
  /\ skipped' = skipped + res
  /\ reader' = [reader EXCEPT ![0] = Seek(@, usage + res)]
  /\ stale' = (stale \/ MeetsRest(reader[0]))
  /\ UNCHANGED <<setup, run, start, actual, used, spent>>

(***************************************************************************)
(* A helper runs its tape.  Branches may use less than the declared        *)
(* maximum, never more.                                                    *)
(***************************************************************************)
Execute(t) ==
  /\ job[t] # None
  /\ \E n \in (IF setup.exact THEN {job[t].declared} ELSE 0 .. job[t].declared) :
       LET r == Seek(reader[t], job[t].pos) IN
       /\ Use(Got(r, n))
       /\ reader' = [reader EXCEPT ![t] = After(r, n)]
       /\ actual' = [actual EXCEPT ![t] = @ + n]
  /\ stale' = (stale \/ MeetsRest(reader[t]))
  /\ job' = [job EXCEPT ![t] = None]
  /\ UNCHANGED <<setup, run, start, usage, skipped, spent>>

(***************************************************************************)
(* The end of a run.                                                       *)
(***************************************************************************)

(* Mutant: the main tape reports what it has skipped as well.              *)
MainUsageAll == usage

(* Data_Files::get_usage                                                   *)
MainUsage == usage - skipped

(* stop_threads: the sum of what the threads report.                       *)
Sum == MainUsage + Total(actual, Helpers)

(* The file now begins where a new reader is after seeking to the sum; of  *)
(* a block that was read nothing stays.                                    *)
Prune ==
  /\ \A t \in Helpers : job[t] = None
  /\ run < MaxRuns
  /\ start' = start + Seek(AtFront, Sum).next
  /\ run' = run + 1
  /\ reader' = [t \in Threads |-> AtFront]
  /\ usage' = 0 /\ skipped' = 0
  /\ actual' = [t \in Helpers |-> 0]
  /\ used' = Unused
  /\ spent' = spent \cup {e \in Elements : used[e] > 0}
  /\ UNCHANGED <<setup, job, stale>>

Next ==
  \/ UseOne
  \/ \E S \in SUBSET Helpers : \E decl \in [S -> Declared] : RunTapes(S, decl)
  \/ \E t \in Helpers : Execute(t)
  \/ Prune

Spec == Init /\ [][Next]_vars

-----------------------------------------------------------------------------
(* The threads of a run never use the same element twice, in whatever      *)
(* order they run and whether or not tapes use all they declare, as long   *)
(* as no seek meets the rest of a block (run_tapes, Machine.hpp:252, and   *)
(* seekg, Data_Files.hpp:268).                                             *)
TapesApart == ~stale => \A e \in Elements : used[e] <= 1

(* The same without the condition, for an element of this or of a former   *)
(* run.                                                                    *)
UsedAlwaysOnce == \A e \in Elements : used[e] <= (IF e \in spent THEN 0 ELSE 1)

(* If tapes use what they declare, no element that was used is in the file *)
(* of the next run (stop_threads and prune).                               *)
NothingSpentAhead == setup.exact /\ ~stale => \A e \in spent : e < start

(* Then nothing is lost either, but the rest of the last block of each     *)
(* run: everything that was removed had been used.                         *)
NothingWasted ==
  setup.exact /\ ~stale =>
    start - Cardinality(spent) <= (IF setup.edabits THEN (run - 1) * (Block - 1) ELSE 0)
============================================================================
