---------------------------- MODULE WaitQueue -----------------------------
(***************************************************************************)
(* WaitQueue<T>: the queue between two threads of the virtual machine and  *)
(* of the players (ThreadQueue, Sender, Receiver, Worker, Coordinator, the *)
(* OT multipliers, GC::Thread, BMR's Client).  Threads push under a mutex  *)
(* and signal a condition variable; one thread pops in a loop until the    *)
(* owner stops the queue.                                                  *)
(*                                                                         *)
(* What is done between lock() and unlock() is one action, as every access *)
(* to the deque is; waiting on the condition variable ends one action and  *)
(* waking up begins another, and pop reads running once more after it has  *)
(* released the mutex.  There are two ways to pop: pop returns false once  *)
(* the queue is stopped, so its users (Sender, Receiver, Worker,           *)
(* OTMultiplier) stop it only after every value was answered; with         *)
(* pop_dont_stop (GC::Thread, Client) the consumer first takes what is     *)
(* left.                                                                   *)
(***************************************************************************)
EXTENDS Naturals, Sequences

CONSTANTS
  Producers,   \* the threads that push
  MaxItems,    \* bound: values each of them pushes
  Drains,      \* may the consumer call pop_dont_stop rather than pop?
  Spurious     \* pthread_cond_wait may return without a signal

ASSUME WaitQueueAssumption ==
  MaxItems \in Nat /\ Drains \subseteq BOOLEAN /\ Spurious \in BOOLEAN

Values == Producers \X (0 .. MaxItems - 1)
Nothing == <<>>                \* no value was taken; not in Values

VARIABLES
  drain,       \* the consumer calls pop_dont_stop (never changes)
  queue,       \* the deque
  running,
  pc,          \* consumer: "call", "waiting", "woken", "return", "ended",
               \* or "undefined" after front() of an empty deque
  item,        \* what it has popped and not returned
  pushed,      \* pushed[p]: number of values p has pushed
  sent, got    \* history: values pushed and values returned, in order

vars == <<drain, queue, running, pc, item, pushed, sent, got>>

Init ==
  /\ drain \in Drains
  /\ queue = <<>> /\ running = TRUE
  /\ pc = "call" /\ item = Nothing
  /\ pushed = [p \in Producers |-> 0]
  /\ sent = <<>> /\ got = <<>>

AllPushed == \A p \in Producers : pushed[p] = MaxItems

(* pthread_cond_signal wakes the consumer if it waits.                     *)
Signal == pc' = IF pc = "waiting" THEN "woken" ELSE pc

(* Mutant: push forgets to signal.                                         *)
PushSilent(p) ==
  /\ running /\ pushed[p] < MaxItems
  /\ queue' = Append(queue, <<p, pushed[p]>>)
  /\ sent' = Append(sent, <<p, pushed[p]>>)
  /\ pushed' = [pushed EXCEPT ![p] = @ + 1]
  /\ UNCHANGED <<drain, running, item, got, pc>>

(* Mutant: push_front instead of push_back.                                *)
PushFront(p) ==
  /\ running /\ pushed[p] < MaxItems
  /\ queue' = <<<<p, pushed[p]>>>> \o queue
  /\ sent' = Append(sent, <<p, pushed[p]>>)
  /\ pushed' = [pushed EXCEPT ![p] = @ + 1]
  /\ Signal
  /\ UNCHANGED <<drain, running, item, got>>

(* push                                                                    *)
Push(p) ==
  /\ running /\ pushed[p] < MaxItems
  /\ queue' = Append(queue, <<p, pushed[p]>>)
  /\ sent' = Append(sent, <<p, pushed[p]>>)
  /\ pushed' = [pushed EXCEPT ![p] = @ + 1]
  /\ Signal
  /\ UNCHANGED <<drain, running, item, got>>

(* The part of pop and pop_dont_stop after the wait: pop looks at running  *)
(* only, pop_dont_stop at the deque.                                       *)
TakeFront ==
  /\ IF drain THEN queue # <<>> ELSE running
  /\ IF queue = <<>>
     THEN pc' = "undefined" /\ UNCHANGED <<item, queue>>
     ELSE pc' = "return" /\ item' = Head(queue) /\ queue' = Tail(queue)

TakeNothing ==
  /\ IF drain THEN queue = <<>> ELSE ~running
  /\ pc' = "return" /\ item' = Nothing /\ UNCHANGED queue

(* Mutant: pop does not wait for a value.                                  *)
PopNoWait ==
  /\ pc = "call"
  /\ TakeFront \/ TakeNothing
  /\ UNCHANGED <<drain, running, pushed, sent, got>>

(* lock, and wait if there is nothing to take                              *)
Pop ==
  /\ pc = "call"
  /\ IF running /\ queue = <<>>
     THEN pc' = "waiting" /\ UNCHANGED <<item, queue>>
     ELSE TakeFront \/ TakeNothing
  /\ UNCHANGED <<drain, running, pushed, sent, got>>

(* pthread_cond_wait returns with the mutex held; nothing is tested again. *)
WakeUp ==
  /\ pc = "woken" \/ (Spurious /\ pc = "waiting")
  /\ TakeFront \/ TakeNothing
  /\ UNCHANGED <<drain, running, pushed, sent, got>>

(* Mutant: pop_dont_stop returns running like pop does.                    *)
ReturnRunning ==
  /\ pc = "return"
  /\ IF running
     THEN got' = Append(got, item) /\ pc' = "call"
     ELSE got' = got /\ pc' = "ended"
  /\ item' = Nothing
  /\ UNCHANGED <<drain, queue, running, pushed, sent>>

(* After unlock(): pop returns running as it is now, pop_dont_stop what it *)
(* saw.  The consumer ends on false, else it works on the value and comes  *)
(* back.                                                                   *)
Return ==
  /\ pc = "return"
  /\ IF (IF drain THEN item # Nothing ELSE running)
     THEN got' = Append(got, item) /\ pc' = "call"
     ELSE got' = got /\ pc' = "ended"
  /\ item' = Nothing
  /\ UNCHANGED <<drain, queue, running, pushed, sent>>

(* Mutant: stop does not wake the consumer.                                *)
StopSilent ==
  /\ running /\ AllPushed
  /\ drain \/ Len(got) = Len(sent)
  /\ running' = FALSE
  /\ UNCHANGED <<drain, queue, item, pushed, sent, got, pc>>

(* stop, called by the owner when it has pushed everything and, for pop,   *)
(* has its answers                                                         *)
StopQueue ==
  /\ running /\ AllPushed
  /\ drain \/ Len(got) = Len(sent)
  /\ running' = FALSE
  /\ Signal
  /\ UNCHANGED <<drain, queue, item, pushed, sent, got>>

(* The owner has joined the consumer.                                      *)
Joined == pc = "ended" /\ UNCHANGED vars

Consumer == Pop \/ WakeUp \/ Return
Next == Consumer \/ StopQueue \/ Joined \/ \E p \in Producers : Push(p)

(* The consumer is scheduled, and the owner stops the queue in the end.    *)
Fairness == WF_vars(Consumer) /\ WF_vars(StopQueue) /\ \A p \in Producers : WF_vars(Push(p))

Spec == Init /\ [][Next]_vars
FairSpec == Spec /\ Fairness

---------------------------------------------------------------------------
(* Every variable has its type.                                            *)
TypeOK ==
  /\ drain \in BOOLEAN /\ queue \in Seq(Values) /\ running \in BOOLEAN
  /\ pc \in {"call", "waiting", "woken", "return", "ended", "undefined"}
  /\ item \in Values \cup {Nothing}
  /\ pushed \in [Producers -> 0 .. MaxItems]
  /\ sent \in Seq(Values) /\ got \in Seq(Values)

(* front() and pop_front() are never called on an empty deque, although    *)
(* pop tests for it once only and not again after the wait.                *)
NeverFrontOfEmpty == pc # "undefined"

(* No wakeup is lost: the consumer does not sleep while there is a value   *)
(* to take or after the queue was stopped.                                 *)
NoLostWakeup == pc = "waiting" => queue = <<>> /\ running

(* pthread_join of the consumer returns, and by then it has been handed    *)
(* every value: neither stop nor the second look at running loses one.     *)
NothingDropped == pc = "ended" => got = sent
ConsumerEnds == <>(pc = "ended")

(* The queue is the hand-over of values it is used as.                     *)
Hands == INSTANCE Handover WITH open <- running
ImplementsHandover == Hands!FairSpec
===========================================================================
