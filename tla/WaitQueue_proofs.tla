-------------------------- MODULE WaitQueue_proofs --------------------------
(* Proof that the queue hands over what is put into it, for any number of  *)
(* producers and values and for both ways to pop, as long as the condition *)
(* variable wakes the consumer on signals only.                            *)
EXTENDS WaitQueue, TLAPS

(* 1 while the consumer holds a value it has not returned.                 *)
Held == IF item = Nothing THEN 0 ELSE 1

(* The values sent are those returned, then the one held, then the deque.  *)
InOrder ==
  /\ Len(sent) = Len(got) + Held + Len(queue)
  /\ \A k \in 1 .. Len(got) : got[k] = sent[k]
  /\ item # Nothing => item = sent[Len(got) + 1]
  /\ \A k \in 1 .. Len(queue) : queue[k] = sent[Len(got) + Held + k]

(* What the consumer may rely on at each point of pop.                     *)
Awake ==
  /\ pc # "undefined"
  /\ NoLostWakeup
  /\ pc = "woken" => queue # <<>> \/ ~running
  /\ item # Nothing => pc = "return"
  /\ pc = "return" /\ item = Nothing => ~running /\ queue = <<>>
  /\ pc = "ended" => ~running /\ queue = <<>>
  /\ ~running => drain \/ Len(got) = Len(sent)

QueueInv == TypeOK /\ Awake /\ InOrder

---------------------------------------------------------------------------
LEMMA ValueIsSomething == \A v \in Values : v # Nothing
  BY DEF Values, Nothing

(* The values before and after an Append.                                  *)
LEMMA AppendFacts ==
  ASSUME NEW S, NEW s \in Seq(S), NEW v \in S
  PROVE  /\ Append(s, v) \in Seq(S) /\ Len(Append(s, v)) = Len(s) + 1
         /\ \A k \in 1 .. Len(s) : Append(s, v)[k] = s[k]
         /\ Append(s, v)[Len(s) + 1] = v
         /\ Append(s, v) # <<>>
  OBVIOUS

LEMMA TailFacts ==
  ASSUME NEW S, NEW s \in Seq(S), s # <<>>
  PROVE  /\ Head(s) \in S /\ Head(s) = s[1]
         /\ Tail(s) \in Seq(S) /\ Len(Tail(s)) = Len(s) - 1 /\ Len(s) \in Nat /\ Len(s) > 0
         /\ \A k \in 1 .. Len(s) - 1 : Tail(s)[k] = s[k + 1]
  OBVIOUS

LEMMA SameSeq ==
  ASSUME NEW S, NEW s \in Seq(S), NEW t \in Seq(S), Len(s) = Len(t),
         \A k \in 1 .. Len(s) : s[k] = t[k]
  PROVE  s = t
  OBVIOUS

LEMMA QueueInit == Init => QueueInv
  BY WaitQueueAssumption DEF Init, QueueInv, TypeOK, Awake, InOrder, Held, NoLostWakeup, Nothing

(* push keeps the order and wakes a consumer that waits.                   *)
LEMMA PushStep ==
  ASSUME QueueInv, NEW p \in Producers, Push(p)
  PROVE  QueueInv'
  <1> DEFINE v == <<p, pushed[p]>>
  <1>1. /\ pushed[p] \in 0 .. MaxItems /\ pushed[p] < MaxItems /\ v \in Values
        /\ pushed' \in [Producers -> 0 .. MaxItems]
    BY WaitQueueAssumption DEF QueueInv, TypeOK, Push, Values
  <1>2. /\ queue' = Append(queue, v) /\ sent' = Append(sent, v)
        /\ drain' = drain /\ running /\ running' = running /\ item' = item /\ got' = got
        /\ pc' = IF pc = "waiting" THEN "woken" ELSE pc
    BY DEF Push, Signal
  <1>3. queue \in Seq(Values) /\ sent \in Seq(Values) /\ got \in Seq(Values)
    BY DEF QueueInv, TypeOK
  <1> HIDE DEF v
  <1>4. /\ queue' \in Seq(Values) /\ Len(queue') = Len(queue) + 1 /\ queue' # <<>>
        /\ sent' \in Seq(Values) /\ Len(sent') = Len(sent) + 1
        /\ \A k \in 1 .. Len(queue) : queue'[k] = queue[k]
        /\ \A k \in 1 .. Len(sent) : sent'[k] = sent[k]
        /\ queue'[Len(queue) + 1] = v /\ sent'[Len(sent) + 1] = v
    BY <1>1, <1>2, <1>3, AppendFacts
  <1>5. TypeOK'
    BY <1>1, <1>2, <1>4 DEF QueueInv, TypeOK
  <1>6. Awake'
    BY <1>2, <1>4 DEF QueueInv, TypeOK, Awake, NoLostWakeup
  <1>7. InOrder'
    <2>1. /\ Len(sent) = Len(got) + Held + Len(queue) /\ Held \in {0, 1} /\ Held' = Held
          /\ Len(queue) \in Nat /\ Len(got) \in Nat /\ Len(sent) \in Nat
      BY <1>2, <1>3 DEF QueueInv, InOrder, Held
    <2>2. \A k \in 1 .. Len(got') : got'[k] = sent'[k]
      BY <1>2, <1>4, <2>1 DEF QueueInv, InOrder
    <2>3. item' # Nothing => item' = sent'[Len(got') + 1]
      BY <1>2, <1>4, <2>1 DEF QueueInv, InOrder, Held
    <2>4. ASSUME NEW k \in 1 .. Len(queue')
          PROVE  queue'[k] = sent'[Len(got') + Held' + k]
      <3>1. CASE k = Len(queue) + 1
        <4>1. queue'[k] = v
          BY <1>4, <3>1
        <4>2. Len(got) + Held + k = Len(sent) + 1
          BY <2>1, <3>1
        <4>3. Len(got') + Held' + k = Len(got) + Held + k
          BY <1>2, <2>1
        <4> QED
          BY <1>4, <4>1, <4>2, <4>3
      <3>2. CASE k \in 1 .. Len(queue)
        <4>1. queue[k] = sent[Len(got) + Held + k]
          BY <3>2 DEF QueueInv, InOrder
        <4>2. Len(got) + Held + k \in 1 .. Len(sent)
          BY <2>1, <3>2
        <4>3. sent'[Len(got) + Held + k] = sent[Len(got) + Held + k]
          BY <1>4, <4>2
        <4>4. Len(got') + Held' + k = Len(got) + Held + k
          BY <1>2, <2>1
        <4> QED
          BY <1>4, <3>2, <4>1, <4>3, <4>4
      <3> QED
        BY <1>4, <2>1, <3>1, <3>2
    <2> QED
      BY <1>2, <1>4, <2>1, <2>2, <2>3, <2>4 DEF InOrder
  <1> QED
    BY <1>5, <1>6, <1>7 DEF QueueInv

(* Past the wait the consumer takes the front if there is one, and is told *)
(* to end only if the queue is stopped and empty.                          *)
LEMMA TakeStep ==
  ASSUME QueueInv, item = Nothing, queue # <<>> \/ ~running,
         TakeFront \/ TakeNothing, UNCHANGED <<drain, running, pushed, sent, got>>
  PROVE  QueueInv'
  <1>1. queue \in Seq(Values) /\ sent \in Seq(Values) /\ got \in Seq(Values)
    BY DEF QueueInv, TypeOK
  <1>2. /\ Len(sent) = Len(got) + Len(queue)
        /\ Len(queue) \in Nat /\ Len(got) \in Nat /\ Len(sent) \in Nat
    BY <1>1 DEF QueueInv, InOrder, Held
  <1>3. ~running /\ ~drain => queue = <<>>
    BY <1>1, <1>2 DEF QueueInv, Awake
  <1>4. CASE TakeFront
    <2>1. queue # <<>>
      BY <1>4 DEF TakeFront
    <2>2. pc' = "return" /\ item' = Head(queue) /\ queue' = Tail(queue)
      BY <1>4, <2>1 DEF TakeFront
    <2>3. /\ Head(queue) \in Values /\ Head(queue) = queue[1]
          /\ queue' \in Seq(Values) /\ Len(queue') = Len(queue) - 1 /\ Len(queue) > 0
          /\ \A k \in 1 .. Len(queue) - 1 : queue'[k] = queue[k + 1]
      BY <1>1, <2>1, <2>2, TailFacts
    <2>4. item' # Nothing /\ item' \in Values /\ Held' = 1
      BY <2>2, <2>3, ValueIsSomething DEF Held
    <2>5. TypeOK'
      BY <2>2, <2>3, <2>4 DEF QueueInv, TypeOK
    <2>6. Awake'
      BY <2>2, <2>4 DEF QueueInv, Awake, NoLostWakeup
    <2>7. InOrder'
      <3>0. Held = 0
        BY DEF Held
      <3>1. \A k \in 1 .. Len(queue) : queue[k] = sent[Len(got) + k]
        <4>1. \A k \in 1 .. Len(queue) : queue[k] = sent[Len(got) + Held + k]
          BY DEF QueueInv, InOrder
        <4>2. Len(got) + Held = Len(got)
          BY <1>2, <3>0
        <4> QED
          BY <4>1, <4>2
      <3>2. item' = sent[Len(got) + 1]
        BY <1>2, <2>2, <2>3, <3>1
      <3>3. ASSUME NEW k \in 1 .. Len(queue')
            PROVE  queue'[k] = sent[Len(got) + 1 + k]
        <4>1. k + 1 \in 1 .. Len(queue) /\ k \in 1 .. Len(queue) - 1
          BY <1>2, <2>3
        <4>2. queue'[k] = queue[k + 1] /\ queue[k + 1] = sent[Len(got) + (k + 1)]
          BY <2>3, <3>1, <4>1
        <4>3. Len(got) + (k + 1) = Len(got) + 1 + k
          BY <1>2
        <4> QED
          BY <4>2, <4>3
      <3>4. \A k \in 1 .. Len(got) : got[k] = sent[k]
        BY DEF QueueInv, InOrder
      <3> QED
        BY <1>2, <2>3, <2>4, <3>2, <3>3, <3>4 DEF InOrder
    <2> QED
      BY <2>5, <2>6, <2>7 DEF QueueInv
  <1>5. CASE TakeNothing
    <2>1. ~running /\ queue = <<>>
      BY <1>3, <1>5 DEF TakeNothing
    <2>2. pc' = "return" /\ item' = Nothing /\ queue' = queue
      BY <1>5 DEF TakeNothing
    <2>3. TypeOK'
      BY <2>2 DEF QueueInv, TypeOK
    <2>4. Awake'
      BY <2>1, <2>2 DEF QueueInv, Awake, NoLostWakeup
    <2>5. InOrder'
      BY <2>2 DEF QueueInv, InOrder, Held
    <2> QED
      BY <2>3, <2>4, <2>5 DEF QueueInv
  <1> QED
    BY <1>4, <1>5

LEMMA PopStep ==
  ASSUME QueueInv, Pop
  PROVE  QueueInv'
  <1>1. CASE running /\ queue = <<>>
    <2>1. pc' = "waiting" /\ UNCHANGED <<drain, queue, running, item, pushed, sent, got>>
      BY <1>1 DEF Pop
    <2> QED
      BY <1>1, <2>1 DEF QueueInv, TypeOK, Awake, NoLostWakeup, InOrder, Held, Pop
  <1>2. CASE ~(running /\ queue = <<>>)
    <2>1. item = Nothing
      BY DEF QueueInv, Awake, Pop
    <2>2. (TakeFront \/ TakeNothing) /\ UNCHANGED <<drain, running, pushed, sent, got>>
      BY <1>2 DEF Pop
    <2>3. queue # <<>> \/ ~running
      BY <1>2 DEF QueueInv, TypeOK
    <2> QED
      BY <2>1, <2>2, <2>3, TakeStep
  <1> QED
    BY <1>1, <1>2

(* Only a signal wakes the consumer, so there is a value or a stop.        *)
LEMMA WakeUpStep ==
  ASSUME ~Spurious, QueueInv, WakeUp
  PROVE  QueueInv'
  <1>1. pc = "woken"
    BY DEF WakeUp
  <1>2. item = Nothing /\ (queue # <<>> \/ ~running)
    BY <1>1 DEF QueueInv, Awake
  <1> QED
    BY <1>2, TakeStep DEF WakeUp

(* The value held is returned: for pop because the queue is not stopped    *)
(* while an answer is outstanding.                                         *)
LEMMA ReturnStep ==
  ASSUME QueueInv, Return
  PROVE  /\ QueueInv'
         /\ item # Nothing => got' = Append(got, item)
         /\ item = Nothing => got' = got
  <1>1. queue \in Seq(Values) /\ sent \in Seq(Values) /\ got \in Seq(Values) /\ running \in BOOLEAN
    BY DEF QueueInv, TypeOK
  <1>2. /\ Len(sent) = Len(got) + Held + Len(queue)
        /\ Len(queue) \in Nat /\ Len(got) \in Nat /\ Len(sent) \in Nat
    BY <1>1 DEF QueueInv, InOrder, Held
  <1>3. item' = Nothing /\ UNCHANGED <<drain, queue, running, pushed, sent>>
    BY DEF Return
  <1>4. CASE item # Nothing
    <2>1. Held = 1 /\ item \in Values
      BY <1>4 DEF Held, QueueInv, TypeOK
    <2>2. ~drain => running
      BY <1>1, <1>2, <2>1 DEF QueueInv, Awake
    <2>3. got' = Append(got, item) /\ pc' = "call"
      BY <1>4, <2>2 DEF Return
    <2>4. /\ got' \in Seq(Values) /\ Len(got') = Len(got) + 1
          /\ \A k \in 1 .. Len(got) : got'[k] = got[k]
          /\ got'[Len(got) + 1] = item
      BY <1>1, <2>1, <2>3, AppendFacts
    <2>5. TypeOK'
      BY <1>3, <2>3, <2>4 DEF QueueInv, TypeOK
    <2>6. Awake'
      BY <1>3, <2>2, <2>3 DEF QueueInv, Awake, NoLostWakeup
    <2>7. InOrder'
      <3>1. item = sent[Len(got) + 1] /\ \A k \in 1 .. Len(got) : got[k] = sent[k]
        BY <1>4 DEF QueueInv, InOrder
      <3>2. \A k \in 1 .. Len(got') : got'[k] = sent[k]
        BY <1>2, <2>4, <3>1
      <3>3. \A k \in 1 .. Len(queue) : queue[k] = sent[Len(got') + k]
        BY <1>2, <2>1, <2>4 DEF QueueInv, InOrder
      <3>4. Held' = 0
        BY <1>3 DEF Held
      <3> QED
        BY <1>2, <1>3, <2>1, <2>4, <3>2, <3>3, <3>4 DEF InOrder
    <2> QED
      BY <1>4, <2>3, <2>5, <2>6, <2>7 DEF QueueInv
  <1>5. CASE item = Nothing
    <2>1. ~running /\ queue = <<>>
      BY <1>5 DEF QueueInv, Awake, Return
    <2>2. got' = got /\ pc' = "ended"
      BY <1>5, <2>1 DEF Return
    <2>3. TypeOK'
      BY <1>3, <2>2 DEF QueueInv, TypeOK
    <2>4. Awake'
      BY <1>3, <2>1, <2>2 DEF QueueInv, Awake, NoLostWakeup
    <2>5. InOrder'
      BY <1>3, <1>5, <2>2 DEF QueueInv, InOrder, Held
    <2> QED
      BY <1>5, <2>2, <2>3, <2>4, <2>5 DEF QueueInv
  <1> QED
    BY <1>4, <1>5

LEMMA StopStep ==
  ASSUME QueueInv, StopQueue
  PROVE  QueueInv'
  <1>1. /\ running' = FALSE /\ pc' = IF pc = "waiting" THEN "woken" ELSE pc
        /\ UNCHANGED <<drain, queue, item, pushed, sent, got>>
        /\ drain \/ Len(got) = Len(sent)
        /\ running
    BY DEF StopQueue, Signal
  <1>2. TypeOK'
    BY <1>1 DEF QueueInv, TypeOK
  <1>3. Awake'
    BY <1>1 DEF QueueInv, Awake, NoLostWakeup
  <1>4. InOrder'
    BY <1>1 DEF QueueInv, InOrder, Held
  <1> QED
    BY <1>2, <1>3, <1>4 DEF QueueInv

LEMMA QueueStep ==
  ASSUME ~Spurious, QueueInv, [Next]_vars
  PROVE  QueueInv'
  <1>1. CASE UNCHANGED vars
    BY <1>1 DEF QueueInv, TypeOK, Awake, NoLostWakeup, InOrder, Held, vars
  <1>2. CASE Consumer
    BY <1>2, PopStep, WakeUpStep, ReturnStep DEF Consumer
  <1>3. CASE StopQueue
    BY <1>3, StopStep
  <1>4. ASSUME NEW p \in Producers, Push(p) PROVE QueueInv'
    BY <1>4, PushStep
  <1> QED
    BY <1>1, <1>2, <1>3, <1>4 DEF Next, Joined

LEMMA QueueInvariant ==
  ASSUME ~Spurious
  PROVE  Spec => []QueueInv
  BY QueueInit, QueueStep, PTL DEF Spec

---------------------------------------------------------------------------
(* pop and pop_dont_stop never call front() on an empty deque              *)
(* (WaitQueue::pop tests the size once).                                   *)
THEOREM NeverEmpty ==
  ASSUME ~Spurious
  PROVE  Spec => []NeverFrontOfEmpty
  <1>1. QueueInv => NeverFrontOfEmpty
    BY DEF QueueInv, Awake, NeverFrontOfEmpty
  <1> QED
    BY <1>1, QueueInvariant, PTL

(* The consumer never sleeps beside a value or after stop                  *)
(* (WaitQueue::push, WaitQueue::stop).                                     *)
THEOREM WakeupsKept ==
  ASSUME ~Spurious
  PROVE  Spec => []NoLostWakeup
  <1>1. QueueInv => NoLostWakeup
    BY DEF QueueInv, Awake
  <1> QED
    BY <1>1, QueueInvariant, PTL

(* When the consumer has ended it was handed everything that was pushed    *)
(* (WaitQueue::stop followed by pthread_join).                             *)
THEOREM AllHandedOver ==
  ASSUME ~Spurious
  PROVE  Spec => []NothingDropped
  <1>1. QueueInv => NothingDropped
    <2> SUFFICES ASSUME QueueInv, pc = "ended"
                 PROVE  got = sent
      BY DEF NothingDropped
    <2>1. queue = <<>> /\ item = Nothing
      BY DEF QueueInv, Awake
    <2>2. sent \in Seq(Values) /\ got \in Seq(Values)
      BY DEF QueueInv, TypeOK
    <2>3. Len(got) = Len(sent) /\ \A k \in 1 .. Len(got) : got[k] = sent[k]
      BY <2>1, <2>2 DEF QueueInv, InOrder, Held
    <2> QED
      BY <2>2, <2>3, SameSeq
  <1> QED
    BY <1>1, QueueInvariant, PTL

(* The deque, the condition variable and the flag implement the hand-over  *)
(* of values in order.                                                     *)
THEOREM Refinement ==
  ASSUME ~Spurious
  PROVE  Spec => Hands!Spec
  <1>1. Init => Hands!Init
    BY DEF Init, Hands!Init
  <1>2. ASSUME QueueInv, [Next]_vars
        PROVE  [Hands!Next]_(Hands!vars)
    <2>1. CASE UNCHANGED vars
      BY <2>1 DEF vars, Hands!vars
    <2>2. CASE Pop \/ WakeUp
      BY <2>2 DEF Pop, WakeUp, Hands!vars
    <2>3. CASE Return
      <3>1. sent' = sent /\ running' = running
        BY <2>3 DEF Return
      <3>2. CASE item = Nothing
        BY <1>2, <2>3, <3>1, <3>2, ReturnStep DEF Hands!vars
      <3>3. CASE item # Nothing
        <4>1. item = sent[Len(got) + 1] /\ Len(got) < Len(sent)
          BY <1>2, <3>3 DEF QueueInv, TypeOK, InOrder, Held
        <4> QED
          BY <1>2, <2>3, <3>1, <3>3, <4>1, ReturnStep DEF Hands!Next, Hands!Get
      <3> QED
        BY <3>2, <3>3
    <2>4. CASE StopQueue
      BY <2>4 DEF StopQueue, Hands!Next, Hands!Close
    <2>5. ASSUME NEW p \in Producers, Push(p)
          PROVE  Hands!Next
      <3>1. <<p, pushed[p]>> \in Values
        BY <1>2, <2>5, WaitQueueAssumption DEF QueueInv, TypeOK, Push, Values
      <3>2. Hands!Put(<<p, pushed[p]>>)
        BY <2>5 DEF Push, Hands!Put
      <3> QED
        BY <3>1, <3>2 DEF Hands!Next
    <2> QED
      BY <1>2, <2>1, <2>2, <2>3, <2>4, <2>5 DEF Next, Consumer, Joined
  <1> QED
    BY <1>1, <1>2, QueueInvariant, PTL DEF Spec, Hands!Spec
===========================================================================
