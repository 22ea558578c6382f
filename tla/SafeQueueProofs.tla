-------------------------- MODULE SafeQueueProofs --------------------------
(***************************************************************************)
(* Proofs about SafeQueue for every finite set of consumers, capacity and  *)
(* number of items.                                                        *)
(***************************************************************************)
EXTENDS SafeQueue, FiniteSetTheorems, TLAPS

(***************************************************************************)
(* A step of a consumer takes the head, returns nothing or blocks.         *)
(***************************************************************************)
ConsumerStep(c) == DequeueWaitFor(c) \/ Wake(c) \/ Timeout(c)

LEMMA ConsumerCases ==
  ASSUME NEW c \in Consumers, ConsumerStep(c)
  PROVE  \/ TakeHead(c)
         \/ ReturnNothing(c) /\ (b_terminate \/ q = <<>>)
         \/ Block(c) /\ pc[c] \in {"idle", "woken"}
  BY Zenon DEF ConsumerStep, DequeueWaitFor, Wake, Timeout, Evaluate

(***************************************************************************)
(* What an enqueue leaves of a queue is the queue or its tail.             *)
(***************************************************************************)
LEMMA KeptCases ==
  ASSUME NEW s \in Seq(Nat), NEW max \in Nat
  PROVE  \/ Kept(s, max) = s /\ ~IsFull(s, max)
         \/ s # <<>> /\ Kept(s, max) = Tail(s) /\ Len(s) >= max /\ IsFull(s, max)
  BY DEF IsFull, Kept

PCs == {"idle", "waiting", "woken"}

(***************************************************************************)
(* A new queue is well typed.                                              *)
(***************************************************************************)
LEMMA InitTypeOK == Init => TypeOK
<1> SUFFICES ASSUME Init PROVE TypeOK
  OBVIOUS
<1>1. b_terminate \in BOOLEAN
  BY Zenon DEF Init
<1>2. q \in Seq(Nat) /\ drop_count_ \in Nat /\ sent \in Nat /\ received \in Nat
  BY DEF Init
<1>3. pc \in [Consumers -> {"idle", "waiting", "woken"}]
  BY DEF Init
<1>4. QED
  BY Zenon, <1>1, <1>2, <1>3 DEF TypeOK

(***************************************************************************)
(* Every critical section keeps the types.                                 *)
(***************************************************************************)
LEMMA NextTypeOK == TypeOK /\ [Next]_vars => TypeOK'
<1> SUFFICES ASSUME TypeOK, [Next]_vars PROVE TypeOK'
  OBVIOUS
<1>0. /\ q \in Seq(Nat) /\ drop_count_ \in Nat /\ sent \in Nat /\ received \in Nat
      /\ pc \in [Consumers -> PCs]
  BY Zenon DEF TypeOK, PCs
<1>b. b_terminate \in BOOLEAN
  BY Zenon DEF TypeOK
<1>1. CASE EnqueueItem
  <2>1. Kept(q, MaxSize) \in Seq(Nat)
    BY <1>0, MaxSizeAssumption DEF Kept, IsFull
  <2>2. q' \in Seq(Nat) /\ drop_count_' \in Nat /\ sent' \in Nat
    BY <1>0, <1>1, <2>1 DEF EnqueueItem, Enqueue
  <2>3. pc' \in [Consumers -> PCs]
    BY <1>0, <1>1 DEF EnqueueItem, NotifyOne, Waiting, PCs
  <2>4. b_terminate' \in BOOLEAN /\ received' \in Nat
    BY Zenon, <1>0, <1>b, <1>1 DEF EnqueueItem
  <2>5. QED
    BY Zenon, <2>2, <2>3, <2>4 DEF TypeOK, PCs
<1>2. CASE \E c \in Consumers : ConsumerStep(c)
  <2>0. PICK c \in Consumers : ConsumerStep(c)
    BY <1>2
  <2>1. CASE TakeHead(c)
    <3>1. q' \in Seq(Nat) /\ received' \in Nat /\ pc' \in [Consumers -> PCs]
      BY <1>0, <2>1 DEF TakeHead, PCs
    <3>2. b_terminate' \in BOOLEAN /\ drop_count_' \in Nat /\ sent' \in Nat
      BY Zenon, <1>0, <1>b, <2>1 DEF TakeHead
    <3>3. QED
      BY Zenon, <3>1, <3>2 DEF TypeOK, PCs
  <2>2. CASE ReturnNothing(c)
    <3>1. pc' \in [Consumers -> PCs]
      BY <1>0, <2>2 DEF ReturnNothing, PCs
    <3>2. QED
      BY Zenon, <1>0, <1>b, <2>2, <3>1 DEF ReturnNothing, TypeOK, PCs
  <2>3. CASE Block(c)
    <3>1. pc' \in [Consumers -> PCs]
      BY <1>0, <2>3 DEF Block, PCs
    <3>2. QED
      BY Zenon, <1>0, <1>b, <2>3, <3>1 DEF Block, TypeOK, PCs
  <2>4. QED
    BY Zenon, <2>0, <2>1, <2>2, <2>3, ConsumerCases
<1>3. CASE Terminate
  <2>1. pc' \in [Consumers -> PCs]
    BY <1>0, <1>3 DEF Terminate, NotifyAll, PCs
  <2>2. b_terminate' \in BOOLEAN
    BY Zenon, <1>3 DEF Terminate
  <2>3. QED
    BY Zenon, <1>0, <1>3, <2>1, <2>2 DEF Terminate, TypeOK, PCs
<1>4. CASE Clear
  <2>1. q' \in Seq(Nat)
    BY <1>4 DEF Clear
  <2>2. QED
    BY Zenon, <1>0, <1>b, <1>4, <2>1 DEF Clear, TypeOK, PCs
<1>5. CASE UNCHANGED vars
  BY Zenon, <1>5 DEF vars, TypeOK
<1>6. QED
  BY Zenon, <1>1, <1>2, <1>3, <1>4, <1>5 DEF Next, ConsumerStep

(***************************************************************************)
(* Type correctness: every operation of SafeQueue keeps the types of its   *)
(* members.                                                                *)
(***************************************************************************)
THEOREM TypeCorrect == Spec => []TypeOK
<1>1. QED
  BY InitTypeOK, NextTypeOK, PTL DEF Spec
-----------------------------------------------------------------------------
(***************************************************************************)
(* Ordered says what it says of a queue s whose last enqueued item is n    *)
(* and last taken item is r.                                               *)
(***************************************************************************)
OrderedSeq(s, r, n) ==
  /\ \A i, j \in 1..Len(s) : i < j => s[i] < s[j]
  /\ \A i \in 1..Len(s) : r < s[i] /\ s[i] <= n
  /\ r <= n

(***************************************************************************)
(* The tail of an ordered queue is ordered, and everything in it is newer  *)
(* than the head.                                                          *)
(***************************************************************************)
LEMMA OrderedTail ==
  ASSUME NEW s \in Seq(Nat), NEW r \in Nat, NEW n \in Nat, s # <<>>, OrderedSeq(s, r, n)
  PROVE  /\ OrderedSeq(Tail(s), r, n)
         /\ OrderedSeq(Tail(s), Head(s), n)
         /\ r < Head(s)
<1>1. /\ Len(s) \in Nat \ {0} /\ Len(Tail(s)) = Len(s) - 1 /\ Head(s) = s[1]
      /\ \A i \in 1..Len(Tail(s)) : Tail(s)[i] = s[i + 1]
      /\ \A i \in 1..Len(s) : s[i] \in Nat
  OBVIOUS
<1>2. QED
  BY <1>1 DEF OrderedSeq

(***************************************************************************)
(* Appending the next item keeps a queue ordered.                          *)
(***************************************************************************)
LEMMA OrderedAppend ==
  ASSUME NEW s \in Seq(Nat), NEW r \in Nat, NEW n \in Nat, OrderedSeq(s, r, n)
  PROVE  OrderedSeq(Append(s, n + 1), r, n + 1)
<1> DEFINE t == Append(s, n + 1)
<1>1. /\ Len(s) \in Nat /\ Len(t) = Len(s) + 1 /\ t[Len(s) + 1] = n + 1
      /\ \A i \in 1..Len(s) : t[i] = s[i] /\ s[i] \in Nat
  OBVIOUS
<1> HIDE DEF t
<1>2. QED
  BY <1>1 DEF OrderedSeq, t

(***************************************************************************)
(* The queue keeps the order of the enqueues whatever the interleaving of  *)
(* producers, consumers, terminate and clear.                              *)
(***************************************************************************)
LEMMA NextOrdered == TypeOK /\ Ordered /\ [Next]_vars => Ordered'
<1> SUFFICES ASSUME TypeOK, Ordered, [Next]_vars PROVE Ordered'
  OBVIOUS
<1>0. /\ q \in Seq(Nat) /\ sent \in Nat /\ received \in Nat
      /\ OrderedSeq(q, received, sent)
  BY Zenon DEF TypeOK, Ordered, OrderedSeq
<1> SUFFICES OrderedSeq(q', received', sent')
  BY Zenon DEF Ordered, OrderedSeq
<1>1. CASE EnqueueItem
  <2>a. Kept(q, MaxSize) \in Seq(Nat)
    BY <1>0, MaxSizeAssumption DEF Kept, IsFull
  <2>b. q # <<>> => OrderedSeq(Tail(q), received, sent)
    BY <1>0, OrderedTail
  <2>c. Kept(q, MaxSize) = q \/ (q # <<>> /\ Kept(q, MaxSize) = Tail(q))
    BY <1>0, MaxSizeAssumption, KeptCases
  <2>1. OrderedSeq(Kept(q, MaxSize), received, sent)
    BY Zenon, <1>0, <2>b, <2>c
  <2>2. OrderedSeq(Enqueue(q, MaxSize, sent + 1), received, sent + 1)
    BY <1>0, <2>a, <2>1, OrderedAppend DEF Enqueue
  <2>3. QED
    BY Zenon, <1>1, <2>2 DEF EnqueueItem
<1>2. CASE \E c \in Consumers : ConsumerStep(c)
  <2>0. PICK c \in Consumers : ConsumerStep(c)
    BY <1>2
  <2>1. CASE TakeHead(c)
    BY <1>0, <2>1, OrderedTail DEF TakeHead
  <2>2. CASE ReturnNothing(c) \/ Block(c)
    BY Zenon, <1>0, <2>2 DEF ReturnNothing, Block
  <2>3. QED
    BY Zenon, <2>0, <2>1, <2>2, ConsumerCases
<1>3. CASE Terminate
  BY Zenon, <1>0, <1>3 DEF Terminate
<1>4. CASE Clear
  BY <1>0, <1>4 DEF Clear, OrderedSeq
<1>5. CASE UNCHANGED vars
  BY Zenon, <1>0, <1>5 DEF vars
<1>6. QED
  BY Zenon, <1>1, <1>2, <1>3, <1>4, <1>5 DEF Next, ConsumerStep

(***************************************************************************)
(* The deque never outgrows max_size_.                                     *)
(***************************************************************************)
LEMMA NextWithinMaxSize == TypeOK /\ WithinMaxSize /\ [Next]_vars => WithinMaxSize'
<1> SUFFICES ASSUME TypeOK, WithinMaxSize, [Next]_vars, MaxSize > 0 PROVE Len(q') <= MaxSize
  BY DEF WithinMaxSize
<1>0. q \in Seq(Nat) /\ Len(q) <= MaxSize
  BY DEF TypeOK, WithinMaxSize
<1>1. CASE EnqueueItem
  <2>a. Kept(q, MaxSize) \in Seq(Nat)
    BY <1>0, MaxSizeAssumption DEF Kept, IsFull
  <2>b. Len(Kept(q, MaxSize)) < MaxSize
    BY <1>0, MaxSizeAssumption DEF Kept, IsFull
  <2>1. Len(Append(Kept(q, MaxSize), sent + 1)) <= MaxSize
    BY <2>a, <2>b, MaxSizeAssumption
  <2>2. QED
    BY <1>1, <2>1 DEF EnqueueItem, Enqueue
<1>2. CASE \E c \in Consumers : ConsumerStep(c)
  <2>0. PICK c \in Consumers : ConsumerStep(c)
    BY <1>2
  <2>1. CASE TakeHead(c)
    BY <1>0, <2>1, MaxSizeAssumption DEF TakeHead
  <2>2. CASE ReturnNothing(c) \/ Block(c)
    BY Zenon, <1>0, <2>2 DEF ReturnNothing, Block
  <2>3. QED
    BY Zenon, <2>0, <2>1, <2>2, ConsumerCases
<1>3. CASE Terminate
  BY Zenon, <1>0, <1>3 DEF Terminate
<1>4. CASE Clear
  BY <1>4, MaxSizeAssumption DEF Clear
<1>5. CASE UNCHANGED vars
  BY Zenon, <1>0, <1>5 DEF vars
<1>6. QED
  BY Zenon, <1>1, <1>2, <1>3, <1>4, <1>5 DEF Next, ConsumerStep

(***************************************************************************)
(* Nobody is blocked on a terminated queue.                                *)
(***************************************************************************)
LEMMA NextTerminateReachesAll ==
  TypeOK /\ TerminateReachesAll /\ [Next]_vars => TerminateReachesAll'
<1> SUFFICES ASSUME TypeOK, TerminateReachesAll, [Next]_vars, b_terminate',
                    NEW d \in Consumers
             PROVE  pc'[d] # "waiting"
  BY Zenon DEF TerminateReachesAll, Waiting
<1>0. pc \in [Consumers -> PCs]
  BY Zenon DEF TypeOK, PCs
<1>b. b_terminate => pc[d] # "waiting"
  BY Zenon DEF TerminateReachesAll, Waiting
<1>1. CASE EnqueueItem
  <2>1. b_terminate
    BY Zenon, <1>1 DEF EnqueueItem
  <2>2. pc[d] # "waiting"
    BY Zenon, <1>b, <2>1
  <2>3. QED
    BY <1>0, <1>1, <2>2 DEF EnqueueItem, NotifyOne, Waiting, PCs
<1>2. CASE \E c \in Consumers : ConsumerStep(c)
  <2>0. PICK c \in Consumers : ConsumerStep(c)
    BY <1>2
  <2>1. b_terminate /\ ~Block(c)
    BY Zenon, <2>0, ConsumerCases DEF TakeHead, ReturnNothing, Block
  <2>2. pc' = [pc EXCEPT ![c] = "idle"] /\ pc[d] # "waiting"
    BY Zenon, <1>b, <2>0, <2>1, ConsumerCases DEF TakeHead, ReturnNothing
  <2>3. QED
    BY <1>0, <2>2
<1>3. CASE Terminate
  BY <1>0, <1>3 DEF Terminate, NotifyAll, PCs
<1>4. CASE Clear
  BY Zenon, <1>b, <1>4 DEF Clear
<1>5. CASE UNCHANGED vars
  BY Zenon, <1>b, <1>5 DEF vars
<1>6. QED
  BY Zenon, <1>1, <1>2, <1>3, <1>4, <1>5 DEF Next, ConsumerStep

(***************************************************************************)
(* The sizes of the sets of woken consumers: adding one to a set that does *)
(* not hold it counts one more, and taking one away at most one less.      *)
(***************************************************************************)
LEMMA WokenCardinality ==
  ASSUME NEW S \in SUBSET Consumers, NEW c \in Consumers
  PROVE  /\ Cardinality(S) \in Nat
         /\ c \notin S => Cardinality(S \cup {c}) = Cardinality(S) + 1
         /\ \A T \in SUBSET Consumers :
              S \ {c} \subseteq T => Cardinality(T) \in Nat /\ Cardinality(T) >= Cardinality(S) - 1
<1>1. IsFiniteSet(S) /\ Cardinality(S) \in Nat
  BY ConsumersAssumption, FS_Subset, FS_CardinalityType
<1>2. c \notin S => Cardinality(S \cup {c}) = Cardinality(S) + 1
  BY <1>1, FS_AddElement
<1>3. Cardinality(S \ {c}) \in Nat /\ Cardinality(S \ {c}) >= Cardinality(S) - 1
  <2>1. CASE c \in S
    <3>1. IsFiniteSet(S \ {c}) /\ Cardinality(S \ {c}) = Cardinality(S) - 1
      BY <1>1, <2>1, FS_RemoveElement
    <3>2. QED
      BY <1>1, <3>1, FS_CardinalityType
  <2>2. CASE c \notin S
    <3>1. S \ {c} = S
      BY <2>2
    <3>2. QED
      BY <1>1, <3>1
  <2>3. QED
    BY <2>1, <2>2
<1>4. ASSUME NEW T \in SUBSET Consumers, S \ {c} \subseteq T
      PROVE  Cardinality(T) \in Nat /\ Cardinality(T) >= Cardinality(S) - 1
  <2>1. IsFiniteSet(T) /\ Cardinality(T) \in Nat
    BY ConsumersAssumption, FS_Subset, FS_CardinalityType
  <2>2. Cardinality(S \ {c}) <= Cardinality(T)
    BY <1>4, <2>1, FS_Subset
  <2>3. QED
    BY <1>1, <1>3, <2>1, <2>2
<1>5. QED
  BY <1>1, <1>2, <1>4

(***************************************************************************)
(* No critical section loses a wakeup.                                     *)
(***************************************************************************)
LEMMA NextNoLostWakeup == TypeOK /\ NoLostWakeup /\ [Next]_vars => NoLostWakeup'
<1> SUFFICES ASSUME TypeOK, NoLostWakeup, [Next]_vars, Waiting' # {}, ~b_terminate'
             PROVE  Cardinality(Woken') >= Len(q')
  BY Zenon DEF NoLostWakeup
<1>0. q \in Seq(Nat) /\ pc \in [Consumers -> PCs]
  BY Zenon DEF TypeOK, PCs
<1>s. Woken \in SUBSET Consumers /\ Woken' \in SUBSET Consumers
  BY Zenon DEF Woken
<1>n. \A c \in Consumers : Cardinality(Woken') \in Nat
  BY Zenon, <1>s, WokenCardinality
<1>w. Waiting # {} /\ ~b_terminate => Cardinality(Woken) >= Len(q)
  BY Zenon DEF NoLostWakeup
<1>z. q' = <<>> => Cardinality(Woken') >= Len(q')
  BY <1>n DEF Waiting
<1>1. CASE EnqueueItem
  <2>1. Waiting # {}
    BY <1>1 DEF EnqueueItem, NotifyOne, Waiting
  <2>2. PICK c \in Waiting : pc' = [pc EXCEPT ![c] = "woken"]
    BY <1>1, <2>1 DEF EnqueueItem, NotifyOne
  <2>3. c \in Consumers /\ c \notin Woken /\ Woken' = Woken \cup {c}
    BY <1>0, <2>2 DEF Waiting, Woken
  <2>4. Cardinality(Woken) \in Nat /\ Cardinality(Woken') = Cardinality(Woken) + 1
    BY <1>s, <2>3, WokenCardinality
  <2>5. ~b_terminate
    BY Zenon, <1>1 DEF EnqueueItem
  <2>6. Cardinality(Woken) >= Len(q)
    BY Zenon, <1>w, <2>1, <2>5
  <2>7. Kept(q, MaxSize) \in Seq(Nat) /\ Len(Kept(q, MaxSize)) <= Len(q)
    BY <1>0, MaxSizeAssumption DEF Kept, IsFull
  <2>8. Len(q') <= Len(q) + 1 /\ Len(q') \in Nat /\ Len(q) \in Nat
    BY <1>0, <1>1, <2>7 DEF EnqueueItem, Enqueue, TypeOK
  <2>9. QED
    BY <2>4, <2>6, <2>8
<1>2. CASE \E c \in Consumers : ConsumerStep(c)
  <2>0. PICK c \in Consumers : ConsumerStep(c)
    BY <1>2
  <2>1. CASE TakeHead(c)
    <3>1. pc' = [pc EXCEPT ![c] = "idle"] /\ q # <<>> /\ q' = Tail(q)
      BY Zenon, <2>1 DEF TakeHead
    <3>2. Waiting # {} /\ Woken \ {c} \subseteq Woken'
      BY <1>0, <3>1 DEF Waiting, Woken
    <3>3. ~b_terminate
      BY Zenon, <2>1 DEF TakeHead
    <3>4. Cardinality(Woken) >= Len(q)
      BY Zenon, <1>w, <3>2, <3>3
    <3>5. Cardinality(Woken) \in Nat /\ Cardinality(Woken') \in Nat
          /\ Cardinality(Woken') >= Cardinality(Woken) - 1
      BY <1>s, <3>2, WokenCardinality
    <3>6. Len(q) \in Nat /\ Len(q') = Len(q) - 1
      BY <1>0, <3>1
    <3>7. QED
      BY <3>4, <3>5, <3>6
  <2>2. CASE ReturnNothing(c) /\ (b_terminate \/ q = <<>>)
    BY Zenon, <1>z, <2>2 DEF ReturnNothing
  <2>3. CASE Block(c)
    BY Zenon, <1>z, <2>3 DEF Block
  <2>4. QED
    BY Zenon, <2>0, <2>1, <2>2, <2>3, ConsumerCases
<1>3. CASE Terminate
  BY Zenon, <1>3 DEF Terminate
<1>4. CASE Clear
  BY Zenon, <1>z, <1>4 DEF Clear
<1>5. CASE UNCHANGED vars
  BY Zenon, <1>w, <1>5 DEF vars, Waiting, Woken
<1>6. QED
  BY Zenon, <1>1, <1>2, <1>3, <1>4, <1>5 DEF Next, ConsumerStep
-----------------------------------------------------------------------------
(***************************************************************************)
(* The inductive invariant of the queue.                                   *)
(***************************************************************************)
Inv == TypeOK /\ Ordered /\ WithinMaxSize /\ TerminateReachesAll /\ NoLostWakeup

(***************************************************************************)
(* A new queue satisfies the invariant.                                    *)
(***************************************************************************)
LEMMA InitInv == Init => Inv
<1> SUFFICES ASSUME Init PROVE Inv
  OBVIOUS
<1>1. Ordered /\ WithinMaxSize
  BY MaxSizeAssumption DEF Init, Ordered, WithinMaxSize
<1>2. Waiting = {}
  BY DEF Init, Waiting
<1>3. TerminateReachesAll /\ NoLostWakeup
  BY Zenon, <1>2 DEF TerminateReachesAll, NoLostWakeup
<1>4. QED
  BY Zenon, <1>1, <1>3, InitTypeOK DEF Inv

(***************************************************************************)
(* Every critical section keeps the invariant.                             *)
(***************************************************************************)
LEMMA NextInv == Inv /\ [Next]_vars => Inv'
  BY Zenon, NextTypeOK, NextOrdered, NextWithinMaxSize, NextTerminateReachesAll,
     NextNoLostWakeup DEF Inv

(***************************************************************************)
(* The invariant holds in every reachable state, for every number of       *)
(* consumers, capacity and number of items.                                *)
(***************************************************************************)
THEOREM QueueInvariant == Spec => []Inv
  BY InitInv, NextInv, PTL DEF Spec

(***************************************************************************)
(* FIFO: the items wait in the order of their enqueue and none is older    *)
(* than one already taken.                                                 *)
(***************************************************************************)
THEOREM AlwaysOrdered == Spec => []Ordered
  BY QueueInvariant, PTL DEF Inv

(***************************************************************************)
(* The capacity set by SetMaxSize is never exceeded.                       *)
(***************************************************************************)
THEOREM AlwaysWithinMaxSize == Spec => []WithinMaxSize
  BY QueueInvariant, PTL DEF Inv

(***************************************************************************)
(* terminate() leaves no consumer blocked, and no later call blocks.       *)
(***************************************************************************)
THEOREM TerminateAlwaysReachesAll == Spec => []TerminateReachesAll
  BY QueueInvariant, PTL DEF Inv

(***************************************************************************)
(* No item waits while every consumer that could take it sleeps: one       *)
(* notify_one per enqueue is enough.                                       *)
(***************************************************************************)
THEOREM NeverLosesAWakeup == Spec => []NoLostWakeup
  BY QueueInvariant, PTL DEF Inv
-----------------------------------------------------------------------------
(***************************************************************************)
(* An enqueue adds one element to the set of waiting items.                *)
(***************************************************************************)
LEMMA ElemsAppend ==
  ASSUME NEW s \in Seq(Nat), NEW x \in Nat
  PROVE  Elems(Append(s, x)) = Elems(s) \cup {x}
<1> DEFINE t == Append(s, x)
<1>1. /\ Len(s) \in Nat /\ Len(t) = Len(s) + 1 /\ t[Len(s) + 1] = x
      /\ \A i \in 1..Len(s) : t[i] = s[i]
  OBVIOUS
<1> HIDE DEF t
<1>2. Elems(t) \subseteq Elems(s) \cup {x}
  BY <1>1 DEF Elems
<1>3. Elems(s) \subseteq Elems(t)
  BY <1>1 DEF Elems
<1>4. x \in Elems(t)
  BY <1>1 DEF Elems
<1>5. QED
  BY <1>2, <1>3, <1>4 DEF t

(***************************************************************************)
(* Taking the head of an ordered queue removes its oldest element.         *)
(***************************************************************************)
LEMMA ElemsTail ==
  ASSUME NEW s \in Seq(Nat), NEW r \in Nat, NEW n \in Nat, s # <<>>, OrderedSeq(s, r, n)
  PROVE  /\ Head(s) \in Elems(s)
         /\ \A y \in Elems(s) : Head(s) <= y
         /\ Elems(Tail(s)) = Elems(s) \ {Head(s)}
<1>1. /\ Len(s) \in Nat \ {0} /\ Len(Tail(s)) = Len(s) - 1 /\ Head(s) = s[1]
      /\ \A i \in 1..Len(Tail(s)) : Tail(s)[i] = s[i + 1]
      /\ \A i \in 1..Len(s) : s[i] \in Nat
  OBVIOUS
<1>2. Head(s) \in Elems(s)
  BY <1>1 DEF Elems
<1>3. \A i \in 2..Len(s) : s[1] < s[i]
  BY <1>1 DEF OrderedSeq
<1>4. \A y \in Elems(s) : Head(s) <= y
  BY <1>1, <1>3 DEF Elems
<1>5. ASSUME NEW y \in Elems(Tail(s)) PROVE y \in Elems(s) \ {Head(s)}
  <2>1. PICK i \in 1..Len(Tail(s)) : y = Tail(s)[i]
    BY DEF Elems
  <2>2. i + 1 \in 2..Len(s) /\ y = s[i + 1]
    BY <1>1, <2>1
  <2>3. QED
    BY <1>1, <1>3, <2>2 DEF Elems
<1>6. ASSUME NEW y \in Elems(s) \ {Head(s)} PROVE y \in Elems(Tail(s))
  <2>1. PICK i \in 1..Len(s) : y = s[i]
    BY DEF Elems
  <2>2. i - 1 \in 1..Len(Tail(s)) /\ Tail(s)[i - 1] = y
    BY <1>1, <1>6, <2>1
  <2>3. QED
    BY <2>2 DEF Elems
<1>7. QED
  BY <1>2, <1>4, <1>5, <1>6

(***************************************************************************)
(* Every critical section is a step of the lossy FIFO channel, or none.    *)
(***************************************************************************)
LEMMA StepImplementsChannel == Inv /\ [Next]_vars => [Channel!FNext]_(Channel!fvars)
<1> SUFFICES ASSUME Inv, [Next]_vars PROVE Channel!FNext \/ UNCHANGED Channel!fvars
  BY Zenon
<1>0. /\ q \in Seq(Nat) /\ sent \in Nat /\ received \in Nat
      /\ OrderedSeq(q, received, sent)
  BY Zenon DEF Inv, TypeOK, Ordered, OrderedSeq
<1>t. q # <<>> => /\ Head(q) \in Elems(q) /\ \A y \in Elems(q) : Head(q) <= y
                  /\ Elems(Tail(q)) = Elems(q) \ {Head(q)}
                  /\ received < Head(q)
  BY <1>0, ElemsTail, OrderedTail
<1>1. CASE EnqueueItem
  <2>1. Kept(q, MaxSize) \in Seq(Nat)
    BY <1>0, MaxSizeAssumption DEF Kept, IsFull
  <2>2. Elems(q') = Elems(Kept(q, MaxSize)) \cup {sent + 1}
    BY <1>0, <1>1, <2>1, ElemsAppend DEF EnqueueItem, Enqueue
  <2>3. sent' = sent + 1 /\ UNCHANGED <<received, b_terminate>>
    BY Zenon, <1>1 DEF EnqueueItem
  <2>4. Kept(q, MaxSize) = q \/ (q # <<>> /\ Kept(q, MaxSize) = Tail(q))
    BY <1>0, MaxSizeAssumption, KeptCases
  <2>5. \/ Elems(q') = Elems(q) \cup {sent + 1}
        \/ \E x \in Elems(q) : /\ Channel!Oldest(x)
                               /\ Elems(q') = (Elems(q) \ {x}) \cup {sent + 1}
    BY Zenon, <1>t, <2>2, <2>4 DEF Channel!Oldest
  <2>6. Channel!Send
    BY Zenon, <2>3, <2>5 DEF Channel!Send
  <2>7. QED
    BY Zenon, <2>6 DEF Channel!FNext
<1>2. CASE \E c \in Consumers : ConsumerStep(c)
  <2>0. PICK c \in Consumers : ConsumerStep(c)
    BY <1>2
  <2>1. CASE TakeHead(c)
    <3>1. /\ ~b_terminate /\ q # <<>> /\ received' = Head(q) /\ q' = Tail(q)
          /\ UNCHANGED <<b_terminate, sent>>
      BY Zenon, <2>1 DEF TakeHead
    <3>2. Elems(q') = Elems(q) \ {Head(q)} /\ Head(q) \in Elems(q) /\ Channel!Oldest(Head(q))
      BY Zenon, <1>t, <3>1 DEF Channel!Oldest
    <3>3. Head(q) > received
      BY <1>0, <1>t, <3>1
    <3>4. Channel!Receive
      BY Zenon, <3>1, <3>2, <3>3 DEF Channel!Receive
    <3>5. QED
      BY Zenon, <3>4 DEF Channel!FNext
  <2>2. CASE ReturnNothing(c) \/ Block(c)
    BY Zenon, <2>2 DEF ReturnNothing, Block, Channel!fvars, Elems
  <2>3. QED
    BY Zenon, <2>0, <2>1, <2>2, ConsumerCases
<1>3. CASE Terminate
  BY Zenon, <1>3 DEF Terminate, Channel!FNext, Channel!Close, Elems
<1>4. CASE Clear
  <2>1. Elems(q') = {}
    BY <1>4 DEF Clear, Elems
  <2>2. QED
    BY Zenon, <1>4, <2>1 DEF Clear, Channel!FNext, Channel!Discard
<1>5. CASE UNCHANGED vars
  BY Zenon, <1>5 DEF vars, Channel!fvars, Elems
<1>6. QED
  BY Zenon, <1>1, <1>2, <1>3, <1>4, <1>5 DEF Next, ConsumerStep

(***************************************************************************)
(* SafeQueue implements the channel its users rely on: items are delivered *)
(* in order and at most once, only waiting items are lost, an enqueue      *)
(* loses the oldest, and nothing is delivered after terminate().           *)
(***************************************************************************)
THEOREM QueueImplementsChannel == Spec => ImplementsChannel
<1>1. Init => Channel!FInit
  <2>1. ASSUME Init PROVE Elems(q) = {}
    BY <2>1 DEF Init, Elems
  <2>2. QED
    BY Zenon, <2>1 DEF Init, Channel!FInit
<1>2. QED
  BY <1>1, QueueInvariant, StepImplementsChannel, PTL DEF Spec, ImplementsChannel, Channel!FSpec
=============================================================================
