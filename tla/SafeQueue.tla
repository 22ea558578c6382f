------------------------------ MODULE SafeQueue ------------------------------
(***************************************************************************)
(* SafeQueue<T> (BasicLibs/core/structure/SafeQueue.h): a deque, a mutex   *)
(* and a condition variable.  Each action is one critical section of the   *)
(* mutex m.  Items are numbered in the order of their enqueue.             *)
(*                                                                         *)
(* A consumer in dequeue_wait_for is "idle" (outside), "waiting" (blocked  *)
(* in c.wait_for) or "woken" (notified, has not yet reacquired m).         *)
(***************************************************************************)
EXTENDS SafeQueueOps, FiniteSets

CONSTANTS Consumers, \* threads that call dequeue_wait_for
          MaxSize,   \* max_size_, 0 = unlimited
          MaxItems   \* bound: how many items the producers enqueue

ASSUME ConsumersAssumption == IsFiniteSet(Consumers)
ASSUME MaxSizeAssumption   == MaxSize \in Nat
ASSUME MaxItemsAssumption  == MaxItems \in Nat

VARIABLES q,           \* the deque
          b_terminate,
          drop_count_,
          pc,          \* where each consumer is in dequeue_wait_for
          sent,        \* number of the last item enqueued
          received     \* number of the last item a consumer took

vars == <<q, b_terminate, drop_count_, pc, sent, received>>

Waiting == {c \in Consumers : pc[c] = "waiting"}
Woken   == {c \in Consumers : pc[c] = "woken"}

Init == /\ q = <<>>
        /\ b_terminate = FALSE
        /\ drop_count_ = 0
        /\ pc = [c \in Consumers |-> "idle"]
        /\ sent = 0
        /\ received = 0

(***************************************************************************)
(* c.notify_one and c.notify_all.                                          *)
(***************************************************************************)
NotifyOne == IF Waiting = {}
             THEN UNCHANGED pc
             ELSE \E c \in Waiting : pc' = [pc EXCEPT ![c] = "woken"]

NotifyAll == pc' = [c \in Consumers |-> IF pc[c] = "waiting" THEN "woken" ELSE pc[c]]

(***************************************************************************)
(* enqueue_copy / enqueue_move.  The code does not look at b_terminate.    *)
(***************************************************************************)
NotifyWhenEmptyEnqueueItem ==
    /\ sent < MaxItems
    /\ q' = Enqueue(q, MaxSize, sent + 1)
    /\ drop_count_' = IF IsFull(q, MaxSize) THEN drop_count_ + 1 ELSE drop_count_
    /\ sent' = sent + 1
    /\ IF q = <<>> THEN NotifyOne ELSE UNCHANGED pc
    /\ UNCHANGED <<b_terminate, received>>

FetchSubEnqueueItem ==
    /\ sent < MaxItems
    /\ q' = Enqueue(q, MaxSize, sent + 1)
    /\ drop_count_' = IF IsFull(q, MaxSize) THEN drop_count_ - 1 ELSE drop_count_
    /\ sent' = sent + 1
    /\ NotifyOne
    /\ UNCHANGED <<b_terminate, received>>

EnqueueItem == /\ sent < MaxItems
               /\ q' = Enqueue(q, MaxSize, sent + 1)
               /\ drop_count_' = IF IsFull(q, MaxSize) THEN drop_count_ + 1 ELSE drop_count_
               /\ sent' = sent + 1
               /\ NotifyOne
               /\ UNCHANGED <<b_terminate, received>>

(***************************************************************************)
(* Leaving dequeue_wait_for with the head of the queue, or with nullopt.   *)
(***************************************************************************)
DrainTakeHead(c) ==
    /\ q # <<>>
    /\ received' = Head(q)
    /\ q' = Tail(q)
    /\ pc' = [pc EXCEPT ![c] = "idle"]
    /\ UNCHANGED <<b_terminate, drop_count_, sent>>

TakeNewest(c) ==
    /\ ~b_terminate
    /\ q # <<>>
    /\ received' = q[Len(q)]
    /\ q' = SubSeq(q, 1, Len(q) - 1)
    /\ pc' = [pc EXCEPT ![c] = "idle"]
    /\ UNCHANGED <<b_terminate, drop_count_, sent>>

TakeHead(c) == /\ ~b_terminate
               /\ q # <<>>
               /\ received' = Head(q)
               /\ q' = Tail(q)
               /\ pc' = [pc EXCEPT ![c] = "idle"]
               /\ UNCHANGED <<b_terminate, drop_count_, sent>>

ReturnNothing(c) == /\ pc' = [pc EXCEPT ![c] = "idle"]
                    /\ UNCHANGED <<q, b_terminate, drop_count_, sent, received>>

UncheckedBlock(c) ==
    /\ q = <<>>
    /\ pc' = [pc EXCEPT ![c] = "waiting"]
    /\ UNCHANGED <<q, b_terminate, drop_count_, sent, received>>

Block(c) == /\ ~b_terminate
            /\ q = <<>>
            /\ pc' = [pc EXCEPT ![c] = "waiting"]
            /\ UNCHANGED <<q, b_terminate, drop_count_, sent, received>>

(***************************************************************************)
(* A call of dequeue_wait_for up to its return or its wait, and a notified *)
(* consumer that has reacquired m and evaluates the predicate again: a     *)
(* terminated queue gives nullopt, a non-empty one its head, and otherwise *)
(* the consumer waits.                                                     *)
(***************************************************************************)
Evaluate(c) == \/ TakeHead(c)
               \/ b_terminate /\ ReturnNothing(c)
               \/ Block(c)

DequeueWaitFor(c) == pc[c] = "idle" /\ Evaluate(c)

Wake(c) == pc[c] = "woken" /\ Evaluate(c)

(***************************************************************************)
(* wait_for times out: the predicate decides once more.                    *)
(***************************************************************************)
Timeout(c) == /\ pc[c] \in {"waiting", "woken"}
              /\ \/ TakeHead(c)
                 \/ (b_terminate \/ q = <<>>) /\ ReturnNothing(c)

NotifyOneTerminate == /\ b_terminate' = TRUE
                      /\ NotifyOne
                      /\ UNCHANGED <<q, drop_count_, sent, received>>

Terminate == /\ b_terminate' = TRUE
             /\ NotifyAll
             /\ UNCHANGED <<q, drop_count_, sent, received>>

(***************************************************************************)
(* clear_with_action / clear_without_action: the deque is swapped out.     *)
(***************************************************************************)
Clear == /\ q' = <<>>
         /\ UNCHANGED <<b_terminate, drop_count_, pc, sent, received>>

Next == \/ EnqueueItem
        \/ \E c \in Consumers : DequeueWaitFor(c) \/ Wake(c) \/ Timeout(c)
        \/ Terminate
        \/ Clear

(***************************************************************************)
(* A notified consumer eventually gets the mutex (std::mutex, short        *)
(* critical sections).  Nothing is assumed of the timeouts.                *)
(***************************************************************************)
Fairness == \A c \in Consumers : WF_vars(Wake(c))

Spec == Init /\ [][Next]_vars

FairSpec == Spec /\ Fairness

-----------------------------------------------------------------------------
TypeOK == /\ q \in Seq(Nat)
          /\ b_terminate \in BOOLEAN
          /\ drop_count_ \in Nat
          /\ pc \in [Consumers -> {"idle", "waiting", "woken"}]
          /\ sent \in Nat
          /\ received \in Nat

(***************************************************************************)
(* The queue holds distinct items in the order they were enqueued, all of  *)
(* them newer than anything already taken.                                 *)
(***************************************************************************)
Ordered == /\ \A i, j \in 1..Len(q) : i < j => q[i] < q[j]
           /\ \A i \in 1..Len(q) : received < q[i] /\ q[i] <= sent
           /\ received <= sent

(***************************************************************************)
(* SetMaxSize: the deque never holds more than max_size_ elements.         *)
(***************************************************************************)
WithinMaxSize == MaxSize > 0 => Len(q) <= MaxSize

(***************************************************************************)
(* enqueue notifies one waiter per item and a consumer blocks only on an   *)
(* empty queue, so an item can never sit in the queue while every consumer *)
(* sleeps until its timeout: when somebody is blocked, at least as many    *)
(* others are already woken as there are items to take.                    *)
(***************************************************************************)
NoLostWakeup == (Waiting # {} /\ ~b_terminate) => Cardinality(Woken) >= Len(q)

(***************************************************************************)
(* terminate() and dequeue_wait_for race for the mutex: whoever wins, no   *)
(* consumer is left blocked on a terminated queue without a notification.  *)
(***************************************************************************)
TerminateReachesAll == b_terminate => Waiting = {}

(***************************************************************************)
(* The queue implements the lossy FIFO channel its users rely on.          *)
(***************************************************************************)
Channel == INSTANCE LossyFifo WITH pending <- Elems(q), closed <- b_terminate

ImplementsChannel == Channel!FSpec

(***************************************************************************)
(* Shutdown does not depend on the timeouts: whoever is blocked when the   *)
(* queue is terminated returns because terminate() notifies it.            *)
(***************************************************************************)
TerminatedConsumersReturn == b_terminate ~> (Waiting = {} /\ Woken = {})
=============================================================================
