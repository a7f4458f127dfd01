------------------------------- MODULE Buffer -------------------------------
(***************************************************************************)
(* The monitor class Buffer<T>: a deque guarded by one std::mutex, and one *)
(* std::condition_variable on which callers of add() wait for room and     *)
(* callers of remove() wait for an item.  The class exists twice in the    *)
(* repository: c++new-features/producer_consumer.cpp takes the front,      *)
(* rtp/SimpleRobotInterface.h takes the back (constant TakesLast).         *)
(*                                                                         *)
(* A call is cut where another thread can observe or disturb it: asking    *)
(* for the mutex, evaluating the predicate, sleeping, updating the deque,  *)
(* notify_all(), and releasing the mutex when `locker' goes out of scope.  *)
(* empty() takes no lock; it may be read between any two of these steps.   *)
(***************************************************************************)
EXTENDS BufferDeque, Functions

CONSTANTS Producers,    \* threads that call add()
          Consumers,    \* threads that call remove()
          Pollers,      \* the consumers that call remove() only after
                        \* they have seen empty() return false
          Quota,        \* the number of calls each thread makes
          MaxSpurious,  \* bound on the spurious wakeups of a behaviour
          NoThread      \* the owner of the mutex when nobody holds it

Threads == Producers \cup Consumers

ASSUME ThreadsAssumption ==
  /\ Producers \cap Consumers = {}
  /\ Pollers \subseteq Consumers
  /\ NoThread \notin Threads

ASSUME BoundsAssumption ==
  /\ Quota \in [Threads -> Nat]
  /\ Capacity \in Nat \ {0}
  /\ TakesLast \in BOOLEAN
  /\ MaxSpurious \in Nat

VARIABLES mutex,     \* mu_: the thread that holds it, or NoThread
          pc,        \* where each thread is in its call
          buffer,    \* buffer_
          calls,     \* history: calls of each thread that have taken effect
          added,     \* history: every item in the order it was pushed
          removed,   \* history: every item in the order it was popped
          spurious   \* spurious wakeups so far

data == <<buffer, calls, added, removed>>
vars == <<mutex, pc, buffer, calls, added, removed, spurious>>

Atomic == INSTANCE AtomicBuffer WITH queue <- buffer

\* The n-th item of producer p.
Item(p, n) == <<p, n>>

\* Mutation of Ready: add() compares with `<=' and overfills the deque.
ReadyWhenFull(t) == IF t \in Producers THEN Len(buffer) <= Capacity
                                       ELSE HasItem(buffer)

\* The wait predicates of add() and of remove().
Ready(t) == IF t \in Producers THEN HasRoom(buffer)
                               ELSE HasItem(buffer)

Goto(t, label) == pc' = [pc EXCEPT ![t] = label]

-----------------------------------------------------------------------------
Init == /\ mutex = NoThread
        /\ pc = [t \in Threads |-> "idle"]
        /\ buffer = <<>>
        /\ calls = [t \in Threads |-> 0]
        /\ added = <<>>
        /\ removed = <<>>
        /\ spurious = 0

\* Mutation of Call: the poller does not look at empty().
CallUnseen(t) == /\ pc[t] = "idle"
                 /\ calls[t] < Quota[t]
                 /\ Goto(t, "lock")
                 /\ UNCHANGED <<mutex, data, spurious>>

\* A thread enters add() or remove().  A poller does so after empty().
Call(t) == /\ pc[t] = "idle"
           /\ calls[t] < Quota[t]
           /\ t \in Pollers => ~(buffer = <<>>)
           /\ Goto(t, "lock")
           /\ UNCHANGED <<mutex, data, spurious>>

\* The unique_lock's constructor, and the reacquisition inside wait().
Lock(t) == /\ pc[t] = "lock"
           /\ mutex = NoThread
           /\ mutex' = t
           /\ Goto(t, "test")
           /\ UNCHANGED <<data, spurious>>

\* wait() finds its predicate true and returns.
TestTrue(t) == /\ pc[t] = "test"
               /\ Ready(t)
               /\ Goto(t, "update")
               /\ UNCHANGED <<mutex, data, spurious>>

\* wait() finds its predicate false: it releases the mutex and sleeps.
TestFalse(t) == /\ pc[t] = "test"
                /\ ~Ready(t)
                /\ mutex' = NoThread
                /\ Goto(t, "wait")
                /\ UNCHANGED <<data, spurious>>

\* push_back(item)
Push(p) == /\ pc[p] = "update"
           /\ buffer' = Append(buffer, Item(p, calls[p] + 1))
           /\ added' = Append(added, Item(p, calls[p] + 1))
           /\ calls' = [calls EXCEPT ![p] = @ + 1]
           /\ Goto(p, "notify")
           /\ UNCHANGED <<mutex, removed, spurious>>

\* Mutation of Pop: it takes the other end of the deque.
PopOtherEnd(c) ==
  /\ pc[c] = "update"
  /\ removed' = Append(removed, IF TakesLast THEN Head(buffer) ELSE buffer[Len(buffer)])
  /\ buffer' = IF TakesLast THEN Tail(buffer) ELSE SubSeq(buffer, 1, Len(buffer) - 1)
  /\ calls' = [calls EXCEPT ![c] = @ + 1]
  /\ Goto(c, "notify")
  /\ UNCHANGED <<mutex, added, spurious>>

\* back() and pop_back(), or front() and pop_front()
Pop(c) == /\ pc[c] = "update"
          /\ removed' = Append(removed, Taken(buffer))
          /\ buffer' = Rest(buffer)
          /\ calls' = [calls EXCEPT ![c] = @ + 1]
          /\ Goto(c, "notify")
          /\ UNCHANGED <<mutex, added, spurious>>

\* Mutation of NotifyAll: notify_one().
NotifyOne(t) == /\ pc[t] = "notify"
                /\ IF \E u \in Threads : pc[u] = "wait"
                   THEN \E u \in Threads : /\ pc[u] = "wait"
                                           /\ pc' = [pc EXCEPT ![t] = "unlock", ![u] = "lock"]
                   ELSE Goto(t, "unlock")
                /\ UNCHANGED <<mutex, data, spurious>>

\* cond_.notify_all(): every sleeper now wants the mutex back.
NotifyAll(t) == /\ pc[t] = "notify"
                /\ pc' = [u \in Threads |->
                            CASE u = t          -> "unlock"
                              [] pc[u] = "wait" -> "lock"
                              [] OTHER          -> pc[u]]
                /\ UNCHANGED <<mutex, data, spurious>>

\* ~unique_lock as the call returns.
Unlock(t) == /\ pc[t] = "unlock"
             /\ mutex' = NoThread
             /\ Goto(t, "idle")
             /\ UNCHANGED <<data, spurious>>

\* A condition variable may wake a sleeper nobody notified.
SpuriousWakeup(t) == /\ pc[t] = "wait"
                     /\ spurious < MaxSpurious
                     /\ spurious' = spurious + 1
                     /\ Goto(t, "lock")
                     /\ UNCHANGED <<mutex, data>>

Step(t) == \/ Call(t)
           \/ Lock(t)
           \/ TestTrue(t)
           \/ TestFalse(t)
           \/ t \in Producers /\ Push(t)
           \/ t \in Consumers /\ Pop(t)
           \/ NotifyAll(t)
           \/ Unlock(t)

\* join_all(): every thread has returned from its last call.
AllDone == \A t \in Threads : pc[t] = "idle" /\ calls[t] = Quota[t]

Finished == AllDone /\ UNCHANGED vars

Next == \/ \E t \in Threads : Step(t) \/ SpuriousWakeup(t)
        \/ Finished

Spec == Init /\ [][Next]_vars

\* Every thread that can run is scheduled; nobody has to wake spuriously.
FairSpec == Spec /\ \A t \in Threads : WF_vars(Step(t))

-----------------------------------------------------------------------------
Labels == {"idle", "lock", "test", "wait", "update", "notify", "unlock"}
Items  == Producers \X Nat

TypeOK == /\ mutex \in Threads \cup {NoThread}
          /\ pc \in [Threads -> Labels]
          /\ buffer \in Seq(Items)
          /\ calls \in [Threads -> Nat]
          /\ added \in Seq(Items)
          /\ removed \in Seq(Items)
          /\ spurious \in 0..MaxSpurious

(* No lost wakeup: while a thread sleeps in wait() although its predicate  *)
(* is true, some thread holding the mutex is about to call notify_all().   *)
NoLostWakeup ==
  \A t \in Threads : pc[t] = "wait" /\ Ready(t) => \E u \in Threads : pc[u] = "notify"

(* Callers of add() and callers of remove() are never all asleep together: *)
(* with one condition variable for both sides, somebody is still to move.  *)
NoStandoff ==
  \A p \in Producers, c \in Consumers :
     pc[p] = "wait" /\ pc[c] = "wait" => \E u \in Threads : pc[u] = "notify"

(* The queue of producer_consumer.cpp neither loses, duplicates nor        *)
(* reorders: the items removed so far, then those in the deque, are the    *)
(* items added, in the order they were added.                              *)
FifoOrder == ~TakesLast => added = removed \o buffer

(* A consumer that calls remove() only after empty() returned false, and   *)
(* is the only one to remove (the single state client of rtp_server.cpp    *)
(* lines 235-237), never falls asleep in remove().                         *)
LonePollerNeverSleeps ==
  \A c \in Pollers : Consumers = {c} => pc[c] # "wait"

\* Every thread's calls return, so that join_all() does.
AllJoined == <>[]AllDone

\* The monitor implements the atomic container, its liveness included.
ImplementsAtomic == Atomic!ASpec
ImplementsAtomicSafely == Atomic!ASafeSpec
=============================================================================
