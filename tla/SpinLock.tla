------------------------------ MODULE SpinLock ------------------------------
(***************************************************************************)
(* The spin lock benchmarks: c++new-features/spinlock.cpp, and the two     *)
(* programs spinlock_test.cpp and spinlock_test2.cpp.  Every thread takes  *)
(* the lock Rounds times, increments a counter of its own and releases the *)
(* lock; main joins the threads and adds the counters up.                  *)
(*                                                                         *)
(* Stores become visible late: a thread's stores go through `pending',     *)
(* in which the release order of clear() keeps the increment before the    *)
(* unlock.  The plain store of spinlock_test.cpp line 28 races with the    *)
(* others' test-and-set, which the language leaves undefined; it is taken  *)
(* as what x86 makes of it, a store in order.  (The counters of that       *)
(* program are thread-local: no other thread could tell.)  The             *)
(* read-modify-write of the lock waits until the thread's own stores are   *)
(* visible.                                                                *)
(***************************************************************************)
EXTENDS Naturals, Sequences, Functions

CONSTANTS Threads,
          Rounds,     \* lock/unlock pairs of one thread: cnt, or 1
          NoResult    \* the result of main before it returns

ASSUME RoundsAssumption == Rounds \in Nat /\ NoResult \notin Nat

VARIABLES locked,   \* the flag, as the other threads see it
          count,    \* count[n] or counter, as the other threads see it
          pending,  \* stores of each thread that are not yet visible
          pc,       \* where each thread is
          unlocks,  \* history: unlock() calls of each thread that returned
          result    \* what main returns

vars == <<locked, count, pending, pc, unlocks, result>>

-----------------------------------------------------------------------------
Init == /\ locked = FALSE
        /\ count = [t \in Threads |-> 0]
        /\ pending = [t \in Threads |-> <<>>]
        /\ pc = [t \in Threads |-> "spin"]
        /\ unlocks = [t \in Threads |-> 0]
        /\ result = NoResult

\* Mutation of Lock: the flag is tested and set, but the old value ignored.
LockAnyway(t) == /\ pc[t] = "spin" /\ unlocks[t] < Rounds
                 /\ pending[t] = <<>>
                 /\ locked' = TRUE
                 /\ pc' = [pc EXCEPT ![t] = "locked"]
                 /\ UNCHANGED <<count, pending, unlocks, result>>

\* test_and_set() returns false.  While it returns true nothing changes.
Lock(t) == /\ pc[t] = "spin" /\ unlocks[t] < Rounds
           /\ pending[t] = <<>>
           /\ ~locked
           /\ locked' = TRUE
           /\ pc' = [pc EXCEPT ![t] = "locked"]
           /\ UNCHANGED <<count, pending, unlocks, result>>

\* ++count[n]
Increment(t) == /\ pc[t] = "locked"
                /\ pending' = [pending EXCEPT ![t] = <<"count">>]
                /\ pc' = [pc EXCEPT ![t] = "counted"]
                /\ UNCHANGED <<locked, count, unlocks, result>>

\* Mutation of Unlock: clear(memory_order_relaxed), visible before the count.
UnlockRelaxed(t) == /\ pc[t] = "counted"
                    /\ pending' = [pending EXCEPT ![t] = <<"unlock">> \o @]
                    /\ unlocks' = [unlocks EXCEPT ![t] = @ + 1]
                    /\ pc' = [pc EXCEPT ![t] = "spin"]
                    /\ UNCHANGED <<locked, count, result>>

\* Mutation of Unlock: the lock is not released.
UnlockForgotten(t) == /\ pc[t] = "counted"
                      /\ unlocks' = [unlocks EXCEPT ![t] = @ + 1]
                      /\ pc' = [pc EXCEPT ![t] = "spin"]
                      /\ UNCHANGED <<locked, count, pending, result>>

\* locked.clear(memory_order_release)
Unlock(t) == /\ pc[t] = "counted"
             /\ pending' = [pending EXCEPT ![t] = Append(@, "unlock")]
             /\ unlocks' = [unlocks EXCEPT ![t] = @ + 1]
             /\ pc' = [pc EXCEPT ![t] = "spin"]
             /\ UNCHANGED <<locked, count, result>>

\* The oldest store of a thread becomes visible.
Publish(t) == /\ pending[t] # <<>>
              /\ IF Head(pending[t]) = "count"
                 THEN /\ count' = [count EXCEPT ![t] = @ + 1]
                      /\ UNCHANGED locked
                 ELSE /\ locked' = FALSE
                      /\ UNCHANGED count
              /\ pending' = [pending EXCEPT ![t] = Tail(@)]
              /\ UNCHANGED <<pc, unlocks, result>>

\* join(): the thread has returned, and its stores are visible.
Joined(t) == pc[t] = "spin" /\ unlocks[t] = Rounds /\ pending[t] = <<>>

\* The sum of the counters.
Total(counters) == FoldFunction(+, 0, counters)

\* Mutation of Return: main does not wait for the stores of the threads.
ReturnEarly == /\ \A t \in Threads : pc[t] = "spin" /\ unlocks[t] = Rounds
               /\ result = NoResult
               /\ result' = Total(count)
               /\ UNCHANGED <<locked, count, pending, pc, unlocks>>

\* main() returns the sum of the counters.
Return == /\ \A t \in Threads : Joined(t)
          /\ result = NoResult
          /\ result' = Total(count)
          /\ UNCHANGED <<locked, count, pending, pc, unlocks>>

Step(t) == Lock(t) \/ Increment(t) \/ Unlock(t)

Finished == result # NoResult /\ UNCHANGED vars

Next == \/ \E t \in Threads : Step(t) \/ Publish(t)
        \/ Return
        \/ Finished

Spec == Init /\ [][Next]_vars

\* Every thread is scheduled, and every store becomes visible in the end.
FairSpec == /\ Spec
            /\ \A t \in Threads : WF_vars(Step(t)) /\ WF_vars(Publish(t))
            /\ WF_vars(Return)

-----------------------------------------------------------------------------
Stores == {<<>>, <<"count">>, <<"unlock">>, <<"count", "unlock">>}

TypeOK == /\ locked \in BOOLEAN
          /\ count \in [Threads -> Nat]
          /\ pending \in [Threads -> Stores]
          /\ pc \in [Threads -> {"spin", "locked", "counted"}]
          /\ unlocks \in [Threads -> 0 .. Rounds]
          /\ result \in Nat \cup {NoResult}

(* At most one thread is between lock() and unlock().                      *)
MutualExclusion ==
  \A t, u \in Threads : pc[t] # "spin" /\ pc[u] # "spin" => t = u

(* Who holds the lock sees everything that was done under it before: no    *)
(* other thread has a store that is not yet visible.                       *)
HolderSeesAll ==
  \A t, u \in Threads : pc[t] # "spin" /\ u # t =>
     pending[u] = <<>> /\ count[u] = unlocks[u]

(* What main returns is the number of lock/unlock pairs.  *)
ResultIsTotal ==
  result # NoResult => result = Total([t \in Threads |-> Rounds])

(* Every thread gets the lock as often as it wants although nothing makes  *)
(* the lock fair, because the others want it finitely often.               *)
Returns == <>(result # NoResult)
=============================================================================
