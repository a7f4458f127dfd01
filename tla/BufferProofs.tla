---------------------------- MODULE BufferProofs ----------------------------
(***************************************************************************)
(* Theorems about the monitor of module Buffer, for every number of        *)
(* threads, every capacity and both disciplines.                           *)
(*                                                                         *)
(* The inductive invariant IInv adds to the type invariant that a thread   *)
(* inside the critical section owns the mutex; this is what lets the       *)
(* predicate that wait() saw survive until the deque is updated, and what  *)
(* makes the update and the later notify_all() of one thread visible as a  *)
(* unit to the sleepers.                                                   *)
(***************************************************************************)
EXTENDS Buffer, SequenceTheorems, TLAPS

Locked == {"test", "update", "notify", "unlock"}

(* The deque is touched only by the holder of mu_, which is alone between  *)
(* the lock and the unlock of add() and remove(): the accesses of two such *)
(* calls never race.                                                       *)
MutualExclusion == \A t \in Threads : pc[t] \in Locked <=> mutex = t

(* size_ is respected, although a producer tests it and pushes in two      *)
(* steps and may have slept, or been woken for nothing, in between.        *)
WithinCapacity == Len(buffer) <= Capacity

(* remove() never reaches back()/front() of an empty deque, and add()      *)
(* never pushes onto a full one: what wait() saw still holds.              *)
UpdateIsReady == \A t \in Threads : pc[t] = "update" => Ready(t)

IInv == /\ TypeOK
        /\ MutualExclusion
        /\ WithinCapacity
        /\ UpdateIsReady
        /\ NoLostWakeup

-----------------------------------------------------------------------------
(* Removing an item from a non-empty deque shortens it by one, and what is *)
(* taken and what is left are of the deque's type.                         *)
LEMMA RestProperties ==
  ASSUME NEW S, NEW q \in Seq(S), q # <<>>
  PROVE  /\ Rest(q) \in Seq(S)
         /\ Len(Rest(q)) = Len(q) - 1
         /\ Taken(q) \in S
<1>1. Len(q) \in Nat \ {0}
  BY EmptySeq
<1>2. CASE TakesLast
  <2>1. PICK m \in Nat : m = Len(q) - 1
    BY <1>1
  <2>2. /\ \A i \in 1 .. m : q[i] \in S
        /\ q[Len(q)] \in S
    BY <1>1, <2>1, ElementOfSeq
  <2>3. SubSeq(q, 1, m) \in Seq(S) /\ Len(SubSeq(q, 1, m)) = m
    BY <2>1, <2>2, SubSeqProperties
  <2> QED
    BY <1>2, <2>1, <2>2, <2>3 DEF Rest, Taken
<1>3. CASE ~TakesLast
  <2>1. /\ Head(q) \in S
        /\ Tail(q) \in Seq(S)
        /\ Len(Tail(q)) = Len(q) - 1
    BY HeadTailProperties
  <2> QED
    BY <1>3, <2>1 DEF Rest, Taken
<1> QED
  BY <1>2, <1>3, BoundsAssumption

-----------------------------------------------------------------------------
LEMMA InitIInv == Init => IInv
<1> SUFFICES ASSUME Init PROVE IInv
  OBVIOUS
<1> USE DEF Init
<1>1. TypeOK
  BY EmptySeq, BoundsAssumption DEF TypeOK, Labels
<1>2. MutualExclusion
  BY ThreadsAssumption DEF MutualExclusion, Locked
<1>3. WithinCapacity
  BY EmptySeq, BoundsAssumption DEF WithinCapacity
<1>4. UpdateIsReady /\ NoLostWakeup
  BY DEF UpdateIsReady, NoLostWakeup
<1> QED
  BY <1>1, <1>2, <1>3, <1>4 DEF IInv

(* The steps that leave the deque alone: only the type, the owner of the   *)
(* mutex and the sleepers can change.                                      *)
LEMMA ControlStep ==
  ASSUME IInv, NEW t \in Threads,
         Call(t) \/ Lock(t) \/ TestTrue(t) \/ TestFalse(t) \/ NotifyAll(t)
           \/ Unlock(t) \/ SpuriousWakeup(t)
  PROVE  IInv'
<1> USE DEF IInv, TypeOK, data, Goto
<1>0. UNCHANGED data /\ WithinCapacity' /\ (\A u \in Threads : Ready(u)' = Ready(u))
  BY DEF Call, Lock, TestTrue, TestFalse, NotifyAll, Unlock, SpuriousWakeup,
         WithinCapacity, Ready, HasRoom, HasItem
<1>1. CASE Call(t)
  <2>1. TypeOK'
    BY <1>1 DEF Call, Labels
  <2>2. MutualExclusion' /\ UpdateIsReady' /\ NoLostWakeup'
    BY <1>0, <1>1 DEF Call, MutualExclusion, UpdateIsReady, NoLostWakeup, Locked, Labels
  <2> QED
    BY <1>0, <2>1, <2>2
<1>2. CASE Lock(t)
  <2>1. TypeOK'
    BY <1>2 DEF Lock, Labels
  <2>2. MutualExclusion'
    BY <1>2, ThreadsAssumption DEF Lock, MutualExclusion, Locked
  <2>3. UpdateIsReady' /\ NoLostWakeup'
    BY <1>0, <1>2 DEF Lock, UpdateIsReady, NoLostWakeup, Labels
  <2> QED
    BY <1>0, <2>1, <2>2, <2>3
<1>3. CASE TestTrue(t)
  <2>1. TypeOK'
    BY <1>3 DEF TestTrue, Labels
  <2>2. MutualExclusion' /\ UpdateIsReady' /\ NoLostWakeup'
    BY <1>0, <1>3 DEF TestTrue, MutualExclusion, UpdateIsReady, NoLostWakeup, Locked, Labels
  <2> QED
    BY <1>0, <2>1, <2>2
<1>4. CASE TestFalse(t)
  <2>1. TypeOK'
    BY <1>4 DEF TestFalse, Labels
  <2>2. MutualExclusion'
    BY <1>4, ThreadsAssumption DEF TestFalse, MutualExclusion, Locked
  <2>3. UpdateIsReady' /\ NoLostWakeup'
    BY <1>0, <1>4 DEF TestFalse, UpdateIsReady, NoLostWakeup, Labels
  <2> QED
    BY <1>0, <2>1, <2>2, <2>3
<1>5. CASE NotifyAll(t)
  <2>1. \A u \in Threads :
           pc'[u] = CASE u = t -> "unlock" [] pc[u] = "wait" -> "lock" [] OTHER -> pc[u]
    BY <1>5 DEF NotifyAll
  <2>2. TypeOK'
    BY <1>5, <2>1 DEF NotifyAll, Labels
  <2>3. MutualExclusion'
    BY <1>5, <2>1 DEF NotifyAll, MutualExclusion, Locked
  <2>4. UpdateIsReady' /\ NoLostWakeup'
    BY <1>0, <1>5, <2>1 DEF NotifyAll, UpdateIsReady, NoLostWakeup
  <2> QED
    BY <1>0, <2>2, <2>3, <2>4
<1>6. CASE Unlock(t)
  <2>1. TypeOK'
    BY <1>6 DEF Unlock, Labels
  <2>2. MutualExclusion'
    BY <1>6, ThreadsAssumption DEF Unlock, MutualExclusion, Locked
  <2>3. UpdateIsReady' /\ NoLostWakeup'
    BY <1>0, <1>6 DEF Unlock, UpdateIsReady, NoLostWakeup, Labels
  <2> QED
    BY <1>0, <2>1, <2>2, <2>3
<1>7. CASE SpuriousWakeup(t)
  <2>1. TypeOK'
    BY <1>7, BoundsAssumption DEF SpuriousWakeup, Labels
  <2>2. MutualExclusion' /\ UpdateIsReady' /\ NoLostWakeup'
    BY <1>0, <1>7 DEF SpuriousWakeup, MutualExclusion, UpdateIsReady, NoLostWakeup, Locked, Labels
  <2> QED
    BY <1>0, <2>1, <2>2
<1> QED
  BY <1>1, <1>2, <1>3, <1>4, <1>5, <1>6, <1>7

(* Where only the thread at its update can be: alone in the section.       *)
LEMMA UpdatesAlone ==
  ASSUME IInv, NEW t \in Threads, pc[t] = "update"
  PROVE  mutex = t /\ \A u \in Threads \ {t} : pc[u] # "update" /\ pc[u] # "notify"
BY DEF IInv, MutualExclusion, Locked

LEMMA PushStep ==
  ASSUME IInv, NEW p \in Producers, Push(p)
  PROVE  IInv'
<1> USE DEF IInv, TypeOK, Goto
<1>0. p \in Threads
  BY DEF Threads
<1>1. pc' = [pc EXCEPT ![p] = "notify"] /\ pc[p] = "update" /\ mutex' = mutex
  BY DEF Push
<1>2. Item(p, calls[p] + 1) \in Items
  BY <1>0 DEF Items, Item
<1>3. /\ buffer' \in Seq(Items) /\ added' \in Seq(Items)
      /\ Len(buffer') = Len(buffer) + 1
  BY <1>2, AppendProperties DEF Push
<1>4. TypeOK'
  BY <1>0, <1>1, <1>3 DEF Push, Labels
<1>5. MutualExclusion'
  BY <1>0, <1>1 DEF MutualExclusion, Locked
<1>6. WithinCapacity'
  BY <1>0, <1>1, <1>3, LenProperties, BoundsAssumption
     DEF WithinCapacity, UpdateIsReady, Ready, HasRoom
<1>7. UpdateIsReady' /\ NoLostWakeup'
  BY <1>0, <1>1, UpdatesAlone DEF UpdateIsReady, NoLostWakeup
<1> QED
  BY <1>4, <1>5, <1>6, <1>7

LEMMA PopStep ==
  ASSUME IInv, NEW c \in Consumers, Pop(c)
  PROVE  IInv'
<1> USE DEF IInv, TypeOK, Goto
<1>0. c \in Threads /\ c \notin Producers
  BY ThreadsAssumption DEF Threads
<1>1. pc' = [pc EXCEPT ![c] = "notify"] /\ pc[c] = "update" /\ mutex' = mutex
  BY DEF Pop
<1>2. buffer # <<>>
  BY <1>0, <1>1 DEF UpdateIsReady, Ready, HasItem
<1>3. /\ buffer' \in Seq(Items) /\ removed' \in Seq(Items)
      /\ Len(buffer') = Len(buffer) - 1
  BY <1>2, RestProperties, AppendProperties DEF Pop
<1>4. TypeOK'
  BY <1>0, <1>1, <1>3 DEF Pop, Labels
<1>5. MutualExclusion'
  BY <1>0, <1>1 DEF MutualExclusion, Locked
<1>6. WithinCapacity'
  BY <1>3, LenProperties, BoundsAssumption DEF WithinCapacity
<1>7. UpdateIsReady' /\ NoLostWakeup'
  BY <1>0, <1>1, UpdatesAlone DEF UpdateIsReady, NoLostWakeup
<1> QED
  BY <1>4, <1>5, <1>6, <1>7

LEMMA NextIInv == IInv /\ [Next]_vars => IInv'
<1> SUFFICES ASSUME IInv, [Next]_vars PROVE IInv'
  OBVIOUS
<1>1. ASSUME NEW t \in Threads, Step(t) \/ SpuriousWakeup(t) PROVE IInv'
  BY <1>1, ControlStep, PushStep, PopStep DEF Step
<1>2. CASE UNCHANGED vars
  BY <1>2 DEF vars, data, IInv, TypeOK, MutualExclusion, WithinCapacity, UpdateIsReady,
              NoLostWakeup, Ready, HasRoom, HasItem
<1> QED
  BY <1>1, <1>2 DEF Next, Finished

(* The inductive invariant holds of every behaviour.                       *)
THEOREM InductiveInvariant == Spec => []IInv
BY InitIInv, NextIInv, PTL DEF Spec

(* At most one thread is between the lock and the unlock of a call.        *)
THEOREM MutualExclusionHolds == Spec => []MutualExclusion
<1>1. IInv => MutualExclusion
  BY DEF IInv
<1> QED
  BY <1>1, InductiveInvariant, PTL

(* Sleepers are never forgotten by notify_all().                           *)
THEOREM NoLostWakeupHolds == Spec => []NoLostWakeup
<1>1. IInv => NoLostWakeup
  BY DEF IInv
<1> QED
  BY <1>1, InductiveInvariant, PTL

(* The deque is neither overfilled nor read when empty.                    *)
THEOREM BoundsHold == Spec => [](TypeOK /\ WithinCapacity /\ UpdateIsReady)
<1>1. IInv => TypeOK /\ WithinCapacity /\ UpdateIsReady
  BY DEF IInv
<1> QED
  BY <1>1, InductiveInvariant, PTL

(* Producers and consumers never all sleep: a full deque has an item and   *)
(* an empty one has room, because the capacity is not zero.                *)
THEOREM NoStandoffHolds == Spec => []NoStandoff
<1>1. ASSUME IInv PROVE NoStandoff
  <2> SUFFICES ASSUME NEW p \in Producers, NEW c \in Consumers,
                      pc[p] = "wait", pc[c] = "wait"
               PROVE  \E u \in Threads : pc[u] = "notify"
    BY DEF NoStandoff
  <2>1. p \in Threads /\ c \in Threads /\ c \notin Producers
    BY ThreadsAssumption DEF Threads
  <2>2. Ready(p) \/ Ready(c)
    <3>1. Len(buffer) \in Nat /\ (Len(buffer) # 0 => buffer # <<>>)
      BY <1>1, EmptySeq, LenProperties DEF IInv, TypeOK
    <3> QED
      BY <2>1, <3>1, BoundsAssumption DEF Ready, HasRoom, HasItem
  <2> QED
    BY <1>1, <2>1, <2>2 DEF IInv, NoLostWakeup
<1> QED
  BY <1>1, InductiveInvariant, PTL

-----------------------------------------------------------------------------
(* Moving an item from the front of one sequence to the end of another     *)
(* leaves their concatenation as it was.                                   *)
LEMMA MoveHead ==
  ASSUME NEW S, NEW r \in Seq(S), NEW q \in Seq(S), q # <<>>
  PROVE  Append(r, Head(q)) \o Tail(q) = r \o q
<1>1. Head(q) \in S /\ Tail(q) \in Seq(S) /\ <<Head(q)>> \in Seq(S) /\ q = <<Head(q)>> \o Tail(q)
  BY HeadTailProperties
<1>2. Append(r, Head(q)) = r \o <<Head(q)>>
  BY <1>1, AppendIsConcat
<1>3. (r \o <<Head(q)>>) \o Tail(q) = r \o (<<Head(q)>> \o Tail(q))
  BY <1>1, ConcatAssociative
<1> QED
  BY <1>1, <1>2, <1>3

(* The queue discipline: items leave in the order in which they came.      *)
THEOREM FifoOrderHolds == Spec => []FifoOrder
<1>1. Init => FifoOrder
  BY ConcatEmptySeq, EmptySeq DEF Init, FifoOrder
<1>2. IInv /\ FifoOrder /\ [Next]_vars => FifoOrder'
  <2> SUFFICES ASSUME IInv, FifoOrder, [Next]_vars, ~TakesLast
               PROVE  (added = removed \o buffer)'
    BY DEF FifoOrder
  <2> USE DEF IInv, TypeOK
  <2>0. added = removed \o buffer
    BY DEF FifoOrder
  <2>1. ASSUME NEW p \in Producers, Push(p) PROVE (added = removed \o buffer)'
    <3>1. Item(p, calls[p] + 1) \in Items
      BY DEF Items, Item, Threads
    <3>2. PICK e \in Items : /\ buffer' = Append(buffer, e)
                             /\ added' = Append(added, e)
                             /\ removed' = removed
      BY <2>1, <3>1 DEF Push
    <3>3. added' = added \o <<e>> /\ buffer' = buffer \o <<e>>
      BY <3>2, AppendIsConcat
    <3>4. (removed \o buffer) \o <<e>> = removed \o (buffer \o <<e>>)
      <4>1. <<e>> \in Seq(Items)
        OBVIOUS
      <4> QED
        BY <4>1, ConcatAssociative
    <3> QED
      BY <2>0, <3>2, <3>3, <3>4
  <2>2. ASSUME NEW c \in Consumers, Pop(c) PROVE (added = removed \o buffer)'
    <3>1. buffer # <<>>
      BY <2>2, ThreadsAssumption DEF Pop, UpdateIsReady, Ready, HasItem, Threads
    <3>2. removed' = Append(removed, Head(buffer)) /\ buffer' = Tail(buffer) /\ added' = added
      BY <2>2 DEF Pop, Taken, Rest
    <3> QED
      BY <2>0, <3>1, <3>2, MoveHead
  <2>3. CASE UNCHANGED data
    BY <2>0, <2>3 DEF data
  <2>4. UNCHANGED data \/ (\E p \in Producers : Push(p)) \/ (\E c \in Consumers : Pop(c))
    BY DEF Next, Finished, Step, Call, Lock, TestTrue, TestFalse, NotifyAll, Unlock,
           SpuriousWakeup, vars, data
  <2> QED
    BY <2>1, <2>2, <2>3, <2>4
<1> QED
  BY <1>1, <1>2, InductiveInvariant, PTL DEF Spec

-----------------------------------------------------------------------------
(* Why the only consumer may test empty() outside the lock: nobody else    *)
(* takes items, so what it saw stays true until it pops.                   *)
SeenItemStays ==
  \A c \in Pollers : Consumers = {c} =>
     /\ pc[c] \in {"lock", "test", "update"} => buffer # <<>>
     /\ pc[c] # "wait"

THEOREM LonePollerHolds == Spec => []LonePollerNeverSleeps
<1>1. Init => SeenItemStays
  BY ThreadsAssumption DEF Init, SeenItemStays, Threads
<1>2. IInv /\ SeenItemStays /\ [Next]_vars => SeenItemStays'
  <2> SUFFICES ASSUME IInv, SeenItemStays, [Next]_vars,
                      NEW c \in Pollers, Consumers = {c}
               PROVE  /\ pc'[c] \in {"lock", "test", "update"} => buffer' # <<>>
                      /\ pc'[c] # "wait"
    BY DEF SeenItemStays
  <2> DEFINE Goal == /\ pc'[c] \in {"lock", "test", "update"} => buffer' # <<>>
                     /\ pc'[c] # "wait"
  <2> USE DEF IInv, TypeOK, Goto, data
  <2>0. /\ pc[c] \in {"lock", "test", "update"} => buffer # <<>>
        /\ pc[c] # "wait"
        /\ c \in Threads /\ c \notin Producers
    BY ThreadsAssumption DEF SeenItemStays, Threads
  <2>1. ASSUME NEW t \in Threads, Step(t) \/ SpuriousWakeup(t) PROVE Goal
    <3>1. CASE Call(t) \/ Lock(t) \/ TestTrue(t) \/ Unlock(t) \/ SpuriousWakeup(t)
      BY <2>0, <3>1 DEF Call, Lock, TestTrue, Unlock, SpuriousWakeup
    <3>2. CASE TestFalse(t)
      BY <2>0, <3>2 DEF TestFalse, Ready, HasItem
    <3>3. CASE NotifyAll(t)
      <4>1. pc'[c] = IF c = t THEN "unlock" ELSE pc[c]
        BY <2>0, <3>3 DEF NotifyAll
      <4> QED
        BY <2>0, <3>3, <4>1 DEF NotifyAll
    <3>4. CASE t \in Producers /\ Push(t)
      <4>1. buffer' # <<>>
        <5>1. Item(t, calls[t] + 1) \in Items
          BY <3>4 DEF Items, Item
        <5>2. PICK e \in Items : buffer' = Append(buffer, e)
          BY <3>4, <5>1 DEF Push
        <5>3. Len(buffer') = Len(buffer) + 1 /\ Len(buffer) \in Nat
          BY <5>2, AppendProperties, LenProperties
        <5> QED
          BY <5>3, EmptySeq
      <4> QED
        BY <2>0, <3>4, <4>1 DEF Push
    <3>5. CASE t \in Consumers /\ Pop(t)
      BY <3>5 DEF Pop
    <3> QED
      BY <2>1, <3>1, <3>2, <3>3, <3>4, <3>5 DEF Step
  <2>2. CASE UNCHANGED vars
    BY <2>0, <2>2 DEF vars
  <2> QED
    BY <2>1, <2>2 DEF Next, Finished
<1>3. SeenItemStays => LonePollerNeverSleeps
  BY DEF SeenItemStays, LonePollerNeverSleeps
<1> QED
  BY <1>1, <1>2, <1>3, InductiveInvariant, PTL DEF Spec

-----------------------------------------------------------------------------
(* A thread that has not yet updated the deque still has a call to make.   *)
CallsLeft ==
  \A t \in Threads : pc[t] \in {"lock", "test", "wait", "update"} => calls[t] < Quota[t]

LEMMA CallsLeftHolds == Spec => []CallsLeft
<1>1. Init => CallsLeft
  BY DEF Init, CallsLeft
<1>2. IInv /\ CallsLeft /\ [Next]_vars => CallsLeft'
  <2> SUFFICES ASSUME IInv, CallsLeft, [Next]_vars PROVE CallsLeft'
    OBVIOUS
  <2> USE DEF IInv, TypeOK, CallsLeft, Goto, data
  <2>1. ASSUME NEW t \in Threads, Step(t) \/ SpuriousWakeup(t) PROVE CallsLeft'
    <3>1. CASE Call(t) \/ Lock(t) \/ TestTrue(t) \/ TestFalse(t) \/ Unlock(t) \/ SpuriousWakeup(t)
      BY <3>1 DEF Call, Lock, TestTrue, TestFalse, Unlock, SpuriousWakeup
    <3>2. CASE NotifyAll(t)
      BY <3>2 DEF NotifyAll
    <3>3. CASE Push(t) \/ Pop(t)
      BY <3>3 DEF Push, Pop
    <3> QED
      BY <2>1, <3>1, <3>2, <3>3 DEF Step
  <2>2. CASE UNCHANGED vars
    BY <2>2 DEF vars
  <2> QED
    BY <2>1, <2>2 DEF Next, Finished
<1> QED
  BY <1>1, <1>2, InductiveInvariant, PTL DEF Spec

(* The monitor implements the atomic container: Push and Pop are the       *)
(* instants at which add() and remove() take effect, every other step is   *)
(* invisible to it.                                                        *)
THEOREM ImplementsAtomicHolds == Spec => ImplementsAtomicSafely
<1>1. Init => Atomic!AInit
  BY DEF Init, Atomic!AInit, Threads
<1>2. IInv /\ CallsLeft /\ [Next]_vars => [Atomic!ANext]_(Atomic!avars)
  <2> SUFFICES ASSUME IInv, CallsLeft, [Next]_vars
               PROVE  [Atomic!ANext]_(Atomic!avars)
    OBVIOUS
  <2>1. ASSUME NEW p \in Producers, Push(p) PROVE Atomic!Add(p)
    <3>1. calls[p] < Quota[p] /\ HasRoom(buffer)
      BY <2>1 DEF Push, IInv, CallsLeft, UpdateIsReady, Ready, Threads
    <3> QED
      BY <2>1, <3>1 DEF Push, Atomic!Add, Item, Atomic!Item, HasRoom, Atomic!HasRoom
  <2>2. ASSUME NEW c \in Consumers, Pop(c) PROVE Atomic!Remove(c)
    <3>1. calls[c] < Quota[c] /\ HasItem(buffer)
      BY <2>2, ThreadsAssumption DEF Pop, IInv, CallsLeft, UpdateIsReady, Ready, Threads
    <3> QED
      BY <2>2, <3>1 DEF Pop, Atomic!Remove, HasItem, Atomic!HasItem,
                           Taken, Atomic!Taken, Rest, Atomic!Rest
  <2>3. UNCHANGED data \/ (\E p \in Producers : Push(p)) \/ (\E c \in Consumers : Pop(c))
    BY DEF Next, Finished, Step, Call, Lock, TestTrue, TestFalse, NotifyAll, Unlock,
           SpuriousWakeup, vars, data
  <2> QED
    BY <2>1, <2>2, <2>3 DEF Atomic!ANext, Atomic!avars, data
<1> QED
  BY <1>1, <1>2, InductiveInvariant, CallsLeftHolds, PTL
     DEF Spec, ImplementsAtomicSafely, Atomic!ASafeSpec
=============================================================================
